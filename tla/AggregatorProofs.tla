-------------------------- MODULE AggregatorProofs --------------------------
(***************************************************************************)
(* Proofs about the pure functions of aggregator.py, for any finite set of *)
(* quotes: sums, best prices, the consolidated book and the widest         *)
(* crossing.                                                               *)
(*                                                                         *)
(* Induction over a finite set is stated of a family of its subsets        *)
(* instead of a predicate: what the provers can instantiate is a set.      *)
(***************************************************************************)
EXTENDS Aggregator, FiniteSetTheorems, TLAPS

-----------------------------------------------------------------------------
(* Induction *)

\* A set of naturals with 0 and with the successor of each member is Nat.
LEMMA InductiveSet ==
  ASSUME NEW G \in SUBSET Nat, 0 \in G, \A n \in G : n + 1 \in G
  PROVE  G = Nat
<1> DEFINE R == OpToRel(<, Nat)
<1>1. IsWellFoundedOn(R, Nat)
  BY NatLessThanWellFounded
<1>2. \A m, n \in Nat : m < n => <<m, n>> \in R
  BY DEF OpToRel
<1> HIDE DEF R
<1>3. SUFFICES ASSUME Nat \ G # {} PROVE FALSE
  OBVIOUS
<1>4. PICK n \in Nat \ G : \A m \in Nat \ G : ~ (<<m, n>> \in R)
  BY <1>1, <1>3, WFMin
<1>5. n # 0 /\ n - 1 \in Nat /\ n - 1 < n /\ (n - 1) + 1 = n
  BY <1>4
<1>6. n - 1 \in G
  BY <1>2, <1>4, <1>5
<1>7. (n - 1) + 1 \in G
  BY <1>6
<1> QED BY <1>5, <1>7

\* A family of subsets of S, with the empty one, and with a set when it has those
\* that lack one of its elements, has S.
LEMMA InductiveFamily ==
  ASSUME NEW S, IsFiniteSet(S), NEW G \in SUBSET SUBSET S, {} \in G,
         \A s \in SUBSET S : s # {} /\ (\A x \in s : s \ {x} \in G) => s \in G
  PROVE  S \in G
<1> DEFINE R == StrictSubsetOrdering(S)
           H == (SUBSET S) \ G
<1>1. SUFFICES ASSUME S \notin G PROVE FALSE
  OBVIOUS
<1>2. IsWellFoundedOn(R, SUBSET S)
  BY FS_StrictSubsetOrderingWellFounded, FS_FiniteSubsetsOfFinite
<1>3. PICK s \in H : \A t \in H : ~ (<<t, s>> \in R)
  <2>1. H \subseteq SUBSET S /\ H # {}
    BY <1>1
  <2> HIDE DEF H, R
  <2> QED BY <1>2, <2>1, WFMin
<1>4. \A x \in s : s \ {x} \in G
  <2> SUFFICES ASSUME NEW x \in s PROVE s \ {x} \in G
    OBVIOUS
  <2>1. <<s \ {x}, s>> \in R
    BY DEF StrictSubsetOrdering
  <2> QED BY <1>3, <2>1
<1> QED BY <1>3, <1>4

-----------------------------------------------------------------------------
(* Sums: what MapThenSumSet adds up *)

Pick(s) == CHOOSE x \in s : TRUE

\* One step of the sum of g over s, with f the sums over its subsets.
Summed(f, g, s) == IF s = {} THEN 0 ELSE g[Pick(s)] + f[s \ {Pick(s)}]
SumsUp(f, g, S) == f = [s \in SUBSET S |-> Summed(f, g, s)]

LEMMA Picked == \A s : s # {} => Pick(s) \in s
  BY DEF Pick

\* The recursive definition has a solution: it is found for the subsets of up to
\* n elements, one n after the other.
LEMMA SumExists ==
  ASSUME NEW S, IsFiniteSet(S), NEW g
  PROVE  \E f : SumsUp(f, g, S)
<1> DEFINE Upto(n) == {s \in SUBSET S : Cardinality(s) <= n}
           G == {n \in Nat : \E f : f = [s \in Upto(n) |-> Summed(f, g, s)]}
<1>0. \A s \in SUBSET S : /\ IsFiniteSet(s) /\ Cardinality(s) \in Nat
                          /\ Cardinality(s) <= Cardinality(S)
                          /\ Cardinality(s) = 0 <=> s = {}
  BY FS_Subset, FS_CardinalityType, FS_EmptySet
<1>1. 0 \in G
  <2> DEFINE f == [s \in Upto(0) |-> 0]
  <2>1. \A s \in Upto(0) : s = {}
    BY <1>0
  <2>2. \A s \in Upto(0) : Summed(f, g, s) = 0
    BY <2>1 DEF Summed
  <2>3. f = [s \in Upto(0) |-> Summed(f, g, s)]
    BY <2>2
  <2> QED BY <2>3
<1>2. ASSUME NEW n \in G PROVE n + 1 \in G
  <2>1. n \in Nat /\ n + 1 \in Nat
    OBVIOUS
  <2>2. PICK f : f = [s \in Upto(n) |-> Summed(f, g, s)]
    OBVIOUS
  <2> DEFINE h == [s \in Upto(n + 1) |-> Summed(f, g, s)]
  <2>3. ASSUME NEW s \in Upto(n + 1) PROVE Summed(f, g, s) = Summed(h, g, s)
    <3>1. CASE s = {}
      BY <3>1 DEF Summed
    <3>2. CASE s # {}
      <4> DEFINE t == s \ {Pick(s)}
      <4>1. t \in Upto(n) /\ t \in Upto(n + 1)
        BY <1>0, <2>1, <3>2, Picked, FS_RemoveElement
      <4>2. f[t] = Summed(f, g, t) /\ h[t] = Summed(f, g, t)
        <5> HIDE DEF t
        <5> QED BY <2>2, <4>1
      <4> QED BY <3>2, <4>2 DEF Summed
    <3> QED BY <3>1, <3>2
  <2>4. h = [s \in Upto(n + 1) |-> Summed(h, g, s)]
    BY <2>3
  <2> QED BY <2>1, <2>4
<1>3. G = Nat
  <2> HIDE DEF G
  <2>1. G \in SUBSET Nat
    BY DEF G
  <2> QED BY <1>1, <1>2, <2>1, InductiveSet
<1>4. Cardinality(S) \in G /\ Upto(Cardinality(S)) = SUBSET S
  BY <1>0, <1>3
<1> QED BY <1>4 DEF SumsUp

\* The sum is between as many times the least and the greatest term.
LEMMA SumBounds ==
  ASSUME NEW S, IsFiniteSet(S), NEW g, NEW f, SumsUp(f, g, S),
         NEW lo \in Int, NEW hi \in Int,
         \A x \in S : g[x] \in Int /\ lo <= g[x] /\ g[x] <= hi
  PROVE  /\ f[S] \in Int
         /\ Cardinality(S) * lo <= f[S] /\ f[S] <= Cardinality(S) * hi
<1> DEFINE Bounded(s) == /\ f[s] \in Int
                         /\ Cardinality(s) * lo <= f[s] /\ f[s] <= Cardinality(s) * hi
           G == {s \in SUBSET S : Bounded(s)}
<1>0. \A s \in SUBSET S : f[s] = Summed(f, g, s)
  BY DEF SumsUp
<1>1. {} \in G
  <2>1. f[{}] = 0 /\ Cardinality({}) = 0
    BY <1>0, FS_EmptySet DEF Summed
  <2> QED BY <2>1
<1>2. ASSUME NEW s \in SUBSET S, s # {}, \A x \in s : s \ {x} \in G
      PROVE  s \in G
  <2> DEFINE x == Pick(s)
             t == s \ {x}
             n == Cardinality(t)
  <2>1. x \in s /\ t \in G
    BY <1>2, Picked
  <2>2. IsFiniteSet(s) /\ Cardinality(s) \in Nat /\ n = Cardinality(s) - 1 /\ n \in Nat
    BY <2>1, FS_Subset, FS_CardinalityType, FS_RemoveElement
  <2>3. f[s] = g[x] + f[t]
    BY <1>0, <1>2 DEF Summed
  <2>4. f[t] \in Int /\ n * lo <= f[t] /\ f[t] <= n * hi
    BY <2>1
  <2>5. g[x] \in Int /\ lo <= g[x] /\ g[x] <= hi
    BY <2>1
  <2>6. Cardinality(s) * lo = n * lo + lo /\ Cardinality(s) * hi = n * hi + hi
    <3> HIDE DEF n
    <3> QED BY <2>2
  <2>7. n * lo \in Int /\ n * hi \in Int
    <3> HIDE DEF n
    <3> QED BY <2>2
  <2> HIDE DEF n, x, t
  <2> QED BY <2>3, <2>4, <2>5, <2>6, <2>7
<1> HIDE DEF G
<1>3. S \in G
  <2>1. G \in SUBSET SUBSET S
    BY DEF G
  <2> QED BY <1>1, <1>2, <2>1, InductiveFamily
<1> QED BY <1>3 DEF G

\* What is chosen as the solution of the recursive equation is one.
LEMMA TwiceMidSum ==
  ASSUME NEW C, IsFiniteSet(C)
  PROVE  \E f : /\ SumsUp(f, [q \in C |-> TwiceMid(q)], C)
                /\ MapThenSumSet(TwiceMid, C) = f[C]
<1> DEFINE g == [q \in C |-> TwiceMid(q)]
           B(f) == f = [s \in SUBSET C |-> IF s = {} THEN 0
                                           ELSE TwiceMid(Pick(s)) + f[s \ {Pick(s)}]]
<1>1. MapThenSumSet(TwiceMid, C) = (CHOOSE f : B(f))[C]
  BY DEF MapThenSumSet, MapThenFoldSet, Pick
<1>2. \A f : B(f) <=> SumsUp(f, g, C)
  <2> SUFFICES ASSUME NEW f PROVE B(f) <=> SumsUp(f, g, C)
    OBVIOUS
  <2>1. \A s \in SUBSET C : s # {} => g[Pick(s)] = TwiceMid(Pick(s))
    BY Picked
  <2> QED BY <2>1 DEF SumsUp, Summed
<1>3. \E f : B(f)
  BY <1>2, SumExists
<1> HIDE DEF B
<1>4. B(CHOOSE f : B(f))
  BY <1>3
<1> QED BY <1>1, <1>2, <1>4

-----------------------------------------------------------------------------
(* Best prices *)

\* Of finitely many elements, one has the least value of g.
LEMMA LeastOne ==
  ASSUME NEW C, IsFiniteSet(C), C # {}, NEW g, \A q \in C : g[q] \in Int
  PROVE  \E q \in C : \A r \in C : g[q] <= g[r]
<1> DEFINE Led(s) == s # {} => \E q \in s : \A r \in s : g[q] <= g[r]
           G == {s \in SUBSET C : Led(s)}
<1>1. {} \in G
  OBVIOUS
<1>2. ASSUME NEW s \in SUBSET C, s # {}, \A x \in s : s \ {x} \in G
      PROVE  s \in G
  <2>1. PICK x \in s : TRUE
    BY <1>2
  <2>2. CASE s = {x}
    BY <2>2
  <2>3. CASE s # {x}
    <3>1. PICK q \in s \ {x} : \A r \in s \ {x} : g[q] <= g[r]
      BY <1>2, <2>1, <2>3
    <3>2. g[q] \in Int /\ g[x] \in Int /\ \A r \in s : g[r] \in Int
      OBVIOUS
    <3>3. CASE g[q] <= g[x]
      BY <3>1, <3>3
    <3>4. CASE g[x] < g[q]
      <4>1. \A r \in s : g[x] <= g[r]
        BY <3>1, <3>2, <3>4
      <4> QED BY <4>1
    <3> QED BY <3>2, <3>3, <3>4
  <2> QED BY <2>2, <2>3
<1> HIDE DEF G
<1>3. C \in G
  <2>1. G \in SUBSET SUBSET C
    BY DEF G
  <2> QED BY <1>1, <1>2, <2>1, InductiveFamily
<1> QED BY <1>3 DEF G

LEMMA GreatestOne ==
  ASSUME NEW C, IsFiniteSet(C), C # {}, NEW g, \A q \in C : g[q] \in Int
  PROVE  \E q \in C : \A r \in C : g[r] <= g[q]
<1> DEFINE h == [q \in C |-> 0 - g[q]]
<1>1. \A q \in C : h[q] \in Int /\ h[q] = 0 - g[q]
  OBVIOUS
<1> HIDE DEF h
<1>2. PICK q \in C : \A r \in C : h[q] <= h[r]
  BY <1>1, LeastOne
<1>3. \A r \in C : g[r] <= g[q]
  BY <1>1, <1>2
<1> QED BY <1>3

LEMMA MaxIs ==
  ASSUME NEW S \in SUBSET Int, NEW x \in S, \A y \in S : y <= x
  PROVE  Max(S) = x
<1>1. \E m \in S : \A y \in S : m >= y
  OBVIOUS
<1> DEFINE m == Max(S)
<1>2. m \in S /\ \A y \in S : m >= y
  BY <1>1 DEF Max
<1> HIDE DEF m
<1>3. m = x
  BY <1>2
<1> QED BY <1>3 DEF m

LEMMA MinIs ==
  ASSUME NEW S \in SUBSET Int, NEW x \in S, \A y \in S : x <= y
  PROVE  Min(S) = x
<1>1. \E m \in S : \A y \in S : m =< y
  OBVIOUS
<1> DEFINE m == Min(S)
<1>2. m \in S /\ \A y \in S : m =< y
  BY <1>1 DEF Min
<1> HIDE DEF m
<1>3. m = x
  BY <1>2
<1> QED BY <1>3 DEF m

\* Prices are integers.
Numeric(Q) == IsFiniteSet(Q) /\ \A q \in Q : q.bid \in Int /\ q.ask \in Int

\* The best bid is the bid of a quote, and the highest; the best ask alike.
LEMMA BestPrices ==
  ASSUME NEW C, Numeric(C), C # {}
  PROVE  /\ \E q \in C : q.bid = BestBid(C)
         /\ \E q \in C : q.ask = BestAsk(C)
         /\ \A q \in C : q.bid <= BestBid(C) /\ BestAsk(C) <= q.ask
<1>1. PICK q \in C : \A r \in C : r.bid <= q.bid
  <2> DEFINE g == [r \in C |-> r.bid]
  <2>1. \A r \in C : g[r] = r.bid /\ g[r] \in Int
    BY DEF Numeric
  <2> HIDE DEF g
  <2>2. PICK q \in C : \A r \in C : g[r] <= g[q]
    BY <2>1, GreatestOne DEF Numeric
  <2> QED BY <2>1, <2>2
<1>2. PICK p \in C : \A r \in C : p.ask <= r.ask
  <2> DEFINE g == [r \in C |-> r.ask]
  <2>1. \A r \in C : g[r] = r.ask /\ g[r] \in Int
    BY DEF Numeric
  <2> HIDE DEF g
  <2>2. PICK p \in C : \A r \in C : g[p] <= g[r]
    BY <2>1, LeastOne DEF Numeric
  <2> QED BY <2>1, <2>2
<1> DEFINE bids == {r.bid : r \in C}
           asks == {r.ask : r \in C}
<1>3. Max(bids) = q.bid
  <2>1. bids \in SUBSET Int /\ q.bid \in bids /\ \A x \in bids : x <= q.bid
    BY <1>1 DEF Numeric
  <2> HIDE DEF bids
  <2> QED BY <2>1, MaxIs
<1>4. Min(asks) = p.ask
  <2>1. asks \in SUBSET Int /\ p.ask \in asks /\ \A x \in asks : p.ask <= x
    BY <1>2 DEF Numeric
  <2> HIDE DEF asks
  <2> QED BY <2>1, MinIs
<1> QED BY <1>1, <1>2, <1>3, <1>4 DEF BestBid, BestAsk

-----------------------------------------------------------------------------
(* The consolidated book *)

\* The sum of the mids is between as many times the mids of two of the quotes.
LEMMA MeanOfMids ==
  ASSUME NEW C, Numeric(C), C # {}
  PROVE  LET sum == MapThenSumSet(TwiceMid, C)
             n   == Cardinality(C)
         IN  /\ sum \in Int /\ n \in Nat /\ n > 0
             /\ \E q \in C : n * TwiceMid(q) <= sum
             /\ \E q \in C : sum <= n * TwiceMid(q)
<1> DEFINE g == [q \in C |-> TwiceMid(q)]
           n == Cardinality(C)
<1>1. IsFiniteSet(C) /\ n \in Nat /\ n > 0
  BY FS_CardinalityType, FS_EmptySet DEF Numeric
<1>2. \A q \in C : g[q] = TwiceMid(q) /\ g[q] \in Int
  BY DEF Numeric, TwiceMid
<1>3. PICK f : SumsUp(f, g, C) /\ MapThenSumSet(TwiceMid, C) = f[C]
  BY <1>1, TwiceMidSum
<1> HIDE DEF g, n
<1>4. PICK lo \in C : \A r \in C : g[lo] <= g[r]
  BY <1>1, <1>2, LeastOne
<1>5. PICK hi \in C : \A r \in C : g[r] <= g[hi]
  BY <1>1, <1>2, GreatestOne
<1>6. g[lo] \in Int /\ g[hi] \in Int
  BY <1>2
<1>7. f[C] \in Int /\ n * g[lo] <= f[C] /\ f[C] <= n * g[hi]
  BY <1>1, <1>2, <1>3, <1>4, <1>5, <1>6, SumBounds DEF n
<1> QED BY <1>1, <1>2, <1>3, <1>7 DEF n

\* What consolidate() computes: over den, from a mid and the best prices.
LEMMA BookParts ==
  ASSUME NEW C, Numeric(C), C # {}
  PROVE  LET b   == Consolidated(C)
             bid == BestBid(C)
             ask == BestAsk(C)
         IN  /\ bid \in Int /\ ask \in Int
             /\ b.den \in Nat /\ b.den > 0 /\ b.mid \in Int
             /\ b.bid \in Int /\ b.ask \in Int
             /\ b.sources = Sources(C)
             /\ Crossed(C) => /\ b.den = 2 * Cardinality(C)
                              /\ b.mid = MapThenSumSet(TwiceMid, C)
             /\ ~Crossed(C) => /\ b.den = 2 /\ b.mid = bid + ask
                               /\ b.bid = 2 * bid /\ b.ask = 2 * ask /\ bid <= ask
             /\ b.bid <= b.mid /\ b.mid <= b.ask
<1> DEFINE b   == Consolidated(C)
           n   == Cardinality(C)
           sum == MapThenSumSet(TwiceMid, C)
           bid == BestBid(C)
           ask == BestAsk(C)
<1>1. bid \in Int /\ ask \in Int
  BY BestPrices DEF Numeric
<1>2. n \in Nat /\ n > 0 /\ sum \in Int
  BY MeanOfMids
<1>3. Crossed(C) <=> bid > ask
  BY DEF Crossed
<1>4. b.sources = Sources(C)
  BY DEF Consolidated
<1>5. CASE Crossed(C)
  <2> DEFINE den == 2 * n
  <2>1. den \in Nat /\ den > 0
    BY <1>2
  <2>2. b.den = den /\ b.mid = sum
    BY <1>5 DEF Consolidated
  <2>3. /\ b.bid = IF sum < bid * den THEN sum ELSE bid * den
        /\ b.ask = IF sum > ask * den THEN sum ELSE ask * den
    BY <1>5 DEF Consolidated
  <2> HIDE DEF den
  <2>4. bid * den \in Int /\ ask * den \in Int
    BY <1>1, <2>1
  <2> HIDE DEF b, n, sum, bid, ask
  <2>5. b.bid \in Int /\ b.ask \in Int /\ b.bid <= b.mid /\ b.mid <= b.ask
    BY <1>2, <2>2, <2>3, <2>4
  <2> QED BY <1>1, <1>2, <1>3, <1>4, <1>5, <2>1, <2>2, <2>5 DEF b, n, sum, bid, ask, den
<1>6. CASE ~Crossed(C)
  <2>1. b.den = 2 /\ b.mid = bid + ask /\ b.bid = bid * 2 /\ b.ask = ask * 2
    BY <1>6 DEF Consolidated
  <2>2. bid <= ask
    BY <1>1, <1>3, <1>6
  <2> HIDE DEF b, bid, ask
  <2> QED BY <1>1, <1>4, <1>6, <2>1, <2>2 DEF b, bid, ask
<1> QED BY <1>5, <1>6

\* On either branch the mid is within the mids of the venues.
LEMMA MidWithin ==
  ASSUME NEW C, Numeric(C), C # {}
  PROVE  LET b == Consolidated(C)
         IN  /\ \E q \in C : TwiceMid(q) * b.den <= 2 * b.mid
             /\ \E q \in C : TwiceMid(q) * b.den >= 2 * b.mid
<1> DEFINE b == Consolidated(C)
           n == Cardinality(C)
           sum == MapThenSumSet(TwiceMid, C)
<1>0. \A q \in C : TwiceMid(q) \in Int
  BY DEF Numeric, TwiceMid
<1>1. CASE Crossed(C)
  <2>1. n \in Nat /\ sum \in Int
    BY MeanOfMids
  <2>2. PICK lo \in C : n * TwiceMid(lo) <= sum
    BY MeanOfMids
  <2>3. PICK hi \in C : sum <= n * TwiceMid(hi)
    BY MeanOfMids
  <2>4. b.den = 2 * n /\ b.mid = sum
    BY <1>1, BookParts
  <2> HIDE DEF b, n, sum
  <2>5. ASSUME NEW t \in Int PROVE t * (2 * n) = 2 * (n * t) /\ n * t \in Int
    BY <2>1
  <2>6. TwiceMid(lo) * b.den <= 2 * b.mid
    BY <1>0, <2>1, <2>2, <2>4, <2>5
  <2>7. TwiceMid(hi) * b.den >= 2 * b.mid
    BY <1>0, <2>1, <2>3, <2>4, <2>5
  <2> QED BY <2>6, <2>7 DEF b
<1>2. CASE ~Crossed(C)
  <2> DEFINE bid == BestBid(C)
             ask == BestAsk(C)
  <2>1. b.den = 2 /\ b.mid = bid + ask /\ bid \in Int /\ ask \in Int
    BY <1>2, BookParts
  <2>2. PICK p \in C : p.ask = ask /\ p.bid <= bid
    BY BestPrices
  <2>3. PICK q \in C : q.bid = bid /\ ask <= q.ask
    BY BestPrices
  <2> HIDE DEF b, bid, ask
  <2>4. TwiceMid(p) * b.den <= 2 * b.mid
    BY <2>1, <2>2 DEF TwiceMid, Numeric
  <2>5. TwiceMid(q) * b.den >= 2 * b.mid
    BY <2>1, <2>3 DEF TwiceMid, Numeric
  <2> QED BY <2>4, <2>5 DEF b
<1> QED BY <1>1, <1>2

\* Positive quotes make a positive mid.
LEMMA MidPositive ==
  ASSUME NEW C, Numeric(C), C # {}, \A q \in C : Positive(q)
  PROVE  Consolidated(C).mid > 0
<1> DEFINE b == Consolidated(C)
<1>1. PICK q \in C : TwiceMid(q) * b.den <= 2 * b.mid
  BY MidWithin
<1>2. b.den \in Nat /\ b.den > 0 /\ b.mid \in Int
  BY BookParts
<1>3. TwiceMid(q) \in Int /\ TwiceMid(q) > 0
  BY DEF Numeric, Positive, TwiceMid
<1> HIDE DEF b
<1>4. TwiceMid(q) * b.den > 0
  BY <1>2, <1>3
<1> QED BY <1>1, <1>2, <1>3, <1>4 DEF b

-----------------------------------------------------------------------------
(* The widest crossing *)

\* A round has one quote of a venue.
OneOfEach(Q) == /\ \A q \in Q : q.source \in Int
                /\ \A q, r \in Q : q.source = r.source => q = r

LEMMA CrossingsFinite ==
  ASSUME NEW Q, IsFiniteSet(Q)
  PROVE  IsFiniteSet(Crossings(Q))
<1> DEFINE P == Crossings(Q)
           f == [p \in P |-> <<p.buy, p.sell>>]
<1>1. P \subseteq [buy : Q, sell : Q]
  BY DEF Crossings
<1> HIDE DEF P
<1>2. f \in [P -> Q \X Q]
  BY <1>1
<1>3. ASSUME NEW p \in P, NEW o \in P, f[p] = f[o] PROVE p = o
  <2>1. p.buy = o.buy /\ p.sell = o.sell
    BY <1>3
  <2> QED BY <1>1, <2>1
<1>4. f \in Injection(P, Q \X Q)
  BY <1>2, <1>3 DEF Injection, IsInjective
<1>5. IsFiniteSet(Q \X Q)
  BY FS_Product
<1> QED BY <1>4, <1>5, FS_Injection DEF P

\* The loops find a crossing, and none is wider: of the widest ones, those with
\* the first venue to buy on, and of these the one with the first to sell on.
LEMMA WidestFound ==
  ASSUME NEW Q, Numeric(Q), OneOfEach(Q), Crossings(Q) # {}
  PROVE  /\ Widest(Crossings(Q)) \in Crossings(Q)
         /\ \A o \in Crossings(Q) : Spread(o) <= Spread(Widest(Crossings(Q)))
<1> DEFINE P == Crossings(Q)
<1>1. IsFiniteSet(P) /\ P # {}
  BY CrossingsFinite DEF Numeric
<1>2. /\ P \subseteq [buy : Q, sell : Q]
      /\ \A p \in P : Spread(p) \in Int /\ p.buy.source \in Int /\ p.sell.source \in Int
  BY DEF Crossings, Numeric, OneOfEach, Spread
<1> HIDE DEF P
<1>3. PICK m \in P : \A o \in P : Spread(o) <= Spread(m)
  <2> DEFINE g == [p \in P |-> Spread(p)]
  <2>1. \A p \in P : g[p] = Spread(p) /\ g[p] \in Int
    BY <1>2
  <2> HIDE DEF g
  <2>2. PICK m \in P : \A o \in P : g[o] <= g[m]
    BY <1>1, <2>1, GreatestOne
  <2> QED BY <2>1, <2>2
<1> DEFINE P1 == {p \in P : Spread(p) = Spread(m)}
<1>4. PICK b \in P1 : \A o \in P1 : b.buy.source <= o.buy.source
  <2> DEFINE g == [p \in P1 |-> p.buy.source]
  <2>1. IsFiniteSet(P1) /\ P1 # {}
    BY <1>1, FS_Subset
  <2>2. \A p \in P1 : g[p] = p.buy.source /\ g[p] \in Int
    BY <1>2
  <2> HIDE DEF g, P1
  <2>3. PICK b \in P1 : \A o \in P1 : g[b] <= g[o]
    BY <2>1, <2>2, LeastOne
  <2> QED BY <2>2, <2>3
<1> DEFINE P2 == {p \in P1 : p.buy.source = b.buy.source}
<1>5. PICK p \in P2 : \A o \in P2 : p.sell.source <= o.sell.source
  <2> DEFINE g == [p \in P2 |-> p.sell.source]
  <2>1. IsFiniteSet(P2) /\ P2 # {}
    BY <1>1, FS_Subset
  <2>2. \A p \in P2 : g[p] = p.sell.source /\ g[p] \in Int
    BY <1>2
  <2> HIDE DEF g, P1, P2
  <2>3. PICK p \in P2 : \A o \in P2 : g[p] <= g[o]
    BY <2>1, <2>2, LeastOne
  <2> QED BY <2>2, <2>3
<1> DEFINE First(x) == \A o \in P \ {x} :
             Spread(x) > Spread(o) \/ (Spread(x) = Spread(o) /\ VisitedBefore(x, o))
<1>6. ASSUME NEW o \in P \ {p}
      PROVE  Spread(p) > Spread(o) \/ (Spread(p) = Spread(o) /\ VisitedBefore(p, o))
  <2>1. p \in P /\ Spread(p) = Spread(m) /\ p.buy.source = b.buy.source
    OBVIOUS
  <2>2. CASE Spread(o) # Spread(m)
    BY <1>2, <1>3, <2>1, <2>2
  <2>3. CASE Spread(o) = Spread(m) /\ o.buy.source # b.buy.source
    <3>1. p.buy.source < o.buy.source
      BY <1>2, <1>4, <2>1, <2>3
    <3> QED BY <2>1, <2>3, <3>1 DEF VisitedBefore
  <2>4. CASE Spread(o) = Spread(m) /\ o.buy.source = b.buy.source
    <3>1. o \in P2 /\ p.sell.source <= o.sell.source
      BY <1>5, <2>4
    <3>2. p.sell.source # o.sell.source
      <4>1. SUFFICES ASSUME p.sell.source = o.sell.source PROVE p = o
        BY <1>6
      <4>2. p.sell = o.sell /\ p.buy = o.buy
        BY <1>2, <2>1, <2>4, <4>1 DEF OneOfEach
      <4> QED BY <1>2, <2>1, <4>2
    <3>3. p.sell.source < o.sell.source
      BY <1>2, <2>1, <3>1, <3>2
    <3> QED BY <2>1, <2>4, <3>3 DEF VisitedBefore
  <2> QED BY <2>2, <2>3, <2>4
<1>7. p \in P /\ First(p)
  BY <1>6
<1> HIDE DEF First
<1>8. (CHOOSE x \in P : First(x)) \in P /\ First(CHOOSE x \in P : First(x))
  BY <1>7
<1>9. Widest(P) \in P /\ First(Widest(P))
  <2>1. Widest(P) = CHOOSE x \in P : First(x)
    BY DEF Widest, First
  <2> QED BY <1>8, <2>1
<1>10. \A o \in P : Spread(o) <= Spread(Widest(P))
  <2> SUFFICES ASSUME NEW o \in P PROVE Spread(o) <= Spread(Widest(P))
    OBVIOUS
  <2>1. CASE o = Widest(P)
    BY <1>2, <2>1
  <2>2. CASE o # Widest(P)
    BY <1>2, <1>9, <2>2 DEF First
  <2> QED BY <2>1, <2>2
<1> QED BY <1>9, <1>10 DEF P

-----------------------------------------------------------------------------
\* A quotient by a positive number.
LEMMA QuotientBounds ==
  ASSUME NEW a \in Nat, NEW b \in Nat \ {0}, NEW n \in Nat, a < n * b
  PROVE  a \div b \in Int /\ 0 <= a \div b /\ a \div b < n
<1> DEFINE d == a \div b
<1>1. d \in Int /\ b * d <= a /\ a < b * (d + 1)
  OBVIOUS
<1> HIDE DEF d
<1>2. d >= 0
  BY <1>1
<1>3. d < n
  BY <1>1
<1> QED BY <1>1, <1>2, <1>3 DEF d

\* What is known of the crossing that is found: no two venues are further apart.
LEMMA WidestTells ==
  ASSUME NEW Q, Numeric(Q), OneOfEach(Q), Crossings(Q) # {}
  PROVE  LET p == Widest(Crossings(Q))
         IN  /\ p.buy \in Q /\ p.buy.ask \in Int /\ Positive(p.buy)
             /\ p.sell \in Q /\ p.sell.bid \in Int /\ Positive(p.sell)
             /\ p.buy.source # p.sell.source /\ Spread(p) > 0
             /\ \A q, r \in Q : Positive(q) /\ Positive(r) /\ q.source # r.source
                                  => r.bid - q.ask <= Spread(p)
<1> DEFINE P == Crossings(Q)
           p == Widest(P)
<1>1. p \in P /\ \A o \in P : Spread(o) <= Spread(p)
  BY WidestFound
<1> HIDE DEF p
<1>2. /\ p.buy \in Q /\ p.sell \in Q /\ Positive(p.buy) /\ Positive(p.sell)
      /\ p.buy.source # p.sell.source /\ Spread(p) > 0
  BY <1>1 DEF Crossings, Spread
<1>3. p.buy.ask \in Int /\ p.sell.bid \in Int /\ Spread(p) \in Int
  BY <1>2 DEF Numeric, Spread
<1>4. ASSUME NEW q \in Q, NEW r \in Q, Positive(q), Positive(r), q.source # r.source
      PROVE  r.bid - q.ask <= Spread(p)
  <2> DEFINE o == [buy |-> q, sell |-> r]
  <2>1. r.bid - q.ask \in Int /\ Spread(o) = r.bid - q.ask
    BY DEF Numeric, Spread
  <2>2. CASE r.bid - q.ask > 0
    <3>1. o \in P
      BY <1>4, <2>2 DEF Crossings
    <3> QED BY <1>1, <2>1, <3>1
  <2>3. CASE ~(r.bid - q.ask > 0)
    BY <1>2, <1>3, <2>1, <2>3
  <2> QED BY <2>2, <2>3
<1> QED BY <1>1, <1>2, <1>3, <1>4 DEF p

\* Its spread in basis points of the mid between the two prices.
LEMMA BpsInRange ==
  ASSUME NEW Q, Numeric(Q), OneOfEach(Q), Crossings(Q) # {}
  PROVE  0 <= Arbitrage(Q).spread_bps /\ Arbitrage(Q).spread_bps < 20000
<1> DEFINE p == Widest(Crossings(Q))
           num == Spread(p) * 20000
           den == p.buy.ask + p.sell.bid
<1>1. num \in Nat /\ den \in Nat \ {0} /\ num < 20000 * den
  BY WidestTells DEF Spread, Positive
<1>2. Arbitrage(Q).spread_bps = num \div den
  BY DEF Arbitrage
<1> HIDE DEF num, den
<1>3. num \div den \in Int /\ 0 <= num \div den /\ num \div den < 20000
  BY <1>1, QuotientBounds
<1> QED BY <1>2, <1>3
=============================================================================

------------------------- MODULE AggregatorMCProofs -------------------------
(***************************************************************************)
(* What the aggregator promises, for rounds of any number of venues, any   *)
(* prices and any age limit: the invariants of AggregatorMC.               *)
(***************************************************************************)
EXTENDS AggregatorMC, AggregatorProofs

USE BoundsAssumption

\* What a round collects: finitely many quotes, one of each venue polled.
Collected ==
  /\ venue \in Nat
  /\ IsFiniteSet(Q)
  /\ Q \subseteq [source : Nat, bid : Nat, ask : Nat, ts : Int]
  /\ \A q \in Q : q.source < venue
  /\ OneOfEach(Q)

LEMMA CollectedAlways == Spec => []Collected
<1>1. Init => Collected
  BY FS_EmptySet DEF Init, Collected, OneOfEach
<1>2. Collected /\ [Next]_vars => Collected'
  <2> SUFFICES ASSUME Collected, [Next]_vars PROVE Collected'
    OBVIOUS
  <2>1. CASE FetchFails
    BY <2>1 DEF FetchFails, Collected, OneOfEach
  <2>2. CASE FetchSucceeds
    <3>1. PICK q \in [source : Nat, bid : Nat, ask : Nat, ts : Int] :
             q.source = venue /\ Q' = Q \cup {q}
      <4>1. PICK bid \in 0..MaxPrice, ask \in 0..MaxPrice, age \in Ages :
              Q' = Q \cup {[source |-> venue, bid |-> bid, ask |-> ask, ts |-> Now - age]}
        BY <2>2 DEF FetchSucceeds
      <4> DEFINE q == [source |-> venue, bid |-> bid, ask |-> ask, ts |-> Now - age]
      <4>2. Now - age \in Int
        BY DEF Now, Ages
      <4>3. q \in [source : Nat, bid : Nat, ask : Nat, ts : Int] /\ q.source = venue
        BY <4>2 DEF Collected
      <4> QED BY <4>1, <4>3
    <3>2. venue' = venue + 1 /\ venue \in Nat
      BY <2>2 DEF FetchSucceeds, Collected
    <3>3. IsFiniteSet(Q')
      BY <3>1, FS_AddElement DEF Collected
    <3> QED BY <3>1, <3>2, <3>3 DEF Collected, OneOfEach
  <2>3. CASE UNCHANGED vars
    BY <2>3 DEF vars, Collected, OneOfEach
  <2> QED BY <2>1, <2>2, <2>3 DEF Next
<1> QED BY <1>1, <1>2, PTL DEF Spec

\* The candidates are such quotes too, and positive.
LEMMA CandidatesCollected ==
  ASSUME Collected
  PROVE  Numeric(Q) /\ Numeric(Cand) /\ Cand \subseteq Q /\ \A q \in Cand : Positive(q)
<1>1. Cand \subseteq Q /\ \A q \in Cand : Positive(q)
  BY DEF Cand, Candidates
<1>2. IsFiniteSet(Cand)
  BY <1>1, FS_Subset DEF Collected
<1> QED BY <1>1, <1>2 DEF Collected, Numeric

-----------------------------------------------------------------------------
\* consolidate(): on either branch the published book is ordered, and its mid within
\* the mids of the venues it came from.
THEOREM BookStaysWithinVenues == Spec => []BookWithinVenues
<1>1. Collected => BookWithinVenues
  BY CandidatesCollected, BookParts, MidWithin DEF BookWithinVenues, Book
<1> QED BY <1>1, CollectedAlways, PTL

-----------------------------------------------------------------------------
\* detect_arbitrage(): the widest crossing of all, of two venues, in bounds.
THEOREM ArbitrageIsLargest == Spec => []ArbitrageLargest
<1> DEFINE p == Widest(Crossings(Q))
           a == Arbitrage(Q)
<1>1. a.spread = Spread(p) /\ a.buy_venue = p.buy.source /\ a.sell_venue = p.sell.source
  BY DEF Arbitrage
<1>2. ASSUME Collected, Crossings(Q) # {}
      PROVE  /\ a.spread > 0 /\ a.buy_venue # a.sell_venue
             /\ 0 <= a.spread_bps /\ a.spread_bps < 20000
             /\ \A q, r \in Q : (q.source # r.source /\ q.ask > 0 /\ r.bid > 0
                                   /\ q.bid > 0 /\ r.ask > 0) => r.bid - q.ask <= a.spread
  <2>0. Numeric(Q) /\ OneOfEach(Q)
    BY <1>2, CandidatesCollected DEF Collected
  <2>1. 0 <= a.spread_bps /\ a.spread_bps < 20000
    BY <1>2, <2>0, BpsInRange
  <2>2. a.spread > 0 /\ a.buy_venue # a.sell_venue
    BY <1>1, <1>2, <2>0, WidestTells
  <2>3. ASSUME NEW q \in Q, NEW r \in Q, q.source # r.source, q.ask > 0, r.bid > 0,
               q.bid > 0, r.ask > 0
        PROVE  r.bid - q.ask <= a.spread
    BY <1>1, <1>2, <2>0, <2>3, WidestTells DEF Positive
  <2> HIDE DEF a
  <2> QED BY <2>1, <2>2, <2>3
<1> HIDE DEF p
<1>3. Collected => ArbitrageLargest
  BY <1>2 DEF ArbitrageLargest
<1> QED BY <1>3, CollectedAlways, PTL

\* consolidate() and detect_arbitrage() agree on what a crossed market is.
THEOREM ArbitrageMeetsTheCross == Spec => []ArbitrageIsTheCross
<1>1. ASSUME Collected, Cand # {}, Cand = {q \in Q : Positive(q)}, \A q \in Cand : Soundly(q)
      PROVE  /\ Crossed(Cand) <=> Crossings(Q) # {}
             /\ Crossed(Cand) => LET a == Arbitrage(Q)
                                 IN  /\ a.buy_price = BestAsk(Cand)
                                     /\ a.sell_price = BestBid(Cand)
  <2> DEFINE bid == BestBid(Cand)
             ask == BestAsk(Cand)
  <2>0. /\ Numeric(Cand) /\ Cand \subseteq Q
        /\ \A q \in Q : Positive(q) => q \in Cand
    BY <1>1, CandidatesCollected
  <2>1. PICK s \in Cand : s.bid = bid
    BY <1>1, <2>0, BestPrices
  <2>2. PICK b \in Cand : b.ask = ask
    BY <1>1, <2>0, BestPrices
  <2>3. \A q \in Cand : q.bid <= bid /\ ask <= q.ask
    BY <1>1, <2>0, BestPrices
  <2>4. bid \in Int /\ ask \in Int
    BY <2>0, <2>1, <2>2 DEF Numeric
  <2>5. Crossed(Cand) <=> bid > ask
    BY DEF Crossed
  <2> HIDE DEF bid, ask
  <2>6. ASSUME Crossed(Cand) PROVE Crossings(Q) # {} /\ b.source # s.source
    <3>1. b.source # s.source
      <4>1. SUFFICES ASSUME b = s PROVE FALSE
        BY <1>1, <2>0 DEF Collected, OneOfEach
      <4> QED BY <1>1, <2>1, <2>2, <2>4, <2>5, <2>6, <4>1 DEF Soundly
    <3>2. s.bid - b.ask > 0 /\ Positive(b) /\ Positive(s)
      BY <1>1, <2>1, <2>2, <2>4, <2>5, <2>6
    <3>3. [buy |-> b, sell |-> s] \in Crossings(Q)
      BY <2>0, <3>1, <3>2 DEF Crossings
    <3> QED BY <3>1, <3>3
  <2>7. ASSUME Crossings(Q) # {}
        PROVE  /\ Crossed(Cand)
               /\ Crossed(Cand) => Arbitrage(Q).buy_price = ask /\ Arbitrage(Q).sell_price = bid
    <3> DEFINE p == Widest(Crossings(Q))
    <3>0. Numeric(Q) /\ OneOfEach(Q)
      BY <1>1, CandidatesCollected DEF Collected
    <3>1. /\ p.buy \in Cand /\ p.sell \in Cand /\ p.buy.ask \in Int /\ p.sell.bid \in Int
          /\ Spread(p) = p.sell.bid - p.buy.ask /\ Spread(p) > 0
      BY <2>0, <2>7, <3>0, WidestTells DEF Spread
    <3>2. \A q, r \in Q : Positive(q) /\ Positive(r) /\ q.source # r.source
                                  => r.bid - q.ask <= Spread(p)
      BY <2>7, <3>0, WidestTells
    <3>3. Arbitrage(Q).buy_price = p.buy.ask /\ Arbitrage(Q).sell_price = p.sell.bid
      BY DEF Arbitrage
    <3> HIDE DEF p
    <3>4. p.sell.bid <= bid /\ ask <= p.buy.ask
      BY <2>3, <3>1
    <3>5. Crossed(Cand)
      BY <2>4, <2>5, <3>1, <3>4
    <3>6. bid - ask <= Spread(p)
      BY <1>1, <2>0, <2>1, <2>2, <2>6, <3>2, <3>5
    <3> QED BY <2>4, <3>1, <3>3, <3>4, <3>5, <3>6
  <2> QED BY <2>6, <2>7 DEF bid, ask
<1> QED BY <1>1, CollectedAlways, PTL DEF ArbitrageIsTheCross
=============================================================================

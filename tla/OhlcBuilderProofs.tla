------------------------- MODULE OhlcBuilderProofs -------------------------
(***************************************************************************)
(* Proofs about OhlcBuilder, for any number of producers and builders, any *)
(* widths, events and bounds, and any combination of faults.               *)
(***************************************************************************)
EXTENDS OhlcBuilder, SequenceTheorems, FiniteSetTheorems, TLAPS

USE DEF Intervals, Times, Positions, Resume, MoreIntervals, IntervalAt

-----------------------------------------------------------------------------
(* Buckets *)

\* Rounding down to a multiple: what the quotient and the remainder give.
LEMMA RoundDown ==
  ASSUME NEW a \in Nat, NEW w \in Nat \ {0}
  PROVE  /\ (a \div w) * w \in Nat
         /\ (a \div w) * w <= a /\ a < (a \div w) * w + w
         /\ ((a \div w) * w) % w = 0
  OBVIOUS

\* A multiple of the width within one width below is that multiple.
LEMMA RoundDownUnique ==
  ASSUME NEW a \in Nat, NEW w \in Nat \ {0}, NEW t \in Nat,
         t % w = 0, t <= a, a < t + w
  PROVE  t = (a \div w) * w
  OBVIOUS

\* A bucket starts within the times of the model, and is the one its quote is in.
LEMMA BucketOf ==
  ASSUME NEW k \in Intervals, NEW ts \in Times
  PROVE  /\ Bucket(k, ts) \in Times
         /\ \A t \in Times : t = Bucket(k, ts) <=>
              t % Widths[k] = 0 /\ t <= ts /\ ts < t + Widths[k]
<1>1. Widths[k] \in Nat \ {0}
  BY WidthsAssumption
<1>2. ts \in Nat /\ ts <= MaxTime
  BY BoundsAssumption
<1>3. Bucket(k, ts) \in Times
  BY <1>1, <1>2, RoundDown, BoundsAssumption DEF Bucket
<1>4. ASSUME NEW t \in Times, t % Widths[k] = 0, t <= ts, ts < t + Widths[k]
      PROVE  t = Bucket(k, ts)
  <2>1. t \in Nat
    BY BoundsAssumption
  <2> QED
    BY <1>1, <1>2, <1>4, <2>1, RoundDownUnique DEF Bucket
<1> QED
  BY <1>1, <1>2, <1>3, <1>4, RoundDown DEF Bucket

-----------------------------------------------------------------------------
(* Type correctness *)

\* Deliveries stay within the log, and messages where they are, when it grows.
LEMMA LogGrows ==
  ASSUME TypeOK, NEW m \in Messages, log' = Append(log, m)
  PROVE  /\ log' \in Seq(Messages) /\ Len(log') = Len(log) + 1
         /\ \A n \in DOMAIN log : n \in DOMAIN log' /\ log'[n] = log[n]
         /\ delivered \in Seq(DOMAIN log')
<1>1. log \in Seq(Messages) /\ delivered \in Seq(DOMAIN log)
  BY DEF TypeOK
<1>2. log' \in Seq(Messages) /\ Len(log') = Len(log) + 1 /\ \A n \in 1..Len(log) : log'[n] = log[n]
  BY <1>1
<1>3. DOMAIN log = 1..Len(log) /\ DOMAIN log' = 1..Len(log')
  BY <1>1, <1>2, LenProperties
<1>4. DOMAIN log \subseteq DOMAIN log'
  BY <1>1, <1>2, <1>3
<1> QED
  BY <1>1, <1>2, <1>3, <1>4, SeqMonotonic

\* What a builder in the middle of an event refers to.
LEMMA InHandTyped ==
  ASSUME TypeOK, NEW d \in DOMAIN delivered
  PROVE  delivered[d] \in DOMAIN log /\ Delivery(d) \in Messages
<1>1. log \in Seq(Messages) /\ delivered \in Seq(DOMAIN log)
  BY DEF TypeOK
<1>2. delivered[d] \in DOMAIN log
  BY <1>1, LenProperties, ElementOfSeq
<1> QED
  BY <1>1, <1>2, LenProperties, ElementOfSeq DEF Delivery

LEMMA UpdatedTyped ==
  ASSUME NEW bar \in Bars \cup {None}, NEW price \in Int
  PROVE  Updated(bar, price) \in Bars
  BY DEF Updated, Opened, Widened, Bars, Larger, Smaller

\* In the middle of an event, a builder has it in hand.
Busy == \A b \in Builders : pc[b] = "bars" => cur[b] \in DOMAIN delivered

Typed == TypeOK /\ Busy

LEMMA TypeInit == Init => Typed
<1> SUFFICES ASSUME Init PROVE Typed
  OBVIOUS
<1>1. 1 \in Intervals
  BY WidthsAssumption
<1>2. << >> \in Seq(Messages) /\ << >> \in Seq(DOMAIN log) /\ Len(<< >>) = 0
  BY EmptySeq
<1>3. 0 \in Times /\ accepted \in 0..MaxEvents /\ starts \in 0..MaxStarts
  BY BoundsAssumption DEF Init
<1>4. log \in Seq(Messages) /\ delivered \in Seq(DOMAIN log) /\ Len(delivered) = 0
  BY <1>2 DEF Init
<1>5. buffer \in [Producers -> Seq(Messages)]
  BY <1>2 DEF Init
<1>6. cur \in [Builders -> 0..Len(delivered)]
  BY <1>4 DEF Init
<1>7. /\ bars \in [Intervals -> [Times -> Bars \cup {None}]]
      /\ applied \in [Intervals -> SUBSET DOMAIN delivered]
  BY DEF Init
<1>8. /\ stamp \in [Producers -> Times]
      /\ pc \in [Builders -> {"down", "poll", "bars"}] /\ pos \in [Builders -> Positions]
      /\ stored \in [Builders -> Positions \cup {None}] /\ step \in [Builders -> Intervals]
  BY <1>1, <1>3 DEF Init
<1>9. /\ committed \in Positions \cup {None} /\ owner \in Builders \cup {None}
      /\ since \in Nat \cup {None} /\ firstAt \in Positions /\ resetAt \in Positions
      /\ aborts \in Nat
  BY DEF Init
<1>10. newcomer \in BOOLEAN /\ assigned \in [Builders -> BOOLEAN]
  BY Zenon DEF Init
<1>11. Busy
  BY DEF Init, Busy
<1> QED
  BY <1>3, <1>4, <1>5, <1>6, <1>7, <1>8, <1>9, <1>10, <1>11 DEF Typed, TypeOK

\* A commit of a stored offset is a position.
LEMMA CommitTyped ==
  ASSUME TypeOK, NEW b \in Builders, CommitStored(b)
  PROVE  committed' \in Positions \cup {None}
  BY DEF TypeOK, CommitStored

LEMMA NextIntervalTyped ==
  ASSUME TypeOK, NEW b \in Builders, pc[b] = "bars", NextInterval(b)
  PROVE  /\ step' \in [Builders -> Intervals]
         /\ pc' \in [Builders -> {"down", "poll", "bars"}]
         /\ \A c \in Builders : pc'[c] = "bars" => pc[c] = "bars"
<1>1. Intervals = 1..Len(Widths) /\ Len(Widths) \in Nat
  BY WidthsAssumption, LenProperties
<1>2. step' \in [Builders -> Intervals]
  <2>1. step \in [Builders -> Intervals] /\ step[b] \in Intervals
    BY DEF TypeOK
  <2>2. CASE step' = step
    BY <2>1, <2>2
  <2>3. CASE step[b] < Len(Widths) /\ step' = [step EXCEPT ![b] = @ + 1]
    <3>1. step[b] + 1 \in Intervals
      BY <1>1, <2>1, <2>3
    <3> QED
      BY <2>1, <2>3, <3>1
  <2> QED
    BY <2>2, <2>3 DEF NextInterval
<1>3. pc' = pc \/ pc' = [pc EXCEPT ![b] = "poll"]
  BY DEF NextInterval
<1> QED
  BY <1>2, <1>3 DEF TypeOK

LEMMA TypeStep == Typed /\ [Next]_vars => Typed'
<1> SUFFICES ASSUME TypeOK, Busy, [Next]_vars PROVE TypeOK' /\ Busy'
  BY DEF Typed
<1> USE DEF sending, broker, reading, history
<1>1. ASSUME NEW p \in Producers, Publish(p) PROVE TypeOK' /\ Busy'
  <2>1. PICK c \in Payloads, ts \in stamp[p]..MaxTime :
          /\ buffer' = [buffer EXCEPT ![p] = Append(@,
               [id |-> accepted + 1, from |-> p, ts |-> ts,
                price |-> c.price, usable |-> c.usable])]
          /\ stamp' = [stamp EXCEPT ![p] = ts]
    BY <1>1 DEF Publish
  <2>2. ts \in Times
    BY <2>1, BoundsAssumption DEF TypeOK
  <2>3. [id |-> accepted + 1, from |-> p, ts |-> ts,
         price |-> c.price, usable |-> c.usable] \in Messages
    BY <2>2, PayloadsAssumption DEF TypeOK, Messages
  <2>4. buffer' \in [Producers -> Seq(Messages)]
    BY <2>1, <2>3 DEF TypeOK
  <2>5. accepted' \in 0..MaxEvents
    BY <1>1, BoundsAssumption DEF TypeOK, Publish
  <2> QED
    BY <1>1, <2>1, <2>2, <2>4, <2>5 DEF TypeOK, Busy, Publish
<1>2. ASSUME NEW p \in Producers, Deliver(p) PROVE TypeOK' /\ Busy'
  <2>1. buffer[p] \in Seq(Messages) /\ buffer[p] # << >>
    BY <1>2 DEF TypeOK, Deliver
  <2>2. Head(buffer[p]) \in Messages /\ Tail(buffer[p]) \in Seq(Messages)
    BY <2>1, HeadTailProperties
  <2>3. log' \in Seq(Messages) /\ delivered \in Seq(DOMAIN log')
    BY <1>2, <2>2, LogGrows DEF Deliver
  <2> QED
    BY <1>2, <2>2, <2>3 DEF TypeOK, Busy, Deliver
<1>3. ASSUME NEW p \in Producers, Expire(p) PROVE TypeOK' /\ Busy'
  <2>1. buffer[p] \in Seq(Messages) /\ buffer[p] # << >>
    BY <1>3 DEF TypeOK, Expire
  <2>2. Tail(buffer[p]) \in Seq(Messages)
    BY <2>1, HeadTailProperties
  <2> QED
    BY <1>3, <2>2 DEF TypeOK, Busy, Expire
<1>4. ASSUME NEW b \in Builders, Start(b) PROVE TypeOK' /\ Busy'
  <2>1. starts' \in 0..MaxStarts
    BY <1>4, BoundsAssumption DEF TypeOK, Start
  <2> QED
    BY <1>4, <2>1 DEF TypeOK, Busy, Start
<1>5. ASSUME NEW b \in Builders, Join(b) PROVE TypeOK' /\ Busy'
  <2>1. Len(log) + 1 \in Positions
    BY LenProperties DEF TypeOK
  <2>2. /\ since' \in Nat \cup {None} /\ firstAt' \in Positions /\ resetAt' \in Positions
        /\ pos' \in [Builders -> Positions]
    BY <1>5, <2>1 DEF TypeOK, Join
  <2>3. assigned' \in [Builders -> BOOLEAN] /\ newcomer' \in BOOLEAN
    BY <1>5, Zenon DEF TypeOK, Join
  <2> QED
    BY <1>5, <2>2, <2>3 DEF TypeOK, Busy, Join
<1>6. ASSUME NEW b \in Builders, AutoCommit(b) PROVE TypeOK' /\ Busy'
  BY <1>6, CommitTyped DEF TypeOK, Busy, AutoCommit
<1>7. ASSUME NEW b \in Builders, Rebalance(b) PROVE TypeOK' /\ Busy'
  BY <1>7, CommitTyped DEF TypeOK, Busy, Rebalance
<1>8. ASSUME NEW b \in Builders, Expel(b) PROVE TypeOK' /\ Busy'
  BY <1>8 DEF TypeOK, Busy, Expel
<1>9. ASSUME NEW b \in Builders, Poll(b) PROVE TypeOK' /\ Busy'
  <2>1. log \in Seq(Messages) /\ delivered \in Seq(DOMAIN log) /\ pos[b] \in Positions
    BY DEF TypeOK
  <2>2. pos[b] \in DOMAIN log
    BY <1>9, <2>1, LenProperties DEF Poll
  <2>3. /\ delivered' \in Seq(DOMAIN log) /\ Len(delivered') = Len(delivered) + 1
    BY <1>9, <2>1, <2>2 DEF Poll
  <2>4. DOMAIN delivered = 1..Len(delivered) /\ DOMAIN delivered' = 1..Len(delivered')
        /\ Len(delivered) \in Nat
    BY <2>1, <2>3, LenProperties
  <2>5. cur' \in [Builders -> 0..Len(delivered')] /\ Busy'
    BY <1>9, <2>3, <2>4 DEF TypeOK, Busy, Poll
  <2>6. applied' \in [Intervals -> SUBSET DOMAIN delivered']
    BY <1>9, <2>3, <2>4 DEF TypeOK, Poll
  <2>7. 1 \in Intervals
    BY WidthsAssumption
  <2>8. /\ pos' \in [Builders -> Positions] /\ stored' \in [Builders -> Positions \cup {None}]
    BY <1>9, <2>1 DEF TypeOK, Poll
  <2>9. /\ pc' \in [Builders -> {"down", "poll", "bars"}] /\ step' \in [Builders -> Intervals]
    BY <1>9, <2>7 DEF TypeOK, Poll
  <2> QED
    BY <1>9, <2>3, <2>5, <2>6, <2>8, <2>9 DEF TypeOK, Poll
<1>10. ASSUME NEW b \in Builders, SkipUnusable(b) PROVE TypeOK' /\ Busy'
  BY <1>10 DEF TypeOK, Busy, SkipUnusable
<1>11. ASSUME NEW b \in Builders, UpdateBar(b) PROVE TypeOK' /\ Busy'
  <2> DEFINE k == step[b]
             m == Delivery(cur[b])
             t == Bucket(k, m.ts)
  <2>1. cur[b] \in DOMAIN delivered /\ k \in Intervals
    BY <1>11 DEF TypeOK, Busy, UpdateBar
  <2>2. m.ts \in Times /\ m.price \in Int
    BY <2>1, InHandTyped DEF Messages
  <2>3. t \in Times
    BY <2>1, <2>2, BucketOf
  <2>6. /\ bars' = [bars EXCEPT ![k][t] = Updated(bars[k][t], m.price)]
        /\ applied' = [applied EXCEPT ![k] = @ \cup {cur[b]}]
    BY <1>11 DEF UpdateBar
  <2> HIDE DEF k, m, t
  <2>4. bars[k][t] \in Bars \cup {None}
    <3>1. bars \in [Intervals -> [Times -> Bars \cup {None}]]
      BY DEF TypeOK
    <3>2. bars[k] \in [Times -> Bars \cup {None}]
      BY <2>1, <3>1
    <3> QED
      BY <2>3, <3>2
  <2>5. Updated(bars[k][t], m.price) \in Bars
    BY <2>2, <2>4, UpdatedTyped
  <2>7. bars' \in [Intervals -> [Times -> Bars \cup {None}]]
    BY <2>1, <2>3, <2>5, <2>6 DEF TypeOK
  <2>8. applied' \in [Intervals -> SUBSET DOMAIN delivered]
    BY <2>1, <2>6 DEF TypeOK
  <2>9. /\ step' \in [Builders -> Intervals]
        /\ pc' \in [Builders -> {"down", "poll", "bars"}]
        /\ \A c \in Builders : pc'[c] = "bars" => pc[c] = "bars"
    BY <1>11, NextIntervalTyped DEF UpdateBar
  <2> QED
    BY <1>11, <2>7, <2>8, <2>9 DEF TypeOK, Busy, UpdateBar
<1>12. ASSUME NEW b \in Builders, Stop(b) PROVE TypeOK' /\ Busy'
  BY <1>12, CommitTyped DEF TypeOK, Busy, Stop, Leave
<1>13. ASSUME NEW b \in Builders, Raise(b) PROVE TypeOK' /\ Busy'
  <2>1. committed' \in Positions \cup {None} /\ aborts' \in Nat
    BY <1>13, CommitTyped DEF TypeOK, Raise, Leave
  <2> QED
    BY <1>13, <2>1 DEF TypeOK, Busy, Raise, Leave
<1>14. ASSUME NEW b \in Builders, Crash(b) PROVE TypeOK' /\ Busy'
  BY <1>14 DEF TypeOK, Busy, Crash
<1>15. ASSUME NEW b \in Builders, LearnExpelled(b) PROVE TypeOK' /\ Busy'
  BY <1>15 DEF TypeOK, Busy, LearnExpelled
<1>16. CASE UNCHANGED vars
  BY <1>16 DEF vars, TypeOK, Busy
<1> QED
  BY <1>1, <1>2, <1>3, <1>4, <1>5, <1>6, <1>7, <1>8, <1>9, <1>10, <1>11, <1>12, <1>13,
     <1>14, <1>15, <1>16 DEF Next, Loop

\* Every variable keeps its type in every reachable state.
THEOREM TypeCorrect == Spec => []TypeOK
<1>1. Typed => TypeOK
  BY DEF Typed
<1> QED
  BY <1>1, TypeInit, TypeStep, PTL DEF Spec

-----------------------------------------------------------------------------
(* Each delivery is folded once per interval, narrowest first *)

\* A builder in the middle of an event has folded it into the intervals before
\* its step and into no other; no two builders have the same delivery in hand.
InHandOnce ==
  /\ \A b \in Builders : pc[b] = "bars" =>
       \A k \in Intervals : cur[b] \in applied[k] <=> k < step[b]
  /\ \A b, c \in Builders :
       b # c /\ pc[b] = "bars" /\ pc[c] = "bars" => cur[b] # cur[c]

Nested == Typed /\ InHandOnce /\ CoarserNeverAhead

\* Steps that begin no event and fold none: builders only leave their event.
LEMMA NestedUndisturbed ==
  ASSUME InHandOnce, CoarserNeverAhead, UNCHANGED <<step, cur, applied>>,
         \A b \in Builders : pc'[b] = "bars" => pc[b] = "bars"
  PROVE  InHandOnce' /\ CoarserNeverAhead'
  BY DEF InHandOnce, CoarserNeverAhead

LEMMA NestedInit == Init => Nested
<1>1. Init => InHandOnce /\ CoarserNeverAhead
  BY DEF Init, InHandOnce, CoarserNeverAhead
<1> QED
  BY <1>1, TypeInit DEF Nested

LEMMA NestedStep == Nested /\ [Next]_vars => Nested'
<1> SUFFICES ASSUME Nested, [Next]_vars PROVE InHandOnce' /\ CoarserNeverAhead'
  BY TypeStep DEF Nested
<1>0. TypeOK /\ Busy /\ InHandOnce /\ CoarserNeverAhead
  BY DEF Nested, Typed
<1>1. ASSUME NEW b \in Builders, Poll(b) PROVE InHandOnce' /\ CoarserNeverAhead'
  <2>1. Len(delivered) \in Nat /\ DOMAIN delivered = 1..Len(delivered)
    BY <1>0, LenProperties DEF TypeOK
  <2>2. /\ cur' = [cur EXCEPT ![b] = Len(delivered) + 1] /\ step' = [step EXCEPT ![b] = 1]
        /\ pc' = [pc EXCEPT ![b] = "bars"] /\ applied' = applied
    BY <1>1 DEF Poll
  <2>3. /\ cur \in [Builders -> 0..Len(delivered)] /\ step \in [Builders -> Intervals]
        /\ pc \in [Builders -> {"down", "poll", "bars"}]
        /\ \A k \in Intervals : applied[k] \subseteq 1..Len(delivered)
    BY <1>0, <2>1 DEF TypeOK
  <2>4. \A k \in Intervals : Len(delivered) + 1 \notin applied[k]
    BY <2>1, <2>3
  <2>5. Intervals \subseteq Nat \ {0}
    BY WidthsAssumption, LenProperties
  <2>6. ASSUME NEW c \in Builders, pc'[c] = "bars", NEW k \in Intervals
        PROVE  cur'[c] \in applied'[k] <=> k < step'[c]
    BY <1>0, <2>2, <2>3, <2>4, <2>5, <2>6 DEF InHandOnce
  <2>7. ASSUME NEW c \in Builders, NEW d \in Builders, c # d, pc'[c] = "bars", pc'[d] = "bars"
        PROVE  cur'[c] # cur'[d]
    BY <1>0, <2>1, <2>2, <2>3, <2>7 DEF InHandOnce
  <2> QED
    BY <1>0, <2>2, <2>6, <2>7 DEF InHandOnce, CoarserNeverAhead
<1>2. ASSUME NEW b \in Builders, UpdateBar(b) PROVE InHandOnce' /\ CoarserNeverAhead'
  <2>1. /\ pc[b] = "bars" /\ cur' = cur /\ NextInterval(b)
        /\ applied' = [applied EXCEPT ![step[b]] = @ \cup {cur[b]}]
    BY <1>2 DEF UpdateBar
  <2>2. Intervals = 1..Len(Widths) /\ Len(Widths) \in Nat
    BY WidthsAssumption, LenProperties
  <2>3. /\ step \in [Builders -> Intervals] /\ applied \in [Intervals -> SUBSET DOMAIN delivered]
        /\ pc \in [Builders -> {"down", "poll", "bars"}] /\ step[b] \in Intervals
    BY <1>0 DEF TypeOK
  <2>4. \A k \in Intervals : applied'[k] =
          IF k = step[b] THEN applied[k] \cup {cur[b]} ELSE applied[k]
    BY <2>1, <2>3
  <2>5. \A c \in Builders : pc'[c] = "bars" =>
          pc[c] = "bars" /\ step'[c] = IF c = b THEN step[b] + 1 ELSE step[c]
    BY <2>1, <2>3 DEF NextInterval
  <2>6. ASSUME NEW c \in Builders, pc'[c] = "bars", NEW k \in Intervals
        PROVE  cur'[c] \in applied'[k] <=> k < step'[c]
    <3>1. pc[c] = "bars" /\ (cur[c] \in applied[k] <=> k < step[c])
      BY <1>0, <2>5, <2>6 DEF InHandOnce
    <3>2. CASE c = b
      BY <2>1, <2>2, <2>3, <2>4, <2>5, <2>6, <3>1, <3>2
    <3>3. CASE c # b
      <4>1. cur[c] # cur[b]
        BY <1>0, <2>1, <3>1, <3>3 DEF InHandOnce
      <4> QED
        BY <2>1, <2>4, <2>5, <2>6, <3>1, <3>3, <4>1
    <3> QED
      BY <3>2, <3>3
  <2>7. ASSUME NEW c \in Builders, NEW d \in Builders, c # d, pc'[c] = "bars", pc'[d] = "bars"
        PROVE  cur'[c] # cur'[d]
    BY <1>0, <2>1, <2>5, <2>7 DEF InHandOnce
  <2>8. ASSUME NEW k \in Intervals, NEW l \in Intervals, k < l
        PROVE  applied'[l] \subseteq applied'[k]
    <3>1. applied[l] \subseteq applied[k]
      BY <1>0, <2>8 DEF CoarserNeverAhead
    <3>2. l = step[b] => cur[b] \in applied[k]
      BY <1>0, <2>1, <2>8 DEF InHandOnce
    <3> QED
      BY <2>4, <3>1, <3>2
  <2> QED
    BY <2>6, <2>7, <2>8 DEF InHandOnce, CoarserNeverAhead
<1>3. ASSUME UNCHANGED <<step, cur, applied>>,
             \A b \in Builders : pc'[b] = "bars" => pc[b] = "bars"
      PROVE  InHandOnce' /\ CoarserNeverAhead'
  BY <1>0, <1>3, NestedUndisturbed
<1>4. pc \in [Builders -> {"down", "poll", "bars"}]
  BY <1>0 DEF TypeOK
<1>5. ASSUME NEW p \in Producers, Publish(p) \/ Deliver(p) \/ Expire(p)
      PROVE  InHandOnce' /\ CoarserNeverAhead'
  BY <1>3, <1>5 DEF Publish, Deliver, Expire, history
<1>6. ASSUME NEW b \in Builders, Start(b) \/ Join(b) \/ AutoCommit(b) \/ Rebalance(b)
                                 \/ Expel(b) \/ LearnExpelled(b) \/ SkipUnusable(b)
      PROVE  InHandOnce' /\ CoarserNeverAhead'
  BY <1>3, <1>4, <1>6
  DEF Start, Join, AutoCommit, Rebalance, Expel, LearnExpelled, SkipUnusable, history
<1>7. ASSUME NEW b \in Builders, Stop(b) \/ Raise(b) \/ Crash(b)
      PROVE  InHandOnce' /\ CoarserNeverAhead'
  BY <1>3, <1>4, <1>7 DEF Stop, Raise, Crash, Leave, history
<1>8. CASE UNCHANGED vars
  BY <1>3, <1>8 DEF vars, history
<1> QED
  BY <1>1, <1>2, <1>5, <1>6, <1>7, <1>8 DEF Next, Loop

LEMMA NestedAlways == Spec => []Nested
  BY NestedInit, NestedStep, PTL DEF Spec

\* No wider bar holds a delivery that a narrower one lacks, whoever dies or is
\* expelled in the middle of an event.
THEOREM WiderBarsNeverAhead == Spec => []CoarserNeverAhead
<1>1. Nested => CoarserNeverAhead
  BY DEF Nested
<1> QED
  BY <1>1, NestedAlways, PTL

-----------------------------------------------------------------------------
(* What a stored bar tells *)

BarsTell == Nested /\ BarsTellDeliveries

\* A bar that tells D, updated with the price of one more delivery, tells both.
LEMMA UpdatedTells ==
  ASSUME NEW D, IsFiniteSet(D), NEW x, x \notin D,
         \A d \in D \cup {x} : Delivery(d).price \in Int,
         NEW bar \in Bars \cup {None}, Tells(bar, D)
  PROVE  Tells(Updated(bar, Delivery(x).price), D \cup {x})
<1> DEFINE E == D \cup {x}
           p == Delivery(x).price
           P == {Delivery(d).price : d \in D}
           new == Updated(bar, p)
<1>1. Cardinality(E) = Cardinality(D) + 1 /\ Cardinality(D) \in Nat
  BY FS_AddElement, FS_CardinalityType
<1>2. {Delivery(d).price : d \in E} = P \cup {p}
  OBVIOUS
<1>3. p \in Int /\ P \subseteq Int
  OBVIOUS
<1>4. CASE D = {}
  <2>1. bar = None /\ Cardinality(D) = 0
    BY <1>4, FS_EmptySet DEF Tells
  <2>2. new = [open |-> p, high |-> p, low |-> p, close |-> p, ticks |-> 1]
    BY <2>1 DEF Updated, Opened, Widened
  <2>3. P = {}
    BY <1>4
  <2>4. new \in Bars /\ new # None
    BY <1>3, <2>2, NoneAssumption DEF Bars
  <2>5. /\ new.ticks = Cardinality(E)
        /\ {new.open, new.high, new.low, new.close} \subseteq P \cup {p}
        /\ \A y \in P \cup {p} : new.low <= y /\ y <= new.high
    BY <1>1, <1>3, <2>1, <2>2, <2>3
  <2> HIDE DEF new, p, P, E
  <2>6. E # {}
    BY DEF E
  <2> QED
    BY <1>2, <2>4, <2>5, <2>6 DEF Tells, E, new, p
<1>5. CASE D # {}
  <2>1. bar \in Bars /\ bar # None
    BY <1>5 DEF Tells
  <2>2. /\ bar.ticks = Cardinality(D) /\ \A y \in P : bar.low <= y /\ y <= bar.high
        /\ bar.open \in P /\ bar.high \in P /\ bar.low \in P /\ bar.close \in P
    BY <1>5 DEF Tells
  <2>3. new = [open |-> bar.open, high |-> Larger(bar.high, p), low |-> Smaller(bar.low, p),
               close |-> p, ticks |-> bar.ticks + 1]
    BY <2>1 DEF Updated, Opened, Widened
  <2>4. bar.low \in Int /\ bar.high \in Int
    BY <2>1 DEF Bars
  <2>5. /\ Larger(bar.high, p) \in P \cup {p} /\ Smaller(bar.low, p) \in P \cup {p}
        /\ \A y \in P \cup {p} : Smaller(bar.low, p) <= y /\ y <= Larger(bar.high, p)
    BY <1>3, <2>2, <2>4 DEF Larger, Smaller
  <2>6. /\ new.ticks = Cardinality(E)
        /\ {new.open, new.high, new.low, new.close} \subseteq P \cup {p}
        /\ \A y \in P \cup {p} : new.low <= y /\ y <= new.high
    BY <1>1, <2>2, <2>3, <2>5
  <2>8. new \in Bars /\ new # None
    BY <1>3, <2>1, UpdatedTyped, NoneAssumption
  <2> HIDE DEF new, p, P, E
  <2>7. E # {}
    BY DEF E
  <2> QED
    BY <1>2, <2>6, <2>7, <2>8 DEF Tells, E, new, p
<1> QED
  BY <1>4, <1>5

\* Deliveries keep their messages, and their bars, when no bar is written.
LEMMA TellsUndisturbed ==
  ASSUME TypeOK, BarsTellDeliveries, UNCHANGED <<bars, applied>>,
         \A d \in DOMAIN delivered : Delivery(d)' = Delivery(d)
  PROVE  BarsTellDeliveries'
<1> SUFFICES ASSUME NEW k \in Intervals, NEW t \in Times
             PROVE  Tells(bars[k][t], Folded(k, t))'
  BY DEF BarsTellDeliveries
<1> DEFINE D == Folded(k, t)
<1>1. applied[k] \subseteq DOMAIN delivered
  BY DEF TypeOK
<1>2. Folded(k, t)' = D /\ D \subseteq DOMAIN delivered
  BY <1>1 DEF Folded
<1>3. {Delivery(d)'.price : d \in D} = {Delivery(d).price : d \in D}
  BY <1>2
<1>4. Tells(bars[k][t], D)
  BY DEF BarsTellDeliveries
<1> QED
  BY <1>2, <1>3, <1>4 DEF Tells

\* The deliveries of a bar are those its bucket names.
LEMMA FoldedIsBucket ==
  ASSUME TypeOK, NEW k \in Intervals, NEW t \in Times
  PROVE  /\ Folded(k, t) = {d \in applied[k] : Bucket(k, Delivery(d).ts) = t}
         /\ IsFiniteSet(Folded(k, t)) /\ Folded(k, t) \subseteq DOMAIN delivered
         /\ \A d \in Folded(k, t) : Delivery(d).price \in Int
<1>1. applied[k] \subseteq DOMAIN delivered
  BY DEF TypeOK
<1>2. \A d \in applied[k] : Delivery(d).ts \in Times /\ Delivery(d).price \in Int
  BY <1>1, InHandTyped DEF Messages
<1>3. Folded(k, t) = {d \in applied[k] : Bucket(k, Delivery(d).ts) = t}
  BY <1>2, BucketOf DEF Folded
<1>4. DOMAIN delivered = 1..Len(delivered) /\ Len(delivered) \in Nat
  BY LenProperties DEF TypeOK
<1>5. IsFiniteSet(1..Len(delivered))
  BY <1>4, FS_Interval
<1> QED
  BY <1>1, <1>2, <1>3, <1>4, <1>5, FS_Subset DEF Folded

\* One _update_bar: delivery x joins those of the bar of interval j that starts at s.
Folds(b, j, x, s) ==
  /\ pc[b] = "bars" /\ cur[b] = x /\ step[b] = j /\ x \notin applied[j]
  /\ Delivery(x).ts \in Times /\ Delivery(x).price \in Int
  /\ \A d : Delivery(d)' = Delivery(d)
  /\ \A k \in Intervals, t \in Times :
       /\ bars'[k][t] = IF k = j /\ t = s THEN Updated(bars[j][s], Delivery(x).price)
                        ELSE bars[k][t]
       /\ Folded(k, t)' = IF k = j /\ t = s THEN Folded(k, t) \cup {x} ELSE Folded(k, t)

LEMMA UpdateFolds ==
  ASSUME Nested, TypeOK', NEW b \in Builders, UpdateBar(b)
  PROVE  \E j \in Intervals, x \in DOMAIN delivered, s \in Times : Folds(b, j, x, s)
<1>0. TypeOK /\ Busy /\ InHandOnce
  BY DEF Nested, Typed
<1>1. PICK j \in Intervals, x \in DOMAIN delivered :
        pc[b] = "bars" /\ step[b] = j /\ cur[b] = x
  BY <1>0 DEF UpdateBar, Busy, TypeOK
<1>3. Delivery(x).ts \in Times /\ Delivery(x).price \in Int
  BY <1>0, <1>1, InHandTyped DEF Messages
<1>4. PICK s \in Times : s = Bucket(j, Delivery(x).ts)
  BY <1>1, <1>3, BucketOf
<1>2. /\ bars' = [bars EXCEPT ![j][s] = Updated(bars[j][s], Delivery(x).price)]
      /\ applied' = [applied EXCEPT ![j] = @ \cup {x}]
      /\ log' = log /\ delivered' = delivered
  BY <1>1, <1>4 DEF UpdateBar, broker
<1>5. x \notin applied[j]
  <2>1. j \in Int
    BY <1>1, WidthsAssumption, LenProperties
  <2> QED
    BY <1>0, <1>1, <2>1 DEF InHandOnce
<1>6. \A d : Delivery(d)' = Delivery(d)
  BY <1>2 DEF Delivery
<1>7. \A k \in Intervals : applied'[k] = IF k = j THEN applied[k] \cup {x} ELSE applied[k]
  BY <1>0, <1>1, <1>2 DEF TypeOK
<1>8. \A k \in Intervals, t \in Times :
        bars'[k][t] = IF k = j /\ t = s THEN Updated(bars[j][s], Delivery(x).price)
                      ELSE bars[k][t]
  <2>1. bars \in [Intervals -> [Times -> Bars \cup {None}]]
    BY <1>0 DEF TypeOK
  <2> QED
    BY <1>1, <1>2, <1>4, <2>1
<1>9. ASSUME NEW k \in Intervals, NEW t \in Times
      PROVE  Folded(k, t)' = IF k = j /\ t = s THEN Folded(k, t) \cup {x} ELSE Folded(k, t)
  <2>1. Folded(k, t) = {d \in applied[k] : Bucket(k, Delivery(d).ts) = t}
    BY <1>0, FoldedIsBucket
  <2>2. Folded(k, t)' = {d \in applied'[k] : Bucket(k, Delivery(d).ts) = t}
    <3>1. \A d \in applied'[k] : Delivery(d).ts \in Times
      <4>1. applied[k] \subseteq DOMAIN delivered /\ applied'[k] \subseteq applied[k] \cup {x}
        BY <1>0, <1>7 DEF TypeOK
      <4>2. \A d \in DOMAIN delivered : Delivery(d).ts \in Times
        BY <1>0, InHandTyped DEF Messages
      <4> QED
        BY <1>1, <4>1, <4>2
    <3>2. Folded(k, t)' = {d \in applied'[k] : /\ t % Widths[k] = 0
                             /\ t <= Delivery(d).ts /\ Delivery(d).ts < t + Widths[k]}
      BY <1>6 DEF Folded
    <3> QED
      BY <3>1, <3>2, BucketOf
  <2> QED
    BY <1>4, <1>7, <2>1, <2>2
<1> QED
  BY <1>1, <1>3, <1>5, <1>6, <1>8, <1>9 DEF Folds

LEMMA UpdateTells ==
  ASSUME BarsTell, TypeOK', NEW b \in Builders, UpdateBar(b)
  PROVE  BarsTellDeliveries'
<1>0. TypeOK /\ BarsTellDeliveries
  BY DEF BarsTell, Nested, Typed
<1>1. PICK j \in Intervals, x \in DOMAIN delivered, s \in Times : Folds(b, j, x, s)
  BY UpdateFolds DEF BarsTell
<1>2. Delivery(x).ts \in Times /\ Delivery(x).price \in Int /\ x \notin applied[j]
  BY <1>1 DEF Folds
<1>3. \A d : Delivery(d)' = Delivery(d)
  BY <1>1 DEF Folds
<1>4. \A k \in Intervals, t \in Times :
        bars'[k][t] = IF k = j /\ t = s THEN Updated(bars[j][s], Delivery(x).price)
                      ELSE bars[k][t]
  BY <1>1 DEF Folds
<1>5. \A k \in Intervals, t \in Times :
        Folded(k, t)' = IF k = j /\ t = s THEN Folded(k, t) \cup {x} ELSE Folded(k, t)
  BY <1>1 DEF Folds
<1>6. ASSUME NEW k \in Intervals, NEW t \in Times, ~(k = j /\ t = s)
       PROVE  Tells(bars[k][t], Folded(k, t))'
  <2>1. Folded(k, t)' = Folded(k, t) /\ bars'[k][t] = bars[k][t]
    BY <1>4, <1>5, <1>6
  <2>2. Tells(bars[k][t], Folded(k, t))
    BY <1>0 DEF BarsTellDeliveries
  <2> QED
    BY <1>3, <2>1, <2>2 DEF Tells
<1>7. Tells(bars[j][s], Folded(j, s))'
  <2>1. Folded(j, s)' = Folded(j, s) \cup {x}
    BY <1>5
  <2>2. Tells(bars[j][s], Folded(j, s))
    BY <1>0 DEF BarsTellDeliveries
  <2>3. bars[j][s] \in Bars \cup {None}
    <3>1. bars \in [Intervals -> [Times -> Bars \cup {None}]]
      BY <1>0 DEF TypeOK
    <3>2. bars[j] \in [Times -> Bars \cup {None}]
      BY <3>1
    <3> QED
      BY <3>2
  <2>4. /\ IsFiniteSet(Folded(j, s)) /\ x \notin Folded(j, s)
        /\ \A d \in Folded(j, s) \cup {x} : Delivery(d).price \in Int
    <3>1. /\ Folded(j, s) \subseteq applied[j] /\ IsFiniteSet(Folded(j, s))
          /\ \A d \in Folded(j, s) : Delivery(d).price \in Int
      BY <1>0, FoldedIsBucket
    <3> QED
      BY <1>2, <3>1
  <2>5. Tells(Updated(bars[j][s], Delivery(x).price), Folded(j, s) \cup {x})
    BY <2>2, <2>3, <2>4, UpdatedTells
  <2>6. bars'[j][s] = Updated(bars[j][s], Delivery(x).price)
    BY <1>4
  <2> QED
    BY <1>3, <2>1, <2>5, <2>6 DEF Tells
<1> QED
  BY <1>6, <1>7 DEF BarsTellDeliveries

LEMMA TellsInit == Init => BarsTell
<1> SUFFICES ASSUME Init, NEW k \in Intervals, NEW t \in Times
             PROVE  Tells(bars[k][t], Folded(k, t))
  BY NestedInit DEF BarsTell, BarsTellDeliveries
<1>1. Folded(k, t) = {}
  BY DEF Init, Folded
<1>2. bars[k][t] = None
  BY DEF Init
<1> QED
  BY <1>1, <1>2 DEF Tells

LEMMA TellsStep == BarsTell /\ [Next]_vars => BarsTell'
<1> SUFFICES ASSUME BarsTell, [Next]_vars PROVE BarsTellDeliveries'
  BY NestedStep DEF BarsTell
<1>0. TypeOK /\ BarsTellDeliveries
  BY DEF BarsTell, Nested, Typed
<1>1. TypeOK'
  BY TypeStep DEF BarsTell, Nested, Typed
<1>2. ASSUME UNCHANGED <<bars, applied, log, delivered>> PROVE BarsTellDeliveries'
  BY <1>0, <1>2, TellsUndisturbed DEF Delivery
<1>3. ASSUME NEW p \in Producers, Deliver(p) PROVE BarsTellDeliveries'
  <2>1. buffer[p] \in Seq(Messages) /\ buffer[p] # << >>
    BY <1>0, <1>3 DEF TypeOK, Deliver
  <2>2. Head(buffer[p]) \in Messages
    BY <2>1, HeadTailProperties
  <2>3. \A n \in DOMAIN log : log'[n] = log[n]
    BY <1>0, <1>3, <2>2, LogGrows DEF Deliver
  <2>4. UNCHANGED <<bars, applied, delivered>>
    BY <1>3 DEF Deliver, history
  <2>5. \A d \in DOMAIN delivered : Delivery(d)' = Delivery(d)
    BY <1>0, <2>3, <2>4, InHandTyped DEF Delivery
  <2> QED
    BY <1>0, <2>4, <2>5, TellsUndisturbed
<1>4. ASSUME NEW b \in Builders, Poll(b) PROVE BarsTellDeliveries'
  <2>1. UNCHANGED <<bars, applied, log>> /\ delivered' = Append(delivered, pos[b])
    BY <1>4 DEF Poll, broker
  <2>2. delivered \in Seq(DOMAIN log) /\ pos[b] \in DOMAIN log
    BY <1>0, <1>4, LenProperties DEF TypeOK, Poll
  <2>3. \A d \in DOMAIN delivered : delivered'[d] = delivered[d]
    BY <2>1, <2>2, LenProperties
  <2> QED
    BY <1>0, <2>1, <2>3, TellsUndisturbed DEF Delivery
<1>5. ASSUME NEW b \in Builders, UpdateBar(b) PROVE BarsTellDeliveries'
  BY <1>1, <1>5, UpdateTells
<1>6. ASSUME NEW p \in Producers, Publish(p) \/ Expire(p) PROVE BarsTellDeliveries'
  BY <1>2, <1>6 DEF Publish, Expire, history, broker
<1>7. ASSUME NEW b \in Builders, Start(b) \/ Join(b) \/ AutoCommit(b) \/ Rebalance(b)
                                 \/ Expel(b) \/ LearnExpelled(b) \/ SkipUnusable(b)
      PROVE  BarsTellDeliveries'
  BY <1>2, <1>7
  DEF Start, Join, AutoCommit, Rebalance, Expel, LearnExpelled, SkipUnusable, history, broker
<1>8. ASSUME NEW b \in Builders, Stop(b) \/ Raise(b) \/ Crash(b) PROVE BarsTellDeliveries'
  BY <1>2, <1>8 DEF Stop, Raise, Crash, history
<1>9. CASE UNCHANGED vars
  BY <1>2, <1>9 DEF vars, history, broker
<1> QED
  BY <1>3, <1>4, <1>5, <1>6, <1>7, <1>8, <1>9 DEF Next, Loop

\* Whatever was lost, repeated or cut short, a stored bar counts exactly the
\* deliveries folded into it and bounds their prices.
THEOREM StoredBarsTell == Spec => []BarsTellDeliveries
<1>1. BarsTell => BarsTellDeliveries
  BY DEF BarsTell
<1> QED
  BY <1>1, TellsInit, TellsStep, PTL DEF Spec

-----------------------------------------------------------------------------
(* A committed offset is final *)

\* The owner has read at least to the committed offset, and what it will commit
\* next is where it reads on.
ReadsOn ==
  /\ owner # None /\ committed # None => committed <= pos[owner]
  /\ owner # None /\ stored[owner] # None => stored[owner] = pos[owner]

Final == Typed /\ ReadsOn

LEMMA FinalInit == Init => Final
  BY TypeInit DEF Init, Final, ReadsOn

LEMMA FinalStep == Final /\ [Next]_vars => Final'
<1> SUFFICES ASSUME Final, [Next]_vars PROVE ReadsOn'
  BY TypeStep DEF Final
<1>0. TypeOK /\ ReadsOn
  BY DEF Final, Typed
<1>1. ASSUME UNCHANGED <<committed, owner, pos, stored>> PROVE ReadsOn'
  BY <1>0, <1>1 DEF ReadsOn
<1>2. ASSUME owner' = None PROVE ReadsOn'
  BY <1>2 DEF ReadsOn
<1>3. ASSUME NEW b \in Builders, Join(b) PROVE ReadsOn'
  <2>1. /\ owner' = b /\ stored' = [stored EXCEPT ![b] = None] /\ committed' = committed
        /\ pos' = [pos EXCEPT ![b] = IF committed # None THEN committed ELSE Len(log) + 1]
    BY <1>3 DEF Join
  <2>2. stored'[b] = None /\ (committed # None => pos'[b] = committed)
    BY <1>0, <2>1 DEF TypeOK
  <2> QED
    BY <1>0, <2>1, <2>2 DEF ReadsOn, TypeOK
<1>4. ASSUME NEW b \in Builders, AutoCommit(b) PROVE ReadsOn'
  BY <1>0, <1>4 DEF AutoCommit, CommitStored, ReadsOn, TypeOK, reading
<1>5. ASSUME NEW b \in Builders, Poll(b) \/ SkipUnusable(b) PROVE ReadsOn'
  <2>1. /\ UNCHANGED <<owner, committed>>
        /\ pos' = [pos EXCEPT ![b] = @ + 1] /\ stored' = [stored EXCEPT ![b] = pos[b] + 1]
    BY <1>5 DEF Poll, SkipUnusable, broker
  <2>2. pos'[b] = pos[b] + 1 /\ stored'[b] = pos[b] + 1 /\ pos[b] \in Positions
    BY <1>0, <2>1 DEF TypeOK
  <2>3. owner # b => (owner # None => pos'[owner] = pos[owner] /\ stored'[owner] = stored[owner])
    BY <1>0, <2>1 DEF TypeOK
  <2> QED
    BY <1>0, <2>1, <2>2, <2>3 DEF ReadsOn, TypeOK
<1>6. ASSUME NEW b \in Builders, Stop(b) \/ Raise(b) PROVE ReadsOn'
  <2>1. /\ CommitStored(b) /\ owner' = IF owner = b THEN None ELSE owner
        /\ UNCHANGED <<pos, stored>>
    BY <1>6 DEF Stop, Raise, Leave
  <2>2. CASE owner = b
    BY <1>2, <2>1, <2>2
  <2>3. CASE owner # b
    BY <1>1, <2>1, <2>3 DEF CommitStored
  <2> QED
    BY <2>2, <2>3
<1>7. ASSUME NEW b \in Builders, Crash(b) PROVE ReadsOn'
  BY <1>1, <1>2, <1>7 DEF Crash
<1>8. ASSUME NEW b \in Builders, Rebalance(b) \/ Expel(b) PROVE ReadsOn'
  BY <1>2, <1>8 DEF Rebalance, Expel
<1>9. ASSUME NEW p \in Producers, Publish(p) \/ Deliver(p) \/ Expire(p) PROVE ReadsOn'
  BY <1>1, <1>9 DEF Publish, Deliver, Expire, broker, reading
<1>10. ASSUME NEW b \in Builders, Start(b) \/ UpdateBar(b) \/ LearnExpelled(b) PROVE ReadsOn'
  BY <1>1, <1>10 DEF Start, UpdateBar, LearnExpelled, broker, reading
<1>11. CASE UNCHANGED vars
  BY <1>1, <1>11 DEF vars, broker, reading
<1> QED
  BY <1>3, <1>4, <1>5, <1>6, <1>7, <1>8, <1>9, <1>10, <1>11 DEF Next, Loop

\* Only poll() hands anything to handle_event.
LEMMA OnlyPollDelivers ==
  ASSUME Next, delivered' # delivered
  PROVE  \E b \in Builders : Poll(b)
<1>1. ~ \E p \in Producers : Publish(p) \/ Deliver(p) \/ Expire(p)
  BY DEF Publish, Deliver, Expire, history
<1>2. ~ \E b \in Builders : Start(b) \/ Join(b) \/ SkipUnusable(b) \/ UpdateBar(b)
  BY DEF Start, Join, SkipUnusable, UpdateBar, history
<1>3. ~ \E b \in Builders : \/ AutoCommit(b) \/ Rebalance(b) \/ Expel(b) \/ LearnExpelled(b)
                           \/ Stop(b) \/ Raise(b) \/ Crash(b)
  BY DEF AutoCommit, Rebalance, Expel, LearnExpelled, Stop, Raise, Crash, history
<1> QED
  BY <1>1, <1>2, <1>3 DEF Next, Loop

\* The owner's commits move forward, and no one else's count.
LEMMA CommitAdvances ==
  ASSUME TypeOK, ReadsOn, committed # None, NEW b \in Builders, CommitStored(b)
  PROVE  committed' # None /\ committed <= committed'
<1>1. committed \in Positions /\ None \notin Nat /\ b # None
  BY NoneAssumption DEF TypeOK
<1>2. CASE owner = b /\ stored[b] # None
  <2>1. committed' = pos[b] /\ pos[b] \in Positions
    BY <1>1, <1>2 DEF CommitStored, ReadsOn, TypeOK
  <2> QED
    BY <1>1, <1>2, <2>1 DEF ReadsOn
<1>3. CASE ~(owner = b /\ stored[b] # None)
  BY <1>1, <1>3 DEF CommitStored
<1> QED
  BY <1>2, <1>3

\* What members commit only ever moves on, messages are not skipped again once there is
\* a committed offset, and below it only a member reads that was expelled and does not
\* know it.
THEOREM CommitsAreFinal == Spec => CommittedIsFinal
<1>1. Final /\ [Next]_vars =>
        [committed # None =>
           /\ committed' # None /\ committed <= committed'
           /\ resetAt' = resetAt
           /\ delivered' # delivered /\ delivered'[Len(delivered')] < committed =>
                \E b \in Builders : cur'[b] = Len(delivered') /\ assigned[b] /\ owner # b]_vars
  <2> SUFFICES ASSUME Final, Next, committed # None
               PROVE  /\ committed' # None /\ committed <= committed'
                      /\ resetAt' = resetAt
                      /\ delivered' # delivered /\ delivered'[Len(delivered')] < committed =>
                           \E b \in Builders : /\ cur'[b] = Len(delivered')
                                               /\ assigned[b] /\ owner # b
    OBVIOUS
  <2>1. TypeOK /\ ReadsOn
    BY DEF Final, Typed
  <2>2. committed' # None /\ committed <= committed'
    <3>1. committed' = committed \/ \E b \in Builders : CommitStored(b)
      BY DEF Next, Loop, Publish, Deliver, Expire, Start, Join, Poll, SkipUnusable, UpdateBar,
             AutoCommit, Rebalance, Expel, LearnExpelled, Stop, Raise, Crash, Leave, broker
    <3>2. committed \in Nat
      BY <2>1 DEF TypeOK
    <3> QED
      BY <2>1, <3>1, <3>2, CommitAdvances
  <2>3. resetAt' = resetAt
    BY DEF Next, Loop, Publish, Deliver, Expire, Start, Join, Poll, SkipUnusable, UpdateBar,
           AutoCommit, Rebalance, Expel, LearnExpelled, Stop, Raise, Crash, history
  <2>4. ASSUME delivered' # delivered, delivered'[Len(delivered')] < committed
        PROVE  \E b \in Builders : cur'[b] = Len(delivered') /\ assigned[b] /\ owner # b
    <3>1. PICK b \in Builders : Poll(b)
      BY <2>4, OnlyPollDelivers
    <3>2. /\ delivered' = Append(delivered, pos[b]) /\ assigned[b]
          /\ cur' = [cur EXCEPT ![b] = Len(delivered) + 1]
      BY <3>1 DEF Poll
    <3>3. delivered \in Seq(DOMAIN log) /\ pos[b] \in DOMAIN log /\ pos[b] \in Nat
      BY <2>1, <3>1, LenProperties DEF TypeOK, Poll
    <3>4. Len(delivered') = Len(delivered) + 1 /\ delivered'[Len(delivered')] = pos[b]
      BY <3>2, <3>3
    <3>5. cur'[b] = Len(delivered')
      BY <2>1, <3>2, <3>4 DEF TypeOK
    <3>6. owner # b
      <4>1. committed \in Nat /\ b # None
        BY <2>1, NoneAssumption DEF TypeOK
      <4> QED
        BY <2>1, <2>4, <3>3, <3>4, <4>1 DEF ReadsOn
    <3> QED
      BY <3>2, <3>5, <3>6
  <2> QED
    BY <2>2, <2>3, <2>4
<1> QED
  BY <1>1, FinalInit, FinalStep, PTL DEF Spec, CommittedIsFinal
=============================================================================

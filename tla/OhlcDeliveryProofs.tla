------------------------- MODULE OhlcDeliveryProofs -------------------------
(***************************************************************************)
(* Proofs about which events reach the bars: how many a failure costs,     *)
(* that none is repeated or out of time where no builder dies, and that    *)
(* each bar is a ledger, for any widths, events, builders and bounds.      *)
(***************************************************************************)
EXTENDS OhlcLedger, OhlcBuilderProofs

USE DEF Intervals, Times, Positions, Resume, MoreIntervals, IntervalAt

-----------------------------------------------------------------------------
(* Where the group stands *)

\* The group stands between where it was last reset and the end of the log.
WithinLog ==
  /\ resetAt <= Len(log) + 1
  /\ committed # None => resetAt <= committed /\ committed <= Len(log) + 1
  /\ owner # None => resetAt <= pos[owner] /\ pos[owner] <= Len(log) + 1

Placed == Nested /\ ReadsOn /\ WithinLog

LEMMA PositionTyped ==
  ASSUME TypeOK, WithinLog
  PROVE  /\ Position \in Positions /\ resetAt <= Position /\ Position <= Len(log) + 1
         /\ Len(log) \in Nat
<1>1. Len(log) \in Nat
  BY LenProperties DEF TypeOK
<1> QED BY <1>1 DEF TypeOK, WithinLog, Position

LEMMA PositionStaysTyped ==
  ASSUME TypeOK'
  PROVE  Position' \in Positions
  BY DEF TypeOK, Position

\* A member leaves, commits or is fenced off: the group does not move forward.
LEMMA LeaveKeepsPosition ==
  ASSUME Placed, NEW b \in Builders, pos' = pos, resetAt' = resetAt,
         \/ owner' = owner /\ (CommitStored(b) \/ committed' = committed)
         \/ owner = b /\ owner' = None /\ (CommitStored(b) \/ committed' = committed)
  PROVE  /\ Position' <= Position
         /\ committed' # None => resetAt <= committed' /\ committed' <= Len(log) + 1
<1>1. TypeOK /\ ReadsOn /\ WithinLog
  BY DEF Placed, Nested, Typed
<1>2. /\ Position \in Positions /\ resetAt <= Position /\ Position <= Len(log) + 1
      /\ Len(log) \in Nat /\ None # b /\ resetAt \in Positions
  BY <1>1, PositionTyped, NoneAssumption DEF TypeOK
<1>3. CASE committed' = committed /\ owner' = owner
  BY <1>1, <1>2, <1>3 DEF Position, WithinLog
<1>4. CASE owner = b /\ committed' = committed /\ owner' = None
  BY <1>1, <1>2, <1>4 DEF Position, WithinLog, ReadsOn, TypeOK
<1>5. CASE owner = b /\ CommitStored(b)
  <2>1. Position = pos[b] /\ pos[b] \in Positions /\ (stored[b] # None => stored[b] = pos[b])
        /\ (committed # None => resetAt <= committed /\ committed <= pos[b])
    BY <1>1, <1>2, <1>5 DEF Position, ReadsOn, WithinLog, TypeOK
  <2>2. committed' # None => resetAt <= committed' /\ committed' <= pos[b]
    BY <1>2, <1>5, <2>1 DEF CommitStored
  <2>3. committed' \in Positions \cup {None}
    BY <1>1, <1>5, CommitTyped
  <2> QED BY <1>1, <1>2, <1>5, <2>1, <2>2, <2>3 DEF Position
<1>6. CASE owner # b /\ CommitStored(b)
  BY <1>3, <1>6 DEF CommitStored
<1> QED BY <1>3, <1>4, <1>5, <1>6

\* The steps that move nothing but members: the group goes on from where it was or
\* from the offset it has committed.
Settles(b) == AutoCommit(b) \/ Rebalance(b) \/ Expel(b) \/ Stop(b) \/ Raise(b) \/ Crash(b)

LEMMA SettleKeepsPosition ==
  ASSUME Placed, NEW b \in Builders, Settles(b)
  PROVE  /\ Position' <= Position
         /\ committed' # None => resetAt <= committed' /\ committed' <= Len(log) + 1
         /\ owner' \in {owner, None}
         /\ UNCHANGED <<log, pos, stored, firstAt, resetAt, delivered, applied, cur>>
<1>1. /\ UNCHANGED <<log, pos, stored, firstAt, resetAt, delivered, applied, cur>>
      /\ owner' \in {owner, None}
  BY DEF Settles, AutoCommit, Rebalance, Expel, Stop, Raise, Crash, Leave, history, reading
<1>2. \/ owner' = owner /\ (CommitStored(b) \/ committed' = committed)
      \/ owner = b /\ owner' = None /\ (CommitStored(b) \/ committed' = committed)
  BY DEF Settles, AutoCommit, Rebalance, Expel, Stop, Raise, Crash, Leave
<1> QED BY <1>1, <1>2, LeaveKeepsPosition

\* A member that joins reads on from the committed offset, or from the end of the log.
LEMMA JoinPosition ==
  ASSUME Placed, NEW b \in Builders, Join(b)
  PROVE  /\ WithinLog'
         /\ \/ Position' = Position /\ resetAt' = resetAt
            \/ Position' = resetAt'
<1>1. TypeOK /\ WithinLog /\ None \notin Builders
  BY NoneAssumption DEF Placed, Nested, Typed
<1>2. Position \in Positions /\ Position <= Len(log) + 1 /\ Len(log) \in Nat
  BY <1>1, PositionTyped
<1>3. /\ owner = None /\ owner' = b /\ pos'[b] = Resume(b)
      /\ UNCHANGED <<committed, log>>
      /\ resetAt' = IF committed = None THEN Len(log) + 1 ELSE resetAt
  BY <1>1 DEF Join, TypeOK
<1>4. Position' = Resume(b) /\ resetAt' <= Resume(b) /\ Resume(b) <= Len(log) + 1
  BY <1>1, <1>2, <1>3 DEF Position, WithinLog
<1>5. committed # None => Position = committed
  BY <1>3 DEF Position
<1>6. resetAt' <= Len(log) + 1
  BY <1>1, <1>2, <1>3 DEF WithinLog
<1> QED BY <1>1, <1>2, <1>3, <1>4, <1>5, <1>6 DEF WithinLog

\* The owner moves on by one message; one that was expelled does not move the group.
LEMMA ReadPosition ==
  ASSUME Placed, NEW b \in Builders, Poll(b) \/ SkipUnusable(b)
  PROVE  /\ WithinLog' /\ pos[b] \in DOMAIN log /\ UNCHANGED <<firstAt, resetAt, log>>
         /\ \/ owner = b /\ Position' = Position + 1 /\ Position = pos[b]
            \/ owner # b /\ Position' = Position
<1>1. TypeOK /\ WithinLog /\ None \notin Builders
  BY NoneAssumption DEF Placed, Nested, Typed
<1>2. Position \in Positions /\ Position <= Len(log) + 1 /\ Len(log) \in Nat
  BY <1>1, PositionTyped
<1>3. /\ pos' = [pos EXCEPT ![b] = @ + 1] /\ pos[b] <= Len(log)
      /\ UNCHANGED <<committed, log, owner, firstAt, resetAt>>
  BY <1>1 DEF Poll, SkipUnusable, broker, history
<1>4. DOMAIN log = 1..Len(log) /\ pos[b] \in Positions /\ resetAt \in Positions
  BY <1>1, LenProperties DEF TypeOK
<1>5. CASE owner = b
  <2>1. pos'[b] = pos[b] + 1
    BY <1>1, <1>3 DEF TypeOK
  <2> QED BY <1>1, <1>2, <1>3, <1>4, <1>5, <2>1 DEF Position, WithinLog
<1>6. CASE owner # b
  <2>1. owner # None => pos'[owner] = pos[owner]
    BY <1>1, <1>3, <1>6 DEF TypeOK
  <2> QED BY <1>1, <1>2, <1>3, <1>4, <1>6, <2>1 DEF Position, WithinLog
<1> QED BY <1>5, <1>6

\* The steps of producers, and of builders that neither read nor join or leave.
Still(b) == Start(b) \/ UpdateBar(b) \/ LearnExpelled(b)
Sending  == \E p \in Producers : Publish(p) \/ Deliver(p) \/ Expire(p)

LEMMA StillKeepsPosition ==
  ASSUME TypeOK, Sending \/ UNCHANGED vars \/ \E b \in Builders : Still(b)
  PROVE  /\ Position' = Position
         /\ UNCHANGED <<committed, owner, pos, stored, firstAt, resetAt, delivered, cur, aborts>>
         /\ Len(log) <= Len(log') /\ Len(log') \in Nat
         /\ \A n \in DOMAIN log : log'[n] = log[n]
<1>1. UNCHANGED <<committed, owner, pos, stored, firstAt, resetAt, delivered, cur, aborts>>
  BY DEF Sending, Publish, Deliver, Expire, Still, Start, UpdateBar, LearnExpelled, vars,
         broker, reading, history
<1>2. CASE log' = log
  <2>1. Len(log) \in Nat
    BY LenProperties DEF TypeOK
  <2> QED BY <1>1, <1>2, <2>1 DEF Position
<1>3. ASSUME NEW p \in Producers, Deliver(p)
      PROVE  /\ Len(log) <= Len(log') /\ Len(log') \in Nat
             /\ \A n \in DOMAIN log : log'[n] = log[n]
  <2>1. buffer[p] \in Seq(Messages) /\ buffer[p] # << >> /\ log' = Append(log, Head(buffer[p]))
    BY <1>3 DEF TypeOK, Deliver
  <2>2. Head(buffer[p]) \in Messages
    BY <2>1, HeadTailProperties
  <2>3. Len(log) \in Nat
    BY LenProperties DEF TypeOK
  <2> QED BY <2>1, <2>2, <2>3, LogGrows
<1> QED
  BY <1>1, <1>2, <1>3
  DEF Position, Sending, Publish, Expire, Still, Start, UpdateBar, LearnExpelled, vars, broker

LEMMA PlacedStep == Placed /\ [Next]_vars => Placed'
<1> SUFFICES ASSUME Placed, [Next]_vars PROVE WithinLog'
  BY NestedStep, FinalStep DEF Placed, Final, Nested
<1>1. TypeOK /\ WithinLog
  BY DEF Placed, Nested, Typed
<1>2. Len(log) \in Nat
  BY <1>1, LenProperties DEF TypeOK
<1>3. CASE Sending \/ UNCHANGED vars \/ \E b \in Builders : Still(b)
  BY <1>1, <1>2, <1>3, StillKeepsPosition DEF WithinLog, TypeOK
<1>4. ASSUME NEW b \in Builders, Settles(b) PROVE WithinLog'
  BY <1>1, <1>4, SettleKeepsPosition DEF WithinLog
<1> QED BY <1>3, <1>4, JoinPosition, ReadPosition DEF Next, Loop, Settles, Still, Sending

LEMMA PlacedInit == Init => Placed
<1>1. Init => ReadsOn /\ WithinLog
  <2> SUFFICES ASSUME Init PROVE ReadsOn /\ WithinLog
    OBVIOUS
  <2>1. Len(log) = 0
    BY EmptySeq DEF Init
  <2> QED BY <2>1 DEF Init, ReadsOn, WithinLog
<1> QED BY <1>1, NestedInit DEF Placed

-----------------------------------------------------------------------------
(* Each failure costs at most the event in hand *)

\* The messages that were handed out and are neither complete nor in hand.
Aborted == {n \in DOMAIN log : HandedOut(n) /\ ~Complete(n) /\ ~InHand(n)}

\* Since it was last reset the group has read past no usable message unseen.
Handed == \A n \in resetAt..(Position - 1) : log[n].usable => HandedOut(n)

\* What is lost and was not skipped was handed out and cut short.
LEMMA LostWasAborted ==
  ASSUME Placed, Handed
  PROVE  Lost \ Skipped \subseteq Aborted
<1>1. TypeOK /\ Position \in Positions /\ Position <= Len(log) + 1 /\ Len(log) \in Nat
  BY PositionTyped DEF Placed, Nested, Typed
<1>2. DOMAIN log = 1..Len(log) /\ resetAt \in Positions /\ firstAt \in Positions
  BY <1>1, LenProperties DEF TypeOK
<1> SUFFICES ASSUME NEW n \in Lost, n \notin Skipped PROVE n \in Aborted
  OBVIOUS
<1>3. n \in firstAt..(Position - 1) /\ log[n].usable /\ ~Complete(n) /\ ~InHand(n)
  BY DEF Lost
<1>4. n \in DOMAIN log /\ (n \in firstAt..(resetAt - 1) \/ n \in resetAt..(Position - 1))
  BY <1>1, <1>2, <1>3
<1>5. HandedOut(n)
  BY <1>3, <1>4 DEF Skipped, Handed
<1> QED BY <1>3, <1>4, <1>5 DEF Aborted

\* What is handed out stays in hand or becomes complete, but for the messages X.
LEMMA AbortedGrowsBy ==
  ASSUME TypeOK, NEW X,
         \A n : Complete(n) => Complete(n)',
         \A n : HandedOut(n)' => HandedOut(n) \/ InHand(n)',
         \A n : InHand(n) => InHand(n)' \/ Complete(n)' \/ n \in X
  PROVE  Aborted' \subseteq Aborted \cup X
<1> SUFFICES ASSUME NEW n \in Aborted', n \notin X PROVE n \in Aborted
  OBVIOUS
<1>1. HandedOut(n) /\ ~Complete(n) /\ ~InHand(n)
  BY DEF Aborted
<1>2. n \in DOMAIN log
  BY <1>1, InHandTyped DEF HandedOut
<1> QED BY <1>1, <1>2 DEF Aborted

\* What a delivery under way becomes: the last bar makes it complete.
LEMMA UpdateCompletes ==
  ASSUME Placed, NEW b \in Builders, UpdateBar(b)
  PROVE  /\ \A n : Complete(n) => Complete(n)'
         /\ \A n : InHand(n) => InHand(n)' \/ Complete(n)'
<1>0. TypeOK /\ Busy /\ InHandOnce
  BY DEF Placed, Nested, Typed
<1>1. /\ pc[b] = "bars" /\ UNCHANGED <<cur, delivered>> /\ NextInterval(b)
      /\ applied' = [applied EXCEPT ![step[b]] = @ \cup {cur[b]}]
  BY DEF UpdateBar, history
<1>2. Intervals = 1..Len(Widths) /\ Len(Widths) \in Nat /\ step[b] \in Intervals
  BY <1>0, WidthsAssumption, LenProperties DEF TypeOK
<1>3. \A k \in Intervals : applied'[k] = IF k = step[b] THEN applied[k] \cup {cur[b]} ELSE applied[k]
  BY <1>0, <1>1 DEF TypeOK
<1>4. \A n : Complete(n) => Complete(n)'
  BY <1>1, <1>3 DEF Complete
<1>5. \A c \in Builders : pc[c] = "bars" => pc'[c] = "bars" \/ (c = b /\ ~MoreIntervals(b))
  BY <1>0, <1>1 DEF NextInterval, TypeOK
<1>6. ASSUME ~MoreIntervals(b) PROVE Complete(delivered[cur[b]])'
  <2>1. \A k \in Intervals : k # step[b] => k < step[b]
    BY <1>2, <1>6
  <2>2. \A k \in Intervals : cur[b] \in applied'[k]
    BY <1>0, <1>1, <1>3, <2>1 DEF InHandOnce
  <2>3. cur[b] \in DOMAIN delivered
    BY <1>0, <1>1 DEF Busy
  <2>4. cur'[b] = cur[b] /\ delivered' = delivered
    BY <1>1
  <2> QED BY <2>2, <2>3, <2>4 DEF Complete
<1>7. ASSUME NEW n, InHand(n) PROVE InHand(n)' \/ Complete(n)'
  <2>1. PICK c \in Builders : pc[c] = "bars" /\ delivered[cur[c]] = n
    BY <1>7 DEF InHand
  <2>2. CASE pc'[c] = "bars"
    BY <1>1, <2>1, <2>2 DEF InHand
  <2>3. CASE c = b /\ ~MoreIntervals(b)
    <3>1. delivered[cur[b]] = n /\ cur'[b] = cur[b] /\ delivered' = delivered
      BY <1>1, <2>1, <2>3
    <3> QED BY <1>6, <2>3, <3>1 DEF Complete
  <2> QED BY <1>5, <2>1, <2>2, <2>3
<1> QED BY <1>4, <1>7

\* A message that is read is in hand, or of no use.
LEMMA ReadIsInHand ==
  ASSUME Placed, NEW b \in Builders, Poll(b) \/ SkipUnusable(b)
  PROVE  /\ Aborted' \subseteq Aborted
         /\ \A n : HandedOut(n) => HandedOut(n)'
         /\ \A n : n = pos[b] /\ log[n].usable => HandedOut(n)'
<1>0. TypeOK /\ Busy /\ pc[b] = "poll"
  BY DEF Placed, Nested, Typed, Poll, SkipUnusable
<1>1. pos[b] \in DOMAIN log /\ log' = log
  BY ReadPosition
<1>2. /\ Len(delivered) \in Nat /\ DOMAIN delivered = 1..Len(delivered)
      /\ delivered \in Seq(DOMAIN log) /\ pc \in [Builders -> {"down", "poll", "bars"}]
  BY <1>0, LenProperties DEF TypeOK
<1>3. \/ UNCHANGED <<delivered, cur, pc, applied>> /\ ~log[pos[b]].usable
      \/ /\ delivered' = Append(delivered, pos[b]) /\ applied' = applied
         /\ cur' = [cur EXCEPT ![b] = Len(delivered) + 1] /\ pc' = [pc EXCEPT ![b] = "bars"]
  BY DEF Poll, SkipUnusable, history
<1>4. \A d \in DOMAIN delivered : d \in DOMAIN delivered' /\ delivered'[d] = delivered[d]
  <2>1. CASE delivered' = Append(delivered, pos[b])
    <3>1. DOMAIN delivered' = 1..(Len(delivered) + 1)
          /\ \A d \in 1..Len(delivered) : delivered'[d] = delivered[d]
      BY <1>1, <1>2, <2>1
    <3> QED BY <1>2, <3>1
  <2> QED BY <1>3, <2>1
<1>5. \A n : (Complete(n) => Complete(n)') /\ (HandedOut(n) => HandedOut(n)')
  <2>1. applied' = applied
    BY <1>3
  <2> QED BY <1>4, <2>1 DEF Complete, HandedOut
<1>6. ASSUME NEW n, InHand(n) PROVE InHand(n)'
  <2>1. PICK c \in Builders : pc[c] = "bars" /\ delivered[cur[c]] = n
    BY <1>6 DEF InHand
  <2>2. cur[c] \in DOMAIN delivered /\ c # b
    BY <1>0, <2>1 DEF Busy
  <2>3. pc'[c] = "bars" /\ cur'[c] = cur[c]
    BY <1>0, <1>2, <1>3, <2>1, <2>2 DEF TypeOK
  <2> QED BY <1>4, <2>1, <2>2, <2>3 DEF InHand
<1>7. PICK m \in DOMAIN log : m = pos[b]
  BY <1>1
<1>8. /\ \A n : HandedOut(n)' => HandedOut(n) \/ InHand(n)'
      /\ log[m].usable => HandedOut(m)'
  <2>1. CASE delivered' = Append(delivered, m) /\ cur' = [cur EXCEPT ![b] = Len(delivered) + 1]
             /\ pc' = [pc EXCEPT ![b] = "bars"]
    <3>1. /\ DOMAIN delivered' = 1..(Len(delivered) + 1) /\ delivered'[Len(delivered) + 1] = m
          /\ Len(delivered) + 1 \in DOMAIN delivered'
      BY <1>2, <1>7, <2>1
    <3>2. cur'[b] = Len(delivered) + 1 /\ pc'[b] = "bars"
      BY <1>0, <2>1 DEF TypeOK
    <3>3. InHand(m)' /\ HandedOut(m)'
      BY <3>1, <3>2 DEF InHand, HandedOut
    <3>4. ASSUME NEW d \in DOMAIN delivered'
          PROVE  d \in DOMAIN delivered \/ delivered'[d] = m
      BY <1>2, <3>1
    <3>5. \A n : HandedOut(n)' => HandedOut(n) \/ n = m
      BY <1>4, <3>4 DEF HandedOut
    <3> QED BY <3>3, <3>5
  <2>2. CASE delivered' = delivered /\ ~log[m].usable
    BY <2>2 DEF HandedOut
  <2> QED BY <1>3, <1>7, <2>1, <2>2
<1>9. Aborted' \subseteq Aborted \cup {}
  BY <1>0, <1>5, <1>6, <1>8, AbortedGrowsBy
<1> QED BY <1>5, <1>7, <1>8, <1>9

LEMMA SettleAborts ==
  ASSUME Placed, NEW b \in Builders, Settles(b)
  PROVE  \/ Aborted' \subseteq Aborted /\ aborts' \in {aborts, aborts + 1}
         \/ Aborted' \subseteq Aborted \cup {delivered[cur[b]]} /\ aborts' = aborts + 1
<1>0. TypeOK
  BY DEF Placed, Nested, Typed
<1>1. UNCHANGED <<log, pos, resetAt, delivered, applied, cur>>
  BY SettleKeepsPosition
<1>2. \A n : Complete(n)' = Complete(n) /\ HandedOut(n)' = HandedOut(n)
  BY <1>1 DEF Complete, HandedOut
<1>3. \A c \in Builders \ {b} : pc'[c] = pc[c]
  BY <1>0 DEF Settles, AutoCommit, Rebalance, Expel, Stop, Raise, Crash, Leave, TypeOK
<1>4. CASE pc[b] = "bars" => pc'[b] = "bars"
  <2>1. \A n : InHand(n) => InHand(n)'
    BY <1>1, <1>3, <1>4 DEF InHand
  <2>2. Aborted' \subseteq Aborted \cup {}
    BY <1>0, <1>2, <2>1, AbortedGrowsBy
  <2>3. aborts' \in {aborts, aborts + 1}
    BY DEF Settles, AutoCommit, Rebalance, Expel, Stop, Raise, Crash, history
  <2> QED BY <2>2, <2>3
<1>5. CASE pc[b] = "bars" /\ pc'[b] # "bars"
  <2>1. \A n : InHand(n) => InHand(n)' \/ n \in {delivered[cur[b]]}
    BY <1>1, <1>3 DEF InHand
  <2>2. Aborted' \subseteq Aborted \cup {delivered[cur[b]]}
    BY <1>0, <1>2, <2>1, AbortedGrowsBy
  <2>3. aborts' = aborts + 1
    BY <1>5 DEF Settles, AutoCommit, Rebalance, Expel, Stop, Raise, Crash, history
  <2> QED BY <2>2, <2>3
<1> QED BY <1>4, <1>5

LEMMA StillAbortsNothing ==
  ASSUME Placed, Sending \/ UNCHANGED vars \/ \E b \in Builders : Still(b) \/ Join(b)
  PROVE  Aborted' \subseteq Aborted /\ aborts' = aborts
<1>0. TypeOK
  BY DEF Placed, Nested, Typed
<1>1. UNCHANGED <<delivered, cur, aborts>>
  BY <1>0, StillKeepsPosition DEF Join
<1>2. \A n : HandedOut(n)' = HandedOut(n)
  BY <1>1 DEF HandedOut
<1>3. CASE \E b \in Builders : UpdateBar(b)
  <2>1. Aborted' \subseteq Aborted \cup {}
    BY <1>0, <1>2, <1>3, UpdateCompletes, AbortedGrowsBy
  <2> QED BY <1>1, <2>1
<1>4. CASE Sending \/ UNCHANGED vars \/ \E b \in Builders : Start(b) \/ LearnExpelled(b) \/ Join(b)
  <2>1. applied' = applied /\ \A b \in Builders : pc[b] = "bars" => pc'[b] = "bars"
    BY <1>0, <1>4 DEF Sending, Publish, Deliver, Expire, Start, LearnExpelled, Join, vars,
                      history, TypeOK
  <2>2. \A n : (Complete(n) => Complete(n)') /\ (InHand(n) => InHand(n)')
    BY <1>1, <2>1 DEF Complete, InHand
  <2>3. Aborted' \subseteq Aborted \cup {}
    BY <1>0, <1>2, <2>2, AbortedGrowsBy
  <2> QED BY <1>1, <2>3
<1> QED BY <1>3, <1>4 DEF Still

\* Only the raise or the death of a builder cuts a delivery short: at most the one it
\* has in hand, and it is counted.
LEMMA AbortStep ==
  ASSUME Placed, [Next]_vars
  PROVE  \/ Aborted' \subseteq Aborted /\ aborts' \in {aborts, aborts + 1}
         \/ \E n : Aborted' \subseteq Aborted \cup {n} /\ aborts' = aborts + 1
<1>1. ASSUME NEW b \in Builders, Poll(b) \/ SkipUnusable(b) PROVE aborts' = aborts
  BY <1>1 DEF Poll, SkipUnusable, history
<1> QED
  BY <1>1, ReadIsInHand, SettleAborts, StillAbortsNothing
  DEF Next, Loop, Settles, Still, Sending

LEMMA Shorter ==
  ASSUME NEW a \in Positions, NEW p \in Int, NEW q \in Int, NEW len \in Nat,
         p <= q, q <= len + 1, NEW m \in a..(p - 1)
  PROVE  m \in a..(q - 1) /\ m \in 1..len
  OBVIOUS

LEMMA NothingBetween ==
  ASSUME NEW p \in Positions, NEW q \in Positions, p = q PROVE p..(q - 1) = {}
  BY DEF Positions

LEMMA HandedStep ==
  ASSUME Placed, Placed', Handed, [Next]_vars
  PROVE  Handed'
<1>0. TypeOK /\ WithinLog
  BY DEF Placed, Nested, Typed
<1>1. /\ Position \in Positions /\ Position <= Len(log) + 1 /\ Len(log) \in Nat
      /\ resetAt \in Positions /\ DOMAIN log = 1..Len(log)
  BY <1>0, PositionTyped, LenProperties DEF TypeOK
<1>2. Position' \in Positions
  BY PositionStaysTyped DEF Placed, Nested, Typed
<1>3. ASSUME Position' <= Position, resetAt' = resetAt,
             \A n \in DOMAIN log : log'[n] = log[n],
             \A n : HandedOut(n) => HandedOut(n)'
      PROVE  Handed'
  <2>1. Position' \in Int /\ Position \in Int
    BY <1>1, <1>2
  <2>2. ASSUME NEW n \in resetAt..(Position' - 1)
        PROVE  n \in resetAt..(Position - 1) /\ n \in DOMAIN log
    <3>1. n \in resetAt..(Position - 1) /\ n \in 1..Len(log)
      BY <1>1, <1>3, <2>1, Shorter
    <3> QED BY <1>1, <3>1
  <2> QED BY <1>3, <2>2 DEF Handed
<1>4. CASE Sending \/ UNCHANGED vars \/ \E b \in Builders : Still(b)
  <2>1. /\ Position' = Position /\ resetAt' = resetAt /\ delivered' = delivered
        /\ \A n \in DOMAIN log : log'[n] = log[n]
    BY <1>0, <1>4, StillKeepsPosition
  <2>2. \A n : HandedOut(n) => HandedOut(n)'
    BY <2>1 DEF HandedOut
  <2> QED BY <1>1, <1>3, <2>1, <2>2
<1>5. ASSUME NEW b \in Builders, Settles(b) PROVE Handed'
  <2>1. Position' <= Position /\ UNCHANGED <<log, resetAt, delivered>>
    BY <1>5, SettleKeepsPosition
  <2>2. \A n : HandedOut(n) => HandedOut(n)'
    BY <2>1 DEF HandedOut
  <2> QED BY <1>3, <2>1, <2>2
<1>6. ASSUME NEW b \in Builders, Join(b) PROVE Handed'
  <2>1. UNCHANGED <<log, delivered>>
    BY <1>6 DEF Join
  <2>2. CASE Position' = Position /\ resetAt' = resetAt
    <3>1. \A n : HandedOut(n) => HandedOut(n)'
      BY <2>1 DEF HandedOut
    <3>2. Position' <= Position
      BY <1>1, <2>2
    <3> QED BY <1>3, <2>1, <2>2, <3>1, <3>2
  <2>3. CASE Position' = resetAt'
    <3>1. Position' \in Positions /\ resetAt' \in Positions
      BY <1>2, <2>3
    <3>2. resetAt'..(Position' - 1) = {}
      BY <2>3, <3>1, NothingBetween
    <3> QED BY <3>2 DEF Handed
  <2> QED BY <1>6, <2>2, <2>3, JoinPosition
<1>7. ASSUME NEW b \in Builders, Poll(b) \/ SkipUnusable(b) PROVE Handed'
  <2>1. /\ pos[b] \in DOMAIN log /\ UNCHANGED <<resetAt, log>>
        /\ \/ owner = b /\ Position' = Position + 1 /\ Position = pos[b]
           \/ owner # b /\ Position' = Position
    BY <1>7, ReadPosition
  <2>2. /\ \A n : HandedOut(n) => HandedOut(n)'
        /\ \A n : n = pos[b] /\ log[n].usable => HandedOut(n)'
    BY <1>7, ReadIsInHand
  <2>3. CASE Position' = Position
    <3>1. Position' <= Position
      BY <1>1, <2>3
    <3> QED BY <1>3, <2>1, <2>2, <3>1
  <2>4. CASE Position' = Position + 1 /\ Position = pos[b]
    <3>1. PICK q \in Positions : q = Position
      BY <1>1
    <3>2. \A n \in resetAt..((q + 1) - 1) : n \in resetAt..(q - 1) \/ n = q
      BY <1>1
    <3> QED BY <2>1, <2>2, <2>4, <3>1, <3>2 DEF Handed
  <2> QED BY <2>1, <2>3, <2>4
<1> QED BY <1>4, <1>5, <1>6, <1>7 DEF Next, Loop, Settles, Still, Sending

LEMMA HandedInit == Init => Handed
<1> SUFFICES ASSUME Init PROVE Handed
  OBVIOUS
<1>1. Position = 1 /\ resetAt = 1
  BY DEF Init, Position
<1> QED BY <1>1 DEF Handed

LEMMA PlacedAlways == Spec => [](Placed /\ Handed)
<1>1. Init => Placed /\ Handed
  BY PlacedInit, HandedInit
<1>2. Placed /\ Handed /\ [Next]_vars => Placed' /\ Handed'
  BY PlacedStep, HandedStep
<1> QED BY <1>1, <1>2, PTL DEF Spec

\* However often builders are restarted, expelled or die, and the database fails, the
\* events that the group has read past without all their bars are at most as many as
\* the deliveries that were cut short, but for those that a member went past unread
\* because it joined when nothing was committed.
THEOREM LossIsBounded == Spec => []LossBounded
<1> DEFINE Bounded == IsFiniteSet(Aborted) /\ Cardinality(Aborted) <= aborts
<1>1. Init => Bounded
  <2> SUFFICES ASSUME Init PROVE Bounded
    OBVIOUS
  <2>1. DOMAIN delivered = {} /\ aborts = 0
    BY DEF Init
  <2>2. Aborted = {}
    BY <2>1 DEF Aborted, HandedOut
  <2> QED BY <2>1, <2>2, FS_EmptySet
<1>2. ASSUME Placed, Bounded, [Next]_vars PROVE Bounded'
  <2>1. aborts \in Nat /\ Cardinality(Aborted) \in Nat
    BY <1>2, FS_CardinalityType DEF Placed, Nested, Typed, TypeOK
  <2>2. CASE Aborted' \subseteq Aborted /\ aborts' \in {aborts, aborts + 1}
    <3>1. IsFiniteSet(Aborted') /\ Cardinality(Aborted') <= Cardinality(Aborted)
      BY <1>2, <2>2, FS_Subset
    <3>2. Cardinality(Aborted') \in Nat
      BY <3>1, FS_CardinalityType
    <3> QED BY <1>2, <2>1, <2>2, <3>1, <3>2
  <2>3. ASSUME NEW n, Aborted' \subseteq Aborted \cup {n}, aborts' = aborts + 1 PROVE Bounded'
    <3>1. IsFiniteSet(Aborted \cup {n}) /\ Cardinality(Aborted \cup {n}) <= Cardinality(Aborted) + 1
      BY <1>2, <2>1, FS_AddElement
    <3>2. IsFiniteSet(Aborted') /\ Cardinality(Aborted') <= Cardinality(Aborted \cup {n})
      BY <2>3, <3>1, FS_Subset
    <3>3. Cardinality(Aborted') \in Nat /\ Cardinality(Aborted \cup {n}) \in Nat
      BY <3>1, <3>2, FS_CardinalityType
    <3> QED BY <1>2, <2>1, <2>3, <3>1, <3>2, <3>3
  <2> QED BY <1>2, <2>2, <2>3, AbortStep
<1>3. Placed /\ Handed /\ Bounded => LossBounded
  <2> SUFFICES ASSUME Placed, Handed, Bounded PROVE LossBounded
    OBVIOUS
  <2>1. /\ IsFiniteSet(Lost \ Skipped)
        /\ Cardinality(Lost \ Skipped) <= Cardinality(Aborted)
    BY LostWasAborted, FS_Subset
  <2>2. /\ Cardinality(Lost \ Skipped) \in Nat /\ Cardinality(Aborted) \in Nat
        /\ aborts \in Nat
    BY <2>1, FS_CardinalityType DEF Placed, Nested, Typed, TypeOK
  <2> QED BY <2>1, <2>2 DEF LossBounded
<1> HIDE DEF Bounded
<1> QED BY <1>1, <1>2, <1>3, PlacedAlways, PTL DEF Spec

-----------------------------------------------------------------------------
(* Without a death or an expulsion: in order and once *)

\* Only the owner has an event in hand, the last one delivered; messages are
\* delivered in the order of the log and stay behind the group's position; and a
\* member that has stored no offset since it joined has nothing to commit.
Orderly ==
  /\ \A b \in Builders : assigned[b] => owner = b
  /\ \A b \in Builders : pc[b] = "bars" => owner = b /\ cur[b] = Len(delivered)
  /\ \A d, e \in DOMAIN delivered : d < e => delivered[d] < delivered[e]
  /\ \A d \in DOMAIN delivered : delivered[d] < Position
  /\ owner # None /\ stored[owner] = None =>
       IF committed = None THEN DOMAIN delivered = {} ELSE pos[owner] = committed
  /\ owner = None /\ committed = None => DOMAIN delivered = {}

Graceful == Placed /\ Orderly

LEMMA OrderlyInit == Init => Orderly
  BY DEF Init, Orderly

\* Members that commit, or leave in good order.
LEMMA SettleOrderly ==
  ASSUME Graceful, Placed', Faults \cap {"crash", "expel"} = {}, NEW b \in Builders, Settles(b)
  PROVE  Orderly'
<1>0. TypeOK /\ ReadsOn /\ Orderly /\ None \notin Builders
  BY NoneAssumption DEF Graceful, Placed, Nested, Typed
<1>1. AutoCommit(b) \/ Rebalance(b) \/ Stop(b) \/ Raise(b)
  BY DEF Settles, Expel, Crash
<1>2. UNCHANGED <<pos, stored, cur, delivered, resetAt>> /\ CommitStored(b)
  BY <1>1 DEF AutoCommit, Rebalance, Stop, Raise, Leave, history, reading
<1>6. \A c \in Builders : assigned'[c] => assigned[c] /\ owner' = owner
  <2>1. assigned' = assigned \/ assigned' = [assigned EXCEPT ![b] = FALSE]
    BY <1>1 DEF AutoCommit, Rebalance, Stop, Raise, Leave, reading
  <2>2. owner' = owner \/ (owner = b /\ assigned' = [assigned EXCEPT ![b] = FALSE])
    BY <1>1 DEF AutoCommit, Rebalance, Stop, Raise, Leave
  <2>3. \A c \in Builders : assigned'[c] => assigned[c]
    BY <1>0, <2>1, Zenon DEF TypeOK
  <2>4. CASE owner = b /\ assigned' = [assigned EXCEPT ![b] = FALSE]
    <3>1. ~assigned'[b]
      BY <1>0, <2>4, Zenon DEF TypeOK
    <3>2. \A c \in Builders : assigned[c] => c = b
      BY <1>0, <2>4, Zenon DEF Orderly
    <3> QED BY <2>3, <3>1, <3>2, Zenon
  <2> QED BY <2>2, <2>3, <2>4, Zenon
<1>7. \A c \in Builders : pc'[c] = "bars" => pc[c] = "bars"
  <2>1. pc' = pc \/ pc' = [pc EXCEPT ![b] = "down"]
    BY <1>1 DEF AutoCommit, Rebalance, Stop, Raise, Leave
  <2>2. pc \in [Builders -> {"down", "poll", "bars"}]
    BY <1>0 DEF TypeOK
  <2>3. CASE pc' = [pc EXCEPT ![b] = "down"]
    BY <2>2, <2>3
  <2> QED BY <2>1, <2>3
<1>3. CASE owner # b
  <2>1. committed' = committed /\ owner' = owner
    BY <1>1, <1>2, <1>3 DEF CommitStored, AutoCommit, Rebalance, Stop, Raise, Leave
  <2>2. Position' = Position
    BY <1>2, <2>1 DEF Position
  <2> QED BY <1>0, <1>2, <1>6, <1>7, <2>1, <2>2 DEF Orderly
<1>4. CASE owner = b
  <2>1. Position = pos[b] /\ (stored[b] # None => stored[b] = pos[b])
    BY <1>0, <1>4 DEF Position, ReadsOn
  <2>2. committed' = pos[b] \/ (committed' = None /\ DOMAIN delivered = {})
    BY <1>0, <1>2, <1>4, <2>1 DEF Orderly, CommitStored
  <2>3. owner' = None \/ (owner' = b /\ stored[b] # None)
    BY <1>1, <1>4 DEF AutoCommit, Rebalance, Stop, Raise, Leave
  <2>4. Position' = Position \/ DOMAIN delivered = {}
    <3>1. pos[b] # None /\ b # None
      BY <1>0, NoneAssumption DEF TypeOK
    <3>2. CASE owner' = None
      BY <2>1, <2>2, <3>1, <3>2 DEF Position
    <3>3. CASE owner' = b
      BY <1>2, <2>1, <3>1, <3>3 DEF Position
    <3> QED BY <2>3, <3>2, <3>3
  <2>5. \A c \in Builders : pc'[c] = "bars" => pc[c] = "bars" /\ owner' = b /\ c = b
    <3>1. \A c \in Builders : pc[c] = "bars" => c = b
      BY <1>0, <1>4 DEF Orderly
    <3>2. owner' = None => pc'[b] # "bars"
      BY <1>0, <1>1, <1>4 DEF AutoCommit, Rebalance, Stop, Raise, Leave, TypeOK
    <3> QED BY <1>7, <2>3, <3>1, <3>2
  <2>6. owner' = None /\ committed' = None => DOMAIN delivered' = {}
    BY <1>0, <1>2, <2>2, NoneAssumption DEF TypeOK
  <2> QED BY <1>0, <1>2, <1>6, <2>3, <2>4, <2>5, <2>6 DEF Orderly
<1> QED BY <1>3, <1>4

LEMMA JoinOrderly ==
  ASSUME Graceful, Placed', NEW b \in Builders, Join(b)
  PROVE  Orderly'
<1>0. TypeOK /\ Orderly /\ None \notin Builders
  BY NoneAssumption DEF Graceful, Placed, Nested, Typed
<1>1. /\ owner = None /\ owner' = b /\ pos'[b] = Resume(b) /\ stored'[b] = None
      /\ UNCHANGED <<committed, log, pc, cur, delivered>>
  BY <1>0 DEF Join, TypeOK
<1>2. committed = None => DOMAIN delivered = {}
  BY <1>0, <1>1 DEF Orderly
<1>5. \A c \in Builders : assigned'[c] => c = b
  <2>1. assigned' = [assigned EXCEPT ![b] = TRUE]
    BY DEF Join
  <2>2. \A c \in Builders : ~assigned[c]
    BY <1>0, <1>1, Zenon DEF Orderly
  <2> QED BY <1>0, <2>1, <2>2, Zenon DEF TypeOK
<1>3. committed # None => Position' = Position
  BY <1>0, <1>1 DEF Position
<1>4. \A c \in Builders : pc[c] # "bars"
  BY <1>0, <1>1 DEF Orderly
<1> QED BY <1>0, <1>1, <1>2, <1>3, <1>4, <1>5 DEF Orderly

LEMMA ReadOrderly ==
  ASSUME Graceful, Placed', NEW b \in Builders, Poll(b) \/ SkipUnusable(b)
  PROVE  Orderly'
<1>0. TypeOK /\ Orderly /\ None \notin Builders /\ owner = b /\ pc[b] = "poll"
  <2>1. TypeOK /\ Orderly /\ None \notin Builders /\ assigned[b] /\ pc[b] = "poll"
    BY NoneAssumption DEF Graceful, Placed, Nested, Typed, Poll, SkipUnusable
  <2> QED BY <2>1, Zenon DEF Orderly
<1>1. PICK q \in Nat : Position' = q + 1 /\ Position = q /\ pos[b] = q /\ q \in DOMAIN log
  BY <1>0, ReadPosition, PositionTyped DEF Graceful, Placed
<1>7. owner' = owner /\ assigned' = assigned
  BY DEF Poll, SkipUnusable, broker
<1>2. /\ Len(delivered) \in Nat /\ DOMAIN delivered = 1..Len(delivered)
      /\ delivered \in Seq(DOMAIN log)
  BY <1>0, LenProperties DEF TypeOK
<1>3. \A c \in Builders : pc[c] # "bars"
  BY <1>0 DEF Orderly
<1>4. owner' = b /\ stored'[b] # None
  <2>1. stored'[b] = pos[b] + 1 /\ owner' = owner
    BY <1>0 DEF Poll, SkipUnusable, broker, TypeOK
  <2> QED BY <1>0, <1>1, <2>1, NoneAssumption
<1>5. CASE SkipUnusable(b)
  <2>1. UNCHANGED <<delivered, pc, cur>>
    BY <1>5 DEF SkipUnusable, history
  <2>2. \A d \in DOMAIN delivered : delivered[d] \in Nat
    <3>1. DOMAIN log \subseteq Nat
      BY <1>0, LenProperties DEF TypeOK
    <3> QED BY <1>2, <3>1, ElementOfSeq
  <2>3. \A d \in DOMAIN delivered' : delivered'[d] < Position'
    BY <1>0, <1>1, <2>1, <2>2 DEF Orderly
  <2> QED BY <1>0, <1>3, <1>4, <1>7, <2>1, <2>3 DEF Orderly
<1>6. CASE Poll(b)
  <2>1. /\ delivered' = Append(delivered, q) /\ cur' = [cur EXCEPT ![b] = Len(delivered) + 1]
        /\ pc' = [pc EXCEPT ![b] = "bars"]
    BY <1>1, <1>6 DEF Poll
  <2>2. /\ Len(delivered') = Len(delivered) + 1 /\ DOMAIN delivered' = 1..(Len(delivered) + 1)
        /\ delivered'[Len(delivered) + 1] = q
        /\ \A d \in 1..Len(delivered) : delivered'[d] = delivered[d]
    BY <1>1, <1>2, <2>1
  <2>3. \A d \in 1..Len(delivered) : delivered[d] \in Nat /\ delivered[d] < q
    <3>1. DOMAIN log \subseteq Nat
      BY <1>0, LenProperties DEF TypeOK
    <3>2. \A d \in 1..Len(delivered) : delivered[d] \in DOMAIN log
      BY <1>2, ElementOfSeq
    <3> QED BY <1>0, <1>1, <1>2, <3>1, <3>2 DEF Orderly
  <2>4. \A c \in Builders : pc'[c] = "bars" => c = b /\ cur'[c] = Len(delivered')
    BY <1>0, <1>3, <2>1, <2>2 DEF TypeOK
  <2>5. \A d \in DOMAIN delivered' : delivered'[d] < Position'
    BY <1>1, <1>2, <2>2, <2>3
  <2>6. ASSUME NEW d \in DOMAIN delivered', NEW e \in DOMAIN delivered', d < e
        PROVE  delivered'[d] < delivered'[e]
    <3>1. d \in 1..Len(delivered)
      BY <1>2, <2>2, <2>6
    <3>2. CASE e \in 1..Len(delivered)
      BY <1>0, <1>2, <2>2, <2>6, <3>1, <3>2 DEF Orderly
    <3>3. CASE e = Len(delivered) + 1
      BY <2>2, <2>3, <3>1, <3>3
    <3> QED BY <1>2, <2>2, <3>2, <3>3
  <2> QED BY <1>0, <1>4, <1>7, <2>4, <2>5, <2>6 DEF Orderly
<1> QED BY <1>5, <1>6

LEMMA StillOrderly ==
  ASSUME Graceful, Sending \/ UNCHANGED vars \/ \E b \in Builders : Still(b)
  PROVE  Orderly'
<1>0. TypeOK /\ Orderly
  BY DEF Graceful, Placed, Nested, Typed
<1>1. /\ Position' = Position
      /\ UNCHANGED <<committed, owner, pos, stored, delivered, cur>>
  BY <1>0, StillKeepsPosition
<1>2. \A b \in Builders : pc'[b] = "bars" => pc[b] = "bars"
  BY <1>0 DEF Sending, Publish, Deliver, Expire, Still, Start, UpdateBar, LearnExpelled,
              NextInterval, vars, TypeOK
<1>3. \A b \in Builders : assigned'[b] => assigned[b]
  <2>1. assigned' = assigned \/ \E c \in Builders : assigned' = [assigned EXCEPT ![c] = FALSE]
    BY DEF Sending, Publish, Deliver, Expire, Still, Start, UpdateBar, LearnExpelled, vars, reading
  <2> QED BY <1>0, <2>1, Zenon DEF TypeOK
<1> QED BY <1>0, <1>1, <1>2, <1>3 DEF Orderly

LEMMA GracefulAlways ==
  ASSUME Faults \cap {"crash", "expel"} = {}
  PROVE  Spec => []Graceful
<1>1. Init => Graceful
  BY PlacedInit, OrderlyInit DEF Graceful
<1>2. ASSUME Graceful, [Next]_vars PROVE Graceful'
  <2>1. Placed'
    BY <1>2, PlacedStep DEF Graceful
  <2> QED
    BY <1>2, <2>1, SettleOrderly, JoinOrderly, ReadOrderly, StillOrderly
    DEF Graceful, Next, Loop, Settles, Still, Sending
<1> QED BY <1>1, <1>2, PTL DEF Spec

\* Where builders leave in good order and the database does not fail, none is handed
\* out twice, and every usable event that the group reads past is in the bars of all
\* intervals or in hand, through any number of restarts and rebalances, unless a member
\* went past it unread because it joined when nothing was committed.
THEOREM FoldedExactlyOnce ==
  ASSUME Faults \cap {"crash", "expel", "db"} = {}
  PROVE  Spec => []ExactlyOnce
<1> DEFINE NoneAborted == Aborted = {} /\ aborts = 0
<1>1. Init => NoneAborted
  BY DEF Init, Aborted, HandedOut
<1>2. ASSUME Placed, NoneAborted, [Next]_vars PROVE NoneAborted'
  <2>1. aborts' = aborts
    <3>1. ~ \E b \in Builders : Raise(b) \/ Crash(b)
      BY DEF Raise, Crash
    <3> QED
      BY <1>2, <3>1 DEF Next, Loop, Publish, Deliver, Expire, Start, Join, Poll, SkipUnusable,
         UpdateBar, AutoCommit, Rebalance, Expel, LearnExpelled, Stop, vars, history
  <2> QED BY <1>2, <2>1, AbortStep
<1>6. Placed /\ Handed /\ NoneAborted => Lost \subseteq Skipped
  BY LostWasAborted
<1>3. Graceful /\ Lost \subseteq Skipped => ExactlyOnce
  <2> SUFFICES ASSUME Graceful, Lost \subseteq Skipped,
                      NEW d \in DOMAIN delivered, NEW e \in DOMAIN delivered,
                      delivered[d] = delivered[e], d # e
               PROVE  FALSE
    BY DEF ExactlyOnce
  <2>1. DOMAIN delivered \subseteq Nat /\ \A i \in DOMAIN delivered : delivered[i] \in Nat
    <3>1. log \in Seq(Messages) /\ delivered \in Seq(DOMAIN log)
      BY DEF Graceful, Placed, Nested, Typed, TypeOK
    <3>2. DOMAIN log \subseteq Nat /\ DOMAIN delivered = 1..Len(delivered) /\ Len(delivered) \in Nat
      BY <3>1, LenProperties
    <3> QED BY <3>1, <3>2, ElementOfSeq
  <2>2. d < e \/ e < d
    BY <2>1
  <2> QED BY <2>1, <2>2 DEF Graceful, Orderly
<1>4. Faults \cap {"crash", "expel"} = {}
  OBVIOUS
<1>5. Spec => []Graceful
  BY <1>4, GracefulAlways
<1> HIDE DEF NoneAborted
<1> QED BY <1>1, <1>2, <1>3, <1>5, <1>6, PlacedAlways, PTL DEF Spec

-----------------------------------------------------------------------------
(* Open and close in time *)

\* A producer's events are in the order of their timestamps, through its queue and
\* into the log.
Timely ==
  /\ \A p \in Producers : \A i, j \in DOMAIN buffer[p] : i < j => buffer[p][i].ts <= buffer[p][j].ts
  /\ \A p \in Producers : \A i \in DOMAIN buffer[p] :
       /\ buffer[p][i].from = p /\ buffer[p][i].ts <= stamp[p]
       /\ \A n \in DOMAIN log : log[n].from = p => log[n].ts <= buffer[p][i].ts
  /\ \A p \in Producers : \A n \in DOMAIN log : log[n].from = p => log[n].ts <= stamp[p]
  /\ \A m, n \in DOMAIN log : m < n /\ log[m].from = log[n].from => log[m].ts <= log[n].ts

\* Sequences at their two ends.
LEMMA AtTheEnd ==
  ASSUME NEW s \in Seq(Messages), NEW m \in Messages
  PROVE  /\ Len(s) \in Nat /\ DOMAIN s = 1..Len(s)
         /\ DOMAIN Append(s, m) = 1..(Len(s) + 1) /\ Append(s, m)[Len(s) + 1] = m
         /\ \A i \in 1..Len(s) : Append(s, m)[i] = s[i] /\ s[i] \in Messages
<1>1. Len(s) \in Nat /\ DOMAIN s = 1..Len(s)
  OBVIOUS
<1>2. DOMAIN Append(s, m) = 1..(Len(s) + 1) /\ Append(s, m)[Len(s) + 1] = m
  OBVIOUS
<1>3. \A i \in 1..Len(s) : Append(s, m)[i] = s[i] /\ s[i] \in Messages
  OBVIOUS
<1> QED BY <1>1, <1>2, <1>3

LEMMA AtTheHead ==
  ASSUME NEW s \in Seq(Messages), s # << >>
  PROVE  /\ 1 \in DOMAIN s /\ Head(s) = s[1] /\ Head(s) \in Messages
         /\ \A i \in DOMAIN Tail(s) : /\ i + 1 \in DOMAIN s /\ Tail(s)[i] = s[i + 1]
                                      /\ i \in Nat \ {0}
<1>1. Len(s) \in Nat \ {0} /\ DOMAIN s = 1..Len(s)
  OBVIOUS
<1>2. Head(s) = s[1] /\ Head(s) \in Messages
  BY HeadTailProperties
<1>3. Tail(s) \in Seq(Messages) /\ Len(Tail(s)) = Len(s) - 1
      /\ \A i \in 1..Len(Tail(s)) : Tail(s)[i] = s[i + 1]
  BY HeadTailProperties
<1>4. DOMAIN Tail(s) = 1..(Len(s) - 1)
  BY <1>3, LenProperties
<1> QED BY <1>1, <1>2, <1>3, <1>4

LEMMA LogTyped ==
  ASSUME TypeOK
  PROVE  /\ DOMAIN log = 1..Len(log) /\ Len(log) \in Nat
         /\ \A n \in DOMAIN log : log[n] \in Messages /\ log[n].ts \in Int
<1>1. log \in Seq(Messages)
  BY DEF TypeOK
<1>2. \A e \in Messages : e.ts \in Int
  BY BoundsAssumption DEF Messages
<1> QED BY <1>1, <1>2, LenProperties, ElementOfSeq

LEMMA TimelyPublish ==
  ASSUME TypeOK, Timely, NEW p \in Producers, Publish(p)
  PROVE  Timely'
<1>1. PICK m \in Messages :
        /\ buffer' = [buffer EXCEPT ![p] = Append(@, m)] /\ stamp' = [stamp EXCEPT ![p] = m.ts]
        /\ stamp[p] <= m.ts /\ m.from = p /\ log' = log
  <2>1. PICK c \in Payloads, ts \in stamp[p]..MaxTime :
          /\ buffer' = [buffer EXCEPT ![p] = Append(@,
               [id |-> accepted + 1, from |-> p, ts |-> ts,
                price |-> c.price, usable |-> c.usable])]
          /\ stamp' = [stamp EXCEPT ![p] = ts]
    BY DEF Publish
  <2>2. ts \in Times /\ stamp[p] <= ts
    BY BoundsAssumption DEF TypeOK
  <2>3. [id |-> accepted + 1, from |-> p, ts |-> ts,
         price |-> c.price, usable |-> c.usable] \in Messages
    BY <2>2, PayloadsAssumption DEF Messages, TypeOK
  <2>4. log' = log
    BY DEF Publish, broker
  <2> QED BY <2>1, <2>2, <2>3, <2>4
<1>2. \A q \in Producers \ {p} : buffer'[q] = buffer[q] /\ stamp'[q] = stamp[q]
  BY <1>1 DEF TypeOK
<1>3. buffer'[p] = Append(buffer[p], m) /\ stamp'[p] = m.ts /\ stamp[p] \in Int /\ m.ts \in Int
  BY <1>1, BoundsAssumption DEF TypeOK, Messages
<1>4. PICK l \in Nat : /\ DOMAIN buffer[p] = 1..l /\ DOMAIN buffer'[p] = 1..(l + 1)
                       /\ buffer'[p][l + 1] = m
                       /\ \A i \in 1..l : buffer'[p][i] = buffer[p][i] /\ buffer[p][i].ts \in Int
  <2>1. buffer[p] \in Seq(Messages)
    BY DEF TypeOK
  <2>2. \A e \in Messages : e.ts \in Int
    BY BoundsAssumption DEF Messages
  <2> QED BY <1>3, <2>1, <2>2, AtTheEnd
<1>5. \A n \in DOMAIN log : log[n].ts \in Int
  BY LogTyped
<1>6. \A n \in DOMAIN log : log[n].from = p => log[n].ts <= m.ts
  BY <1>1, <1>3, <1>5 DEF Timely
<1>7. \A i \in 1..l : buffer[p][i].ts <= m.ts /\ buffer[p][i].from = p
  BY <1>1, <1>3, <1>4 DEF Timely
<1>8. ASSUME NEW i \in DOMAIN buffer'[p]
      PROVE  /\ buffer'[p][i].ts <= stamp'[p] /\ buffer'[p][i].from = p
             /\ \A n \in DOMAIN log : log[n].from = p => log[n].ts <= buffer'[p][i].ts
  <2>1. CASE i \in 1..l
    BY <1>3, <1>4, <1>7, <2>1 DEF Timely
  <2>2. CASE i = l + 1
    BY <1>1, <1>3, <1>4, <1>6, <2>2
  <2> QED BY <1>4, <2>1, <2>2
<1>9. ASSUME NEW i \in DOMAIN buffer'[p], NEW j \in DOMAIN buffer'[p], i < j
      PROVE  buffer'[p][i].ts <= buffer'[p][j].ts
  <2>1. i \in 1..l
    BY <1>4, <1>9
  <2>2. CASE j \in 1..l
    BY <1>4, <1>9, <2>1, <2>2 DEF Timely
  <2>3. CASE j = l + 1
    BY <1>4, <1>7, <2>1, <2>3
  <2> QED BY <1>4, <2>2, <2>3
<1>10. /\ \A q \in Producers \ {p} : \A i \in DOMAIN buffer'[q] :
             /\ buffer'[q][i].from = q /\ buffer'[q][i].ts <= stamp'[q]
             /\ \A n \in DOMAIN log' : log'[n].from = q => log'[n].ts <= buffer'[q][i].ts
       /\ \A q \in Producers \ {p} : \A i, j \in DOMAIN buffer'[q] :
             i < j => buffer'[q][i].ts <= buffer'[q][j].ts
       /\ \A q \in Producers : \A n \in DOMAIN log' : log'[n].from = q => log'[n].ts <= stamp'[q]
  BY <1>1, <1>2, <1>3, <1>6 DEF Timely
<1>11. \A k, n \in DOMAIN log' : k < n /\ log'[k].from = log'[n].from => log'[k].ts <= log'[n].ts
  BY <1>1 DEF Timely
<1> QED BY <1>1, <1>8, <1>9, <1>10, <1>11 DEF Timely

\* The oldest event of a queue leaves it; it may end up in the log.
LEMMA TimelyDequeue ==
  ASSUME TypeOK, Timely, NEW p \in Producers, buffer[p] # << >>,
         buffer' = [buffer EXCEPT ![p] = Tail(@)], stamp' = stamp,
         log' \in {log, Append(log, Head(buffer[p]))}
  PROVE  Timely'
<1>1. \A q \in Producers \ {p} : buffer'[q] = buffer[q]
  BY DEF TypeOK
<1>2. buffer[p] \in Seq(Messages) /\ buffer'[p] = Tail(buffer[p]) /\ stamp[p] \in Int
  BY BoundsAssumption DEF TypeOK
<1>3. PICK m \in Messages : m = Head(buffer[p]) /\ m = buffer[p][1] /\ 1 \in DOMAIN buffer[p]
  BY <1>2, AtTheHead
<1>4. \A i \in DOMAIN buffer'[p] : /\ i + 1 \in DOMAIN buffer[p] /\ buffer'[p][i] = buffer[p][i + 1]
                                   /\ i \in Nat \ {0}
  BY <1>2, AtTheHead
<1>5. /\ m.ts <= stamp[p] /\ m.ts \in Int /\ m.from = p
      /\ \A n \in DOMAIN log : log[n].from = p => log[n].ts <= m.ts
  BY <1>3, BoundsAssumption DEF Timely, Messages
<1>6. \A i \in DOMAIN buffer'[p] : m.ts <= buffer'[p][i].ts
  <2>1. \A i \in DOMAIN buffer'[p] : 1 < i + 1
    BY <1>4
  <2> QED BY <1>3, <1>4, <2>1 DEF Timely
<1>7. \A i \in DOMAIN buffer'[p] :
        /\ buffer'[p][i].ts <= stamp[p] /\ buffer'[p][i].from = p
        /\ \A n \in DOMAIN log : log[n].from = p => log[n].ts <= buffer'[p][i].ts
  BY <1>4 DEF Timely
<1>8. \A q \in Producers : \A i, j \in DOMAIN buffer'[q] : i < j => buffer'[q][i].ts <= buffer'[q][j].ts
  <2> SUFFICES ASSUME NEW i \in DOMAIN buffer'[p], NEW j \in DOMAIN buffer'[p], i < j
               PROVE  buffer'[p][i].ts <= buffer'[p][j].ts
    BY <1>1 DEF Timely
  <2>1. i + 1 < j + 1
    BY <1>4
  <2> QED BY <1>4, <2>1 DEF Timely
<1>9. CASE log' = log
  <2>1. \A q \in Producers : \A i \in DOMAIN buffer'[q] :
          /\ buffer'[q][i].from = q /\ buffer'[q][i].ts <= stamp'[q]
          /\ \A n \in DOMAIN log' : log'[n].from = q => log'[n].ts <= buffer'[q][i].ts
    BY <1>1, <1>7, <1>9 DEF Timely
  <2>2. /\ \A q \in Producers : \A n \in DOMAIN log' : log'[n].from = q => log'[n].ts <= stamp'[q]
        /\ \A k, n \in DOMAIN log' :
             k < n /\ log'[k].from = log'[n].from => log'[k].ts <= log'[n].ts
    BY <1>9 DEF Timely
  <2> QED BY <1>8, <2>1, <2>2 DEF Timely
<1>10. CASE log' = Append(log, m)
  <2>1. log \in Seq(Messages)
    BY DEF TypeOK
  <2>2. PICK l \in Nat : /\ DOMAIN log = 1..l /\ DOMAIN log' = 1..(l + 1) /\ log'[l + 1] = m
                         /\ \A n \in 1..l : log'[n] = log[n]
    BY <1>10, <2>1, AtTheEnd
  <2>3. ASSUME NEW q \in Producers, NEW i \in DOMAIN buffer'[q]
        PROVE  /\ buffer'[q][i].from = q /\ buffer'[q][i].ts <= stamp'[q]
               /\ \A n \in DOMAIN log' : log'[n].from = q => log'[n].ts <= buffer'[q][i].ts
    <3>1. CASE q = p
      BY <1>5, <1>6, <1>7, <2>2, <3>1
    <3>2. CASE q # p
      BY <1>1, <1>5, <2>2, <3>2 DEF Timely
    <3> QED BY <3>1, <3>2
  <2>4. ASSUME NEW n \in DOMAIN log', NEW k \in DOMAIN log', n < k, log'[n].from = log'[k].from
        PROVE  log'[n].ts <= log'[k].ts
    <3>1. n \in 1..l
      BY <2>2, <2>4
    <3>2. CASE k \in 1..l
      BY <2>2, <2>4, <3>1, <3>2 DEF Timely
    <3>3. CASE k = l + 1
      BY <1>5, <2>2, <2>4, <3>1, <3>3
    <3> QED BY <2>2, <3>2, <3>3
  <2>5. \A q \in Producers : \A n \in DOMAIN log' : log'[n].from = q => log'[n].ts <= stamp'[q]
    BY <1>5, <2>2 DEF Timely
  <2> QED BY <1>8, <2>3, <2>4, <2>5 DEF Timely
<1> QED BY <1>3, <1>9, <1>10

LEMMA TimelyStep ==
  ASSUME Placed, Timely, [Next]_vars
  PROVE  Timely'
<1>0. TypeOK
  BY DEF Placed, Nested, Typed
<1>1. CASE UNCHANGED <<buffer, stamp, log>>
  BY <1>1 DEF Timely
<1>2. ASSUME NEW p \in Producers, Deliver(p) \/ Expire(p) PROVE Timely'
  BY <1>0, <1>2, TimelyDequeue DEF Deliver, Expire, broker
<1>3. ASSUME NEW b \in Builders, Loop(b) \/ Start(b) \/ LearnExpelled(b) \/ Settles(b)
      PROVE  UNCHANGED <<buffer, stamp, log>>
  BY <1>3 DEF Loop, Start, Join, Poll, SkipUnusable, UpdateBar, Settles, AutoCommit,
     Rebalance, Expel, LearnExpelled, Stop, Raise, Crash, sending, broker
<1>4. CASE UNCHANGED vars
  BY <1>1, <1>4 DEF vars, sending, broker
<1> QED BY <1>0, <1>1, <1>2, <1>3, <1>4, TimelyPublish DEF Next, Settles

\* Only UpdateBar writes bars; a delivery keeps its message.
LEMMA BarsStep ==
  ASSUME Placed, [Next]_vars, ~ \E b \in Builders : UpdateBar(b)
  PROVE  UNCHANGED <<bars, applied>> /\ \A d \in DOMAIN delivered : Delivery(d)' = Delivery(d)
<1>0. TypeOK
  BY DEF Placed, Nested, Typed
<1>1. UNCHANGED <<bars, applied>>
  BY DEF Next, Publish, Deliver, Expire, Loop, Start, Join, Poll, SkipUnusable, AutoCommit,
     Rebalance, Expel, LearnExpelled, Stop, Raise, Crash, vars, history
<1>2. CASE Sending \/ UNCHANGED vars \/ \E b \in Builders : Start(b) \/ LearnExpelled(b)
  <2>1. delivered' = delivered /\ \A n \in DOMAIN log : log'[n] = log[n]
    BY <1>0, <1>2, StillKeepsPosition DEF Still
  <2>2. \A d \in DOMAIN delivered : delivered[d] \in DOMAIN log
    BY <1>0, InHandTyped
  <2> QED BY <1>1, <2>1, <2>2 DEF Delivery
<1>3. ASSUME NEW b \in Builders, Join(b) \/ SkipUnusable(b) \/ Settles(b)
      PROVE  UNCHANGED <<log, delivered>>
  BY <1>3 DEF Join, SkipUnusable, Settles, AutoCommit, Rebalance, Expel, Stop, Raise, Crash,
     broker, history
<1>4. ASSUME NEW b \in Builders, Poll(b)
      PROVE  \A d \in DOMAIN delivered : Delivery(d)' = Delivery(d)
  <2>1. log' = log /\ delivered' = Append(delivered, pos[b]) /\ pos[b] \in DOMAIN log
        /\ delivered \in Seq(DOMAIN log)
    BY <1>0, <1>4, ReadPosition DEF Poll, TypeOK
  <2>2. \A d \in DOMAIN delivered : delivered'[d] = delivered[d]
    BY <2>1
  <2> QED BY <2>1, <2>2 DEF Delivery
<1>5. ASSUME NEW b \in Builders, Join(b) \/ SkipUnusable(b) \/ Settles(b)
      PROVE  \A d \in DOMAIN delivered : Delivery(d)' = Delivery(d)
  BY <1>3, <1>5 DEF Delivery
<1>6. \/ Sending \/ UNCHANGED vars
      \/ \E b \in Builders : \/ Start(b) \/ LearnExpelled(b) \/ Join(b) \/ SkipUnusable(b)
                             \/ Settles(b) \/ Poll(b)
  BY DEF Next, Loop, Settles, Sending
<1> QED BY <1>1, <1>2, <1>4, <1>5, <1>6

\* What UpdateBar adds is the latest of its producer's deliveries.
LEMMA LastFolded ==
  ASSUME Graceful, Timely, NEW b \in Builders, NEW j \in Intervals, NEW x \in DOMAIN delivered,
         NEW s \in Times, Folds(b, j, x, s)
  PROVE  \A e \in Folded(j, s) \cup {x} :
           /\ Delivery(e).ts \in Int
           /\ Delivery(e).from = Delivery(x).from => Delivery(e).ts <= Delivery(x).ts
<1>0. TypeOK /\ Orderly
  BY DEF Graceful, Placed, Nested, Typed
<1>1. DOMAIN delivered = 1..Len(delivered) /\ Len(delivered) \in Nat /\ x = Len(delivered)
  BY <1>0, LenProperties DEF Orderly, Folds, TypeOK
<1>2. Folded(j, s) \subseteq DOMAIN delivered
  BY <1>0, FoldedIsBucket
<1>3. ASSUME NEW e \in DOMAIN delivered
      PROVE  /\ Delivery(e).ts \in Int
             /\ Delivery(e).from = Delivery(x).from => Delivery(e).ts <= Delivery(x).ts
  <2>1. Delivery(e).ts \in Int /\ delivered[e] \in DOMAIN log /\ delivered[x] \in DOMAIN log
    BY <1>0, InHandTyped, LogTyped DEF Delivery
  <2>2. CASE e = x
    BY <2>1, <2>2
  <2>3. CASE e # x
    <3>1. e < x
      BY <1>1, <2>3
    <3>2. delivered[e] < delivered[x]
      BY <1>0, <3>1 DEF Orderly
    <3> QED BY <2>1, <3>2 DEF Timely, Delivery
  <2> QED BY <2>2, <2>3
<1> QED BY <1>2, <1>3

\* The bar of the deliveries D opens with the earliest and closes with the latest of
\* those of the same producer.
Spans(bar, D) ==
  D # {} => /\ \E o \in D : /\ bar.open = Delivery(o).price
                            /\ \A d \in D : Delivery(d).from = Delivery(o).from =>
                                              Delivery(o).ts <= Delivery(d).ts
            /\ \E c \in D : /\ bar.close = Delivery(c).price
                            /\ \A d \in D : Delivery(d).from = Delivery(c).from =>
                                              Delivery(d).ts <= Delivery(c).ts

LEMMA UpdatedSpans ==
  ASSUME NEW D, NEW x, NEW bar, Spans(bar, D), D = {} <=> bar = None,
         \A e \in D \cup {x} :
           /\ Delivery(e).ts \in Int
           /\ Delivery(e).from = Delivery(x).from => Delivery(e).ts <= Delivery(x).ts
  PROVE  Spans(Updated(bar, Delivery(x).price), D \cup {x})
<1>1. CASE D = {}
  <2>1. /\ Updated(bar, Delivery(x).price).open = Delivery(x).price
        /\ Updated(bar, Delivery(x).price).close = Delivery(x).price
    BY <1>1 DEF Updated, Opened
  <2> QED BY <1>1, <2>1 DEF Spans
<1>2. CASE D # {}
  <2>1. /\ Updated(bar, Delivery(x).price).open = bar.open
        /\ Updated(bar, Delivery(x).price).close = Delivery(x).price
    BY <1>2 DEF Updated, Widened
  <2> QED BY <1>2, <2>1 DEF Spans
<1> QED BY <1>1, <1>2

InTime == \A k \in Intervals : \A t \in Times : Spans(bars[k][t], Folded(k, t))

LEMMA InTimeStep ==
  ASSUME Graceful, Timely, BarsTell, TypeOK', InTime, [Next]_vars
  PROVE  InTime'
<1>0. Placed /\ Nested /\ TypeOK /\ BarsTellDeliveries
  BY DEF Graceful, Placed, BarsTell, Nested, Typed
<1>1. ASSUME NEW b \in Builders, UpdateBar(b) PROVE InTime'
  <2>1. PICK j \in Intervals, x \in DOMAIN delivered, s \in Times : Folds(b, j, x, s)
    BY <1>0, <1>1, UpdateFolds
  <2>2. \A d : Delivery(d)' = Delivery(d)
    BY <2>1 DEF Folds
  <2>3. Spans(Updated(bars[j][s], Delivery(x).price), Folded(j, s) \cup {x})
    <3>1. Folded(j, s) = {} <=> bars[j][s] = None
      BY <1>0 DEF BarsTellDeliveries, Tells
    <3>2. Spans(bars[j][s], Folded(j, s))
      BY DEF InTime
    <3> QED BY <2>1, <3>1, <3>2, LastFolded, UpdatedSpans
  <2> SUFFICES ASSUME NEW k \in Intervals, NEW t \in Times
               PROVE  Spans(bars[k][t], Folded(k, t))'
    BY DEF InTime
  <2>4. CASE k = j /\ t = s
    <3>1. bars'[k][t] = Updated(bars[j][s], Delivery(x).price)
          /\ Folded(k, t)' = Folded(j, s) \cup {x}
      BY <2>1, <2>4 DEF Folds
    <3> QED BY <2>2, <2>3, <3>1 DEF Spans
  <2>5. CASE ~(k = j /\ t = s)
    <3>1. bars'[k][t] = bars[k][t] /\ Folded(k, t)' = Folded(k, t)
      BY <2>1, <2>5 DEF Folds
    <3> QED BY <2>2, <3>1 DEF Spans, InTime
  <2> QED BY <2>4, <2>5
<1>2. CASE ~ \E b \in Builders : UpdateBar(b)
  <2>1. UNCHANGED <<bars, applied>> /\ \A d \in DOMAIN delivered : Delivery(d)' = Delivery(d)
    BY <1>0, <1>2, BarsStep
  <2> SUFFICES ASSUME NEW k \in Intervals, NEW t \in Times
               PROVE  Spans(bars[k][t], Folded(k, t))'
    BY DEF InTime
  <2>2. applied[k] \subseteq DOMAIN delivered
    BY <1>0 DEF TypeOK
  <2>3. Folded(k, t)' = Folded(k, t) /\ Folded(k, t) \subseteq DOMAIN delivered
    BY <2>1, <2>2 DEF Folded
  <2> QED BY <2>1, <2>3 DEF Spans, InTime
<1> QED BY <1>1, <1>2

\* With builders that leave in good order or on a failure of the database, open and
\* close are the prices of the earliest and of the latest quote folded into a bar of
\* those from the same worker process, for any number of these, through restarts,
\* rebalances and expired events.
THEOREM OpensAndClosesInTime ==
  ASSUME Faults \cap {"crash", "expel"} = {}
  PROVE  Spec => []OpenCloseInTime
<1>1. Init => Timely /\ InTime
  <2>1. Init => Timely
    BY DEF Init, Timely
  <2>2. Init => InTime
    BY DEF Init, InTime, Spans, Folded
  <2> QED BY <2>1, <2>2
<1>2. Graceful /\ BarsTell /\ TypeOK' /\ Timely /\ InTime /\ [Next]_vars => (Timely /\ InTime)'
  BY InTimeStep, TimelyStep DEF Graceful
<1>3. InTime => OpenCloseInTime
  BY DEF InTime, Spans, OpenCloseInTime
<1>4. Spec => []Graceful
  BY GracefulAlways
<1>5. Spec => []BarsTell
  BY TellsInit, TellsStep, PTL DEF Spec
<1> QED BY <1>1, <1>2, <1>3, <1>4, <1>5, TypeCorrect, PTL DEF Spec
-----------------------------------------------------------------------------
(* Each bar is a ledger *)

\* Prices come from the events that were given to the producers.
Known ==
  /\ \A n \in DOMAIN log : log[n].price \in Prices
  /\ \A p \in Producers : \A i \in DOMAIN buffer[p] : buffer[p][i].price \in Prices

LEMMA KnownStep == TypeOK /\ Known /\ [Next]_vars => Known'
<1> SUFFICES ASSUME TypeOK, Known, [Next]_vars PROVE Known'
  OBVIOUS
<1>1. ASSUME NEW p \in Producers, Publish(p) PROVE Known'
  <2>1. PICK c \in Payloads, ts \in stamp[p]..MaxTime :
          buffer' = [buffer EXCEPT ![p] = Append(@,
            [id |-> accepted + 1, from |-> p, ts |-> ts,
             price |-> c.price, usable |-> c.usable])]
    BY <1>1 DEF Publish
  <2> DEFINE m == [id |-> accepted + 1, from |-> p, ts |-> ts,
                   price |-> c.price, usable |-> c.usable]
  <2>2. m \in Messages /\ m.price \in Prices /\ buffer[p] \in Seq(Messages)
    <3>1. ts \in Times /\ accepted + 1 \in Nat /\ buffer[p] \in Seq(Messages)
      BY BoundsAssumption DEF TypeOK
    <3>2. c.price \in Int /\ c.usable \in BOOLEAN /\ c.price \in Prices
      BY PayloadsAssumption DEF Prices
    <3> QED BY <3>1, <3>2 DEF Messages
  <2>3. \A q \in Producers : buffer'[q] = IF q = p THEN Append(buffer[p], m) ELSE buffer[q]
    BY <2>1 DEF TypeOK
  <2> HIDE DEF m
  <2>4. \A i \in DOMAIN Append(buffer[p], m) : Append(buffer[p], m)[i].price \in Prices
    <3>1. DOMAIN Append(buffer[p], m) = DOMAIN buffer[p] \cup {Len(buffer[p]) + 1}
          /\ Append(buffer[p], m)[Len(buffer[p]) + 1] = m
          /\ \A i \in DOMAIN buffer[p] : Append(buffer[p], m)[i] = buffer[p][i]
      BY <2>2, AtTheEnd
    <3> QED BY <2>2, <3>1 DEF Known
  <2>5. log' = log
    BY <1>1 DEF Publish, broker
  <2> QED BY <2>3, <2>4, <2>5 DEF Known
<1>2. ASSUME NEW p \in Producers, Deliver(p) \/ Expire(p) PROVE Known'
  <2>1. buffer[p] \in Seq(Messages) /\ buffer[p] # << >>
    BY <1>2 DEF Deliver, Expire, TypeOK
  <2>2. /\ Head(buffer[p]) \in Messages /\ Head(buffer[p]).price \in Prices
        /\ \A i \in DOMAIN Tail(buffer[p]) : Tail(buffer[p])[i].price \in Prices
    BY <2>1, AtTheHead DEF Known
  <2>3. \A q \in Producers : buffer'[q] = IF q = p THEN Tail(buffer[p]) ELSE buffer[q]
    BY <1>2 DEF Deliver, Expire, TypeOK
  <2>4. log' = log \/ log' = Append(log, Head(buffer[p]))
    BY <1>2 DEF Deliver, Expire, broker
  <2>5. \A n \in DOMAIN log' : log'[n].price \in Prices
    <3>1. CASE log' = Append(log, Head(buffer[p]))
      <4>1. log \in Seq(Messages)
        BY DEF TypeOK
      <4>2. DOMAIN log' = DOMAIN log \cup {Len(log) + 1} /\ log'[Len(log) + 1] = Head(buffer[p])
            /\ \A n \in DOMAIN log : log'[n] = log[n]
        BY <2>2, <3>1, <4>1, AtTheEnd
      <4> QED BY <2>2, <4>2 DEF Known
    <3> QED BY <2>4, <3>1 DEF Known
  <2> QED BY <2>2, <2>3, <2>5 DEF Known
<1>3. CASE UNCHANGED <<log, buffer>>
  BY <1>3 DEF Known
<1>4. ASSUME NEW b \in Builders,
             \/ Start(b) \/ Loop(b) \/ AutoCommit(b) \/ Rebalance(b) \/ Expel(b)
             \/ LearnExpelled(b) \/ Stop(b) \/ Raise(b) \/ Crash(b)
      PROVE  UNCHANGED <<log, buffer>>
  BY <1>4 DEF Loop, Start, Join, Poll, SkipUnusable, UpdateBar, AutoCommit, Rebalance, Expel,
              LearnExpelled, Stop, Raise, Crash, sending, broker
<1> QED BY <1>1, <1>2, <1>3, <1>4 DEF Next, vars, sending, broker

\* Before the first start no builder runs.
NoneBefore == starts = 0 => \A b \in Builders : pc[b] = "down"

Kept == Nested /\ Known /\ NoneBefore

LEMMA KeptInit == Init => Kept
<1>1. Init => Known /\ NoneBefore
  BY DEF Init, Known, NoneBefore
<1> QED BY <1>1, NestedInit DEF Kept

LEMMA KeptStep == Kept /\ [Next]_vars => Kept'
<1> SUFFICES ASSUME Kept, [Next]_vars PROVE NoneBefore'
  BY NestedStep, KnownStep DEF Kept, Nested, Typed
<1>1. TypeOK /\ NoneBefore
  BY DEF Kept, Nested, Typed
<1>2. starts \in Nat
  BY <1>1, BoundsAssumption DEF TypeOK
<1>3. ASSUME NEW b \in Builders, Start(b) PROVE NoneBefore'
  BY <1>2, <1>3 DEF Start, NoneBefore
<1>4. ASSUME starts' = starts, \A b \in Builders : pc[b] = "down" => pc'[b] = "down"
      PROVE  NoneBefore'
  BY <1>1, <1>4 DEF NoneBefore
<1>5. ASSUME NEW b \in Builders, Join(b) \/ Poll(b) \/ SkipUnusable(b) \/ UpdateBar(b)
               \/ AutoCommit(b) \/ Rebalance(b) \/ Expel(b) \/ LearnExpelled(b)
               \/ Stop(b) \/ Raise(b) \/ Crash(b)
      PROVE  starts' = starts /\ \A c \in Builders : pc[c] = "down" => pc'[c] = "down"
  BY <1>1, <1>5 DEF Join, Poll, SkipUnusable, UpdateBar, NextInterval, AutoCommit, Rebalance,
                    Expel, LearnExpelled, Stop, Raise, Crash, Leave, TypeOK
<1>6. ASSUME NEW p \in Producers, Publish(p) \/ Deliver(p) \/ Expire(p)
      PROVE  starts' = starts /\ pc' = pc
  BY <1>6 DEF Publish, Deliver, Expire
<1>7. UNCHANGED vars => starts' = starts /\ pc' = pc
  BY DEF vars
<1> QED BY <1>3, <1>4, <1>5, <1>6, <1>7 DEF Next, Loop

\* Deliveries keep their messages.
LEMMA DeliveriesStay ==
  ASSUME Nested, [Next]_vars
  PROVE  /\ DOMAIN delivered \subseteq DOMAIN delivered'
         /\ \A d \in DOMAIN delivered : Delivery(d)' = Delivery(d)
<1>0. TypeOK /\ log \in Seq(Messages) /\ delivered \in Seq(DOMAIN log)
  BY DEF Nested, Typed, TypeOK
<1>1. ASSUME NEW p \in Producers, Deliver(p)
      PROVE  delivered' = delivered /\ \A n \in DOMAIN log : log'[n] = log[n]
  <2>1. Head(buffer[p]) \in Messages
    BY <1>0, <1>1, AtTheHead DEF TypeOK, Deliver
  <2> QED BY <1>0, <1>1, <2>1, LogGrows DEF Deliver, history
<1>2. ASSUME NEW b \in Builders, Poll(b)
      PROVE  log' = log /\ \A d \in DOMAIN delivered : d \in DOMAIN delivered' /\ delivered'[d] = delivered[d]
  <2>1. pos[b] \in DOMAIN log
    BY <1>0, <1>2, LenProperties DEF Poll, TypeOK
  <2>2. delivered' = Append(delivered, pos[b]) /\ log' = log
    BY <1>2 DEF Poll, broker
  <2> QED BY <1>0, <2>1, <2>2
<1>3. ASSUME NEW b \in Builders, \/ Start(b) \/ Join(b) \/ SkipUnusable(b) \/ UpdateBar(b)
               \/ AutoCommit(b) \/ Rebalance(b) \/ Expel(b) \/ LearnExpelled(b)
               \/ Stop(b) \/ Raise(b) \/ Crash(b)
      PROVE  UNCHANGED <<log, delivered>>
  BY <1>3 DEF Start, Join, SkipUnusable, UpdateBar, AutoCommit, Rebalance, Expel, LearnExpelled,
              Stop, Raise, Crash, broker, history
<1>4. ASSUME NEW p \in Producers, Publish(p) \/ Expire(p) PROVE UNCHANGED <<log, delivered>>
  BY <1>4 DEF Publish, Expire, broker, history
<1>5. UNCHANGED vars => UNCHANGED <<log, delivered>>
  BY DEF vars, broker, history
<1>6. /\ \A d \in DOMAIN delivered : d \in DOMAIN delivered' /\ delivered'[d] = delivered[d]
      /\ \A n \in DOMAIN log : log'[n] = log[n]
  BY <1>1, <1>2, <1>3, <1>4, <1>5 DEF Next, Loop
<1>7. \A d \in DOMAIN delivered : delivered[d] \in DOMAIN log
  BY <1>0, InHandTyped
<1> QED BY <1>6, <1>7 DEF Delivery

\* A bar keeps its ledger when no builder takes, folds or drops a price of it.
LEMMA Unmoved ==
  ASSUME NEW k, NEW t, TheInstrument' = TheInstrument, bars'[k][t] = bars[k][t],
         \A b \in Builders : (Owes(b, k, t)' <=> Owes(b, k, t)),
         \A b \in Builders : Owes(b, k, t) => Delivery(cur[b])'.price = Delivery(cur[b]).price,
         Dropped(k, t)' = Dropped(k, t)
  PROVE  UNCHANGED Ledger(k, t)!ledger
<1>1. OwedTo(k, t)' = OwedTo(k, t)
  BY DEF OwedTo
<1> QED BY <1>1 DEF Ledger!ledger

\* What a builder owes, and that it is a value of its own.
LEMMA InDebt ==
  ASSUME Kept, NEW k \in Intervals, NEW t, NEW b \in Builders
  PROVE  /\ Owes(b, k, t) => /\ OwedTo(k, t)[b] = [inst |-> 1, price |-> Delivery(cur[b]).price]
                             /\ OwedTo(k, t)[b] # None
                             /\ TheInstrument = 1 /\ cur[b] \in DOMAIN delivered
                             /\ cur[b] \notin applied[k] /\ cur[b] \notin Dropped(k, t)
         /\ ~Owes(b, k, t) => OwedTo(k, t)[b] = None
<1>0. Typed /\ InHandOnce /\ Known /\ NoneBefore
  BY DEF Kept, Nested
<1>1. ASSUME Owes(b, k, t)
      PROVE  /\ TheInstrument = 1 /\ cur[b] \in DOMAIN delivered
             /\ cur[b] \notin applied[k] /\ cur[b] \notin Dropped(k, t)
             /\ Delivery(cur[b]).price \in Int
  <2>1. pc[b] = "bars" /\ step[b] <= k
    BY <1>1 DEF Owes
  <2>2. TheInstrument = 1
    BY <1>0, <2>1 DEF NoneBefore, TheInstrument
  <2>3. cur[b] \in DOMAIN delivered
    BY <1>0, <2>1 DEF Typed, Busy
  <2>4. ~ (k < step[b])
    BY <1>0, <2>1, WidthsAssumption, LenProperties DEF Typed, TypeOK
  <2>5. cur[b] \notin applied[k]
    BY <1>0, <2>1, <2>4 DEF InHandOnce
  <2>6. Delivery(cur[b]).price \in Int
    BY <1>0, <2>3, InHandTyped DEF Typed, Messages
  <2> QED BY <1>1, <2>2, <2>3, <2>5, <2>6 DEF Dropped
<1>2. ASSUME Owes(b, k, t)
      PROVE  OwedTo(k, t)[b] = [inst |-> 1, price |-> Delivery(cur[b]).price]
  BY <1>2 DEF OwedTo
<1>3. Owes(b, k, t) => [inst |-> 1, price |-> Delivery(cur[b]).price] # None
  BY <1>1, DebtsAssumption DEF Debts
<1>4. ~Owes(b, k, t) => OwedTo(k, t)[b] = None
  BY DEF OwedTo
<1> QED BY <1>1, <1>2, <1>3, <1>4

\* Builder b is done with what it owed of the bar, and no other is.
LEMMA SettlesDebt ==
  ASSUME NEW k, NEW t, NEW b \in Builders, ~Owes(b, k, t)',
         \A c \in Builders \ {b} : (Owes(c, k, t)' <=> Owes(c, k, t)),
         \A c \in Builders \ {b} : Delivery(cur[c])' = Delivery(cur[c])
  PROVE  Ledger(k, t)!Settle(b)
<1>1. OwedTo(k, t)' = [OwedTo(k, t) EXCEPT ![b] = None]
  BY DEF OwedTo
<1> QED BY <1>1 DEF Ledger!Settle

\* Producers, the group and idle builders: no ledger moves.
Aside(b) ==
  \/ Join(b) \/ SkipUnusable(b) \/ AutoCommit(b) \/ Rebalance(b) \/ Expel(b)
  \/ LearnExpelled(b) \/ Stop(b)
  \/ Start(b) /\ starts # 0
  \/ Crash(b) /\ pc[b] # "bars"

LEMMA AsideMovesNothing ==
  ASSUME Kept, [Next]_vars, NEW k \in Intervals, NEW t,
         \/ UNCHANGED vars
         \/ \E p \in Producers : Publish(p) \/ Deliver(p) \/ Expire(p)
         \/ \E b \in Builders : Aside(b)
  PROVE  UNCHANGED Ledger(k, t)!ledger
<1>0. TypeOK /\ Typed
  BY DEF Kept, Nested, Typed
<1>1. /\ UNCHANGED <<step, cur, bars, delivered, applied>>
      /\ starts' = starts \/ (starts # 0 /\ starts' = starts + 1)
      /\ \A b \in Builders : pc[b] = "bars" <=> pc'[b] = "bars"
  <2>1. CASE UNCHANGED vars
    BY <2>1 DEF vars, history
  <2>2. ASSUME NEW p \in Producers, Publish(p) \/ Deliver(p) \/ Expire(p)
        PROVE  UNCHANGED <<pc, step, cur, bars, starts, delivered, applied>>
    BY <2>2 DEF Publish, Deliver, Expire, history
  <2>3. ASSUME NEW b \in Builders, Aside(b)
        PROVE  /\ UNCHANGED <<step, cur, bars, delivered, applied>>
               /\ starts' = starts \/ (starts # 0 /\ starts' = starts + 1)
               /\ \A c \in Builders : pc[c] = "bars" <=> pc'[c] = "bars"
    BY <1>0, <2>3 DEF Aside, Join, SkipUnusable, AutoCommit, Rebalance, Expel, LearnExpelled,
                      Stop, Start, Crash, Leave, history, TypeOK
  <2> QED BY <2>1, <2>2, <2>3
<1>2. \A d \in DOMAIN delivered : Delivery(d)' = Delivery(d)
  BY DeliveriesStay DEF Kept
<1>3. \A b \in Builders : pc[b] = "bars" => cur[b] \in DOMAIN delivered
  BY <1>0 DEF Typed, Busy
<1>4. \A b \in Builders : pc[b] = "bars" => Delivery(cur[b])' = Delivery(cur[b])
  BY <1>1, <1>2, <1>3 DEF Delivery
<1>5. \A b \in Builders : (Owes(b, k, t)' <=> Owes(b, k, t))
  BY <1>1, <1>4 DEF Owes, Bucket
<1>6. Dropped(k, t)' = Dropped(k, t)
  BY <1>1, <1>2, <1>5 DEF Dropped, Bucket
<1>7. TheInstrument' = TheInstrument
  BY <1>0, <1>1, BoundsAssumption DEF TheInstrument, TypeOK
<1>8. \A b \in Builders : Owes(b, k, t) => Delivery(cur[b])'.price = Delivery(cur[b]).price
  BY <1>4 DEF Owes
<1> QED BY <1>1, <1>5, <1>6, <1>7, <1>8, Unmoved

\* The first start of a builder: the ledger learns of the instrument.
LEMMA StartRegisters ==
  ASSUME Kept, NEW k \in Intervals, NEW t, NEW b \in Builders, Start(b), starts = 0
  PROVE  Ledger(k, t)!Register(1)
<1>0. NoneBefore /\ TypeOK
  BY DEF Kept, Nested, Typed
<1>1. /\ UNCHANGED <<step, cur, bars, delivered, applied, log>> /\ starts' = 1
      /\ \A c \in Builders : pc[c] # "bars" /\ pc'[c] # "bars"
  BY <1>0 DEF Start, NoneBefore, history, TypeOK
<1>2. OwedTo(k, t) = [c \in Builders |-> None] /\ OwedTo(k, t)' = [c \in Builders |-> None]
  BY <1>1 DEF OwedTo, Owes
<1>3. Dropped(k, t)' = Dropped(k, t)
  BY <1>1 DEF Dropped, Owes, Delivery, Bucket
<1>4. TheInstrument = None /\ TheInstrument' = 1
  BY <1>1 DEF Start, TheInstrument
<1> QED BY <1>1, <1>2, <1>3, <1>4 DEF Ledger!Register

\* poll() hands out an event: its price is owed to its bar of each interval.
LEMMA PollOwes ==
  ASSUME Kept, [Next]_vars, NEW k \in Intervals, NEW t,
         NEW b \in Builders, Poll(b)
  PROVE  UNCHANGED Ledger(k, t)!ledger \/ \E x \in Prices : Ledger(k, t)!Owe(b, x)
<1>0. TypeOK /\ Typed /\ Known /\ NoneBefore
  BY DEF Kept, Nested, Typed
<1> PICK n : n = Len(delivered) + 1
  OBVIOUS
<1> PICK m : m = log[pos[b]]
  OBVIOUS
<1>1. /\ UNCHANGED <<bars, starts, applied, log>> /\ pc[b] = "poll"
      /\ delivered' = Append(delivered, pos[b]) /\ pos[b] \in DOMAIN log
      /\ cur' = [cur EXCEPT ![b] = n] /\ step' = [step EXCEPT ![b] = 1]
      /\ pc' = [pc EXCEPT ![b] = "bars"]
  BY <1>0, LenProperties DEF Poll, broker, TypeOK
<1>2. /\ DOMAIN delivered' = DOMAIN delivered \cup {n} /\ n \notin DOMAIN delivered
      /\ delivered'[n] = pos[b]
  <2>1. delivered \in Seq(DOMAIN log) /\ DOMAIN delivered = 1..Len(delivered) /\ Len(delivered) \in Nat
    BY <1>0, LenProperties DEF TypeOK
  <2>2. DOMAIN Append(delivered, pos[b]) = 1..(Len(delivered) + 1)
        /\ Append(delivered, pos[b])[Len(delivered) + 1] = pos[b]
    BY <1>1, <2>1
  <2> QED BY <1>1, <2>1, <2>2
<1>3. \A d \in DOMAIN delivered : Delivery(d)' = Delivery(d)
  BY DeliveriesStay DEF Kept
<1>4. Delivery(n)' = m
  BY <1>1, <1>2 DEF Delivery
<1>5. k >= 1 /\ \A c \in Builders \ {b} : UNCHANGED <<pc[c], step[c], cur[c]>>
  BY <1>0, <1>1, WidthsAssumption, LenProperties DEF TypeOK
<1>6. pc'[b] = "bars" /\ cur'[b] = n /\ step'[b] = 1 /\ n \notin applied[k]
  BY <1>0, <1>1, <1>2 DEF TypeOK
<1>7. \A c \in Builders \ {b} : /\ (Owes(c, k, t)' <=> Owes(c, k, t))
                                /\ Owes(c, k, t) => Delivery(cur[c])' = Delivery(cur[c])
  <2> SUFFICES ASSUME NEW c \in Builders \ {b}
               PROVE  /\ Owes(c, k, t)' <=> Owes(c, k, t)
                      /\ pc[c] = "bars" => Delivery(cur[c])' = Delivery(cur[c])
    BY DEF Owes
  <2>1. pc[c] = "bars" => cur[c] \in DOMAIN delivered
    BY <1>0 DEF Typed, Busy
  <2>2. pc[c] = "bars" => Delivery(cur[c])' = Delivery(cur[c])
    BY <1>3, <1>5, <2>1 DEF Delivery
  <2> QED BY <1>5, <2>2 DEF Owes, Bucket
<1>8. ~Owes(b, k, t) /\ (Owes(b, k, t)' <=> Bucket(k, m.ts) = t)
  BY <1>1, <1>4, <1>5, <1>6 DEF Owes, Bucket, Delivery
<1>9. Dropped(k, t)' = Dropped(k, t)
  <2>1. \A d \in DOMAIN delivered :
          (\A c \in Builders : Owes(c, k, t)' => cur'[c] # d) <=>
          (\A c \in Builders : Owes(c, k, t) => cur[c] # d)
    BY <1>2, <1>5, <1>6, <1>7, <1>8
  <2>2. n \notin Dropped(k, t)'
    BY <1>4, <1>6, <1>8 DEF Dropped, Bucket
  <2>3. \A d \in DOMAIN delivered : d \in Dropped(k, t)' <=> d \in Dropped(k, t)
    BY <1>1, <1>2, <1>3, <2>1 DEF Dropped, Bucket
  <2>4. Dropped(k, t)' \subseteq DOMAIN delivered \cup {n} /\ Dropped(k, t) \subseteq DOMAIN delivered
    BY <1>2 DEF Dropped
  <2> QED BY <1>2, <2>2, <2>3, <2>4
<1>10. TheInstrument' = TheInstrument /\ bars'[k][t] = bars[k][t]
  BY <1>1 DEF TheInstrument
<1>11. CASE Bucket(k, m.ts) # t
  <2>1. \A c \in Builders : (Owes(c, k, t)' <=> Owes(c, k, t))
    BY <1>7, <1>8, <1>11
  <2>2. \A c \in Builders : Owes(c, k, t) => Delivery(cur[c])'.price = Delivery(cur[c]).price
    BY <1>7, <1>8
  <2> QED BY <1>9, <1>10, <2>1, <2>2, Unmoved
<1>12. CASE Bucket(k, m.ts) = t
  <2>1. m.price \in Prices
    BY <1>0, <1>1 DEF Known
  <2>2. TheInstrument = 1
    BY <1>0, <1>1 DEF TheInstrument, NoneBefore
  <2>3. OwedTo(k, t)[b] = None
    BY <1>8 DEF OwedTo
  <2>4. OwedTo(k, t)' = [OwedTo(k, t) EXCEPT ![b] = [inst |-> 1, price |-> m.price]]
    <3>1. Owes(b, k, t)' /\ Delivery(cur[b])'.price = m.price
      BY <1>4, <1>6, <1>8, <1>12 DEF Delivery
    <3> QED BY <1>7, <3>1 DEF OwedTo
  <2>5. 1 # None
    BY NoneAssumption
  <2>6. Ledger(k, t)!Owe(b, m.price)
    BY <1>9, <1>10, <2>2, <2>3, <2>4, <2>5 DEF Ledger!Owe
  <2> QED BY <2>1, <2>6
<1> QED BY <1>11, <1>12

\* _update_bar folds the price into the one bar it is owed to; other bars keep theirs.
LEMMA UpdateApplies ==
  ASSUME Kept, [Next]_vars, NEW k \in Intervals, NEW t,
         NEW b \in Builders, UpdateBar(b)
  PROVE  UNCHANGED Ledger(k, t)!ledger \/ Ledger(k, t)!Apply(b)
<1>0. TypeOK /\ Typed /\ InHandOnce
  BY DEF Kept, Nested, Typed
<1> PICK j \in Intervals, n \in DOMAIN delivered :
       /\ j = step[b] /\ n = cur[b] /\ pc[b] = "bars"
       /\ bars' = [bars EXCEPT ![j][Bucket(j, Delivery(n).ts)] = Updated(@, Delivery(n).price)]
       /\ applied' = [applied EXCEPT ![j] = @ \cup {n}]
       /\ NextInterval(b) /\ UNCHANGED <<starts, cur, log, delivered>>
  BY <1>0 DEF UpdateBar, Typed, Busy, TypeOK, broker
<1>1. k \in Int /\ j \in Int /\ k <= Len(Widths) /\ Len(Widths) \in Nat
  BY WidthsAssumption, LenProperties
<1>2. \A d : Delivery(d)' = Delivery(d)
  BY DEF Delivery
<1>3. \A c \in Builders : Delivery(cur[c])' = Delivery(cur[c])
  BY DEF Delivery
<1>4. \A c \in Builders \ {b} : pc'[c] = pc[c] /\ step'[c] = step[c]
  BY <1>0 DEF NextInterval, TypeOK
<1>5. \/ j < Len(Widths) /\ pc'[b] = "bars" /\ step'[b] = j + 1
      \/ j >= Len(Widths) /\ pc'[b] = "poll"
  BY <1>0, <1>1 DEF NextInterval, TypeOK
<1>6. \A c \in Builders \ {b} : Owes(c, k, t)' <=> Owes(c, k, t)
  BY <1>3, <1>4 DEF Owes, Bucket
<1>7. /\ Owes(b, k, t) <=> j <= k /\ Bucket(k, Delivery(n).ts) = t
      /\ Owes(b, k, t)' <=> j < k /\ Bucket(k, Delivery(n).ts) = t
  BY <1>1, <1>2, <1>3, <1>5 DEF Owes, Bucket, Delivery
<1>8. TheInstrument' = TheInstrument
  BY DEF TheInstrument
<1>9. applied'[k] = (IF k = j THEN applied[k] \cup {n} ELSE applied[k])
  BY <1>0 DEF TypeOK
<1>10. CASE k = j /\ Bucket(k, Delivery(n).ts) = t
  <2>1. bars'[k][t] = Updated(bars[k][t], Delivery(n).price)
    <3>1. t \in Times
      BY <1>0, <1>10, InHandTyped, BucketOf DEF Messages
    <3> QED BY <1>0, <1>10, <3>1 DEF TypeOK
  <2>2. Owes(b, k, t) /\ ~Owes(b, k, t)'
    BY <1>1, <1>7, <1>10
  <2>3. /\ OwedTo(k, t)[b] # None /\ OwedTo(k, t)[b].inst = TheInstrument
        /\ OwedTo(k, t)[b].price = Delivery(n).price /\ n \notin Dropped(k, t)
    <3>1. /\ OwedTo(k, t)[b] = [inst |-> 1, price |-> Delivery(cur[b]).price]
          /\ OwedTo(k, t)[b] # None /\ TheInstrument = 1 /\ cur[b] \notin Dropped(k, t)
      BY <2>2, InDebt
    <3> QED BY <3>1
  <2>4. Ledger(k, t)!Settle(b)
    BY <1>3, <1>6, <2>2, SettlesDebt
  <2>5. Dropped(k, t)' = Dropped(k, t)
    <3>1. n \notin Dropped(k, t)'
      BY <1>9, <1>10 DEF Dropped
    <3>2. \A d \in DOMAIN delivered : d # n =>
            (d \in Dropped(k, t)' <=> d \in Dropped(k, t))
      BY <1>2, <1>6, <1>9, <2>2 DEF Dropped, Bucket
    <3>3. Dropped(k, t)' \subseteq DOMAIN delivered /\ Dropped(k, t) \subseteq DOMAIN delivered
      BY DEF Dropped
    <3>4. \A d : d \in Dropped(k, t)' <=> d \in Dropped(k, t)
      BY <2>3, <3>1, <3>2, <3>3
    <3> QED BY <3>4
  <2>6. \A r, x : Updated(r, x) = Ledger(k, t)!Updated(r, x)
    BY DEF Updated, Opened, Widened, Larger, Smaller, Ledger!Updated, Ledger!Opened,
           Ledger!Widened, Ledger!Larger, Ledger!Smaller
  <2> QED BY <1>8, <2>1, <2>3, <2>4, <2>5, <2>6 DEF Ledger!Apply
<1>11. CASE k # j \/ Bucket(k, Delivery(n).ts) # t
  <2>1. bars'[k][t] = bars[k][t]
    BY <1>0, <1>11 DEF TypeOK
  <2>2. Owes(b, k, t)' <=> Owes(b, k, t)
    BY <1>1, <1>7, <1>11
  <2>3. Dropped(k, t)' = Dropped(k, t)
    BY <1>2, <1>6, <1>9, <1>11, <2>2 DEF Dropped, Bucket
  <2> QED BY <1>3, <1>6, <1>8, <2>1, <2>2, <2>3, Unmoved
<1> QED BY <1>10, <1>11

\* A builder that raises or dies with the price in hand fails, and is counted.
LEMMA AbortFails ==
  ASSUME Kept, NEW k \in Intervals, NEW t, NEW b \in Builders,
         pc[b] = "bars", Raise(b) \/ Crash(b)
  PROVE  UNCHANGED Ledger(k, t)!ledger \/ Ledger(k, t)!Fail(b)
<1>0. TypeOK /\ Typed /\ InHandOnce
  BY DEF Kept, Nested, Typed
<1>1. /\ UNCHANGED <<starts, step, cur, bars, log, delivered, applied>>
      /\ pc' = [pc EXCEPT ![b] = "down"]
  BY DEF Raise, Crash, Leave
<1>2. /\ \A d : Delivery(d)' = Delivery(d)
      /\ \A c \in Builders : Delivery(cur[c])' = Delivery(cur[c])
  BY <1>1 DEF Delivery
<1>3. /\ \A c \in Builders \ {b} : Owes(c, k, t)' <=> Owes(c, k, t)
      /\ ~Owes(b, k, t)'
  BY <1>0, <1>1, <1>2 DEF Owes, Bucket, TypeOK
<1>4. TheInstrument' = TheInstrument
  BY <1>1 DEF TheInstrument
<1>5. CASE ~Owes(b, k, t)
  <2>1. Dropped(k, t)' = Dropped(k, t)
    BY <1>1, <1>2, <1>3, <1>5 DEF Dropped, Bucket
  <2> QED BY <1>1, <1>2, <1>3, <1>4, <1>5, <2>1, Unmoved
<1>6. CASE Owes(b, k, t)
  <2>1. /\ OwedTo(k, t)[b] # None /\ cur[b] \in DOMAIN delivered
        /\ cur[b] \notin applied[k] /\ cur[b] \notin Dropped(k, t)
    BY <1>6, InDebt
  <2>2. Dropped(k, t)' = Dropped(k, t) \cup {cur[b]}
    <3>1. \A c \in Builders \ {b} : Owes(c, k, t) => cur[c] # cur[b]
      BY <1>0, <1>6 DEF Owes, InHandOnce
    <3>2. cur[b] \in Dropped(k, t)'
      BY <1>1, <1>2, <1>3, <1>6, <2>1, <3>1 DEF Dropped, Owes, Bucket
    <3>3. \A d \in DOMAIN delivered : d # cur[b] =>
            (d \in Dropped(k, t)' <=> d \in Dropped(k, t))
      BY <1>1, <1>2, <1>3 DEF Dropped, Bucket
    <3>4. Dropped(k, t)' \subseteq DOMAIN delivered /\ Dropped(k, t) \subseteq DOMAIN delivered
      BY <1>1 DEF Dropped
    <3> QED BY <3>2, <3>3, <3>4
  <2>3. IsFiniteSet(Dropped(k, t))
    <3>1. Dropped(k, t) \subseteq DOMAIN delivered
      BY DEF Dropped
    <3>2. DOMAIN delivered = 1..Len(delivered) /\ Len(delivered) \in Nat
      BY <1>0, LenProperties DEF TypeOK
    <3>3. IsFiniteSet(1..Len(delivered))
      BY <3>2, FS_Interval
    <3> QED BY <3>1, <3>2, <3>3, FS_Subset
  <2>4. Cardinality(Dropped(k, t)') = Cardinality(Dropped(k, t)) + 1
    BY <2>1, <2>2, <2>3, FS_AddElement
  <2>5. Ledger(k, t)!Settle(b)
    BY <1>2, <1>3, SettlesDebt
  <2> QED BY <1>1, <1>4, <2>1, <2>4, <2>5 DEF Ledger!Fail
<1> QED BY <1>5, <1>6

LEMMA LedgerStep ==
  ASSUME Kept, [Next]_vars, NEW k \in Intervals, NEW t
  PROVE  [Ledger(k, t)!LedgerNext]_(Ledger(k, t)!ledger)
<1>1. ASSUME NEW b \in Builders, Poll(b) PROVE [Ledger(k, t)!LedgerNext]_(Ledger(k, t)!ledger)
  BY <1>1, PollOwes DEF Ledger!LedgerNext
<1>2. ASSUME NEW b \in Builders, UpdateBar(b)
      PROVE  [Ledger(k, t)!LedgerNext]_(Ledger(k, t)!ledger)
  BY <1>2, UpdateApplies DEF Ledger!LedgerNext
<1>3. ASSUME NEW b \in Builders, pc[b] = "bars", Raise(b) \/ Crash(b)
      PROVE  [Ledger(k, t)!LedgerNext]_(Ledger(k, t)!ledger)
  BY <1>3, AbortFails DEF Ledger!LedgerNext
<1>4. ASSUME NEW b \in Builders, Start(b), starts = 0
      PROVE  [Ledger(k, t)!LedgerNext]_(Ledger(k, t)!ledger)
  BY <1>4, StartRegisters DEF Ledger!LedgerNext
<1>5. ASSUME \/ UNCHANGED vars
             \/ \E p \in Producers : Publish(p) \/ Deliver(p) \/ Expire(p)
             \/ \E b \in Builders : Aside(b)
      PROVE  [Ledger(k, t)!LedgerNext]_(Ledger(k, t)!ledger)
  BY <1>5, AsideMovesNothing
<1>6. \A b \in Builders : Raise(b) => pc[b] = "bars"
  BY DEF Raise
<1> QED BY <1>1, <1>2, <1>3, <1>4, <1>5, <1>6 DEF Next, Loop, Aside

LEMMA LedgerBegins ==
  ASSUME Init, NEW k \in Intervals, NEW t \in Times
  PROVE  Ledger(k, t)!LedgerInit
<1>1. TheInstrument = None /\ bars[k][t] = None
  BY DEF Init, TheInstrument
<1>2. OwedTo(k, t) = [b \in Builders |-> None] /\ Dropped(k, t) = {}
  BY DEF OwedTo, Owes, Dropped, Init
<1> QED BY <1>1, <1>2, FS_EmptySet DEF Ledger!LedgerInit

\* The prices of a bar that were dropped are no more than the builders that failed.
DropsBounded(k, t) == Cardinality(Dropped(k, t)) \in Nat /\ Cardinality(Dropped(k, t)) <= aborts

LEMMA DropsStep ==
  ASSUME Kept, [Next]_vars, NEW k \in Intervals, NEW t, DropsBounded(k, t)
  PROVE  DropsBounded(k, t)'
<1> DEFINE n == Cardinality(Dropped(k, t))
<1>0. aborts \in Nat /\ n \in Nat /\ n <= aborts
  BY DEF Kept, Nested, Typed, TypeOK, DropsBounded
<1>1. ASSUME n' = n, aborts' = aborts \/ aborts' = aborts + 1 PROVE DropsBounded(k, t)'
  BY <1>0, <1>1 DEF DropsBounded
<1>2. UNCHANGED Ledger(k, t)!ledger => n' = n
  BY DEF Ledger!ledger
<1>3. ASSUME NEW b \in Builders, Poll(b) PROVE DropsBounded(k, t)'
  <2>1. aborts' = aborts
    BY <1>3 DEF Poll
  <2>2. n' = n
    BY <1>2, <1>3, PollOwes DEF Ledger!Owe
  <2> QED BY <1>1, <2>1, <2>2
<1>4. ASSUME NEW b \in Builders, UpdateBar(b) PROVE DropsBounded(k, t)'
  <2>1. aborts' = aborts
    BY <1>4 DEF UpdateBar
  <2>2. n' = n
    BY <1>2, <1>4, UpdateApplies DEF Ledger!Apply
  <2> QED BY <1>1, <2>1, <2>2
<1>5. ASSUME NEW b \in Builders, pc[b] = "bars", Raise(b) \/ Crash(b)
      PROVE  DropsBounded(k, t)'
  <2>1. aborts' = aborts + 1
    BY <1>5 DEF Raise, Crash
  <2>2. n' = n \/ n' = n + 1
    BY <1>2, <1>5, AbortFails DEF Ledger!Fail
  <2> QED BY <1>0, <2>1, <2>2 DEF DropsBounded
<1>6. ASSUME NEW b \in Builders, Start(b), starts = 0 PROVE DropsBounded(k, t)'
  <2>1. aborts' = aborts
    BY <1>6 DEF Start, history
  <2>2. n' = n
    BY <1>6, StartRegisters DEF Ledger!Register
  <2> QED BY <1>1, <2>1, <2>2
<1>7. ASSUME \/ UNCHANGED vars
             \/ \E p \in Producers : Publish(p) \/ Deliver(p) \/ Expire(p)
             \/ \E b \in Builders : Aside(b)
      PROVE  DropsBounded(k, t)'
  <2>1. aborts' = aborts
    BY <1>7 DEF vars, history, Publish, Deliver, Expire, Aside, Join, SkipUnusable, AutoCommit,
                Rebalance, Expel, LearnExpelled, Stop, Start, Crash
  <2>2. n' = n
    BY <1>2, <1>7, AsideMovesNothing
  <2> QED BY <1>1, <2>1, <2>2
<1>8. \A b \in Builders : Raise(b) => pc[b] = "bars"
  BY DEF Raise
<1> QED BY <1>3, <1>4, <1>5, <1>6, <1>7, <1>8 DEF Next, Loop, Aside

\* Each bar is the ledger of one interval and bucket that BarRows implements statement
\* by statement: every step of the builders, the group and the producers is one of its
\* steps or leaves it alone, and each price that is dropped cost a builder its event.
THEOREM BarsAreLedgers == Spec => ImplementsLedger
<1> DEFINE Bounded == \A k \in Intervals : \A t \in Buckets(k) : DropsBounded(k, t)
<1>1. ASSUME Init PROVE \A k \in Intervals : \A t \in Buckets(k) : Ledger(k, t)!LedgerInit
  <2>1. \A k \in Intervals : Buckets(k) \subseteq Times
    BY BucketOf DEF Buckets
  <2> QED BY <1>1, <2>1, LedgerBegins
<1>2. ASSUME Kept, [Next]_vars
      PROVE  \A k \in Intervals : \A t \in Buckets(k) :
               [Ledger(k, t)!LedgerNext]_(Ledger(k, t)!ledger)
  BY <1>2, LedgerStep
<1>3. Init => Bounded
  <2> SUFFICES ASSUME Init, NEW k \in Intervals, NEW t PROVE DropsBounded(k, t)
    OBVIOUS
  <2>1. Dropped(k, t) = {} /\ aborts = 0
    BY DEF Dropped, Init
  <2> QED BY <2>1, FS_EmptySet DEF DropsBounded
<1>4. Kept /\ Bounded /\ [Next]_vars => Bounded'
  <2> SUFFICES ASSUME Kept, Bounded, [Next]_vars, NEW k \in Intervals, NEW t \in Buckets(k)
               PROVE  DropsBounded(k, t)'
    BY DEF Buckets, Bucket
  <2> QED BY DropsStep
<1>5. Bounded => \A k \in Intervals : \A t \in Buckets(k) : Cardinality(Dropped(k, t)) <= aborts
  BY DEF DropsBounded
<1> HIDE DEF Bounded
<1> QED BY <1>1, <1>2, <1>3, <1>4, <1>5, KeptInit, KeptStep, PTL DEF Spec, ImplementsLedger
=============================================================================

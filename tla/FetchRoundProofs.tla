-------------------------- MODULE FetchRoundProofs --------------------------
(***************************************************************************)
(* Proofs about FetchRound, for any number of worker processes, venues,    *)
(* instruments and rounds, any books, times and combination of faults.     *)
(***************************************************************************)
EXTENDS FetchRound, AggregatorProofs

USE DEF Instruments, Clients, Running, Without, MoreClients, MessageWaits, Kept, Enough,
        CacheSet, GroupSend, Detectable

-----------------------------------------------------------------------------
(* Type correctness *)

\* The variables that the loop over the instruments leaves typed, whatever is
\* left to do: both branches of NextInstrument.
LEMMA NextInstrumentTyped ==
  ASSUME TypeOK, NEW w \in Workers, NEW r \in Nat, NEW rest \in SUBSET Instruments,
         NextInstrument(w, r, rest)
  PROVE  /\ pc' \in [Workers -> {"idle", "select", "fetch", "publish", "consolidate",
                                 "cache", "broadcast", "arbitrage"}]
         /\ todo' \in [Workers -> SUBSET Instruments]
         /\ inst' \in [Workers -> Instruments \cup {0}] /\ Running'
         /\ client' \in [Workers -> Clients]
         /\ held' \in [Workers -> SUBSET Quotes] /\ DOMAIN cp' = Workers
         /\ checked' \in [Workers -> SUBSET Quotes]
         /\ candidates' \in [Workers -> SUBSET Quotes]
         /\ \A d \in done' : d.round \in Nat /\ d.ts \in 0..now
<1>1. 1 \in Clients
  BY CountsAssumption
<1>2. CASE rest = {} /\ done' = done \cup {[round |-> r, ts |-> now]} /\ Forget(w)
  BY <1>1, <1>2 DEF TypeOK, Forget, LeaveGate
<1>3. CASE rest # {}
  <2>1. PICK i \in rest : /\ inst' = [inst EXCEPT ![w] = i]
                          /\ todo' = [todo EXCEPT ![w] = rest \ {i}]
    BY <1>3 DEF NextInstrument
  <2> QED
    BY <1>1, <1>3, <2>1 DEF TypeOK, NextInstrument, LeaveGate
<1> QED
  BY <1>2, <1>3 DEF NextInstrument

\* The two ways out of one iteration of the loop over the clients.
LEMMA NextClientTyped ==
  ASSUME TypeOK, NEW w \in Workers, NextClient(w), pc[w] \notin {"idle", "select"}, inst' = inst
  PROVE  /\ pc' \in [Workers -> {"idle", "select", "fetch", "publish", "consolidate",
                                 "cache", "broadcast", "arbitrage"}]
         /\ client' \in [Workers -> Clients] /\ Running'
<1>1. /\ pc \in [Workers -> {"idle", "select", "fetch", "publish", "consolidate",
                            "cache", "broadcast", "arbitrage"}]
      /\ client \in [Workers -> Clients] /\ Running
  BY DEF TypeOK
<1>2. client' \in [Workers -> Clients]
  BY <1>1, CountsAssumption DEF NextClient
<1> QED
  BY <1>1, <1>2 DEF NextClient

\* Incrementing counters of one process keeps every registry typed.
LEMMA MetricsTyped ==
  ASSUME metrics \in [Workers -> Counters], NEW w \in Workers,
         \/ metrics' = [metrics EXCEPT ![w].fetched = @ + 1]
         \/ metrics' = [metrics EXCEPT ![w].failed = @ + 1]
         \/ metrics' = [metrics EXCEPT ![w].consolidated = @ + 1]
         \/ metrics' = [metrics EXCEPT ![w].arbitrage = @ + 1]
         \/ metrics' = [metrics EXCEPT ![w].published = @ + 1]
         \/ metrics' = [metrics EXCEPT ![w].publish_failed = @ + 1]
         \/ metrics' = [metrics EXCEPT ![w] = NoCounts]
  PROVE  metrics' \in [Workers -> Counters]
  BY DEF Counters, NoCounts

LEMMA TypeInit == Init => TypeOK
  BY CountsAssumption DEF Init, TypeOK, Counters, NoCounts

LEMMA TypeStep == TypeOK /\ [Next]_vars => TypeOK'
<1> SUFFICES ASSUME TypeOK, [Next]_vars PROVE TypeOK'
  OBVIOUS
<1>1. CASE Beat
  <2>1. dispatched' \in 0..MaxRounds /\ started' \in 0..dispatched'
    BY <1>1, CountsAssumption DEF Beat, TypeOK
  <2> QED
    BY <1>1, <2>1 DEF Beat, TypeOK, IsRow, Row, tables, outputs, frame, gate
<1>2. CASE Tick
  <2>1. now' \in 0..MaxTime /\ \A d \in done : d.ts \in 0..now => d.ts \in 0..now'
    BY <1>2, CountsAssumption DEF Tick, TypeOK
  <2> QED
    BY <1>2, <2>1 DEF Tick, TypeOK, IsRow, Row, tables, outputs, frame, gate
<1>3. CASE AdminToggle
  BY <1>3 DEF AdminToggle, TypeOK, IsRow, Row, tables, outputs, frame, gate
<1>4. ASSUME NEW w \in Workers, StartRound(w) PROVE TypeOK'
  <2>1. active' \in SUBSET Instruments /\ registered' = Instruments /\ active' \subseteq registered'
    BY <1>4 DEF StartRound, RegisterInstruments, TypeOK
  <2>2. started + 1 \in Nat /\ started' \in 0..dispatched
    BY <1>4 DEF StartRound, TypeOK
  <2>3. alongside' \subseteq Nat \X Nat
    BY <1>4, <2>2 DEF StartRound, TypeOK
  <2> QED
    BY <1>4, <2>1, <2>2, <2>3
    DEF StartRound, TypeOK, IsRow, Row, tables, outputs, gate
<1>19. ASSUME NEW w \in Workers, ReadActive(w) PROVE TypeOK'
  <2>1. NextInstrument(w, round[w], active) /\ round[w] \in Nat /\ active \in SUBSET Instruments
    BY <1>19 DEF ReadActive, TypeOK
  <2> QED
    BY <1>19, <2>1, NextInstrumentTyped
    DEF ReadActive, TypeOK, IsRow, Row, env, tables, outputs
<1>20. ASSUME NEW w \in Workers, CheckQuote(w) PROVE TypeOK'
  <2>1. PICK q \in Unchecked(w) :
          /\ checked' = [checked EXCEPT ![w] = @ \cup {q}]
          /\ candidates' = [candidates EXCEPT ![w] = IF Kept(w, q) THEN @ \cup {q} ELSE @]
    BY <1>20 DEF CheckQuote
  <2>2. q \in Quotes
    BY DEF Unchecked, TypeOK
  <2>3. /\ checked' \in [Workers -> SUBSET Quotes]
        /\ candidates' \in [Workers -> SUBSET Quotes]
    BY <2>1, <2>2 DEF TypeOK
  <2> QED
    BY <1>20, <2>3 DEF CheckQuote, TypeOK, IsRow, Row, env, tables, outputs
<1>5. ASSUME NEW w \in Workers, StartRoundFails(w) PROVE TypeOK'
  <2>1. started' \in 0..dispatched'
    BY <1>5 DEF StartRoundFails, TypeOK
  <2>2. registered' \subseteq Instruments /\ active' \subseteq registered'
    BY <1>5 DEF StartRoundFails, RegisterInstruments, TypeOK
  <2> QED
    BY <1>5, <2>1, <2>2 DEF StartRoundFails, TypeOK, IsRow, Row, tables, outputs, frame, gate
<1>6. ASSUME NEW w \in Workers, FetchFails(w) PROVE TypeOK'
  BY <1>6, NextClientTyped, MetricsTyped
  DEF FetchFails, TypeOK, IsRow, Row, env, tables, outputs, gate
<1>7. ASSUME NEW w \in Workers, FetchSucceeds(w) PROVE TypeOK'
  <2>1. PICK b \in Books :
          LET q == [round |-> round[w], inst |-> inst[w], source |-> client[w],
                    bid |-> b.bid, ask |-> b.ask, ts |-> now]
          IN  quotes' = quotes \cup {q} /\ held' = [held EXCEPT ![w] = @ \cup {q}]
    BY <1>7 DEF FetchSucceeds
  <2>2. inst[w] \in Instruments
    BY <1>7 DEF FetchSucceeds, TypeOK
  <2>3. [round |-> round[w], inst |-> inst[w], source |-> client[w],
         bid |-> b.bid, ask |-> b.ask, ts |-> now] \in Quotes
    BY <2>2, BooksAssumption DEF TypeOK, Quotes
  <2>4. metrics' \in [Workers -> Counters]
    BY <1>7, MetricsTyped DEF FetchSucceeds, TypeOK
  <2>5. quotes' \subseteq Quotes /\ held' \in [Workers -> SUBSET Quotes]
    BY <2>1, <2>3 DEF TypeOK
  <2> QED
    BY <1>7, <2>4, <2>5 DEF FetchSucceeds, TypeOK, IsRow, Row, env, outputs, gate
<1>8. ASSUME NEW w \in Workers, PublishQuote(w) PROVE TypeOK'
  BY <1>8, NextClientTyped, MetricsTyped
  DEF PublishQuote, TypeOK, IsRow, Row, env, tables, outputs, gate
<1>9. ASSUME NEW w \in Workers, PublishFails(w) PROVE TypeOK'
  BY <1>9, NextClientTyped, MetricsTyped
  DEF PublishFails, TypeOK, IsRow, Row, env, tables, outputs, gate
<1>10. ASSUME NEW w \in Workers, NoPrice(w) PROVE TypeOK'
  <2>1. NextInstrument(w, round[w], todo[w]) /\ round[w] \in Nat /\ todo[w] \in SUBSET Instruments
    BY <1>10 DEF NoPrice, TypeOK
  <2> QED
    BY <1>10, <2>1, NextInstrumentTyped
    DEF NoPrice, TypeOK, IsRow, Row, env, tables, outputs
<1>11. ASSUME NEW w \in Workers, WritePrice(w) PROVE TypeOK'
  <2>1. inst[w] \in Instruments
    BY <1>11 DEF WritePrice, TypeOK
  <2>2. metrics' \in [Workers -> Counters]
    BY <1>11, MetricsTyped DEF WritePrice, TypeOK
  <2> QED
    BY <1>11, <2>1, <2>2 DEF WritePrice, TypeOK, IsRow, Row, env, outputs, LeaveGate
<1>12. ASSUME NEW w \in Workers, SetCache(w) PROVE TypeOK'
  BY <1>12 DEF SetCache, TypeOK, IsRow, Row, env, tables, frame, gate
<1>13. ASSUME NEW w \in Workers, Broadcast(w) PROVE TypeOK'
  BY <1>13 DEF Broadcast, TypeOK, IsRow, Row, env, tables, frame, gate
<1>14. ASSUME NEW w \in Workers, RecordArbitrage(w) PROVE TypeOK'
  <2>1. NextInstrument(w, round[w], todo[w]) /\ round[w] \in Nat /\ todo[w] \in SUBSET Instruments
    BY <1>14 DEF RecordArbitrage, TypeOK
  <2>2. inst[w] \in Instruments
    BY <1>14 DEF RecordArbitrage, TypeOK
  <2>3. metrics' \in [Workers -> Counters]
    BY <1>14, MetricsTyped DEF RecordArbitrage, TypeOK
  <2>4. round[w] \in Nat /\ now \in Nat
    BY DEF TypeOK
  <2>5. \A a \in arbs' : IsRow(a)
    BY <1>14, <2>2, <2>4 DEF RecordArbitrage, TypeOK, IsRow, Row
  <2>6. UNCHANGED <<env, quotes, prices, outputs, round>>
    BY <1>14 DEF RecordArbitrage
  <2> QED
    BY <2>1, <2>3, <2>5, <2>6, NextInstrumentTyped DEF TypeOK, IsRow, Row, env, outputs
<1>15. ASSUME NEW w \in Workers, NoArbitrage(w) PROVE TypeOK'
  <2>1. NextInstrument(w, round[w], todo[w]) /\ round[w] \in Nat /\ todo[w] \in SUBSET Instruments
    BY <1>15 DEF NoArbitrage, TypeOK
  <2> QED
    BY <1>15, <2>1, NextInstrumentTyped
    DEF NoArbitrage, TypeOK, IsRow, Row, env, tables, outputs
<1>16. ASSUME NEW w \in Workers, Raise(w) PROVE TypeOK'
  BY <1>16, CountsAssumption DEF Raise, Forget, LeaveGate, TypeOK, IsRow, Row, env, tables, outputs
<1>17. ASSUME NEW w \in Workers, Crash(w) PROVE TypeOK'
  <2>1. metrics' \in [Workers -> Counters]
    BY <1>17, MetricsTyped DEF Crash, TypeOK
  <2> QED
    BY <1>17, <2>1, CountsAssumption
    DEF Crash, Forget, LeaveGate, TypeOK, IsRow, Row, env, tables, outputs
<1>18. CASE UNCHANGED vars
  BY <1>18 DEF vars, TypeOK, IsRow, Row, env, tables, outputs, frame, gate
<1> QED
  BY <1>1, <1>2, <1>3, <1>4, <1>5, <1>6, <1>7, <1>8, <1>9, <1>10, <1>11, <1>12, <1>13,
     <1>14, <1>15, <1>16, <1>17, <1>18, <1>19, <1>20 DEF Next, Step, Fault
  
\* Every variable keeps its type in every reachable state.
THEOREM TypeCorrect == Spec => []TypeOK
  BY TypeInit, TypeStep, PTL DEF Spec

-----------------------------------------------------------------------------
(* Rounds are consistent, however they overlap *)

Busy(w) == pc[w] # "idle"

\* What a step leaves of a running worker that does not take it.
Aside(v) ==
  /\ pc'[v] = pc[v] /\ round'[v] = round[v] /\ todo'[v] = todo[v]
  /\ inst'[v] = inst[v] /\ held'[v] = held[v] /\ cp'[v] = cp[v]
  /\ checked'[v] = checked[v] /\ candidates'[v] = candidates[v]

\* A step that stores rows of other rounds only, and lets time pass or not,
\* leaves a worker where it stands in its own round.
LEMMA Undisturbed ==
  ASSUME TypeOK, now' \in Nat, now <= now', quotes' \subseteq Quotes,
         NEW v \in Workers, Aside(v), AtWork(v),
         quotes \subseteq quotes', prices \subseteq prices',
         \A q \in quotes' \ quotes : q.round # round[v],
         \A p \in prices' \ prices : p.round # round[v],
         \A a \in arbs' \ arbs : a.round # round[v]
  PROVE  AtWork(v)'
<1>1. CASE pc[v] = "select"
  <2>1. \A x \in quotes \cup prices \cup arbs : x.round # round[v]
    BY <1>1 DEF AtWork
  <2>2. \A x \in quotes' \cup prices' \cup arbs' : x.round # round[v]
    BY <2>1
  <2> QED
    BY <1>1, <2>2 DEF AtWork, Aside
<1>2. CASE pc[v] # "select"
  <2>0. InLoop(v) /\ AtGate(v)
    BY <1>2 DEF AtWork
  <2>1. \A j : RoundQuotes(round[v], j)' = RoundQuotes(round[v], j)
    BY DEF RoundQuotes, Aside
  <2>2. Priced(v)' <=> Priced(v)
    BY DEF Priced, Aside
  <2>3. \A q \in Quotes : now - q.ts > MaxAge => now' - q.ts > MaxAge
    BY TimesAssumption DEF TypeOK, Quotes
  <2>4. inst'[v] \notin todo'[v] /\ held'[v] = RoundQuotes(round[v], inst[v])'
    BY <2>0, <2>1 DEF InLoop, Aside
  <2>5. \A q \in quotes' : q.round = round'[v] => q.inst \notin todo'[v]
    BY <2>0 DEF InLoop, Aside
  <2>6. \A p \in prices' : p.round = round'[v] =>
          p.inst \notin todo'[v] /\ (p.inst = inst'[v] => Priced(v)')
    BY <2>0, <2>2 DEF InLoop, Aside
  <2>7. \A a \in arbs' : a.round = round'[v] => a.inst \notin todo'[v] /\ a.inst # inst'[v]
    BY <2>0 DEF InLoop, Aside
  <2>8. Priced(v)' => cp'[v] \in prices' /\ cp'[v].round = round'[v] /\ cp'[v].inst = inst'[v]
    BY <2>0, <2>2 DEF InLoop, Aside
  <2>9. \A j \in Instruments \ (todo'[v] \cup {inst'[v]}) :
          \/ \E p \in prices' : p.round = round'[v] /\ p.inst = j
          \/ \A q \in RoundQuotes(round[v], j)' : Positive(q) => now' - q.ts > MaxAge
    <3> SUFFICES ASSUME NEW j \in Instruments \ (todo'[v] \cup {inst'[v]})
                 PROVE  \/ \E p \in prices' : p.round = round'[v] /\ p.inst = j
                        \/ \A q \in RoundQuotes(round[v], j)' : Positive(q) => now' - q.ts > MaxAge
      OBVIOUS
    <3>1. \/ \E p \in prices : p.round = round[v] /\ p.inst = j
          \/ \A q \in RoundQuotes(round[v], j) : Positive(q) => now - q.ts > MaxAge
      BY <2>0 DEF InLoop, Aside
    <3>2. RoundQuotes(round[v], j) \subseteq Quotes
      BY DEF RoundQuotes, TypeOK
    <3> QED
      BY <2>1, <2>3, <3>1, <3>2 DEF Aside
  <2>10. InLoop(v)'
    BY <2>4, <2>5, <2>6, <2>7, <2>8, <2>9 DEF InLoop
  <2>11. AtGate(v)'
    BY <2>0, <2>3 DEF AtGate, Aside, TypeOK
  <2> QED
    BY <1>2, <2>10, <2>11 DEF AtWork, Aside
<1> QED
  BY <1>1, <1>2

\* The next instrument of a round is begun with nothing of it stored.
LEMMA NextInstrumentAtWork ==
  ASSUME TypeOK, NEW w \in Workers, NEW r, NEW rest \in SUBSET Instruments,
         NextInstrument(w, r, rest), round'[w] = r,
         \A x \in quotes' \cup prices' \cup arbs' : x.round = r => x.inst \notin rest,
         \A j \in Instruments \ rest :
           \/ \E p \in prices' : p.round = r /\ p.inst = j
           \/ \A q \in RoundQuotes(round[w], j)' : Positive(q) => now' - q.ts > MaxAge
  PROVE  Busy(w)' => AtWork(w)'
<1> SUFFICES ASSUME Busy(w)' PROVE AtWork(w)'
  OBVIOUS
<1>1. PICK i \in rest :
        /\ inst' = [inst EXCEPT ![w] = i] /\ todo' = [todo EXCEPT ![w] = rest \ {i}]
        /\ pc' = [pc EXCEPT ![w] = "fetch"] /\ held' = [held EXCEPT ![w] = {}]
        /\ LeaveGate(w)
  <2>1. ~ Forget(w)
    BY DEF Forget, TypeOK, Busy
  <2> QED
    BY <2>1 DEF NextInstrument
<1>2. /\ inst'[w] = i /\ todo'[w] = rest \ {i} /\ pc'[w] = "fetch" /\ held'[w] = {}
      /\ checked'[w] = {} /\ candidates'[w] = {}
  BY <1>1 DEF TypeOK, LeaveGate
<1>3. held'[w] = RoundQuotes(round[w], inst[w])'
  BY <1>2 DEF RoundQuotes
<1>4. ~ Priced(w)'
  BY <1>2 DEF Priced
<1>5. \A j \in Instruments \ (todo'[w] \cup {inst'[w]}) : j \in Instruments \ rest
  BY <1>2
<1>6. InLoop(w)'
  BY <1>2, <1>3, <1>4, <1>5 DEF InLoop
<1>7. AtGate(w)'
  BY <1>2 DEF AtGate
<1> QED
  BY <1>2, <1>6, <1>7 DEF AtWork

\* The workers other than w when w returns or raises ...
LEMMA ForgetAside ==
  ASSUME TypeOK, NEW w \in Workers, NEW v \in Workers \ {w}, Forget(w), round' = round
  PROVE  Aside(v)
  BY DEF TypeOK, Forget, LeaveGate, Aside

\* ... and when it comes to the head of the loop over the instruments.
LEMMA NextInstrumentAside ==
  ASSUME TypeOK, NEW w \in Workers, NEW v \in Workers \ {w},
         NEW r, NEW rest, NextInstrument(w, r, rest), round' = [round EXCEPT ![w] = r]
  PROVE  Aside(v)
<1>1. CASE Forget(w)
  BY <1>1 DEF TypeOK, Forget, LeaveGate, Aside
<1>2. ASSUME NEW i \in rest, inst' = [inst EXCEPT ![w] = i],
             todo' = [todo EXCEPT ![w] = rest \ {i}],
             pc' = [pc EXCEPT ![w] = "fetch"],
             held' = [held EXCEPT ![w] = {}], cp' = [cp EXCEPT ![w] = None], LeaveGate(w)
      PROVE  Aside(v)
  BY <1>2 DEF TypeOK, LeaveGate, Aside
<1> QED
  BY <1>1, <1>2 DEF NextInstrument

Consistent == TypeOK /\ RoundsConsistent

LEMMA ConsistentInit == Init => RoundsConsistent
  BY DEF Init, RoundsConsistent, RoundsApart

\* Steps that neither store anything nor move a worker.
LEMMA EnvironmentConsistent ==
  ASSUME Consistent, TypeOK', UNCHANGED <<tables, done, pc, frame>>,
         now <= now', started <= started'
  PROVE  RoundsConsistent'
<1>1. RoundsApart'
  <2>1. \A x \in quotes \cup prices \cup arbs \cup done :
          x.round \in Nat /\ x.round <= started => x.round <= started'
    BY DEF Consistent, TypeOK
  <2>2. \A x \in quotes \cup prices \cup arbs \cup done : x.round \in Nat
    BY DEF Consistent, TypeOK, Quotes, IsRow, Row
  <2>3. \A x \in quotes \cup prices : x.ts \in Nat
    BY DEF Consistent, TypeOK, Quotes, IsRow, Row
  <2>4. \A x \in quotes' \cup prices' \cup arbs' \cup done' : x.round <= started'
    BY <2>1, <2>2 DEF Consistent, RoundsConsistent, RoundsApart, tables
  <2>5. \A x \in quotes' \cup prices' : x.ts <= now'
    BY <2>3 DEF Consistent, TypeOK, RoundsConsistent, RoundsApart, tables
  <2>6. ASSUME NEW w \in Workers, pc'[w] # "idle"
        PROVE  /\ round'[w] <= started'
               /\ \A d \in done' : d.round # round'[w]
               /\ \A v \in Workers \ {w} : pc'[v] # "idle" => round'[v] # round'[w]
    BY <2>6 DEF Consistent, TypeOK, RoundsConsistent, RoundsApart, tables, frame
  <2> QED
    BY <2>4, <2>5, <2>6 DEF RoundsApart
<1>2. ASSUME NEW v \in Workers, Busy(v)' PROVE AtWork(v)'
  <2>1. Aside(v) /\ AtWork(v)
    BY <1>2 DEF Aside, Consistent, RoundsConsistent, Busy, frame, gate
  <2>2. TypeOK /\ now \in Nat /\ quotes \subseteq Quotes
    <3>1. TypeOK
      BY DEF Consistent
    <3> QED BY <3>1 DEF TypeOK
  <2>3. now' \in Nat /\ now <= now' /\ quotes' = quotes /\ prices' = prices /\ arbs' = arbs
    BY DEF tables, TypeOK
  <2> QED
    BY <2>1, <2>2, <2>3, Undisturbed
<1> QED
  BY <1>1, <1>2 DEF RoundsConsistent, Busy

\* A step of one running worker w that stores rows of its own round only.
LEMMA WorkerConsistent ==
  ASSUME Consistent, TypeOK', NEW w \in Workers, Busy(w),
         now' = now, started' = started, round' = round,
         \A v \in Workers \ {w} : Aside(v),
         quotes \subseteq quotes', prices \subseteq prices', arbs \subseteq arbs',
         \A x \in (quotes' \ quotes) \cup (prices' \ prices) \cup (arbs' \ arbs) :
           x.round = round[w],
         \A x \in (quotes' \ quotes) \cup (prices' \ prices) : x.ts = now,
         \/ done' = done
         \/ done' = done \cup {[round |-> round[w], ts |-> now]} /\ ~ Busy(w)',
         Busy(w)' => AtWork(w)'
  PROVE  RoundsConsistent'
<1>1. round[w] <= started /\ \A v \in Workers \ {w} : Busy(v) => round[v] # round[w]
  BY DEF Consistent, RoundsConsistent, RoundsApart, Busy
<1>2. RoundsApart'
  <2>1. \A x \in quotes' \cup prices' \cup arbs' \cup done' : x.round <= started'
    BY <1>1 DEF Consistent, RoundsConsistent, RoundsApart
  <2>2. \A x \in quotes' \cup prices' : x.ts <= now'
    BY DEF Consistent, TypeOK, RoundsConsistent, RoundsApart
  <2>3. ASSUME NEW v \in Workers, Busy(v)'
        PROVE  /\ Busy(v) /\ round'[v] <= started'
               /\ \A d \in done' : d.round # round'[v]
    <3>1. Busy(v)
      BY <2>3 DEF Aside, Busy
    <3>2. \A d \in done : d.round # round[v]
      BY <3>1 DEF Consistent, RoundsConsistent, RoundsApart, Busy
    <3>3. CASE v = w
      BY <1>1, <2>3, <3>1, <3>2, <3>3
    <3>4. CASE v # w
      BY <1>1, <2>3, <3>1, <3>2, <3>4 DEF Consistent, RoundsConsistent, RoundsApart, Busy
    <3> QED
      BY <3>3, <3>4
  <2>4. \A u, v \in Workers : u # v /\ Busy(u)' /\ Busy(v)' => round'[u] # round'[v]
    BY <2>3 DEF Consistent, RoundsConsistent, RoundsApart, Busy
  <2> QED
    BY <2>1, <2>2, <2>3, <2>4 DEF RoundsApart, Busy
<1>3. ASSUME NEW v \in Workers \ {w}, Busy(v)' PROVE AtWork(v)'
  <2>1. Aside(v) /\ Busy(v) /\ AtWork(v)
    BY <1>3 DEF Aside, Consistent, RoundsConsistent, Busy
  <2>2. \A x \in (quotes' \ quotes) \cup (prices' \ prices) \cup (arbs' \ arbs) :
          x.round # round[v]
    BY <1>1, <2>1
  <2>3. now \in Nat /\ quotes' \subseteq Quotes
    BY DEF Consistent, TypeOK
  <2> QED
    BY <2>1, <2>2, <2>3, Undisturbed DEF Consistent
<1> QED
  BY <1>2, <1>3 DEF RoundsConsistent, Busy

\* The end of an iteration of the loop over the instruments, in the round w is at.
LEMMA LoopConsistent ==
  ASSUME Consistent, TypeOK', NEW w \in Workers, Busy(w), pc[w] # "select",
         NextInstrument(w, round[w], todo[w]),
         now' = now, started' = started, round' = round,
         quotes' = quotes, prices' = prices, arbs \subseteq arbs',
         \A a \in arbs' \ arbs : a.round = round[w] /\ a.inst = inst[w],
         \/ \E p \in prices : p.round = round[w] /\ p.inst = inst[w]
         \/ \A q \in held[w] : Positive(q) => now - q.ts > MaxAge
  PROVE  RoundsConsistent'
<1>1. InLoop(w)
  BY DEF Consistent, RoundsConsistent, Busy, AtWork
<1>2. \A v \in Workers \ {w} : Aside(v)
  <2>1. round' = [round EXCEPT ![w] = round[w]]
    BY DEF Consistent, TypeOK
  <2> QED
    BY <2>1, NextInstrumentAside DEF Consistent
<1>3. Busy(w)' => AtWork(w)'
  <2>1. todo[w] \in SUBSET Instruments
    BY DEF Consistent, TypeOK
  <2>2. \A x \in quotes' \cup prices' \cup arbs' : x.round = round[w] => x.inst \notin todo[w]
    BY <1>1 DEF InLoop
  <2>3. \A j : RoundQuotes(round[w], j)' = RoundQuotes(round[w], j)
    BY DEF RoundQuotes
  <2>4. \A j \in Instruments \ todo[w] :
          \/ \E p \in prices' : p.round = round[w] /\ p.inst = j
          \/ \A q \in RoundQuotes(round[w], j)' : Positive(q) => now' - q.ts > MaxAge
    BY <1>1, <2>3 DEF InLoop
  <2> QED
    BY <2>1, <2>2, <2>4, NextInstrumentAtWork DEF Consistent
<1>4. \/ done' = done
      \/ done' = done \cup {[round |-> round[w], ts |-> now]} /\ ~ Busy(w)'
  BY DEF NextInstrument, Forget, Consistent, TypeOK, Busy
<1> QED
  BY <1>2, <1>3, <1>4, WorkerConsistent

LEMMA ConsistentStep == Consistent /\ TypeOK' /\ [Next]_vars => RoundsConsistent'
<1> SUFFICES ASSUME Consistent, TypeOK', [Next]_vars PROVE RoundsConsistent'
  OBVIOUS
<1>1. CASE Beat \/ Tick \/ AdminToggle \/ UNCHANGED vars
  <2>1. UNCHANGED <<tables, done, pc, frame>>
    BY <1>1 DEF Beat, Tick, AdminToggle, vars
  <2>2. now <= now' /\ started <= started'
    BY <1>1 DEF Beat, Tick, AdminToggle, vars, env, Consistent, TypeOK
  <2> QED
    BY <2>1, <2>2, EnvironmentConsistent
<1>2. ASSUME NEW w \in Workers, StartRound(w) PROVE RoundsConsistent'
  <2> DEFINE r == started + 1
  <2>1. /\ round' = [round EXCEPT ![w] = r] /\ pc' = [pc EXCEPT ![w] = "select"]
        /\ UNCHANGED <<now, quotes, prices, arbs, done, todo, inst, held, cp, checked, candidates>>
        /\ started' = r /\ ~ Busy(w)
    BY <1>2 DEF StartRound, tables, gate, Busy
  <2>2. started \in Nat /\ round'[w] = r /\ pc'[w] = "select"
    BY <2>1 DEF Consistent, TypeOK
  <2>3. \A v \in Workers \ {w} : Aside(v)
    BY <2>1 DEF Consistent, TypeOK, Aside
  <2>4. \A x \in quotes \cup prices \cup arbs \cup done : x.round \in Nat /\ x.round < r
    BY <2>2 DEF Consistent, TypeOK, RoundsConsistent, RoundsApart, Quotes, IsRow, Row
  <2>5. AtWork(w)'
    <3>1. \A x \in quotes' \cup prices' \cup arbs' : x.round # r
      BY <2>1, <2>2, <2>4
    <3> QED
      BY <2>2, <3>1 DEF AtWork
  <2>6. \A v \in Workers \ {w} : Busy(v)' => AtWork(v)'
    <3> SUFFICES ASSUME NEW v \in Workers \ {w}, Busy(v)' PROVE AtWork(v)'
      OBVIOUS
    <3>1. Aside(v) /\ AtWork(v)
      BY <2>3 DEF Aside, Busy, Consistent, RoundsConsistent
    <3> QED
      BY <2>1, <3>1, Undisturbed DEF Consistent, TypeOK
  <2>8. RoundsApart'
    <3>1. \A x \in quotes' \cup prices' \cup arbs' \cup done' : x.round <= started'
      BY <2>1, <2>2, <2>4
    <3>2. \A x \in quotes' \cup prices' : x.ts <= now'
      BY <2>1 DEF Consistent, RoundsConsistent, RoundsApart
    <3>3. \A v \in Workers \ {w} : Busy(v)' =>
            Busy(v) /\ round'[v] = round[v] /\ round[v] \in Nat /\ round[v] < r
      BY <2>2, <2>3 DEF Aside, Busy, Consistent, TypeOK, RoundsConsistent, RoundsApart
    <3>4. ASSUME NEW v \in Workers, Busy(v)'
          PROVE  round'[v] <= started' /\ \A d \in done' : d.round # round'[v]
      <4>1. CASE v = w
        BY <2>1, <2>2, <2>4, <3>4, <4>1
      <4>2. CASE v # w
        BY <2>1, <2>2, <3>3, <3>4, <4>2 DEF Consistent, RoundsConsistent, RoundsApart, Busy
      <4> QED
        BY <4>1, <4>2
    <3>5. \A u, v \in Workers : u # v /\ Busy(u)' /\ Busy(v)' => round'[u] # round'[v]
      BY <2>2, <3>3 DEF Consistent, RoundsConsistent, RoundsApart, Busy
    <3> QED
      BY <3>1, <3>2, <3>4, <3>5 DEF RoundsApart, Busy
  <2> QED
    BY <2>5, <2>6, <2>8 DEF RoundsConsistent, Busy
<1>11. ASSUME NEW w \in Workers, ReadActive(w) PROVE RoundsConsistent'
  <2>1. /\ NextInstrument(w, round[w], active) /\ Busy(w)
        /\ UNCHANGED <<now, started, round, quotes, prices, arbs>>
    BY <1>11 DEF ReadActive, Busy, env, tables
  <2>2. \A x \in quotes \cup prices \cup arbs : x.round # round[w]
    BY <1>11, <2>1 DEF ReadActive, Busy, Consistent, RoundsConsistent, AtWork
  <2>3. \A v \in Workers \ {w} : Aside(v)
    <3>1. round' = [round EXCEPT ![w] = round[w]]
      BY <2>1 DEF Consistent, TypeOK
    <3> QED
      BY <2>1, <3>1, NextInstrumentAside DEF Consistent
  <2>4. Busy(w)' => AtWork(w)'
    <3>1. \A j : RoundQuotes(round[w], j)' = {}
      BY <2>1, <2>2 DEF RoundQuotes
    <3>2. active \in SUBSET Instruments
      BY DEF Consistent, TypeOK
    <3> QED
      BY <2>1, <2>2, <3>1, <3>2, NextInstrumentAtWork DEF Consistent
  <2>5. \/ done' = done
        \/ done' = done \cup {[round |-> round[w], ts |-> now]} /\ ~ Busy(w)'
    BY <2>1 DEF NextInstrument, Forget, Consistent, TypeOK, Busy
  <2> QED
    BY <2>1, <2>3, <2>4, <2>5, WorkerConsistent
<1>3. ASSUME NEW w \in Workers, StartRoundFails(w) PROVE RoundsConsistent'
  <2>1. UNCHANGED <<tables, done, pc, frame>> /\ now <= now' /\ started <= started'
    BY <1>3 DEF StartRoundFails, Consistent, TypeOK
  <2> QED
    BY <2>1, EnvironmentConsistent
<1>0. \A w \in Workers : pc[w] \notin {"idle", "select"} => Busy(w) /\ InLoop(w) /\ AtGate(w)
  BY DEF Busy, Consistent, RoundsConsistent, AtWork
<1>4. ASSUME NEW w \in Workers, FetchFails(w) \/ PublishQuote(w) \/ PublishFails(w)
      PROVE  RoundsConsistent'
  <2>1. Busy(w) /\ ~ Priced(w) /\ InLoop(w) /\ AtGate(w) /\ checked[w] = {}
    BY <1>0, <1>4 DEF FetchFails, PublishQuote, PublishFails, Priced, AtGate
  <2>2. /\ UNCHANGED <<now, started, round, quotes, prices, arbs, done, todo, inst, held, cp,
                      checked, candidates>>
        /\ NextClient(w)
    BY <1>4 DEF FetchFails, PublishQuote, PublishFails, env, tables, gate
  <2>3. \A v \in Workers \ {w} : Aside(v)
    BY <2>2 DEF NextClient, Consistent, TypeOK, Aside
  <2>4. ~ Priced(w)' /\ pc'[w] # "select"
    BY <2>2 DEF NextClient, Consistent, TypeOK, Priced
  <2>5. \A j : RoundQuotes(round[w], j)' = RoundQuotes(round[w], j)
    BY <2>2 DEF RoundQuotes
  <2>6. InLoop(w)'
    BY <2>1, <2>2, <2>4, <2>5 DEF InLoop
  <2>7. AtGate(w)'
    BY <2>1, <2>2 DEF AtGate
  <2>8. AtWork(w)'
    BY <2>4, <2>6, <2>7 DEF AtWork
  <2> QED
    BY <2>1, <2>2, <2>3, <2>8, WorkerConsistent
<1>5. ASSUME NEW w \in Workers, FetchSucceeds(w) PROVE RoundsConsistent'
  <2>1. /\ Busy(w) /\ ~ Priced(w) /\ InLoop(w) /\ AtGate(w)
        /\ checked[w] = {} /\ candidates[w] = {}
    BY <1>0, <1>5 DEF FetchSucceeds, Priced, AtGate
  <2>2. UNCHANGED <<now, started, round, prices, arbs, done, todo, inst, cp, checked, candidates>>
    BY <1>5 DEF FetchSucceeds, env, gate
  <2>3. PICK q : /\ q.round = round[w] /\ q.inst = inst[w] /\ q.ts = now
                 /\ quotes' = quotes \cup {q}
                 /\ held' = [held EXCEPT ![w] = @ \cup {q}]
    BY <1>5 DEF FetchSucceeds
  <2>4. \A v \in Workers \ {w} : Aside(v)
    BY <1>5, <2>2, <2>3 DEF FetchSucceeds, Consistent, TypeOK, Aside
  <2>5. held'[w] = held[w] \cup {q} /\ pc'[w] = "publish"
    BY <1>5, <2>3 DEF Consistent, TypeOK, FetchSucceeds
  <2>6. held'[w] = RoundQuotes(round[w], inst[w])'
    BY <2>1, <2>2, <2>3, <2>5 DEF InLoop, RoundQuotes
  <2>7. \A j : j # inst[w] => RoundQuotes(round[w], j)' = RoundQuotes(round[w], j)
    BY <2>2, <2>3 DEF RoundQuotes
  <2>8. ~ Priced(w)'
    BY <2>5 DEF Priced
  <2>9. InLoop(w)'
    BY <2>1, <2>2, <2>3, <2>6, <2>7, <2>8 DEF InLoop
  <2>10. AtWork(w)'
    BY <2>1, <2>2, <2>5, <2>9 DEF AtWork, AtGate
  <2> QED
    BY <2>1, <2>2, <2>3, <2>4, <2>10, WorkerConsistent
<1>6. ASSUME NEW w \in Workers, NoPrice(w) PROVE RoundsConsistent'
  <2>1. /\ Busy(w) /\ InLoop(w) /\ AtGate(w) /\ NextInstrument(w, round[w], todo[w])
        /\ pc[w] # "select"
    BY <1>0, <1>6 DEF NoPrice
  <2>2. UNCHANGED <<now, started, round, quotes, prices, arbs>>
    BY <1>6 DEF NoPrice, env, tables
  <2>3. \A q \in held[w] : Positive(q) => now - q.ts > MaxAge
    BY <1>6, <2>1 DEF NoPrice, Unchecked, AtGate
  <2> QED
    BY <2>1, <2>2, <2>3, LoopConsistent
<1>12. ASSUME NEW w \in Workers, CheckQuote(w) PROVE RoundsConsistent'
  <2>1. /\ Busy(w) /\ InLoop(w) /\ AtGate(w) /\ ~ Priced(w)
        /\ pc[w] = "consolidate" /\ pc' = pc
    BY <1>0, <1>12 DEF CheckQuote, Priced
  <2>2. UNCHANGED <<now, started, round, quotes, prices, arbs, done, todo, inst, held, cp>>
    BY <1>12 DEF CheckQuote, env, tables
  <2>3. PICK q \in Unchecked(w) :
          /\ checked' = [checked EXCEPT ![w] = @ \cup {q}]
          /\ candidates' = [candidates EXCEPT ![w] = IF Kept(w, q) THEN @ \cup {q} ELSE @]
    BY <1>12 DEF CheckQuote
  <2>4. \A v \in Workers \ {w} : Aside(v)
    BY <2>1, <2>2, <2>3 DEF Consistent, TypeOK, Aside
  <2>5. /\ checked'[w] = checked[w] \cup {q}
        /\ candidates'[w] = IF Kept(w, q) THEN candidates[w] \cup {q} ELSE candidates[w]
    BY <2>3 DEF Consistent, TypeOK
  <2>6. q \in held[w] /\ Positive(q) /\ q \notin checked[w] /\ q.ts \in Nat
    BY DEF Unchecked, Consistent, TypeOK, Quotes
  <2>7. \A o \in held[w] : o.ts \in Nat /\ o.ts <= now
    BY <2>1 DEF Consistent, TypeOK, Quotes, InLoop, RoundQuotes, RoundsConsistent, RoundsApart
  <2>8. now \in Nat /\ MaxAge \in Nat
    BY TimesAssumption DEF Consistent, TypeOK
  <2>9. Kept(w, q) => \A o \in held[w] : o.ts - q.ts <= MaxAge
    BY <2>6, <2>7, <2>8 DEF IsFresh
  <2>10. ~Kept(w, q) => now - q.ts > MaxAge
    BY <2>6, <2>8 DEF IsFresh
  <2> HIDE DEF Kept
  <2>11. candidates'[w] \subseteq checked'[w] /\ checked'[w] \subseteq held'[w]
    BY <2>1, <2>2, <2>5, <2>6 DEF AtGate
  <2>12. \A o \in checked'[w] : Positive(o)
    BY <2>1, <2>5, <2>6 DEF AtGate
  <2>13. \A o \in checked'[w] \ candidates'[w] : now' - o.ts > MaxAge
    BY <2>1, <2>2, <2>5, <2>10 DEF AtGate
  <2>14. \A x \in candidates'[w], o \in held'[w] : o.ts - x.ts <= MaxAge
    BY <2>1, <2>2, <2>5, <2>9 DEF AtGate
  <2>15. AtGate(w)'
    BY <2>1, <2>11, <2>12, <2>13, <2>14 DEF AtGate
  <2>16. \A j : RoundQuotes(round[w], j)' = RoundQuotes(round[w], j)
    BY <2>2 DEF RoundQuotes
  <2>17. InLoop(w)'
    BY <2>1, <2>2, <2>16 DEF InLoop, Priced
  <2>18. AtWork(w)'
    BY <2>1, <2>15, <2>17 DEF AtWork
  <2> QED
    BY <2>1, <2>2, <2>4, <2>18, WorkerConsistent
<1>7. ASSUME NEW w \in Workers, WritePrice(w) PROVE RoundsConsistent'
  <2>1. Busy(w) /\ ~ Priced(w) /\ InLoop(w)
    BY <1>0, <1>7 DEF WritePrice, Priced
  <2>2. UNCHANGED <<now, started, round, quotes, arbs, done, todo, inst, held>>
    BY <1>7 DEF WritePrice, env
  <2>3. PICK p : /\ p.round = round[w] /\ p.inst = inst[w] /\ p.ts = now
                 /\ prices' = prices \cup {p}
                 /\ cp' = [cp EXCEPT ![w] = p]
    BY <1>7 DEF WritePrice
  <2>4. \A v \in Workers \ {w} : Aside(v)
    BY <1>7, <2>2, <2>3 DEF WritePrice, LeaveGate, Consistent, TypeOK, Aside
  <2>5. /\ cp'[w] = p /\ pc'[w] = "cache"
        /\ checked'[w] = {} /\ candidates'[w] = {}
    BY <1>7, <2>3 DEF WritePrice, LeaveGate, Consistent, TypeOK
  <2>6. \A j : RoundQuotes(round[w], j)' = RoundQuotes(round[w], j)
    BY <2>2 DEF RoundQuotes
  <2>7. InLoop(w)'
    BY <2>1, <2>2, <2>3, <2>5, <2>6 DEF InLoop, Priced
  <2>8. AtWork(w)'
    BY <2>5, <2>7 DEF AtWork, AtGate
  <2>9. \A x \in (quotes' \ quotes) \cup (prices' \ prices) : x.ts = now
    BY <2>2, <2>3
  <2> QED
    BY <2>1, <2>2, <2>3, <2>4, <2>8, <2>9, WorkerConsistent
<1>8. ASSUME NEW w \in Workers, SetCache(w) \/ Broadcast(w) PROVE RoundsConsistent'
  <2>1. Busy(w) /\ InLoop(w) /\ AtGate(w) /\ Priced(w) /\ checked[w] = {}
    BY <1>0, <1>8 DEF SetCache, Broadcast, Priced, AtGate
  <2>2. UNCHANGED <<now, started, round, quotes, prices, arbs, done, todo, inst, held, cp,
                    checked, candidates>>
    BY <1>8 DEF SetCache, Broadcast, env, tables, frame, gate
  <2>3. \A v \in Workers \ {w} : Aside(v)
    BY <1>8, <2>2 DEF SetCache, Broadcast, Consistent, TypeOK, Aside
  <2>4. \A j : RoundQuotes(round[w], j)' = RoundQuotes(round[w], j)
    BY <2>2 DEF RoundQuotes
  <2>5. Priced(w)' /\ pc'[w] # "select"
    BY <1>8 DEF SetCache, Broadcast, Priced, Consistent, TypeOK
  <2>6. InLoop(w)'
    BY <2>1, <2>2, <2>4, <2>5 DEF InLoop
  <2>7. AtWork(w)'
    BY <2>1, <2>2, <2>5, <2>6 DEF AtWork, AtGate
  <2> QED
    BY <2>1, <2>2, <2>3, <2>7, WorkerConsistent
<1>9. ASSUME NEW w \in Workers, RecordArbitrage(w) \/ NoArbitrage(w) PROVE RoundsConsistent'
  <2>1. /\ Busy(w) /\ Priced(w) /\ InLoop(w) /\ pc[w] # "select"
        /\ NextInstrument(w, round[w], todo[w])
    BY <1>0, <1>9 DEF RecordArbitrage, NoArbitrage, Priced
  <2>2. /\ UNCHANGED <<now, started, round, quotes, prices>>
        /\ arbs \subseteq arbs'
        /\ \A a \in arbs' \ arbs : a.round = round[w] /\ a.inst = inst[w]
    BY <1>9 DEF RecordArbitrage, NoArbitrage, env, tables
  <2>3. \E p \in prices : p.round = round[w] /\ p.inst = inst[w]
    BY <2>1 DEF InLoop
  <2> QED
    BY <2>1, <2>2, <2>3, LoopConsistent
<1>10. ASSUME NEW w \in Workers, Raise(w) \/ Crash(w) PROVE RoundsConsistent'
  <2>1. Forget(w) /\ UNCHANGED <<now, started, quotes, prices, arbs, done, round>>
    BY <1>10 DEF Raise, Crash, env, tables
  <2>2. \A v \in Workers \ {w} : Aside(v)
    BY <2>1, ForgetAside DEF Consistent
  <2>3. ~ Busy(w)'
    BY <2>1 DEF Forget, Busy, Consistent, TypeOK
  <2>4. CASE Busy(w)
    BY <2>1, <2>2, <2>3, <2>4, WorkerConsistent
  <2>5. CASE ~ Busy(w)
    <3>1. RoundsApart'
      BY <2>1, <2>2, <2>3 DEF RoundsApart, Aside, Busy, Consistent, RoundsConsistent
    <3>2. ASSUME NEW v \in Workers, Busy(v)' PROVE AtWork(v)'
      <4>1. Aside(v) /\ AtWork(v)
        BY <2>2, <2>3, <3>2 DEF Aside, Busy, Consistent, RoundsConsistent
      <4>2. TypeOK /\ now' \in Nat /\ now <= now' /\ quotes' \subseteq Quotes
        <5>1. TypeOK
          BY DEF Consistent
        <5>2. now \in Nat /\ quotes \subseteq Quotes
          BY <5>1 DEF TypeOK
        <5> QED BY <2>1, <5>1, <5>2
      <4> QED
        BY <2>1, <4>1, <4>2, Undisturbed
    <3> QED
      BY <3>1, <3>2 DEF RoundsConsistent, Busy
  <2> QED
    BY <2>4, <2>5
<1> QED
  BY <1>1, <1>2, <1>3, <1>4, <1>5, <1>6, <1>7, <1>8, <1>9, <1>10, <1>11, <1>12
  DEF Next, Step, Fault

LEMMA ConsistentAlways == Spec => []Consistent
<1>1. Init => Consistent
  BY TypeInit, ConsistentInit DEF Consistent
<1>2. Consistent /\ [Next]_vars => Consistent'
  BY TypeStep, ConsistentStep DEF Consistent
<1> QED
  BY <1>1, <1>2, PTL DEF Spec

\* A running worker's locals are what the database holds for its own round, and
\* rounds share nothing, whatever the other workers, failures and time do.
THEOREM RoundsStayConsistent == Spec => []RoundsConsistent
<1>1. Consistent => RoundsConsistent
  BY DEF Consistent
<1> QED
  BY <1>1, ConsistentAlways, PTL

-----------------------------------------------------------------------------
(* What is stored stays reproducible *)

\* A quote is stored of an instrument that its round has not priced yet.
QuoteStored(w, q) ==
  /\ pc[w] = "fetch"
  /\ q.round = round[w] /\ q.inst = inst[w] /\ q.source = client[w]
  /\ quotes' = quotes \cup {q} /\ UNCHANGED <<prices, arbs, done>>

PriceStored(w, p) ==
  /\ pc[w] = "consolidate" /\ p.round = round[w] /\ p.inst = inst[w] /\ p.ts = now
  /\ Unchecked(w) = {} /\ candidates[w] # {}
  /\ p.book = Consolidated(candidates[w])
  /\ prices' = prices \cup {p} /\ UNCHANGED <<quotes, arbs, done>>

ArbitrageStored(w, a) ==
  /\ pc[w] = "arbitrage" /\ a.round = round[w] /\ a.inst = inst[w] /\ a.ts = now
  /\ Crossings(held[w]) # {} /\ a.arb = Arbitrage(held[w])
  /\ arbs' = arbs \cup {a} /\ UNCHANGED <<quotes, prices>>

\* Every step stores at most one row.
LEMMA RowsStep ==
  ASSUME [Next]_vars
  PROVE  \/ UNCHANGED tables
         \/ \E w \in Workers : \E q : QuoteStored(w, q)
         \/ \E w \in Workers : \E p : PriceStored(w, p)
         \/ \E w \in Workers : \E a : ArbitrageStored(w, a)
<1>1. CASE \/ Beat \/ Tick \/ AdminToggle \/ UNCHANGED vars
           \/ \E w \in Workers : \/ StartRound(w) \/ ReadActive(w) \/ StartRoundFails(w)
                                 \/ FetchFails(w) \/ PublishQuote(w) \/ PublishFails(w)
                                 \/ CheckQuote(w) \/ NoPrice(w)
                                 \/ SetCache(w) \/ Broadcast(w) \/ NoArbitrage(w)
                                 \/ Raise(w) \/ Crash(w)
  BY <1>1 DEF Beat, Tick, AdminToggle, vars, StartRound, ReadActive, StartRoundFails,
              FetchFails, PublishQuote, PublishFails, CheckQuote, NoPrice, SetCache, Broadcast, NoArbitrage,
              Raise, Crash
<1>2. ASSUME NEW w \in Workers, FetchSucceeds(w) PROVE \E q : QuoteStored(w, q)
  <2>1. PICK b \in Books :
          quotes' = quotes \cup {[round |-> round[w], inst |-> inst[w], source |-> client[w],
                                  bid |-> b.bid, ask |-> b.ask, ts |-> now]}
    BY <1>2 DEF FetchSucceeds
  <2> WITNESS [round |-> round[w], inst |-> inst[w], source |-> client[w],
               bid |-> b.bid, ask |-> b.ask, ts |-> now]
  <2> QED
    BY <1>2, <2>1 DEF FetchSucceeds, QuoteStored
<1>3. ASSUME NEW w \in Workers, WritePrice(w) PROVE \E p : PriceStored(w, p)
  <2> WITNESS [round |-> round[w], inst |-> inst[w], ts |-> now,
               book |-> Consolidated(candidates[w])]
  <2> QED
    BY <1>3 DEF WritePrice, PriceStored
<1>4. ASSUME NEW w \in Workers, RecordArbitrage(w) PROVE \E a : ArbitrageStored(w, a)
  <2> WITNESS [round |-> round[w], inst |-> inst[w], ts |-> now, arb |-> Arbitrage(held[w])]
  <2> QED
    BY <1>4 DEF RecordArbitrage, ArbitrageStored
<1> QED
  BY <1>1, <1>2, <1>3, <1>4 DEF Next, Step, Fault

\* The quotes of a priced instrument of a round are not added to.
LEMMA PricedQuotesStable ==
  ASSUME Consistent, [Next]_vars
  PROVE  /\ \A p \in prices : RoundQuotes(p.round, p.inst)' = RoundQuotes(p.round, p.inst)
         /\ \A a \in arbs : RoundQuotes(a.round, a.inst)' = RoundQuotes(a.round, a.inst)
<1>1. CASE quotes' = quotes
  BY <1>1 DEF RoundQuotes
<1>2. ASSUME NEW w \in Workers, NEW q, QuoteStored(w, q)
      PROVE  \A x \in prices \cup arbs : ~ (q.round = x.round /\ q.inst = x.inst)
  <2>1. InLoop(w) /\ ~ Priced(w)
    BY <1>2 DEF QuoteStored, Consistent, RoundsConsistent, Priced, AtWork
  <2> QED
    BY <1>2, <2>1 DEF QuoteStored, InLoop
<1>3. CASE \E w \in Workers : \E q : QuoteStored(w, q)
  BY <1>2, <1>3 DEF QuoteStored, RoundQuotes
<1> QED
  BY <1>1, <1>3, RowsStep DEF tables, PriceStored, ArbitrageStored

\* What TapeReproducible says of one price and the quotes Q of its round.
MadeOf(p, Q) ==
  \E C \in SUBSET Q :
    /\ C # {} /\ p.book = Consolidated(C)
    /\ \A q \in C : Positive(q) /\ \A o \in Q : o.ts - q.ts <= MaxAge
    /\ \A q \in Q \ C : Positive(q) => p.ts - q.ts > MaxAge

\* Every ConsolidatedPrice row is, for ever, the consolidation of quotes stored by
\* its round for its instrument: of all that are fresh at its timestamp, and of none
\* that had become stale when the last one was stored, wherever the clock moved
\* while the quotes went through the gate one by one.
THEOREM TapeIsReproducible == Spec => []TapeReproducible
<1>1. Init => TapeReproducible
  BY DEF Init, TapeReproducible
<1>2. ASSUME Consistent, TapeReproducible, [Next]_vars PROVE TapeReproducible'
  <2>1. \A p \in prices : RoundQuotes(p.round, p.inst)' = RoundQuotes(p.round, p.inst)
    BY <1>2, PricedQuotesStable
  <2>2. \A p \in prices : MadeOf(p, RoundQuotes(p.round, p.inst)')
    BY <1>2, <2>1 DEF TapeReproducible, MadeOf
  <2>3. ASSUME NEW w \in Workers, NEW p, PriceStored(w, p)
        PROVE  MadeOf(p, RoundQuotes(p.round, p.inst)')
    <3>1. InLoop(w) /\ AtGate(w)
      BY <1>2, <2>3 DEF PriceStored, Consistent, RoundsConsistent, AtWork
    <3>2. RoundQuotes(p.round, p.inst)' = held[w]
      BY <2>3, <3>1 DEF PriceStored, InLoop, RoundQuotes
    <3>3. /\ candidates[w] \in SUBSET held[w] /\ candidates[w] # {}
          /\ p.book = Consolidated(candidates[w])
      BY <2>3, <3>1 DEF AtGate, PriceStored
    <3>4. \A q \in candidates[w] : Positive(q) /\ \A o \in held[w] : o.ts - q.ts <= MaxAge
      BY <3>1 DEF AtGate
    <3>5. \A q \in held[w] \ candidates[w] : Positive(q) => p.ts - q.ts > MaxAge
      BY <2>3, <3>1 DEF AtGate, PriceStored, Unchecked
    <3> QED
      BY <3>2, <3>3, <3>4, <3>5 DEF MadeOf
  <2>4. \A p \in prices' : p \in prices \/ \E w \in Workers : PriceStored(w, p)
    <3>1. ASSUME NEW w \in Workers, NEW o, PriceStored(w, o), NEW p \in prices'
          PROVE  p \in prices \/ \E v \in Workers : PriceStored(v, p)
      BY <3>1 DEF PriceStored
    <3> QED
      BY <1>2, <3>1, RowsStep DEF tables, QuoteStored, ArbitrageStored
  <2>5. \A p \in prices' : MadeOf(p, RoundQuotes(p.round, p.inst)')
    BY <2>2, <2>3, <2>4
  <2>6. \A p \in prices' : \E C \in SUBSET RoundQuotes(p.round, p.inst)' :
          /\ C # {} /\ p.book = Consolidated(C)
          /\ \A q \in C : Positive(q)
                         /\ \A o \in RoundQuotes(p.round, p.inst)' : o.ts - q.ts <= MaxAge
          /\ \A q \in RoundQuotes(p.round, p.inst)' \ C : Positive(q) => p.ts - q.ts > MaxAge
    BY <2>5 DEF MadeOf
  <2> QED
    BY <2>6 DEF TapeReproducible
<1> QED
  BY <1>1, <1>2, ConsistentAlways, PTL DEF Spec

\* Every ArbitrageOpportunity row is, for ever, the widest crossing among the
\* quotes stored by its round for its instrument, which it prices as well.
THEOREM ArbitrageIsReproducible == Spec => []ArbitrageReproducible
<1>1. Init => ArbitrageReproducible
  BY DEF Init, ArbitrageReproducible
<1>2. ASSUME Consistent, ArbitrageReproducible, [Next]_vars PROVE ArbitrageReproducible'
  <2>1. \A a \in arbs : RoundQuotes(a.round, a.inst)' = RoundQuotes(a.round, a.inst)
    BY <1>2, PricedQuotesStable
  <2>2. prices \subseteq prices'
    BY <1>2, RowsStep DEF tables, QuoteStored, PriceStored, ArbitrageStored
  <2>3. CASE arbs' = arbs
    BY <1>2, <2>1, <2>2, <2>3 DEF ArbitrageReproducible
  <2>4. ASSUME NEW w \in Workers, NEW a, ArbitrageStored(w, a)
        PROVE  /\ Crossings(RoundQuotes(a.round, a.inst)') # {}
               /\ a.arb = Arbitrage(RoundQuotes(a.round, a.inst)')
               /\ \E p \in prices' : p.round = a.round /\ p.inst = a.inst /\ p.ts <= a.ts
    <3>1. InLoop(w) /\ Priced(w)
      BY <1>2, <2>4 DEF ArbitrageStored, Consistent, RoundsConsistent, Priced, AtWork
    <3>2. held[w] = RoundQuotes(a.round, a.inst)
      BY <2>4, <3>1 DEF ArbitrageStored, InLoop
    <3>3. RoundQuotes(a.round, a.inst)' = RoundQuotes(a.round, a.inst)
      BY <2>4 DEF ArbitrageStored, RoundQuotes
    <3>4. \E p \in prices' : p.round = a.round /\ p.inst = a.inst /\ p.ts <= a.ts
      BY <1>2, <2>4, <3>1
      DEF ArbitrageStored, InLoop, Consistent, RoundsConsistent, RoundsApart
    <3> QED
      BY <2>4, <3>2, <3>3, <3>4 DEF ArbitrageStored
  <2>5. CASE \E w \in Workers : \E a : ArbitrageStored(w, a)
    BY <1>2, <2>1, <2>2, <2>4, <2>5 DEF ArbitrageStored, ArbitrageReproducible
  <2> QED
    BY <1>2, <2>3, <2>5, RowsStep DEF tables, QuoteStored, PriceStored
<1> QED
  BY <1>1, <1>2, ConsistentAlways, PTL DEF Spec

\* The quotes in hand are of the clients asked so far; the one whose answer is
\* awaited has not given any.
AskedInOrder ==
  \A w \in Workers : IF pc[w] \in {"idle", "select"} THEN held[w] = {} ELSE \A q \in held[w] :
    q.source <= client[w] /\ (pc[w] = "fetch" => q.source # client[w])

LEMMA AskedStep == Consistent /\ AskedInOrder /\ [Next]_vars => AskedInOrder'
<1> DEFINE Outside(x) == pc[x] \in {"idle", "select"}
           Goal(x) == IF Outside(x) THEN held[x] = {} ELSE \A q \in held[x] :
                        q.source <= client[x] /\ (pc[x] = "fetch" => q.source # client[x])
<1> SUFFICES ASSUME Consistent, AskedInOrder, [Next]_vars, NEW v \in Workers PROVE Goal(v)'
  BY DEF AskedInOrder
<1>0. /\ TypeOK /\ client[v] \in Nat /\ DOMAIN pc = Workers /\ DOMAIN client = Workers
      /\ DOMAIN held = Workers /\ \A x \in held[v] : x.source \in Nat
      /\ Goal(v)
  BY DEF Consistent, TypeOK, Quotes, AskedInOrder
<1>1. CASE pc'[v] = pc[v] /\ client'[v] = client[v] /\ held'[v] = held[v]
  BY <1>0, <1>1
<1>2. CASE held'[v] = {}
  BY <1>2
<1>3. CASE Beat \/ Tick \/ AdminToggle \/ UNCHANGED vars
  BY <1>1, <1>3 DEF Beat, Tick, AdminToggle, vars, frame
<1>4. ASSUME NEW w \in Workers, Forget(w) \/ \E r, rest : NextInstrument(w, r, rest)
      PROVE  Goal(v)'
  <2>1. v # w => pc'[v] = pc[v] /\ client'[v] = client[v] /\ held'[v] = held[v]
    BY <1>0, <1>4 DEF NextInstrument, Forget
  <2>2. v = w => held'[v] = {}
    BY <1>0, <1>4 DEF NextInstrument, Forget
  <2> QED
    BY <1>1, <1>2, <2>1, <2>2
<1>5. ASSUME NEW w \in Workers, FetchFails(w) \/ PublishQuote(w) \/ PublishFails(w)
      PROVE  Goal(v)'
  <2>1. NextClient(w) /\ held' = held /\ ~Outside(w)
    BY <1>5 DEF FetchFails, PublishQuote, PublishFails
  <2>2. v # w => pc'[v] = pc[v] /\ client'[v] = client[v]
    BY <1>0, <2>1 DEF NextClient
  <2>3. ASSUME v = w PROVE Goal(v)'
    <3>1. \A q \in held[v] : q.source <= client[v] /\ q.source \in Nat
      BY <1>0, <2>1, <2>3
    <3>2. /\ client'[v] = client[v] + 1 \/ (client'[v] = client[v] /\ pc'[v] = "consolidate")
          /\ ~Outside(v)'
      BY <1>0, <2>1, <2>3 DEF NextClient
    <3>3. \A q \in held[v] : q.source <= client'[v] /\ (pc'[v] = "fetch" => q.source # client'[v])
      BY <1>0, <3>1, <3>2
    <3> QED
      BY <2>1, <3>2, <3>3
  <2> QED
    BY <1>1, <2>1, <2>2, <2>3
<1>6. ASSUME NEW w \in Workers, FetchSucceeds(w) PROVE Goal(v)'
  <2>1. PICK new : new.source = client[w] /\ held' = [held EXCEPT ![w] = @ \cup {new}]
    BY <1>6 DEF FetchSucceeds
  <2>2. pc' = [pc EXCEPT ![w] = "publish"] /\ client' = client /\ ~Outside(w)
    BY <1>6 DEF FetchSucceeds
  <2>3. ASSUME v = w PROVE Goal(v)'
    <3>1. held'[v] = held[v] \cup {new} /\ pc'[v] = "publish" /\ client'[v] = client[v]
      BY <1>0, <2>1, <2>2, <2>3
    <3>2. \A q \in held'[v] : q.source <= client'[v]
      BY <1>0, <2>1, <2>2, <2>3, <3>1
    <3> QED
      BY <3>1, <3>2
  <2>4. v # w => pc'[v] = pc[v] /\ client'[v] = client[v] /\ held'[v] = held[v]
    BY <1>0, <2>1, <2>2
  <2> QED
    BY <1>1, <2>3, <2>4
<1>7. ASSUME NEW w \in Workers, WritePrice(w) \/ SetCache(w) \/ Broadcast(w) PROVE Goal(v)'
  <2>1. client' = client /\ held' = held /\ ~Outside(w)
    BY <1>7 DEF WritePrice, SetCache, Broadcast, frame
  <2>2. /\ v = w => pc'[v] \in {"cache", "broadcast", "arbitrage"}
        /\ v # w => pc'[v] = pc[v]
    BY <1>0, <1>7 DEF WritePrice, SetCache, Broadcast
  <2> QED
    BY <1>0, <1>1, <2>1, <2>2
<1>8. ASSUME NEW w \in Workers, StartRoundFails(w) \/ CheckQuote(w) PROVE Goal(v)'
  BY <1>1, <1>8 DEF StartRoundFails, CheckQuote, frame
<1>10. ASSUME NEW w \in Workers, StartRound(w) PROVE Goal(v)'
  <2>1. v # w => pc'[v] = pc[v] /\ client'[v] = client[v] /\ held'[v] = held[v]
    BY <1>0, <1>10 DEF StartRound
  <2>2. v = w => held'[v] = {}
    BY <1>0, <1>10 DEF StartRound
  <2> QED
    BY <1>1, <1>2, <2>1, <2>2
<1>9. ASSUME NEW w \in Workers, \/ ReadActive(w) \/ NoPrice(w) \/ RecordArbitrage(w)
                                \/ NoArbitrage(w) \/ Raise(w) \/ Crash(w)
      PROVE  Goal(v)'
  BY <1>4, <1>9 DEF ReadActive, NoPrice, RecordArbitrage, NoArbitrage, Raise, Crash
<1> QED
  BY <1>3, <1>5, <1>6, <1>7, <1>8, <1>9, <1>10 DEF Next, Step, Fault

\* No two Quote rows of a venue, no two ConsolidatedPrice rows and no two
\* ArbitrageOpportunity rows come from the same round and instrument.
THEOREM StoredOncePerRound == Spec => []OncePerRound
<1>1. Init => OncePerRound /\ AskedInOrder
  BY DEF Init, OncePerRound, AskedInOrder
<1>2. ASSUME Consistent, AskedInOrder, OncePerRound, [Next]_vars PROVE OncePerRound'
  <2>1. CASE UNCHANGED tables
    BY <1>2, <2>1 DEF OncePerRound, tables
  <2>2. ASSUME NEW w \in Workers, NEW p, PriceStored(w, p)
        PROVE  \A o \in prices : ~ (o.round = p.round /\ o.inst = p.inst)
    <3>1. InLoop(w) /\ ~ Priced(w)
      BY <1>2, <2>2 DEF PriceStored, Consistent, RoundsConsistent, Priced, AtWork
    <3> QED
      BY <2>2, <3>1 DEF PriceStored, InLoop
  <2>3. ASSUME NEW w \in Workers, NEW a, ArbitrageStored(w, a)
        PROVE  \A o \in arbs : ~ (o.round = a.round /\ o.inst = a.inst)
    <3>1. InLoop(w)
      BY <1>2, <2>3 DEF ArbitrageStored, Consistent, RoundsConsistent, AtWork
    <3> QED
      BY <2>3, <3>1 DEF ArbitrageStored, InLoop
  <2>4. CASE \E w \in Workers : \E p : PriceStored(w, p)
    BY <1>2, <2>2, <2>4 DEF PriceStored, OncePerRound
  <2>5. CASE \E w \in Workers : \E a : ArbitrageStored(w, a)
    BY <1>2, <2>3, <2>5 DEF ArbitrageStored, OncePerRound
  <2>6. ASSUME NEW w \in Workers, NEW q, QuoteStored(w, q)
        PROVE  \A o \in quotes :
                 ~ (o.round = q.round /\ o.inst = q.inst /\ o.source = q.source)
    <3>1. InLoop(w)
      BY <1>2, <2>6 DEF QuoteStored, Consistent, RoundsConsistent, AtWork
    <3>2. held[w] = RoundQuotes(q.round, q.inst) /\ q.source = client[w]
      BY <2>6, <3>1 DEF QuoteStored, InLoop
    <3> QED
      BY <1>2, <2>6, <3>2 DEF AskedInOrder, QuoteStored, RoundQuotes
  <2>7. CASE \E w \in Workers : \E q : QuoteStored(w, q)
    BY <1>2, <2>6, <2>7 DEF QuoteStored, OncePerRound
  <2> QED
    BY <1>2, <2>1, <2>4, <2>5, <2>7, RowsStep
<1> QED
  BY <1>1, <1>2, AskedStep, ConsistentAlways, PTL DEF Spec

-----------------------------------------------------------------------------
(* What the rows say *)

\* However many rounds have run, the tables are finite.
Counted == IsFiniteSet(quotes) /\ IsFiniteSet(prices)

LEMMA CountedAlways == Spec => []Counted
<1>1. Init => Counted
  BY FS_EmptySet DEF Init, Counted
<1>2. ASSUME Counted, [Next]_vars PROVE Counted'
  <2>1. \/ quotes' = quotes
        \/ \E q : quotes' = quotes \cup {q}
    BY <1>2, RowsStep DEF tables, QuoteStored, PriceStored, ArbitrageStored
  <2>2. \/ prices' = prices
        \/ \E p : prices' = prices \cup {p}
    BY <1>2, RowsStep DEF tables, QuoteStored, PriceStored, ArbitrageStored
  <2> QED
    BY <1>2, <2>1, <2>2, FS_AddElement DEF Counted
<1> QED
  BY <1>1, <1>2, PTL DEF Spec

\* The quotes of a round are what aggregator.py expects: numbers, one of a venue.
LEMMA RoundQuotesFit ==
  ASSUME TypeOK, Counted, OncePerRound, NEW r, NEW i
  PROVE  Numeric(RoundQuotes(r, i)) /\ OneOfEach(RoundQuotes(r, i))
<1>1. IsFiniteSet(RoundQuotes(r, i))
  BY FS_Subset DEF Counted, RoundQuotes
<1>2. \A q \in RoundQuotes(r, i) :
        q \in quotes /\ q.bid \in Int /\ q.ask \in Int /\ q.source \in Int
  BY DEF TypeOK, Quotes, RoundQuotes
<1>3. \A q, o \in RoundQuotes(r, i) : q.source = o.source => q = o
  BY <1>2 DEF OncePerRound, RoundQuotes
<1> QED
  BY <1>1, <1>2, <1>3 DEF Numeric, OneOfEach

\* What a price says of the book it was made from.
LEMMA PriceTells ==
  ASSUME TypeOK, Counted, OncePerRound, TapeReproducible, NEW p \in prices
  PROVE  /\ p.book.den \in Nat \ {0} /\ p.book.mid \in Int /\ 0 < p.book.mid
         /\ p.book.bid \in Int /\ p.book.bid <= p.book.mid
         /\ p.book.ask \in Int /\ p.book.mid <= p.book.ask
<1> DEFINE Q == RoundQuotes(p.round, p.inst)
<1>1. PICK C \in SUBSET Q :
        C # {} /\ p.book = Consolidated(C) /\ \A q \in C : Positive(q)
  BY DEF TapeReproducible
<1>2. Numeric(C) /\ \A q \in C : Positive(q)
  <2>1. Numeric(Q)
    BY RoundQuotesFit
  <2> HIDE DEF Q
  <2> QED
    BY <1>1, <2>1, FS_Subset DEF Numeric
<1> HIDE DEF Q
<1> QED
  BY <1>1, <1>2, BookParts, MidPositive

\* Every price is positive and within its book, and every arbitrage is real and the
\* widest of its round, whatever the venues answered and whichever rounds overlapped.
THEOREM RowsAreSound == Spec => []RowsSound
<1>1. TypeOK /\ Counted /\ OncePerRound /\ TapeReproducible /\ ArbitrageReproducible
        => RowsSound
  <2> SUFFICES ASSUME TypeOK, Counted, OncePerRound, TapeReproducible,
                      ArbitrageReproducible
               PROVE  RowsSound
    OBVIOUS
  <2>1. \A p \in prices :
          0 < p.book.mid /\ p.book.bid <= p.book.mid /\ p.book.mid <= p.book.ask
    BY PriceTells
  <2>2. ASSUME NEW a \in arbs
        PROVE  /\ a.arb.buy_venue # a.arb.sell_venue /\ a.arb.spread > 0
               /\ \A q, o \in RoundQuotes(a.round, a.inst) :
                    Positive(q) /\ Positive(o) /\ q.source # o.source
                      => o.bid - q.ask <= a.arb.spread
    <3> DEFINE Q == RoundQuotes(a.round, a.inst)
               p == Widest(Crossings(Q))
    <3>1. Crossings(Q) # {} /\ a.arb = Arbitrage(Q)
      BY DEF ArbitrageReproducible
    <3>2. Numeric(Q) /\ OneOfEach(Q)
      BY RoundQuotesFit
    <3>3. /\ a.arb.buy_venue = p.buy.source /\ a.arb.sell_venue = p.sell.source
          /\ a.arb.spread = Spread(p)
      BY <3>1 DEF Arbitrage
    <3> HIDE DEF Q
    <3> QED
      BY <3>1, <3>2, <3>3, WidestTells DEF Q
  <2> QED
    BY <2>1, <2>2 DEF RowsSound
<1> QED
  BY <1>1, TypeCorrect, CountedAlways, StoredOncePerRound, TapeIsReproducible,
     ArbitrageIsReproducible, PTL

-----------------------------------------------------------------------------
(* What leaves the process *)

\* Whatever is cached, broadcast or given to Kafka is a row that is stored, of the
\* same instrument, although nothing makes these writes one transaction.
THEOREM DisseminatedIsBacked == Spec => []BackedByRows
<1>1. Init => BackedByRows
  BY DEF Init, BackedByRows
<1>2. ASSUME Consistent, BackedByRows, [Next]_vars PROVE BackedByRows'
  <2>1. quotes \subseteq quotes' /\ prices \subseteq prices'
    BY <1>2, RowsStep DEF tables, QuoteStored, PriceStored, ArbitrageStored
  <2>2. \A i : PricesOf(i) \subseteq PricesOf(i)' /\ Seq(PricesOf(i)) \subseteq Seq(PricesOf(i)')
    BY <2>1 DEF PricesOf
  <2>6. CASE UNCHANGED outputs
    BY <1>2, <2>1, <2>2, <2>6 DEF BackedByRows, outputs
  <2>3. ASSUME NEW w \in Workers, PublishQuote(w) PROVE BackedByRows'
    <3>1. InLoop(w)
      BY <1>2, <2>3 DEF PublishQuote, Consistent, RoundsConsistent, AtWork
    <3>2. held[w] \subseteq quotes
      BY <3>1 DEF InLoop, RoundQuotes
    <3>3. cache' = cache /\ feed' = feed
      BY <2>3 DEF PublishQuote
    <3>4. published' \subseteq quotes'
      BY <1>2, <2>1, <2>3, <3>2 DEF PublishQuote, BackedByRows
    <3> QED
      BY <1>2, <2>2, <3>3, <3>4 DEF BackedByRows
  <2>4. ASSUME NEW w \in Workers, SetCache(w) PROVE BackedByRows'
    <3>1. InLoop(w) /\ Priced(w)
      BY <1>2, <2>4 DEF SetCache, Consistent, RoundsConsistent, Priced, AtWork
    <3>2. cp[w] \in PricesOf(inst[w])'
      BY <2>1, <2>4, <3>1 DEF InLoop, PricesOf, SetCache, frame
    <3>3. /\ cache' = [cache EXCEPT ![inst[w]] = [price |-> cp[w], expires |-> now + CacheTTL]]
          /\ feed' = feed /\ published' = published /\ inst' = inst
      BY <2>4 DEF SetCache, frame
    <3>4. \A i \in Instruments : cache'[i] # None => cache'[i].price \in PricesOf(i)'
      BY <1>2, <3>2, <3>3, <2>2 DEF BackedByRows, Consistent, TypeOK
    <3>5. \A i \in Instruments : feed'[i] \in Seq(PricesOf(i)')
      BY <1>2, <2>2, <3>3 DEF BackedByRows
    <3>6. published' \subseteq quotes'
      BY <1>2, <2>1, <3>3 DEF BackedByRows
    <3> QED
      BY <3>4, <3>5, <3>6 DEF BackedByRows
  <2>5. ASSUME NEW w \in Workers, Broadcast(w) PROVE BackedByRows'
    <3>1. InLoop(w) /\ Priced(w)
      BY <1>2, <2>5 DEF Broadcast, Consistent, RoundsConsistent, Priced, AtWork
    <3>2. /\ feed' = [feed EXCEPT ![inst[w]] = Append(@, cp[w])]
          /\ cache' = cache /\ published' = published /\ inst' = inst
      BY <2>5 DEF Broadcast, frame
    <3>3. cp[w] \in PricesOf(inst[w])'
      BY <2>1, <3>1, <3>2 DEF InLoop, PricesOf
    <3>4. \A i \in Instruments : feed[i] \in Seq(PricesOf(i)')
      BY <1>2, <2>2 DEF BackedByRows
    <3>5. \A i \in Instruments : feed'[i] \in Seq(PricesOf(i)')
      BY <1>2, <3>2, <3>3, <3>4 DEF Consistent, TypeOK
    <3>6. published' \subseteq quotes'
      BY <1>2, <2>1, <3>2 DEF BackedByRows
    <3>7. \A i \in Instruments : cache'[i] # None => cache'[i].price \in PricesOf(i)'
      BY <1>2, <2>2, <3>2 DEF BackedByRows
    <3> QED
      BY <3>5, <3>6, <3>7 DEF BackedByRows
  <2> QED
    BY <1>2, <2>3, <2>4, <2>5, <2>6
    DEF Next, Step, Fault, vars, Beat, Tick, AdminToggle, StartRound, ReadActive,
        StartRoundFails, FetchFails, FetchSucceeds, PublishFails, CheckQuote, NoPrice,
        WritePrice, RecordArbitrage, NoArbitrage, Raise, Crash
<1> QED
  BY <1>1, <1>2, ConsistentAlways, PTL DEF Spec

-----------------------------------------------------------------------------
(* No gaps in the tape *)

Gapless(r, i, t) ==
  \/ \E p \in prices : p.round = r /\ p.inst = i
  \/ \A q \in RoundQuotes(r, i) : Positive(q) => t - q.ts > MaxAge

\* A round joins the returned ones only when it is at its end.
LEMMA DoneStep ==
  ASSUME Consistent, [Next]_vars
  PROVE  \/ done' = done
         \/ \E w \in Workers :
              /\ done' = done \cup {[round |-> round[w], ts |-> now]}
              /\ \A i \in Instruments : Gapless(round[w], i, now)
              /\ UNCHANGED <<quotes, prices>>
<1>1. CASE \/ Beat \/ Tick \/ AdminToggle \/ UNCHANGED vars
           \/ \E w \in Workers : \/ StartRound(w) \/ StartRoundFails(w) \/ FetchFails(w)
                                 \/ FetchSucceeds(w) \/ PublishQuote(w)
                                 \/ PublishFails(w) \/ CheckQuote(w) \/ WritePrice(w)
                                 \/ SetCache(w) \/ Broadcast(w) \/ Raise(w) \/ Crash(w)
  BY <1>1 DEF Beat, Tick, AdminToggle, vars, StartRound, StartRoundFails, FetchFails,
              FetchSucceeds, PublishQuote, PublishFails, CheckQuote, WritePrice, SetCache,
              Broadcast, Raise, Crash
<1>2. ASSUME NEW w \in Workers, ReadActive(w)
      PROVE  /\ done' = done \/ done' = done \cup {[round |-> round[w], ts |-> now]}
             /\ \A i \in Instruments : Gapless(round[w], i, now)
             /\ UNCHANGED <<quotes, prices>>
  <2>1. \A q \in quotes : q.round # round[w]
    BY <1>2 DEF ReadActive, Consistent, RoundsConsistent, AtWork
  <2> QED
    BY <1>2, <2>1 DEF ReadActive, NextInstrument, tables, Gapless, RoundQuotes
<1>3. ASSUME NEW w \in Workers, NoPrice(w) \/ RecordArbitrage(w) \/ NoArbitrage(w)
      PROVE  /\ UNCHANGED <<quotes, prices>>
             /\ \/ done' = done
                \/ /\ done' = done \cup {[round |-> round[w], ts |-> now]}
                   /\ \A i \in Instruments : Gapless(round[w], i, now)
  <2>1. UNCHANGED <<quotes, prices>> /\ NextInstrument(w, round[w], todo[w])
    BY <1>3 DEF NoPrice, RecordArbitrage, NoArbitrage, tables
  <2>2. InLoop(w) /\ AtGate(w)
    BY <1>3 DEF NoPrice, RecordArbitrage, NoArbitrage, Consistent, RoundsConsistent, AtWork
  <2>3. Gapless(round[w], inst[w], now)
    <3>1. CASE NoPrice(w)
      BY <2>2, <3>1 DEF NoPrice, Unchecked, InLoop, AtGate, Gapless
    <3>2. CASE RecordArbitrage(w) \/ NoArbitrage(w)
      <4>1. Priced(w)
        BY <3>2 DEF RecordArbitrage, NoArbitrage, Priced
      <4> QED
        BY <2>2, <4>1 DEF InLoop, Gapless
    <3> QED
      BY <1>3, <3>1, <3>2
  <2>4. done' = done \/ (todo[w] = {} /\ done' = done \cup {[round |-> round[w], ts |-> now]})
    BY <2>1 DEF NextInstrument
  <2>5. todo[w] = {} => \A i \in Instruments : Gapless(round[w], i, now)
    BY <2>2, <2>3 DEF InLoop, Gapless
  <2> QED
    BY <2>1, <2>4, <2>5
<1> QED
  BY <1>1, <1>2, <1>3 DEF Next, Step, Fault

\* A round that returns has priced every instrument of which it has a usable quote
\* that is still fresh when it returns; no overlap or later step undoes that.
THEOREM TapeHasNoGaps == Spec => []TapeNeverGaps
<1>1. Init => TapeNeverGaps
  BY DEF Init, TapeNeverGaps
<1>2. ASSUME Consistent, TapeNeverGaps, [Next]_vars PROVE TapeNeverGaps'
  <2> SUFFICES ASSUME NEW d \in done', NEW i \in Instruments PROVE Gapless(d.round, i, d.ts)'
    BY DEF TapeNeverGaps, Gapless
  <2>1. CASE d \in done
    <3>1. Gapless(d.round, i, d.ts)
      BY <1>2, <2>1 DEF TapeNeverGaps, Gapless
    <3>2. prices \subseteq prices'
      BY <1>2, RowsStep DEF tables, QuoteStored, PriceStored, ArbitrageStored
    <3>3. RoundQuotes(d.round, i)' = RoundQuotes(d.round, i)
      <4>1. ASSUME NEW w \in Workers, NEW q, QuoteStored(w, q) PROVE q.round # d.round
        BY <1>2, <2>1, <4>1 DEF QuoteStored, Consistent, RoundsConsistent, RoundsApart
      <4>2. CASE quotes' = quotes
        BY <4>2 DEF RoundQuotes
      <4>3. CASE \E w \in Workers : \E q : QuoteStored(w, q)
        BY <4>1, <4>3 DEF QuoteStored, RoundQuotes
      <4> QED
        BY <1>2, <4>2, <4>3, RowsStep DEF tables, PriceStored, ArbitrageStored
    <3> QED
      BY <3>1, <3>2, <3>3 DEF Gapless
  <2>2. CASE d \notin done
    <3>1. UNCHANGED <<quotes, prices>> /\ Gapless(d.round, i, d.ts)
      BY <1>2, <2>2, DoneStep
    <3> QED
      BY <3>1 DEF Gapless, RoundQuotes
  <2> QED
    BY <2>1, <2>2
<1> QED
  BY <1>1, <1>2, ConsistentAlways, PTL DEF Spec

-----------------------------------------------------------------------------
(* Counters *)

\* The registries balance: every quote stored by a process has been offered to
\* Kafka exactly once, whether the producer took it or raised.
THEOREM QuotesAreOfferedOnce == Spec => []QuotesOfferedOnce
<1>1. Init => QuotesOfferedOnce
  BY DEF Init, QuotesOfferedOnce, NoCounts
<1>2. ASSUME TypeOK, QuotesOfferedOnce, [Next]_vars PROVE QuotesOfferedOnce'
  <2> DEFINE Balanced(v) == metrics[v].fetched = metrics[v].published + metrics[v].publish_failed
                                                + (IF pc[v] = "publish" THEN 1 ELSE 0)
  <2> SUFFICES ASSUME NEW v \in Workers PROVE Balanced(v)'
    BY DEF QuotesOfferedOnce
  <2>1. Balanced(v)
    BY <1>2 DEF QuotesOfferedOnce
  <2>2. metrics \in [Workers -> Counters] /\ DOMAIN pc = Workers
    BY <1>2 DEF TypeOK
  <2>3. /\ metrics[v].fetched \in Nat /\ metrics[v].published \in Nat
        /\ metrics[v].publish_failed \in Nat
    BY <2>2 DEF Counters
  <2>4. CASE metrics'[v] = metrics[v] /\ (pc'[v] = "publish" <=> pc[v] = "publish")
    BY <2>1, <2>4
  <2>5. CASE Beat \/ Tick \/ AdminToggle \/ UNCHANGED vars
    BY <2>4, <2>5 DEF Beat, Tick, AdminToggle, vars
  <2>6. ASSUME NEW w \in Workers, NEW r, NEW rest, NextInstrument(w, r, rest),
               pc[w] # "publish"
        PROVE  pc'[v] = "publish" <=> pc[v] = "publish"
    BY <2>2, <2>6 DEF NextInstrument, Forget
  <2>7. ASSUME NEW w \in Workers, ReadActive(w) \/ NoPrice(w) \/ NoArbitrage(w)
        PROVE  Balanced(v)'
    BY <2>4, <2>6, <2>7 DEF ReadActive, NoPrice, NoArbitrage
  <2>8. ASSUME NEW w \in Workers, RecordArbitrage(w) PROVE Balanced(v)'
    <3>1. metrics'[v].fetched = metrics[v].fetched /\ metrics'[v].published = metrics[v].published
          /\ metrics'[v].publish_failed = metrics[v].publish_failed
      BY <2>2, <2>8 DEF RecordArbitrage, Counters
    <3> QED
      BY <2>1, <2>6, <2>8, <3>1 DEF RecordArbitrage
  <2>9. ASSUME NEW w \in Workers, \/ StartRound(w) \/ StartRoundFails(w) \/ CheckQuote(w)
                                 \/ SetCache(w) \/ Broadcast(w)
        PROVE  Balanced(v)'
    BY <2>2, <2>4, <2>9 DEF StartRound, StartRoundFails, CheckQuote, SetCache, Broadcast
  <2>10. ASSUME NEW w \in Workers, FetchFails(w) PROVE Balanced(v)'
    <3>1. metrics'[v].fetched = metrics[v].fetched /\ metrics'[v].published = metrics[v].published
          /\ metrics'[v].publish_failed = metrics[v].publish_failed
      BY <2>2, <2>10 DEF FetchFails, Counters
    <3>2. pc'[v] = "publish" <=> pc[v] = "publish"
      BY <2>2, <2>10 DEF FetchFails, NextClient
    <3> QED
      BY <2>1, <3>1, <3>2
  <2>11. ASSUME NEW w \in Workers, FetchSucceeds(w) PROVE Balanced(v)'
    <3>1. CASE v # w
      BY <2>2, <2>4, <2>11, <3>1 DEF FetchSucceeds
    <3>2. CASE v = w
      <4>1. /\ metrics'[v].fetched = metrics[v].fetched + 1
            /\ metrics'[v].published = metrics[v].published
            /\ metrics'[v].publish_failed = metrics[v].publish_failed
        BY <2>2, <2>11, <3>2 DEF FetchSucceeds, Counters
      <4>2. pc[v] # "publish" /\ pc'[v] = "publish"
        BY <2>2, <2>11, <3>2 DEF FetchSucceeds
      <4> QED
        BY <2>1, <2>3, <4>1, <4>2
    <3> QED
      BY <3>1, <3>2
  <2>12. ASSUME NEW w \in Workers, PublishQuote(w) \/ PublishFails(w) PROVE Balanced(v)'
    <3>1. CASE v # w
      BY <2>2, <2>4, <2>12, <3>1 DEF PublishQuote, PublishFails, NextClient
    <3>2. CASE v = w
      <4>1. /\ metrics'[v].fetched = metrics[v].fetched
            /\ \/ /\ metrics'[v].published = metrics[v].published + 1
                  /\ metrics'[v].publish_failed = metrics[v].publish_failed
               \/ /\ metrics'[v].published = metrics[v].published
                  /\ metrics'[v].publish_failed = metrics[v].publish_failed + 1
        BY <2>2, <2>12, <3>2 DEF PublishQuote, PublishFails, Counters
      <4>2. pc[v] = "publish" /\ pc'[v] # "publish"
        BY <2>2, <2>12, <3>2 DEF PublishQuote, PublishFails, NextClient
      <4> QED
        BY <2>1, <2>3, <4>1, <4>2
    <3> QED
      BY <3>1, <3>2
  <2>13. ASSUME NEW w \in Workers, WritePrice(w) PROVE Balanced(v)'
    <3>1. metrics'[v].fetched = metrics[v].fetched /\ metrics'[v].published = metrics[v].published
          /\ metrics'[v].publish_failed = metrics[v].publish_failed
      BY <2>2, <2>13 DEF WritePrice, Counters
    <3>2. pc'[v] = "publish" <=> pc[v] = "publish"
      BY <2>2, <2>13 DEF WritePrice
    <3> QED
      BY <2>1, <3>1, <3>2
  <2>14. ASSUME NEW w \in Workers, Raise(w) PROVE Balanced(v)'
    BY <2>2, <2>4, <2>14 DEF Raise, Forget
  <2>15. ASSUME NEW w \in Workers, Crash(w) PROVE Balanced(v)'
    <3>1. CASE v # w
      BY <2>2, <2>4, <2>15, <3>1 DEF Crash, Forget
    <3>2. CASE v = w
      BY <2>2, <2>15, <3>2 DEF Crash, Forget, NoCounts
    <3> QED
      BY <3>1, <3>2
  <2> QED
    BY <1>2, <2>5, <2>7, <2>8, <2>9, <2>10, <2>11, <2>12, <2>13, <2>14, <2>15
    DEF Next, Step, Fault
<1> QED
  BY <1>1, <1>2, TypeCorrect, PTL DEF Spec

-----------------------------------------------------------------------------
(* Rounds get shorter *)

\* The most steps that one instrument takes: two calls and a check of each client,
\* then the price, the cache, the channel group and the arbitrage.
PerInstrument == 3 * NumClients + 4
\* The most that a round takes: the instruments, after the queryset.
PerRound == NumInstruments * PerInstrument + 1

\* The venues whose quotes have still to be checked.
ToCheck(w) == {c \in Clients : \E q \in Unchecked(w) : q.source = c}

\* The most steps that worker w has left of the current instrument ...
HereLeft(w) ==
  LET rest == 2 * (NumClients - client[w]) + NumClients
  IN  [ idle |-> 0, fetch |-> rest + 6, publish |-> rest + 5,
        consolidate |-> Cardinality(ToCheck(w)) + 4,
        cache |-> 3, broadcast |-> 2, arbitrage |-> 1 ][pc[w]]
\* ... and of its round.
StepsLeft(w) == IF pc[w] = "select" THEN PerRound
                ELSE Cardinality(todo[w]) * PerInstrument + HereLeft(w)

\* What a step of worker w may do to them.
Shortens(w) == StepsLeft(w)' \in Nat /\ StepsLeft(w)' < StepsLeft(w)

LEMMA ToCheckCounted ==
  ASSUME NEW w \in Workers
  PROVE  /\ IsFiniteSet(ToCheck(w)) /\ Cardinality(ToCheck(w)) \in 0..NumClients
<1>1. IsFiniteSet(Clients) /\ Cardinality(Clients) = NumClients
  BY FS_Interval, CountsAssumption
<1>2. ToCheck(w) \subseteq Clients
  BY DEF ToCheck
<1> HIDE DEF Clients
<1> QED
  BY <1>1, <1>2, FS_Subset, FS_CardinalityType, CountsAssumption

LEMMA PerRoundCounted ==
  /\ PerInstrument \in Nat \ {0} /\ NumInstruments * PerInstrument \in Nat
  /\ PerRound = NumInstruments * PerInstrument + 1 /\ PerRound \in Nat \ {0}
<1>1. PerInstrument \in Nat \ {0} /\ NumInstruments \in Nat
  BY CountsAssumption DEF PerInstrument
<1>2. NumInstruments * PerInstrument \in Nat
  BY <1>1
<1> QED
  BY <1>1, <1>2 DEF PerRound

LEMMA HereLeftIs ==
  ASSUME TypeOK, NEW w \in Workers, pc[w] # "select"
  PROVE  /\ pc[w] = "fetch" => HereLeft(w) = 2 * (NumClients - client[w]) + NumClients + 6
         /\ pc[w] = "publish" => HereLeft(w) = 2 * (NumClients - client[w]) + NumClients + 5
         /\ pc[w] = "consolidate" => HereLeft(w) = Cardinality(ToCheck(w)) + 4
         /\ pc[w] = "cache" => HereLeft(w) = 3
         /\ pc[w] = "broadcast" => HereLeft(w) = 2
         /\ pc[w] = "arbitrage" => HereLeft(w) = 1
         /\ pc[w] = "idle" => HereLeft(w) = 0
         /\ HereLeft(w) \in 0..PerInstrument
         /\ Busy(w) => HereLeft(w) > 0
<1>1. /\ pc[w] \in {"idle", "fetch", "publish", "consolidate", "cache",
                    "broadcast", "arbitrage"}
      /\ client[w] \in 1..NumClients /\ NumClients \in Nat
  BY CountsAssumption DEF TypeOK
<1>2. /\ pc[w] = "fetch" => HereLeft(w) = 2 * (NumClients - client[w]) + NumClients + 6
      /\ pc[w] = "publish" => HereLeft(w) = 2 * (NumClients - client[w]) + NumClients + 5
      /\ pc[w] = "consolidate" => HereLeft(w) = Cardinality(ToCheck(w)) + 4
      /\ pc[w] = "cache" => HereLeft(w) = 3
      /\ pc[w] = "broadcast" => HereLeft(w) = 2
      /\ pc[w] = "arbitrage" => HereLeft(w) = 1
      /\ pc[w] = "idle" => HereLeft(w) = 0
  BY DEF HereLeft
<1>3. Cardinality(ToCheck(w)) \in 0..NumClients
  BY ToCheckCounted
<1> HIDE DEF Clients
<1> QED
  BY <1>1, <1>2, <1>3 DEF PerInstrument, Busy

\* The instruments left are a number of them.
LEMMA TodoCounted ==
  ASSUME TypeOK, NEW w \in Workers
  PROVE  /\ IsFiniteSet(todo[w]) /\ Cardinality(todo[w]) \in Nat
         /\ PerInstrument \in Nat /\ Cardinality(todo[w]) * PerInstrument \in Nat
<1>1. IsFiniteSet(Instruments) /\ todo[w] \subseteq Instruments
  BY FS_Interval, CountsAssumption DEF TypeOK
<1>2. IsFiniteSet(todo[w]) /\ Cardinality(todo[w]) \in Nat
  BY <1>1, FS_Subset, FS_CardinalityType
<1>3. PerInstrument \in Nat
  BY CountsAssumption DEF PerInstrument
<1> QED
  BY <1>2, <1>3

\* A number of instruments take at most what a round takes.
LEMMA InstrumentsCounted ==
  ASSUME NEW rest \in SUBSET Instruments
  PROVE  /\ IsFiniteSet(rest) /\ Cardinality(rest) \in 0..NumInstruments
         /\ Cardinality(rest) * PerInstrument \in 0..(PerRound - 1)
<1> DEFINE k == Cardinality(rest)
<1>1. IsFiniteSet(Instruments) /\ Cardinality(Instruments) = NumInstruments
  BY FS_Interval, CountsAssumption
<1>2. IsFiniteSet(rest) /\ k \in Nat /\ k <= NumInstruments
  BY <1>1, FS_Subset, FS_CardinalityType
<1>3. NumInstruments \in Nat /\ PerInstrument \in Nat
  BY CountsAssumption, PerRoundCounted
<1> DEFINE m == NumInstruments - k
<1>4. m \in Nat /\ NumInstruments = k + m
  BY <1>2, <1>3
<1> HIDE DEF k, m
<1>5. /\ (k + m) * PerInstrument = k * PerInstrument + m * PerInstrument
      /\ m * PerInstrument \in Nat /\ k * PerInstrument \in Nat
  BY <1>2, <1>3, <1>4
<1>6. k * PerInstrument <= NumInstruments * PerInstrument
  BY <1>4, <1>5
<1>7. k * PerInstrument \in 0..(PerRound - 1)
  BY <1>5, <1>6, PerRoundCounted
<1> QED
  BY <1>2, <1>3, <1>7 DEF k

\* A worker in a round is at most this far from its end.
LEMMA RoundFinite ==
  ASSUME Consistent, NEW w \in Workers, Busy(w)
  PROVE  StepsLeft(w) \in 1..PerRound
<1>0. TypeOK /\ PerRound \in Nat \ {0} /\ PerInstrument \in Nat
  BY PerRoundCounted DEF Consistent
<1>1. CASE pc[w] = "select"
  BY <1>0, <1>1 DEF StepsLeft
<1>2. CASE pc[w] # "select"
  <2> DEFINE k == Cardinality(todo[w])
             rest == todo[w] \cup {inst[w]}
  <2>1. inst[w] \in Instruments /\ todo[w] \subseteq Instruments /\ inst[w] \notin todo[w]
    BY <1>2 DEF Consistent, RoundsConsistent, AtWork, InLoop, Busy, TypeOK
  <2>2. IsFiniteSet(todo[w]) /\ k \in Nat /\ k * PerInstrument \in Nat
    BY <1>0, TodoCounted
  <2>3. Cardinality(rest) = k + 1
    BY <2>1, <2>2, FS_AddElement
  <2>4. (k + 1) * PerInstrument \in 0..(PerRound - 1)
    BY <2>1, <2>3, InstrumentsCounted
  <2>5. HereLeft(w) \in 1..PerInstrument
    BY <1>0, <1>2, HereLeftIs
  <2>6. StepsLeft(w) = k * PerInstrument + HereLeft(w)
    BY <1>2 DEF StepsLeft
  <2> HIDE DEF k
  <2>7. (k + 1) * PerInstrument = k * PerInstrument + PerInstrument
    BY <1>0, <2>2
  <2> QED
    BY <1>0, <2>2, <2>4, <2>5, <2>6, <2>7
<1> QED
  BY <1>1, <1>2

\* At the head of the loop there is left what the instruments left take.
LEMMA NextInstrumentLeaves ==
  ASSUME TypeOK, NEW w \in Workers, NEW r, NEW rest \in SUBSET Instruments,
         NextInstrument(w, r, rest)
  PROVE  StepsLeft(w)' \in 0..(Cardinality(rest) * PerInstrument)
<1> DEFINE k == Cardinality(rest)
<1>1. IsFiniteSet(rest) /\ k \in Nat /\ PerInstrument \in Nat \ {0} /\ k * PerInstrument \in Nat
  BY InstrumentsCounted, PerRoundCounted
<1>2. CASE Forget(w)
  <2>1. pc'[w] = "idle" /\ todo'[w] = {}
    BY <1>2 DEF Forget, TypeOK
  <2>2. HereLeft(w)' = 0 /\ Cardinality(todo'[w]) = 0
    BY <2>1, FS_EmptySet DEF HereLeft
  <2>3. StepsLeft(w)' = 0
    BY <1>1, <2>1, <2>2 DEF StepsLeft, PerInstrument
  <2> HIDE DEF k
  <2> QED
    BY <1>1, <2>3 DEF k
<1>3. ASSUME NEW i \in rest, todo' = [todo EXCEPT ![w] = rest \ {i}],
             pc' = [pc EXCEPT ![w] = "fetch"], client' = [client EXCEPT ![w] = 1]
      PROVE  StepsLeft(w)' = k * PerInstrument
  <2>1. todo'[w] = rest \ {i} /\ pc'[w] = "fetch" /\ client'[w] = 1
    BY <1>3 DEF TypeOK
  <2>2. Cardinality(todo'[w]) = k - 1 /\ k - 1 \in Nat
    <3>1. IsFiniteSet(rest \ {i}) /\ Cardinality(rest \ {i}) = k - 1
      BY <1>1, FS_RemoveElement
    <3>2. Cardinality(rest \ {i}) \in Nat
      BY <3>1, FS_CardinalityType
    <3> QED
      BY <2>1, <3>1, <3>2
  <2>3. HereLeft(w)' = PerInstrument
    BY <2>1, CountsAssumption DEF HereLeft, PerInstrument
  <2>4. StepsLeft(w)' = (k - 1) * PerInstrument + PerInstrument
    BY <2>1, <2>2, <2>3 DEF StepsLeft, PerInstrument
  <2> HIDE DEF k
  <2>5. (k - 1) * PerInstrument + PerInstrument = k * PerInstrument
    BY <1>1, <2>2
  <2> QED
    BY <2>4, <2>5
<1> QED
  BY <1>1, <1>2, <1>3 DEF NextInstrument

\* The end of an iteration of the loop over the instruments.
LEMMA NextInstrumentShortens ==
  ASSUME TypeOK, NEW w \in Workers, Busy(w), pc[w] # "select",
         NextInstrument(w, round[w], todo[w])
  PROVE  Shortens(w)
<1> DEFINE k == Cardinality(todo[w])
<1>1. StepsLeft(w)' \in 0..(k * PerInstrument) /\ k * PerInstrument \in Nat
  BY NextInstrumentLeaves, TodoCounted DEF TypeOK
<1>2. StepsLeft(w) = k * PerInstrument + HereLeft(w) /\ HereLeft(w) \in Nat /\ HereLeft(w) > 0
  BY HereLeftIs, PerRoundCounted DEF StepsLeft
<1> HIDE DEF k
<1> QED
  BY <1>1, <1>2 DEF Shortens

\* A step within an instrument.
LEMMA HereShortens ==
  ASSUME TypeOK, NEW w \in Workers, todo' = todo, pc[w] # "select", pc'[w] # "select",
         HereLeft(w)' \in Nat, HereLeft(w)' < HereLeft(w)
  PROVE  Shortens(w)
<1>1. StepsLeft(w)' = Cardinality(todo[w]) * PerInstrument + HereLeft(w)'
  BY DEF StepsLeft, PerInstrument
<1>2. StepsLeft(w) = Cardinality(todo[w]) * PerInstrument + HereLeft(w)
  BY DEF StepsLeft
<1>3. Cardinality(todo[w]) * PerInstrument \in Nat /\ HereLeft(w) \in Nat
  BY TodoCounted, HereLeftIs
<1> QED
  BY <1>1, <1>2, <1>3 DEF Shortens

\* A check of a quote leaves one venue less to check.
LEMMA CheckShortens ==
  ASSUME Consistent, OncePerRound, NEW w \in Workers, CheckQuote(w)
  PROVE  Shortens(w)
<1>1. pc[w] = "consolidate" /\ pc' = pc /\ todo' = todo /\ held' = held /\ TypeOK
  BY DEF CheckQuote, Consistent
<1>2. PICK q \in Unchecked(w) : checked' = [checked EXCEPT ![w] = @ \cup {q}]
  BY DEF CheckQuote
<1>3. \A x, y \in held[w] : x.source = y.source => x = y
  <2>1. held[w] = RoundQuotes(round[w], inst[w])
    BY <1>1 DEF Consistent, RoundsConsistent, AtWork, InLoop
  <2> QED
    BY <2>1 DEF OncePerRound, RoundQuotes
<1>4. Unchecked(w)' = Unchecked(w) \ {q}
  BY <1>1, <1>2 DEF Unchecked, TypeOK
<1>5. q \in held[w] /\ q.source \in Clients /\ Unchecked(w) \subseteq held[w]
  BY <1>1 DEF Unchecked, TypeOK, Quotes
<1> HIDE DEF Clients
<1>6. ToCheck(w)' = ToCheck(w) \ {q.source} /\ q.source \in ToCheck(w)
  BY <1>2, <1>3, <1>4, <1>5 DEF ToCheck
<1>7. IsFiniteSet(ToCheck(w)) /\ Cardinality(ToCheck(w)) \in Nat
  BY ToCheckCounted, CountsAssumption
<1>8. /\ Cardinality(ToCheck(w)') = Cardinality(ToCheck(w)) - 1
      /\ Cardinality(ToCheck(w)') \in Nat
  BY <1>6, <1>7, FS_RemoveElement, FS_CardinalityType
<1>9. HereLeft(w)' = Cardinality(ToCheck(w)') + 4 /\ HereLeft(w) = Cardinality(ToCheck(w)) + 4
  BY <1>1 DEF HereLeft
<1> QED
  BY <1>1, <1>7, <1>8, <1>9, HereShortens

LEMMA StepShortens ==
  ASSUME Consistent, OncePerRound, NEW w \in Workers, Busy(w), Step(w)
  PROVE  Shortens(w)
<1>0. /\ DOMAIN pc = Workers /\ DOMAIN client = Workers /\ TypeOK
      /\ client[w] \in 1..NumClients /\ NumClients \in Nat
  BY CountsAssumption DEF Consistent, TypeOK
<1>1. CASE FetchFails(w) \/ PublishQuote(w) \/ PublishFails(w)
  <2>1. NextClient(w) /\ todo' = todo /\ pc[w] \in {"fetch", "publish"}
    BY <1>1 DEF FetchFails, PublishQuote, PublishFails
  <2>2. /\ HereLeft(w) >= 2 * (NumClients - client[w]) + NumClients + 5
        /\ HereLeft(w) \in Int
    BY <1>0, <2>1, HereLeftIs
  <2>3. CASE MoreClients(w)
    <3>1. pc'[w] = "fetch" /\ client'[w] = client[w] + 1 /\ client[w] < NumClients
      BY <1>0, <2>1, <2>3 DEF NextClient
    <3>2. HereLeft(w)' = 2 * (NumClients - (client[w] + 1)) + NumClients + 6
      BY <3>1 DEF HereLeft
    <3> QED
      BY <1>0, <2>1, <2>2, <3>1, <3>2, HereShortens
  <2>4. CASE ~MoreClients(w)
    <3>1. pc'[w] = "consolidate"
      BY <1>0, <2>1, <2>4 DEF NextClient
    <3>2. HereLeft(w)' = Cardinality(ToCheck(w)') + 4
      BY <3>1 DEF HereLeft
    <3>3. Cardinality(ToCheck(w)') \in 0..NumClients
      <4>1. ToCheck(w)' \subseteq Clients
        BY DEF ToCheck
      <4>2. IsFiniteSet(Clients) /\ Cardinality(Clients) = NumClients
        BY <1>0, FS_Interval
      <4> HIDE DEF Clients
      <4> QED
        BY <1>0, <4>1, <4>2, FS_Subset, FS_CardinalityType
    <3> QED
      BY <1>0, <2>1, <2>2, <3>1, <3>2, <3>3, HereShortens
  <2> QED
    BY <2>3, <2>4
<1>2. CASE FetchSucceeds(w)
  <2>1. pc[w] = "fetch" /\ pc'[w] = "publish" /\ client' = client /\ todo' = todo
    BY <1>0, <1>2 DEF FetchSucceeds
  <2>2. HereLeft(w)' = 2 * (NumClients - client[w]) + NumClients + 5
    BY <2>1 DEF HereLeft
  <2> QED
    BY <1>0, <2>1, <2>2, HereLeftIs, HereShortens
<1>3. CASE WritePrice(w)
  <2>1. pc[w] = "consolidate" /\ pc'[w] = "cache" /\ todo' = todo
    BY <1>0, <1>3 DEF WritePrice
  <2>2. HereLeft(w)' = 3
    BY <2>1 DEF HereLeft
  <2>3. HereLeft(w) \in Int /\ HereLeft(w) >= 4
    BY <1>0, <2>1, HereLeftIs, ToCheckCounted
  <2> QED
    BY <1>0, <2>1, <2>2, <2>3, HereShortens
<1>4. CASE SetCache(w)
  <2>1. pc[w] = "cache" /\ pc'[w] = "broadcast" /\ todo' = todo
    BY <1>0, <1>4 DEF SetCache, frame
  <2>2. HereLeft(w)' = 2
    BY <2>1 DEF HereLeft
  <2> QED
    BY <1>0, <2>1, <2>2, HereLeftIs, HereShortens
<1>5. CASE Broadcast(w)
  <2>1. pc[w] = "broadcast" /\ pc'[w] = "arbitrage" /\ todo' = todo
    BY <1>0, <1>5 DEF Broadcast, frame
  <2>2. HereLeft(w)' = 1
    BY <2>1 DEF HereLeft
  <2> QED
    BY <1>0, <2>1, <2>2, HereLeftIs, HereShortens
<1>6. CASE NoPrice(w) \/ RecordArbitrage(w) \/ NoArbitrage(w)
  BY <1>0, <1>6, NextInstrumentShortens DEF NoPrice, RecordArbitrage, NoArbitrage
<1>7. CASE StartRound(w)
  BY <1>7 DEF StartRound, Busy
<1>8. CASE ReadActive(w)
  <2>1. active \in SUBSET Instruments
    BY <1>0 DEF TypeOK
  <2>2. StepsLeft(w)' \in 0..(PerRound - 1)
    <3>1. StepsLeft(w)' \in 0..(Cardinality(active) * PerInstrument)
      BY <1>0, <1>8, <2>1, NextInstrumentLeaves DEF ReadActive
    <3> QED
      BY <2>1, <3>1, InstrumentsCounted, PerRoundCounted
  <2> QED
    BY <1>8, <2>2, PerRoundCounted DEF ReadActive, StepsLeft, Shortens
<1>9. CASE CheckQuote(w)
  BY <1>9, CheckShortens
<1> QED
  BY <1>1, <1>2, <1>3, <1>4, <1>5, <1>6, <1>7, <1>8, <1>9 DEF Step

\* What any step leaves of a worker's place in its round, but for the worker's own.
Placed(v) == pc'[v] = pc[v] /\ todo'[v] = todo[v] /\ client'[v] = client[v]
             /\ held'[v] = held[v] /\ checked'[v] = checked[v]

LEMMA PlaceKept ==
  ASSUME TypeOK, [Next]_vars, NEW v \in Workers, ~Step(v)
  PROVE  Placed(v) \/ ~Busy(v)'
<1>0. /\ DOMAIN pc = Workers /\ DOMAIN client = Workers /\ DOMAIN todo = Workers
      /\ DOMAIN held = Workers /\ DOMAIN checked = Workers
  BY DEF TypeOK
<1>1. CASE Beat \/ Tick \/ AdminToggle \/ UNCHANGED vars \/ \E w \in Workers : StartRoundFails(w)
  BY <1>1 DEF Beat, Tick, AdminToggle, vars, frame, gate, StartRoundFails, Placed
<1>2. ASSUME NEW w \in Workers, Raise(w) \/ Crash(w)
      PROVE  Placed(v) \/ ~Busy(v)'
  BY <1>0, <1>2 DEF Raise, Crash, Forget, LeaveGate, Busy, Placed
<1>3. ASSUME NEW w \in Workers \ {v}, Step(w)
      PROVE  Placed(v)
  <2>1. ASSUME NEW r, NEW rest, NextInstrument(w, r, rest)
        PROVE  Placed(v)
    BY <1>0, <2>1 DEF NextInstrument, Forget, LeaveGate, Placed
  <2>2. CASE ReadActive(w) \/ NoPrice(w) \/ RecordArbitrage(w) \/ NoArbitrage(w)
    BY <2>1, <2>2 DEF ReadActive, NoPrice, RecordArbitrage, NoArbitrage
  <2>3. CASE FetchFails(w) \/ PublishQuote(w) \/ PublishFails(w)
    BY <1>0, <2>3 DEF FetchFails, PublishQuote, PublishFails, NextClient, Placed, gate
  <2>4. CASE StartRound(w) \/ CheckQuote(w) \/ WritePrice(w) \/ SetCache(w) \/ Broadcast(w)
    BY <1>0, <2>4 DEF StartRound, CheckQuote, WritePrice, LeaveGate, SetCache, Broadcast,
                      frame, gate, Placed
  <2>5. CASE FetchSucceeds(w)
    BY <1>0, <2>5 DEF FetchSucceeds, gate, Placed
  <2> QED
    BY <1>3, <2>2, <2>3, <2>4, <2>5 DEF Step
<1> QED
  BY <1>1, <1>2, <1>3 DEF Next, Fault

\* Of a round that worker w is in, each step that w takes leaves fewer steps, and
\* nothing that others do, or that fails, leaves more.
RoundShortens(w) ==
  Busy(w) => /\ StepsLeft(w) \in 1..PerRound
             /\ Step(w) => Shortens(w)
             /\ ~Step(w) => StepsLeft(w)' = StepsLeft(w) \/ ~Busy(w)'

\* However many exchanges, brokers and other rounds fail or run in between, a round
\* has returned after at most PerRound steps of its worker: what the fairness of
\* RoundsEnd adds is that these steps are taken.
THEOREM RoundsShorten == Spec => [][\A w \in Workers : RoundShortens(w)]_vars
<1>1. ASSUME Consistent, OncePerRound, [Next]_vars, NEW w \in Workers PROVE RoundShortens(w)
  <2> SUFFICES ASSUME Busy(w)
               PROVE  /\ StepsLeft(w) \in 1..PerRound
                      /\ Step(w) => Shortens(w)
                      /\ ~Step(w) => StepsLeft(w)' = StepsLeft(w) \/ ~Busy(w)'
    BY DEF RoundShortens
  <2>1. StepsLeft(w) \in 1..PerRound
    BY <1>1, RoundFinite
  <2>2. Step(w) => Shortens(w)
    BY <1>1, StepShortens
  <2>3. ASSUME ~Step(w), Busy(w)' PROVE StepsLeft(w)' = StepsLeft(w)
    <3>1. Placed(w)
      BY <1>1, <2>3, PlaceKept DEF Consistent
    <3>2. ToCheck(w)' = ToCheck(w)
      BY <3>1 DEF Placed, ToCheck, Unchecked
    <3>3. HereLeft(w)' = HereLeft(w)
      BY <3>1, <3>2 DEF Placed, HereLeft
    <3> QED
      BY <3>1, <3>3 DEF Placed, StepsLeft, PerInstrument, PerRound
  <2> QED
    BY <2>1, <2>2, <2>3
<1>2. Consistent /\ OncePerRound /\ [Next]_vars => \A w \in Workers : RoundShortens(w)
  BY <1>1
<1> QED
  BY <1>2, ConsistentAlways, StoredOncePerRound, PTL DEF Spec
=============================================================================

------------------------ MODULE FetchRoundTapeProofs ------------------------
(***************************************************************************)
(* The tape, from outside.  First, FetchRound implements Tape: the initial *)
(* states map to its initial state, every step to one of its steps or to a *)
(* stutter.  Then, that the channel group and the arbitrage rows follow    *)
(* the tape without some of the faults (each of the two theorems assumes   *)
(* what the code depends on, and a run that ends in a counterexample shows *)
(* that it does), and that the copies of the tape are out of order only    *)
(* where rounds overlapped.  Last, what the statistics read off the tape.  *)
(***************************************************************************)
EXTENDS TapeReads, FetchRoundProofs, SequenceTheorems

-----------------------------------------------------------------------------
(* What the workers have in hand *)

\* The rows in the hands of the workers other than w.
Others(w, point) == {RowOf(cp[v]) : v \in {u \in Workers \ {w} : pc[u] = point}}

\* A step of worker w changes its own hand only.
LEMMA OwnHand ==
  ASSUME NEW w \in Workers, NEW point,
         \A v \in Workers \ {w} : pc'[v] = pc[v] /\ cp'[v] = cp[v]
  PROVE  /\ InHand(point) = Others(w, point)
                            \cup (IF pc[w] = point THEN {RowOf(cp[w])} ELSE {})
         /\ InHand(point)' = Others(w, point)
                             \cup (IF pc'[w] = point THEN {RowOf(cp'[w])} ELSE {})
<1>1. {v \in Workers : pc[v] = point} =
        {v \in Workers \ {w} : pc[v] = point} \cup (IF pc[w] = point THEN {w} ELSE {})
  OBVIOUS
<1>2. {v \in Workers : pc'[v] = point} =
        {v \in Workers \ {w} : pc[v] = point} \cup (IF pc'[w] = point THEN {w} ELSE {})
  OBVIOUS
<1>3. InHand(point) = Others(w, point) \cup (IF pc[w] = point THEN {RowOf(cp[w])} ELSE {})
  BY <1>1 DEF InHand, Others
<1>4. InHand(point)' = {RowOf(cp'[v]) : v \in {u \in Workers : pc'[u] = point}}
  BY DEF InHand, RowOf
<1>5. {RowOf(cp'[v]) : v \in {u \in Workers : pc'[u] = point}} =
        Others(w, point) \cup (IF pc'[w] = point THEN {RowOf(cp'[w])} ELSE {})
  BY <1>2 DEF Others
<1> QED
  BY <1>3, <1>4, <1>5

\* The row in a worker's hand is a stored row of its own round, and in no other hand.
LEMMA HandApart ==
  ASSUME Consistent, NEW w \in Workers, Priced(w)
  PROVE  /\ cp[w] \in prices /\ cp[w].round = round[w] /\ cp[w].inst = inst[w]
         /\ inst[w] \in Instruments
         /\ RowOf(cp[w]) \notin Others(w, "cache") /\ RowOf(cp[w]) \notin Others(w, "broadcast")
<1>0. TypeOK /\ RoundsApart
  BY DEF Consistent, RoundsConsistent
<1>1. \A v \in Workers : Priced(v) =>
        pc[v] # "idle" /\ cp[v] \in prices /\ cp[v].round = round[v] /\ cp[v].inst = inst[v]
  BY DEF Consistent, RoundsConsistent, AtWork, InLoop, Priced
<1>2. \A v \in Workers \ {w} : Priced(v) => round[v] # round[w]
  BY <1>0, <1>1 DEF RoundsApart
<1>3. \A v \in Workers \ {w} : pc[v] \in {"cache", "broadcast"} => RowOf(cp[v]) # RowOf(cp[w])
  BY <1>1, <1>2 DEF RowOf, Priced
<1>4. inst[w] \in Instruments
  BY <1>0 DEF TypeOK, Running, Priced
<1> QED
  BY <1>1, <1>3, <1>4 DEF Others

-----------------------------------------------------------------------------
(* Stutters *)

\* A step that touches neither rows nor cache, channel group or clock, taken by a
\* worker with no row in hand before and after, is invisible.
LEMMA Invisible ==
  ASSUME NEW w \in Workers,
         \A v \in Workers \ {w} : pc'[v] = pc[v] /\ cp'[v] = cp[v],
         pc[w] \notin {"cache", "broadcast"}, pc'[w] \notin {"cache", "broadcast"},
         UNCHANGED <<now, prices, cache, feed>>
  PROVE  UNCHANGED Promise!tape
<1>1. InHand("cache")' = InHand("cache")
  BY OwnHand
<1>3. InHand("broadcast")' = InHand("broadcast")
  BY OwnHand
<1>2. UNCHANGED <<StoredRows, CachedRows, SentRows>>
  BY DEF StoredRows, CachedRows, SentRows, EntryOf, RowsOf, RowOf
<1> QED
  BY <1>1, <1>2, <1>3 DEF Promise!tape

-----------------------------------------------------------------------------
(* Steps *)

\* The loops over instruments and clients never have a price in hand.
LEMMA LoopsEmptyHanded ==
  ASSUME TypeOK, NEW w \in Workers,
         \/ NextClient(w) /\ UNCHANGED cp
         \/ \E r, rest : NextInstrument(w, r, rest)
  PROVE  /\ pc'[w] \notin {"cache", "broadcast"}
         /\ \A v \in Workers \ {w} : pc'[v] = pc[v] /\ cp'[v] = cp[v]
<1>1. /\ pc \in [Workers -> {"idle", "select", "fetch", "publish", "consolidate", "cache",
                             "broadcast", "arbitrage"}]
      /\ DOMAIN cp = Workers
  BY DEF TypeOK
<1>2. CASE NextClient(w) /\ UNCHANGED cp
  BY <1>1, <1>2 DEF NextClient
<1>3. ASSUME NEW r, NEW rest, NextInstrument(w, r, rest)
      PROVE  /\ pc'[w] \notin {"cache", "broadcast"}
             /\ \A v \in Workers \ {w} : pc'[v] = pc[v] /\ cp'[v] = cp[v]
  <2>1. \/ pc' = [pc EXCEPT ![w] = "idle"]
        \/ pc' = [pc EXCEPT ![w] = "fetch"]
    BY <1>3 DEF NextInstrument, Forget
  <2>2. cp' = [cp EXCEPT ![w] = None]
    BY <1>3 DEF NextInstrument, Forget
  <2> QED
    BY <1>1, <2>1, <2>2
<1> QED
  BY <1>2, <1>3

\* WritePrice is Store.
LEMMA WritePriceStores ==
  ASSUME Consistent, NEW w \in Workers, WritePrice(w)
  PROVE  Promise!Store(round[w], inst[w]) /\ round[w] \in 0..MaxRounds /\ inst[w] \in Instruments
<1> DEFINE r == round[w]
           i == inst[w]
           row == [round |-> r, inst |-> i, ts |-> now]
<1>1. TypeOK /\ RoundsApart /\ pc[w] = "consolidate" /\ InLoop(w)
  BY DEF Consistent, RoundsConsistent, WritePrice, AtWork
<1>2. r \in 0..MaxRounds /\ i \in Instruments
  BY <1>1, CountsAssumption DEF TypeOK, RoundsApart, Running
<1>3. \A p \in prices : p.round = r => p.inst # i
  BY <1>1 DEF InLoop, Priced
<1>4. PICK p : /\ RowOf(p) = row /\ prices' = prices \cup {p}
               /\ cp' = [cp EXCEPT ![w] = p]
  <2> DEFINE q == [round |-> round[w], inst |-> inst[w], ts |-> now,
                   book |-> Consolidated(candidates[w])]
  <2>1. prices' = prices \cup {q} /\ cp' = [cp EXCEPT ![w] = q]
    BY DEF WritePrice
  <2>2. RowOf(q) = row
    BY DEF RowOf
  <2> HIDE DEF q
  <2> QED
    BY <2>1, <2>2
<1>5. pc' = [pc EXCEPT ![w] = "cache"] /\ UNCHANGED <<now, cache, feed>>
  BY DEF WritePrice, env, outputs
<1>6. /\ pc'[w] = "cache" /\ cp'[w] = p
      /\ \A v \in Workers \ {w} : pc'[v] = pc[v] /\ cp'[v] = cp[v]
  BY <1>1, <1>4, <1>5 DEF TypeOK
<1>7. InHand("cache")' = InHand("cache") \cup {row}
  BY <1>1, <1>4, <1>6, OwnHand
<1>8. InHand("broadcast")' = InHand("broadcast")
  BY <1>1, <1>6, OwnHand
<1>9. StoredRows' = StoredRows \cup {row} /\ UNCHANGED <<CachedRows, SentRows>>
  BY <1>4, <1>5 DEF StoredRows, CachedRows, SentRows, EntryOf, RowsOf, RowOf
<1>10. \A x \in StoredRows : x.round = r => x.inst # i
  BY <1>3 DEF StoredRows, RowOf
<1> QED
  BY <1>2, <1>5, <1>7, <1>8, <1>9, <1>10 DEF Promise!Store

\* SetCache is SetCache, for the row in the worker's hand.
LEMMA SetCacheCaches ==
  ASSUME Consistent, NEW w \in Workers, SetCache(w),
         \A x, t : [price |-> x, expires |-> t] # None
  PROVE  Promise!SetCache(RowOf(cp[w])) /\ RowOf(cp[w]) \in InHand("cache")
<1> DEFINE row == RowOf(cp[w])
           i == inst[w]
<1>1. TypeOK /\ pc[w] = "cache" /\ Priced(w)
  BY DEF Consistent, SetCache, Priced
<1>2. row \notin Others(w, "cache") /\ row.inst = i /\ i \in Instruments
  BY <1>1, HandApart DEF RowOf
<1>3. /\ cache' = [cache EXCEPT ![i] = [price |-> cp[w], expires |-> now + CacheTTL]]
      /\ pc' = [pc EXCEPT ![w] = "broadcast"] /\ UNCHANGED <<now, prices, feed, cp>>
  BY DEF SetCache, CacheSet, env, tables, frame
<1>4. pc'[w] = "broadcast" /\ \A v \in Workers \ {w} : pc'[v] = pc[v] /\ cp'[v] = cp[v]
  BY <1>1, <1>3 DEF TypeOK
<1>5. InHand("cache") = Others(w, "cache") \cup {row} /\ InHand("cache")' = Others(w, "cache")
  BY <1>1, <1>4, OwnHand
<1>6. InHand("broadcast")' = InHand("broadcast") \cup {row}
  <2>1. cp'[w] = cp[w]
    BY <1>3
  <2> QED
    BY <1>1, <1>4, <2>1, OwnHand
<1>7. CachedRows' = [CachedRows EXCEPT ![row.inst] = [price |-> row, expires |-> now + CacheTTL]]
  <2>1. \A j \in Instruments : cache'[j] =
          IF j = i THEN [price |-> cp[w], expires |-> now + CacheTTL] ELSE cache[j]
    BY <1>1, <1>2, <1>3 DEF TypeOK
  <2>2. CachedRows' = [j \in Instruments |-> EntryOf(cache'[j])]
    BY DEF CachedRows, EntryOf, RowOf
  <2>3. EntryOf([price |-> cp[w], expires |-> now + CacheTTL]) =
          [price |-> row, expires |-> now + CacheTTL]
    BY DEF EntryOf
  <2> QED
    BY <1>2, <2>1, <2>2, <2>3 DEF CachedRows
<1>8. UNCHANGED <<StoredRows, SentRows>>
  BY <1>3 DEF StoredRows, SentRows, RowsOf, RowOf
<1> QED
  BY <1>2, <1>3, <1>5, <1>6, <1>7, <1>8 DEF Promise!SetCache, Promise!Snapshot

\* Taking one more row along.
LEMMA RowsOfAppend ==
  ASSUME NEW S, NEW s \in Seq(S), NEW x
  PROVE  RowsOf(Append(s, x)) = Append(RowsOf(s), RowOf(x))
<1> DEFINE T == {RowOf(s[k]) : k \in DOMAIN s} \cup {RowOf(x)}
           U == S \cup {x}
<1>1. Len(s) \in Nat /\ DOMAIN s = 1..Len(s)
  OBVIOUS
<1>2. /\ RowsOf(s) \in Seq(T) /\ Len(RowsOf(s)) = Len(s)
      /\ \A k \in 1..Len(s) : RowsOf(s)[k] = RowOf(s[k])
  BY <1>1 DEF RowsOf
<1>3. /\ Len(Append(s, x)) = Len(s) + 1 /\ DOMAIN Append(s, x) = 1..(Len(s) + 1)
      /\ \A k \in 1..Len(s) : Append(s, x)[k] = s[k]
      /\ Append(s, x)[Len(s) + 1] = x
  BY <1>1
<1>4. /\ RowsOf(Append(s, x)) \in Seq(T) /\ Len(RowsOf(Append(s, x))) = Len(s) + 1
      /\ \A k \in 1..Len(s) : RowsOf(Append(s, x))[k] = RowOf(s[k])
      /\ RowsOf(Append(s, x))[Len(s) + 1] = RowOf(x)
  BY <1>1, <1>3 DEF RowsOf
<1>5. RowOf(x) \in T
  OBVIOUS
<1> HIDE DEF T
<1>6. /\ Append(RowsOf(s), RowOf(x)) \in Seq(T)
      /\ Len(Append(RowsOf(s), RowOf(x))) = Len(s) + 1
      /\ \A k \in 1..Len(s) : Append(RowsOf(s), RowOf(x))[k] = RowOf(s[k])
      /\ Append(RowsOf(s), RowOf(x))[Len(s) + 1] = RowOf(x)
  BY <1>1, <1>2, <1>5
<1> QED
  BY <1>1, <1>4, <1>6, SeqEqual

\* Broadcast is Broadcast.
LEMMA BroadcastAnnounces ==
  ASSUME Consistent, BackedByRows, NEW w \in Workers, Broadcast(w)
  PROVE  Promise!Broadcast(RowOf(cp[w])) /\ RowOf(cp[w]) \in InHand("broadcast")
<1> DEFINE row == RowOf(cp[w])
           i == inst[w]
<1>1. TypeOK /\ pc[w] = "broadcast" /\ Priced(w)
  BY DEF Consistent, Broadcast, Priced
<1>2. row \notin Others(w, "broadcast") /\ row.inst = i /\ i \in Instruments
  BY <1>1, HandApart DEF RowOf
<1>3. /\ feed' = [feed EXCEPT ![i] = Append(@, cp[w])]
      /\ pc' = [pc EXCEPT ![w] = "arbitrage"] /\ UNCHANGED <<now, prices, cache, cp>>
  BY DEF Broadcast, GroupSend, env, tables, frame
<1>4. pc'[w] = "arbitrage" /\ \A v \in Workers \ {w} : pc'[v] = pc[v] /\ cp'[v] = cp[v]
  BY <1>1, <1>3 DEF TypeOK
<1>5. /\ InHand("broadcast") = Others(w, "broadcast") \cup {row}
      /\ InHand("broadcast")' = Others(w, "broadcast")
  BY <1>1, <1>4, OwnHand
<1>8. InHand("cache")' = InHand("cache")
  BY <1>1, <1>4, OwnHand
<1>6. SentRows' = [SentRows EXCEPT ![row.inst] = Append(@, row)]
  <2>1. \A j \in Instruments : feed'[j] = IF j = i THEN Append(feed[i], cp[w]) ELSE feed[j]
    BY <1>1, <1>2, <1>3 DEF TypeOK
  <2>2. SentRows' = [j \in Instruments |-> RowsOf(feed'[j])]
    BY DEF SentRows, RowsOf, RowOf
  <2>3. RowsOf(Append(feed[i], cp[w])) = Append(RowsOf(feed[i]), row)
    BY <1>2, RowsOfAppend DEF BackedByRows
  <2> QED
    BY <1>2, <2>1, <2>2, <2>3 DEF SentRows
<1>7. UNCHANGED <<StoredRows, CachedRows>>
  BY <1>3 DEF StoredRows, CachedRows, EntryOf, RowOf
<1> QED
  BY <1>2, <1>3, <1>5, <1>6, <1>7, <1>8 DEF Promise!Broadcast, Promise!Announceable,
                                                Promise!StillUnsent

\* A raise or a crash with a price in hand is Abandon, any other is invisible.
LEMMA ForgetAbandons ==
  ASSUME Consistent, NEW w \in Workers, Forget(w), UNCHANGED <<now, prices, cache, feed>>
  PROVE  \/ UNCHANGED Promise!tape
         \/ \E p \in InHand("cache") \cup InHand("broadcast") : Promise!Abandon(p)
<1>1. TypeOK
  BY DEF Consistent
<1>2. pc'[w] = "idle" /\ \A v \in Workers \ {w} : pc'[v] = pc[v] /\ cp'[v] = cp[v]
  BY <1>1 DEF Forget, TypeOK
<1>3. CASE pc[w] \notin {"cache", "broadcast"}
  BY <1>2, <1>3, Invisible
<1>4. CASE pc[w] \in {"cache", "broadcast"}
  <2> DEFINE row == RowOf(cp[w])
  <2>1. row \notin Others(w, "cache") /\ row \notin Others(w, "broadcast")
    BY <1>4, HandApart DEF Priced
  <2>2. /\ InHand("cache")' = InHand("cache") \ {row}
        /\ InHand("broadcast")' = InHand("broadcast") \ {row}
        /\ row \in InHand("cache") \cup InHand("broadcast")
    BY <1>2, <1>4, <2>1, OwnHand
  <2>3. UNCHANGED <<StoredRows, CachedRows, SentRows>>
    BY DEF StoredRows, CachedRows, SentRows, EntryOf, RowsOf, RowOf
  <2> QED
    BY <2>2, <2>3 DEF Promise!Abandon
<1> QED
  BY <1>3, <1>4

LEMMA TapeInitial == Init => Promise!TapeInit
<1> SUFFICES ASSUME Init PROVE Promise!TapeInit
  OBVIOUS
<1>1. StoredRows = {} /\ InHand("cache") = {} /\ InHand("broadcast") = {}
  BY DEF Init, StoredRows, InHand
<1>2. CachedRows = [i \in Instruments |-> None]
  BY DEF Init, CachedRows, EntryOf
<1>3. SentRows = [i \in Instruments |-> << >>]
  <2>1. \A i \in Instruments : feed[i] = << >>
    BY DEF Init
  <2>2. RowsOf(<< >>) = << >>
    BY DEF RowsOf
  <2> QED
    BY <2>1, <2>2 DEF SentRows
<1> QED
  BY <1>1, <1>2, <1>3 DEF Promise!TapeInit, Init

LEMMA TapeStep ==
  ASSUME Consistent, BackedByRows, [Next]_vars,
         \A x, t : [price |-> x, expires |-> t] # None
  PROVE  [Promise!TapeNext]_(Promise!tape)
<1>0. TypeOK
  BY DEF Consistent
<1>1. ASSUME UNCHANGED <<prices, cache, feed, pc, cp>>
      PROVE  UNCHANGED <<StoredRows, CachedRows, SentRows, InHand("cache"), InHand("broadcast")>>
  BY <1>1 DEF StoredRows, CachedRows, SentRows, InHand, EntryOf, RowsOf, RowOf
<1>2. CASE Tick
  BY <1>1, <1>2
  DEF Tick, tables, outputs, frame, Promise!TapeNext, Promise!Tick
<1>3. CASE Beat \/ AdminToggle \/ UNCHANGED vars
  BY <1>1, <1>3
  DEF Beat, AdminToggle, vars, env, tables, outputs, frame, Promise!tape
<1>4. ASSUME NEW w \in Workers, WritePrice(w) PROVE Promise!TapeNext
  BY <1>4, WritePriceStores DEF Promise!TapeNext
<1>5. ASSUME NEW w \in Workers, SetCache(w) PROVE Promise!TapeNext
  BY <1>5, SetCacheCaches DEF Promise!TapeNext
<1>6. ASSUME NEW w \in Workers, Broadcast(w) PROVE Promise!TapeNext
  BY <1>6, BroadcastAnnounces DEF Promise!TapeNext
<1>7. ASSUME NEW w \in Workers, Raise(w) \/ Crash(w) PROVE [Promise!TapeNext]_(Promise!tape)
  <2>1. Forget(w) /\ UNCHANGED <<now, prices, cache, feed>>
    BY <1>7 DEF Raise, Crash, env, tables, outputs
  <2> QED
    BY <2>1, ForgetAbandons DEF Promise!TapeNext
<1>8. ASSUME NEW w \in Workers,
             ReadActive(w) \/ NoPrice(w) \/ RecordArbitrage(w) \/ NoArbitrage(w)
      PROVE  UNCHANGED Promise!tape
  <2>1. /\ pc[w] \notin {"cache", "broadcast"} /\ UNCHANGED <<now, prices, cache, feed>>
        /\ \E r, rest : NextInstrument(w, r, rest)
    BY <1>8 DEF ReadActive, NoPrice, RecordArbitrage, NoArbitrage, env, tables, outputs
  <2> QED
    BY <1>0, <2>1, LoopsEmptyHanded, Invisible
<1>9. ASSUME NEW w \in Workers, FetchFails(w) \/ PublishQuote(w) \/ PublishFails(w)
      PROVE  UNCHANGED Promise!tape
  <2>1. /\ pc[w] \notin {"cache", "broadcast"} /\ UNCHANGED <<now, prices, cache, feed>>
        /\ NextClient(w) /\ UNCHANGED cp
    BY <1>9 DEF FetchFails, PublishQuote, PublishFails, env, tables, outputs
  <2> QED
    BY <1>0, <2>1, LoopsEmptyHanded, Invisible
<1>10. ASSUME NEW w \in Workers, FetchSucceeds(w) PROVE UNCHANGED Promise!tape
  <2>1. /\ pc[w] = "fetch" /\ pc' = [pc EXCEPT ![w] = "publish"]
        /\ UNCHANGED <<now, prices, cache, feed, cp>>
    BY <1>10 DEF FetchSucceeds, env, outputs
  <2>2. pc'[w] = "publish" /\ \A v \in Workers \ {w} : pc'[v] = pc[v] /\ cp'[v] = cp[v]
    BY <1>0, <2>1 DEF TypeOK
  <2> QED
    BY <2>1, <2>2, Invisible
<1>11. ASSUME NEW w \in Workers, StartRoundFails(w) \/ CheckQuote(w) PROVE UNCHANGED Promise!tape
  BY <1>1, <1>11 DEF StartRoundFails, CheckQuote, env, tables, outputs, frame, Promise!tape
<1>12. ASSUME NEW w \in Workers, StartRound(w) PROVE UNCHANGED Promise!tape
  <2>1. /\ pc[w] = "idle" /\ pc' = [pc EXCEPT ![w] = "select"]
        /\ UNCHANGED <<now, prices, cache, feed, cp>>
    BY <1>12 DEF StartRound, tables, outputs
  <2>2. pc'[w] = "select" /\ \A v \in Workers \ {w} : pc'[v] = pc[v] /\ cp'[v] = cp[v]
    BY <1>0, <2>1 DEF TypeOK
  <2> QED
    BY <2>1, <2>2, Invisible
<1> QED
  BY <1>2, <1>3, <1>4, <1>5, <1>6, <1>7, <1>8, <1>9, <1>10, <1>11, <1>12
  DEF Next, Step, Fault

\* The workers, failing and overlapping as they may, do to price rows, cache and
\* channel group what Tape allows and nothing else (None being no cache entry).
THEOREM Implementation ==
  ASSUME \A x, t : [price |-> x, expires |-> t] # None
  PROVE  Spec => ImplementsTape
<1>1. Consistent /\ BackedByRows /\ [Next]_vars => [Promise!TapeNext]_(Promise!tape)
  BY TapeStep
<1> QED
  BY <1>1, TapeInitial, ConsistentAlways, DisseminatedIsBacked, PTL
  DEF Spec, ImplementsTape, Promise!TapeSpec

-----------------------------------------------------------------------------
(* Copies of the tape *)

USE DEF Instruments, Enough, CacheSet, GroupSend, Detectable

\* A worker goes on with the price it has in hand.
Holds(v) == pc'[v] = pc[v] /\ cp'[v] = cp[v] /\ inst'[v] = inst[v]

\* Nothing happens to prices, copies and hands.
Quiet ==
  /\ UNCHANGED <<prices, arbs, cache, feed>> /\ now <= now'
  /\ \A v \in Workers : IF Priced(v) THEN Holds(v) ELSE ~Priced(v)'

\* The steps of a worker with a price in hand, or that take one in hand.
Handles(w) == \/ WritePrice(w) \/ SetCache(w) \/ Broadcast(w)
              \/ RecordArbitrage(w) \/ NoArbitrage(w) \/ Raise(w) \/ Crash(w)

-----------------------------------------------------------------------------
(* Steps that change a copy *)

\* The head of the loop over the instruments: no price in hand afterwards.
LEMMA LoopEmptyHanded ==
  ASSUME TypeOK, NEW w \in Workers, NEW r, NEW rest, NextInstrument(w, r, rest) \/ Forget(w)
  PROVE  /\ pc'[w] \in {"idle", "fetch"}
         /\ \A v \in Workers \ {w} : Holds(v)
<1>1. CASE Forget(w)
  BY <1>1 DEF Forget, TypeOK, Holds
<1>2. ASSUME NEW i \in rest, inst' = [inst EXCEPT ![w] = i],
             pc' = [pc EXCEPT ![w] = "fetch"], cp' = [cp EXCEPT ![w] = None]
      PROVE  /\ pc'[w] \in {"idle", "fetch"}
             /\ \A v \in Workers \ {w} : Holds(v)
  BY <1>2 DEF TypeOK, Holds
<1> QED BY <1>1, <1>2 DEF NextInstrument

LEMMA HandSteps ==
  ASSUME TypeOK, [Next]_vars
  PROVE  Quiet \/ \E w \in Workers : Handles(w)
<1>0. now \in Nat
  BY DEF TypeOK
<1>1. CASE Beat \/ Tick \/ AdminToggle \/ UNCHANGED vars 
           \/ \E w \in Workers : StartRoundFails(w) \/ CheckQuote(w)
  <2>1. UNCHANGED <<prices, arbs, cache, feed, pc, cp, inst>> /\ now <= now'
    BY <1>0, <1>1 DEF Beat, Tick, AdminToggle, vars, StartRoundFails, CheckQuote, env, tables,
                      outputs, frame
  <2> QED BY <2>1 DEF Quiet, Holds, Priced
<1>2. ASSUME NEW w \in Workers, ReadActive(w) \/ NoPrice(w) PROVE Quiet
  <2>1. /\ UNCHANGED <<prices, arbs, cache, feed, now>> /\ ~Priced(w)
        /\ \E r, rest : NextInstrument(w, r, rest)
    BY <1>2 DEF ReadActive, NoPrice, env, tables, outputs, Priced
  <2>2. pc'[w] \in {"idle", "fetch"} /\ \A v \in Workers \ {w} : Holds(v)
    BY <2>1, LoopEmptyHanded
  <2> QED BY <1>0, <2>1, <2>2 DEF Quiet, Holds, Priced
<1>3. ASSUME NEW w \in Workers,
             \/ StartRound(w) \/ FetchFails(w) \/ FetchSucceeds(w)
             \/ PublishQuote(w) \/ PublishFails(w)
      PROVE  Quiet
  <2>1. /\ UNCHANGED <<prices, arbs, cache, feed, now, cp, inst>> /\ ~Priced(w)
        /\ \E q \in {"select", "fetch", "publish", "consolidate"} : pc' = [pc EXCEPT ![w] = q]
    BY <1>3 DEF StartRound, FetchFails, FetchSucceeds, PublishQuote, PublishFails, env, tables,
                outputs, Priced, NextClient
  <2>2. ~Priced(w)' /\ \A v \in Workers \ {w} : Holds(v)
    BY <2>1 DEF TypeOK, Holds, Priced
  <2> QED BY <1>0, <2>1, <2>2 DEF Quiet, Holds, Priced
<1> QED BY <1>1, <1>2, <1>3 DEF Next, Step, Fault, Handles

\* The other workers keep what they have in hand.
LEMMA OthersHold ==
  ASSUME TypeOK, NEW w \in Workers, Handles(w)
  PROVE  /\ \A v \in Workers \ {w} : Holds(v)
         /\ RecordArbitrage(w) \/ NoArbitrage(w) \/ Raise(w) \/ Crash(w) => ~Priced(w)'
         /\ now' = now
<1>1. CASE WritePrice(w) \/ SetCache(w) \/ Broadcast(w)
  <2>1. now' = now /\ \A v \in Workers \ {w} : Holds(v)
    BY <1>1 DEF WritePrice, SetCache, Broadcast, frame, env, TypeOK, Holds
  <2>2. ~(RecordArbitrage(w) \/ NoArbitrage(w))
    BY <1>1 DEF WritePrice, SetCache, Broadcast, RecordArbitrage, NoArbitrage
  <2>3. Raise(w) \/ Crash(w) => Forget(w)
    BY DEF Raise, Crash
  <2>4. Forget(w) => ~Priced(w)'
    BY LoopEmptyHanded DEF Priced
  <2> QED BY <2>1, <2>2, <2>3, <2>4
<1>2. CASE RecordArbitrage(w) \/ NoArbitrage(w) \/ Raise(w) \/ Crash(w)
  <2>1. now' = now /\ \E r, rest : NextInstrument(w, r, rest) \/ Forget(w)
    BY <1>2 DEF RecordArbitrage, NoArbitrage, Raise, Crash, env
  <2> QED BY <2>1, LoopEmptyHanded DEF Priced
<1> QED BY <1>1, <1>2 DEF Handles

\* The price that WritePrice takes in hand.
LEMMA WritePriceTakes ==
  ASSUME TypeOK, NEW w \in Workers, WritePrice(w)
  PROVE  \E p : /\ p.round = round[w] /\ p.inst = inst[w] /\ p.ts = now
                /\ prices' = prices \cup {p} /\ cp'[w] = p
                /\ pc[w] = "consolidate" /\ pc'[w] = "cache" /\ inst'[w] = inst[w]
                /\ UNCHANGED <<quotes, arbs, cache, feed>>
<1> WITNESS [round |-> round[w], inst |-> inst[w], ts |-> now,
             book |-> Consolidated(candidates[w])]
<1> QED BY DEF WritePrice, TypeOK, outputs

\* What a step does to the price in hand of worker w, every other worker holding on.
Takes(w, p) ==
  /\ p.round = round[w] /\ p.inst = inst[w] /\ p.ts = now
  /\ prices' = prices \cup {p} /\ UNCHANGED <<quotes, arbs, cache, feed>>
  /\ pc[w] = "consolidate" /\ pc'[w] = "cache" /\ cp'[w] = p /\ inst'[w] = inst[w]

Keeps(w) == cp'[w] = cp[w] /\ inst'[w] = inst[w] /\ UNCHANGED <<prices, arbs>>

Caches(w) ==
  /\ pc[w] = "cache" /\ pc'[w] = "broadcast" /\ Keeps(w) /\ feed' = feed
  /\ cache' = [cache EXCEPT ![inst[w]] = [price |-> cp[w], expires |-> now + CacheTTL]]

Sends(w) ==
  /\ pc[w] = "broadcast" /\ pc'[w] = "arbitrage" /\ Keeps(w) /\ cache' = cache
  /\ feed' = [feed EXCEPT ![inst[w]] = Append(@, cp[w])]

Detects(w) ==
  /\ pc[w] = "arbitrage" /\ ~Priced(w)' /\ UNCHANGED <<prices, cache, feed>>
  /\ arbs \subseteq arbs'
  /\ Crossings(held[w]) # {} => \E a \in arbs' : a.round = round[w] /\ a.inst = inst[w]

\* The round is cut short with a price in hand, or with none.
Drops(w) ==
  /\ ~Priced(w)' /\ UNCHANGED <<prices, arbs, cache, feed>>
  /\ \/ "crash" \in Faults
     \/ "db" \in Faults /\ pc[w] \in {"select", "fetch", "consolidate", "arbitrage"}
     \/ "redis" \in Faults /\ pc[w] \in {"cache", "broadcast"}

Deed(w) == (\E p : Takes(w, p)) \/ Caches(w) \/ Sends(w) \/ Detects(w) \/ Drops(w)

LEMMA Deeds ==
  ASSUME TypeOK, NEW w \in Workers, Handles(w)
  PROVE  Deed(w) /\ now' = now /\ \A v \in Workers \ {w} : Holds(v)
<1>0. (RecordArbitrage(w) \/ NoArbitrage(w) \/ Raise(w) \/ Crash(w) => ~Priced(w)')
      /\ now' = now /\ \A v \in Workers \ {w} : Holds(v)
  BY OthersHold
<1>1. CASE WritePrice(w)
  BY <1>0, <1>1, WritePriceTakes DEF Deed, Takes
<1>2. CASE SetCache(w)
  BY <1>0, <1>2 DEF Deed, Caches, Keeps, SetCache, TypeOK, tables, frame
<1>3. CASE Broadcast(w)
  BY <1>0, <1>3 DEF Deed, Sends, Keeps, Broadcast, TypeOK, tables, frame
<1>4. CASE RecordArbitrage(w)
  <2>1. \E a : a.round = round[w] /\ a.inst = inst[w] /\ arbs' = arbs \cup {a}
    <3> WITNESS [round |-> round[w], inst |-> inst[w], ts |-> now, arb |-> Arbitrage(held[w])]
    <3> QED BY <1>4 DEF RecordArbitrage
  <2> QED BY <1>0, <1>4, <2>1 DEF Deed, Detects, RecordArbitrage, outputs
<1>5. CASE NoArbitrage(w)
  BY <1>0, <1>5 DEF Deed, Detects, NoArbitrage, tables, outputs
<1>6. CASE Raise(w)
  BY <1>0, <1>6 DEF Deed, Drops, Raise, tables, outputs
<1>7. CASE Crash(w)
  BY <1>0, <1>7 DEF Deed, Drops, Crash, tables, outputs
<1> QED BY <1>1, <1>2, <1>3, <1>4, <1>5, <1>6, <1>7 DEF Handles

\* Every step, as far as prices, their copies and the hands go.
LEMMA CopyStep ==
  ASSUME TypeOK, [Next]_vars
  PROVE  Quiet \/ \E w \in Workers : Deed(w) /\ now' = now /\ \A v \in Workers \ {w} : Holds(v)
  BY HandSteps, Deeds

-----------------------------------------------------------------------------
(* Facts about the feed *)

LEMMA Appended ==
  ASSUME NEW S, NEW s \in Seq(S), NEW e
  PROVE  /\ DOMAIN Append(s, e) = DOMAIN s \cup {Len(s) + 1}
         /\ Append(s, e)[Len(s) + 1] = e
         /\ \A k \in DOMAIN s : Append(s, e)[k] = s[k] /\ k < Len(s) + 1
<1>1. Len(s) \in Nat /\ DOMAIN s = 1..Len(s)
  OBVIOUS
<1>2. /\ DOMAIN Append(s, e) = 1..Len(s) + 1 /\ Append(s, e)[Len(s) + 1] = e
      /\ \A k \in 1..Len(s) : Append(s, e)[k] = s[k]
  OBVIOUS
<1> QED BY <1>1, <1>2

\* What one broadcast does to the feeds.
LEMMA Sent ==
  ASSUME TypeOK, BackedByRows, NEW w \in Workers, Sends(w), inst[w] \in Instruments
  PROVE  /\ \A i \in Instruments \ {inst[w]} : feed'[i] = feed[i]
         /\ \E n \in Nat : /\ feed'[inst[w]][n] = cp[w]
                          /\ DOMAIN feed'[inst[w]] = DOMAIN feed[inst[w]] \cup {n}
                          /\ \A k \in DOMAIN feed[inst[w]] :
                               feed'[inst[w]][k] = feed[inst[w]][k] /\ k < n
<1>1. feed' = [feed EXCEPT ![inst[w]] = Append(@, cp[w])] /\ DOMAIN feed = Instruments
  BY DEF Sends, TypeOK
<1>2. feed[inst[w]] \in Seq(PricesOf(inst[w]))
  BY DEF BackedByRows
<1>3. feed'[inst[w]] = Append(feed[inst[w]], cp[w])
  BY <1>1
<1>4. /\ DOMAIN feed'[inst[w]] = DOMAIN feed[inst[w]] \cup {Len(feed[inst[w]]) + 1}
      /\ feed'[inst[w]][Len(feed[inst[w]]) + 1] = cp[w]
      /\ \A k \in DOMAIN feed[inst[w]] :
           feed'[inst[w]][k] = feed[inst[w]][k] /\ k < Len(feed[inst[w]]) + 1
  BY <1>2, <1>3, Appended
<1>5. Len(feed[inst[w]]) + 1 \in Nat
  BY <1>2
<1> QED BY <1>1, <1>4, <1>5

LEMMA BackedAlways == Spec => [](Consistent /\ BackedByRows)
  BY ConsistentAlways, DisseminatedIsBacked, PTL

-----------------------------------------------------------------------------
(* Every price goes out *)

InFeed(p) == \E k \in DOMAIN feed[p.inst] : feed[p.inst][k] = p

ToSend(w, p) == pc[w] \in {"cache", "broadcast"} /\ cp[w] = p

\* A price is broadcast, or some worker has it in hand and goes on to broadcast it.
Delivered == \A p \in prices : InFeed(p) \/ \E w \in Workers : ToSend(w, p)

\* Without a failure of Redis and a crash of a worker, every row of the tape has
\* been broadcast when no round is running, however the rounds overlap and
\* whatever the database, the exchanges and Kafka do.
THEOREM PricesGoOut ==
  ASSUME Faults \cap {"redis", "crash"} = {}
  PROVE  Spec => []EveryPriceBroadcast
<1>1. Init => Delivered
  BY DEF Init, Delivered
<1>2. ASSUME Consistent, BackedByRows, Delivered, [Next]_vars PROVE Delivered'
  <2>1. CASE Quiet
    <3>1. \A w \in Workers : \A p : ToSend(w, p) => ToSend(w, p)'
      BY <2>1 DEF Quiet, ToSend, Holds, Priced
    <3>2. \A p \in prices : InFeed(p) => InFeed(p)'
      BY <2>1 DEF Quiet, InFeed
    <3> QED BY <1>2, <2>1, <3>1, <3>2 DEF Delivered, Quiet
  <2>2. ASSUME NEW w \in Workers, Deed(w), \A v \in Workers \ {w} : Holds(v)
        PROVE  Delivered'
    <3>1. \A v \in Workers \ {w} : \A p : ToSend(v, p) => ToSend(v, p)'
      BY <2>2 DEF ToSend, Holds
    <3>2. CASE feed' = feed /\ prices' = prices /\ \A p : ToSend(w, p) => ToSend(w, p)'
      BY <1>2, <3>1, <3>2 DEF Delivered, InFeed
    <3>3. ASSUME NEW p, Takes(w, p) PROVE Delivered'
      <4>1. ToSend(w, p)' /\ \A o : ~ToSend(w, o)
        BY <3>3 DEF Takes, ToSend
      <4>2. \A o : InFeed(o)' = InFeed(o)
        BY <3>3 DEF Takes, InFeed
      <4> QED BY <1>2, <3>1, <3>3, <4>1, <4>2 DEF Delivered, Takes
    <3>4. CASE Caches(w)
      BY <3>2, <3>4 DEF Caches, Keeps, ToSend
    <3>5. CASE Sends(w)
      <4>1. cp[w] \in prices /\ cp[w].inst = inst[w] /\ prices' = prices
        BY <1>2, <3>5 DEF Consistent, RoundsConsistent, Sends, AtWork, InLoop, Priced, Keeps
      <4>2. inst[w] \in Instruments /\ TypeOK
        BY <1>2, <3>5 DEF Consistent, TypeOK, Running, Sends
      <4>3. \A p \in prices : p.inst \in Instruments
        BY <4>2 DEF TypeOK, IsRow, Row
      <4>4. InFeed(cp[w])' /\ \A p \in prices : InFeed(p) => InFeed(p)'
        <5>1. /\ \A i \in Instruments \ {inst[w]} : feed'[i] = feed[i]
              /\ \E n : /\ feed'[inst[w]][n] = cp[w]
                        /\ DOMAIN feed'[inst[w]] = DOMAIN feed[inst[w]] \cup {n}
                        /\ \A k \in DOMAIN feed[inst[w]] : feed'[inst[w]][k] = feed[inst[w]][k]
          BY <1>2, <3>5, <4>2, Sent
        <5>2. cp'[w] = cp[w]
          BY <3>5 DEF Sends, Keeps
        <5> QED BY <4>1, <4>3, <5>1, <5>2 DEF InFeed
      <4>5. \A p : ToSend(w, p) => p = cp[w]
        BY DEF ToSend
      <4>6. cp'[w] = cp[w]
        BY <3>5 DEF Sends, Keeps
      <4> QED BY <1>2, <3>1, <4>1, <4>4, <4>5, <4>6 DEF Delivered
    <3>6. CASE Detects(w)
      BY <3>2, <3>6 DEF Detects, ToSend
    <3>7. CASE Drops(w)
      BY <3>2, <3>7 DEF Drops, ToSend
    <3> QED BY <2>2, <3>3, <3>4, <3>5, <3>6, <3>7 DEF Deed
  <2> QED BY <1>2, <2>1, <2>2, CopyStep DEF Consistent
<1>3. Delivered => EveryPriceBroadcast
  BY DEF Delivered, EveryPriceBroadcast, InFeed, ToSend
<1> QED BY <1>1, <1>2, <1>3, BackedAlways, PTL DEF Spec

-----------------------------------------------------------------------------
(* Every crossing is recorded *)

HasCrossing(p) == Crossings(RoundQuotes(p.round, p.inst)) # {}

Recorded(p) == \E a \in arbs : a.round = p.round /\ a.inst = p.inst

ToDetect(w, p) == Priced(w) /\ cp[w] = p

\* A crossing is recorded, or some worker is still to look for it.
Watched == \A p \in prices : HasCrossing(p) => Recorded(p) \/ \E w \in Workers : ToDetect(w, p)

\* Without a failure of Redis or of the database and a crash of a worker, each
\* priced book of a round that crosses between venues has its arbitrage row when
\* no round is running, stale quotes included, however the rounds overlap.
THEOREM CrossingsAreRecorded ==
  ASSUME Faults \cap {"redis", "crash", "db"} = {}
  PROVE  Spec => []ArbitragePersisted
<1>1. Init => Watched
  BY DEF Init, Watched
<1>2. ASSUME Consistent, Watched, [Next]_vars PROVE Watched'
  <2>0. \A p \in prices : HasCrossing(p)' = HasCrossing(p)
    BY <1>2, PricedQuotesStable DEF HasCrossing
  <2>1. CASE Quiet
    <3>1. \A w \in Workers : \A p : ToDetect(w, p) => ToDetect(w, p)'
      BY <2>1 DEF Quiet, ToDetect, Holds, Priced
    <3>2. \A p : Recorded(p)' = Recorded(p)
      BY <2>1 DEF Quiet, Recorded
    <3> QED BY <1>2, <2>0, <2>1, <3>1, <3>2 DEF Watched, Quiet
  <2>2. ASSUME NEW w \in Workers, Deed(w), \A v \in Workers \ {w} : Holds(v)
        PROVE  Watched'
    <3>1. \A v \in Workers \ {w} : \A p : ToDetect(v, p) => ToDetect(v, p)'
      BY <2>2 DEF ToDetect, Holds, Priced
    <3>2. CASE arbs \subseteq arbs' /\ prices' = prices
               /\ \A p \in prices : HasCrossing(p) /\ ToDetect(w, p) => Recorded(p)' \/ ToDetect(w, p)'
      <4>1. \A p \in prices : Recorded(p) => Recorded(p)'
        BY <3>2 DEF Recorded
      <4> QED BY <1>2, <2>0, <3>1, <3>2, <4>1 DEF Watched
    <3>3. ASSUME NEW p, Takes(w, p) PROVE Watched'
      <4>1. ToDetect(w, p)' /\ \A o : ~ToDetect(w, o)
        BY <3>3 DEF Takes, ToDetect, Priced
      <4>2. \A o : Recorded(o)' = Recorded(o)
        BY <3>3 DEF Takes, Recorded
      <4> QED BY <1>2, <2>0, <3>1, <3>3, <4>1, <4>2 DEF Watched, Takes
    <3>4. CASE Caches(w) \/ Sends(w)
      BY <3>2, <3>4 DEF Caches, Sends, Keeps, ToDetect, Priced
    <3>5. CASE Detects(w)
      <4>1. InLoop(w) /\ Priced(w)
        BY <1>2, <3>5 DEF Consistent, RoundsConsistent, AtWork, Detects, Priced
      <4>2. ASSUME NEW p \in prices, HasCrossing(p), ToDetect(w, p) PROVE Recorded(p)'
        <5>1. held[w] = RoundQuotes(p.round, p.inst) /\ p.round = round[w] /\ p.inst = inst[w]
          BY <4>1, <4>2 DEF InLoop, ToDetect
        <5>2. \E a \in arbs' : a.round = p.round /\ a.inst = p.inst
          BY <3>5, <4>2, <5>1 DEF HasCrossing, Detects
        <5> QED BY <5>2 DEF Recorded
      <4> QED BY <3>2, <3>5, <4>2 DEF Detects
    <3>6. CASE Drops(w)
      BY <3>2, <3>6 DEF Drops, ToDetect, Priced
    <3> QED BY <2>2, <3>3, <3>4, <3>5, <3>6 DEF Deed
  <2> QED BY <1>2, <2>1, <2>2, CopyStep DEF Consistent
<1>3. Watched => ArbitragePersisted
  BY DEF Watched, ArbitragePersisted, HasCrossing, Recorded, ToDetect, Priced
<1> QED BY <1>1, <1>2, <1>3, ConsistentAlways, PTL DEF Spec

-----------------------------------------------------------------------------
(* Overlapping rounds *)

\* The timestamps that are compared.
LEMMA Stamps ==
  ASSUME Consistent, BackedByRows
  PROVE  /\ now \in Nat
         /\ \A p \in prices : p.ts \in Nat /\ p.ts <= now /\ p.inst \in Instruments
         /\ \A i \in Instruments : \A k \in DOMAIN feed[i] : feed[i][k] \in PricesOf(i)
         /\ \A w \in Workers : Priced(w) => /\ inst[w] \in Instruments
                                           /\ cp[w] \in PricesOf(inst[w])
<1>1. now \in Nat
  BY DEF Consistent, TypeOK
<1>2. \A p \in prices : p.ts \in Nat /\ p.ts <= now /\ p.inst \in Instruments
  BY DEF Consistent, RoundsConsistent, RoundsApart, TypeOK, IsRow, Row
<1>3. ASSUME NEW i \in Instruments, NEW k \in DOMAIN feed[i] PROVE feed[i][k] \in PricesOf(i)
  <2>1. feed[i] \in Seq(PricesOf(i))
    BY DEF BackedByRows
  <2> QED BY <1>3, <2>1
<1>4. ASSUME NEW w \in Workers, Priced(w)
      PROVE  inst[w] \in Instruments /\ cp[w] \in PricesOf(inst[w])
  BY <1>4 DEF Consistent, RoundsConsistent, AtWork, InLoop, PricesOf, Priced, TypeOK, Running
<1> QED BY <1>1, <1>2, <1>3, <1>4

\* A worker goes on in its round, stops, or takes the next round from the queue.
LEMMA RoundStep ==
  ASSUME TypeOK, [Next]_vars, NEW v \in Workers, pc'[v] # "idle"
  PROVE  (round'[v] = round[v] /\ pc[v] # "idle") \/ StartRound(v)
<1>0. DOMAIN pc = Workers /\ DOMAIN round = Workers
  BY DEF TypeOK
<1>1. CASE Beat \/ Tick \/ AdminToggle \/ UNCHANGED vars
  BY <1>1 DEF Beat, Tick, AdminToggle, vars, frame
<1>2. ASSUME NEW w \in Workers \ {v}, StartRound(w)
      PROVE  round'[v] = round[v] /\ pc[v] # "idle"
  BY <1>0, <1>2 DEF StartRound
<1>3. ASSUME NEW w \in Workers, StartRoundFails(w)
      PROVE  round'[v] = round[v] /\ pc[v] # "idle"
  BY <1>3 DEF StartRoundFails, frame
<1>4. ASSUME NEW w \in Workers, \/ FetchFails(w) \/ FetchSucceeds(w) \/ PublishQuote(w)
                                \/ PublishFails(w) \/ CheckQuote(w) \/ WritePrice(w)
                                \/ SetCache(w) \/ Broadcast(w)
      PROVE  round'[v] = round[v] /\ pc[v] # "idle"
  <2>1. round' = round /\ pc[w] # "idle" /\ (pc' = pc \/ \E q : pc' = [pc EXCEPT ![w] = q])
    BY <1>4 DEF FetchFails, FetchSucceeds, PublishQuote, PublishFails, CheckQuote, WritePrice,
                SetCache, Broadcast, NextClient, frame
  <2> QED BY <1>0, <2>1
<1>5. ASSUME NEW w \in Workers, ReadActive(w) \/ NoPrice(w) \/ RecordArbitrage(w) \/ NoArbitrage(w)
      PROVE  round'[v] = round[v] /\ pc[v] # "idle"
  <2>1. round' = round /\ pc[w] # "idle" /\ \E q : pc' = [pc EXCEPT ![w] = q]
    BY <1>5 DEF ReadActive, NoPrice, RecordArbitrage, NoArbitrage, NextInstrument, Forget
  <2> QED BY <1>0, <2>1
<1>6. ASSUME NEW w \in Workers, Raise(w) \/ Crash(w)
      PROVE  round'[v] = round[v] /\ pc[v] # "idle"
  BY <1>0, <1>6 DEF Raise, Crash, Forget
<1> QED BY <1>1, <1>2, <1>3, <1>4, <1>5, <1>6 DEF Next, Step, Fault

\* The new prices of a step.
LEMMA NewPrices ==
  ASSUME [Next]_vars, NEW p \in prices'
  PROVE  p \in prices \/ \E w \in Workers : PriceStored(w, p)
<1>1. ASSUME NEW w \in Workers, NEW o, PriceStored(w, o)
      PROVE  p \in prices \/ PriceStored(w, p)
  BY <1>1 DEF PriceStored
<1> QED BY <1>1, RowsStep DEF tables, QuoteStored, ArbitrageStored

\* Rounds that are running, or that have written a price, are known to have run
\* alongside those of the running workers that were taken from the queue earlier.
AlongsideKnown ==
  \A v \in Workers : pc[v] # "idle" =>
    /\ \A w \in Workers : pc[w] # "idle" /\ round[v] < round[w]
                            => <<round[v], round[w]>> \in alongside
    /\ \A p \in prices : round[v] < p.round => <<round[v], p.round>> \in alongside

\* What is on record of overlaps stays, and a round that starts is put on it.
LEMMA AlongsideStep ==
  ASSUME TypeOK, [Next]_vars
  PROVE  /\ alongside \subseteq alongside'
         /\ \A w \in Workers : StartRound(w) =>
              /\ round'[w] = started + 1 /\ prices' = prices
              /\ \A v \in Workers \ {w} : round'[v] = round[v] /\ pc'[v] = pc[v]
              /\ \A v \in Workers : pc[v] # "idle" => <<round[v], started + 1>> \in alongside'
<1>1. alongside \subseteq alongside'
  BY DEF Next, Step, Fault, vars, env, Beat, Tick, AdminToggle, StartRound, ReadActive,
         StartRoundFails, FetchFails, FetchSucceeds, PublishQuote, PublishFails, CheckQuote,
         NoPrice, WritePrice, SetCache, Broadcast, RecordArbitrage, NoArbitrage, Raise, Crash
<1> QED BY <1>1 DEF StartRound, TypeOK, tables

LEMMA AlongsideAlways == Spec => []AlongsideKnown
<1>1. Init => AlongsideKnown
  BY DEF Init, AlongsideKnown
<1>2. ASSUME Consistent, AlongsideKnown, [Next]_vars PROVE AlongsideKnown'
  <2>0. TypeOK /\ started \in Nat
    BY <1>2 DEF Consistent, TypeOK
  <2>1. /\ \A w \in Workers : pc[w] # "idle" => round[w] \in Nat /\ round[w] <= started
        /\ \A p \in prices : p.round \in Nat /\ p.round <= started
    BY <1>2 DEF Consistent, RoundsConsistent, RoundsApart, TypeOK, IsRow, Row
  <2>2. ASSUME NEW v \in Workers, pc'[v] # "idle", NEW w \in Workers, pc'[w] # "idle",
               round'[v] < round'[w]
        PROVE  <<round'[v], round'[w]>> \in alongside'
    <3>1. CASE StartRound(v)
      <4>1. w # v /\ round'[w] = round[w] /\ pc[w] # "idle"
        BY <1>2, <2>0, <2>1, <2>2, <3>1, AlongsideStep
      <4> QED BY <1>2, <2>0, <2>1, <2>2, <3>1, <4>1, AlongsideStep
    <3>2. CASE ~StartRound(v) /\ StartRound(w)
      BY <1>2, <2>0, <2>2, <3>2, RoundStep, AlongsideStep
    <3>3. CASE ~StartRound(v) /\ ~StartRound(w)
      BY <1>2, <2>0, <2>2, <3>3, RoundStep, AlongsideStep DEF AlongsideKnown
    <3> QED BY <3>1, <3>2, <3>3
  <2>3. ASSUME NEW v \in Workers, pc'[v] # "idle", NEW p \in prices', round'[v] < p.round
        PROVE  <<round'[v], p.round>> \in alongside'
    <3>1. CASE StartRound(v)
      BY <1>2, <2>0, <2>1, <2>3, <3>1, AlongsideStep
    <3>2. CASE ~StartRound(v)
      <4>1. round'[v] = round[v] /\ pc[v] # "idle"
        BY <1>2, <2>0, <2>3, <3>2, RoundStep
      <4>2. p \in prices \/ \E w \in Workers : pc[w] # "idle" /\ p.round = round[w]
        BY <1>2, NewPrices DEF PriceStored
      <4> QED BY <1>2, <2>0, <2>3, <4>1, <4>2, AlongsideStep DEF AlongsideKnown
    <3> QED BY <3>1, <3>2
  <2> QED BY <2>2, <2>3 DEF AlongsideKnown
<1> QED BY <1>1, <1>2, ConsistentAlways, PTL DEF Spec

\* Round r was not overtaken by round s, unless they ran at the same time.
NotOvertaken(r, s) == r <= s \/ <<s, r>> \in alongside

\* What is announced and what is cached comes in the order of the rounds, unless
\* they overlapped, and so do the timestamps of the tape.
RoundsInOrder ==
  /\ \A p, o \in prices :
       p.round < o.round => p.ts <= o.ts \/ <<p.round, o.round>> \in alongside
  /\ \A i \in Instruments : \A k \in DOMAIN feed[i] :
       /\ \A l \in DOMAIN feed[i] : k < l => NotOvertaken(feed[i][k].round, feed[i][l].round)
       /\ cache[i] # None => NotOvertaken(feed[i][k].round, cache[i].price.round)
  /\ \A w \in Workers : pc[w] = "broadcast" =>
       /\ cache[inst[w]] # None
       /\ NotOvertaken(cp[w].round, cache[inst[w]].price.round)

\* The price in the hand of a running worker, and the rounds of the other prices.
LEMMA HandKnown ==
  ASSUME Consistent, BackedByRows, AlongsideKnown, NEW w \in Workers, Priced(w)
  PROVE  /\ inst[w] \in Instruments /\ cp[w] \in prices /\ cp[w].round \in Nat
         /\ \A p \in prices : p.round \in Nat /\ NotOvertaken(p.round, cp[w].round)
         /\ \A v \in Workers : Priced(v) => NotOvertaken(cp[v].round, cp[w].round)
<1>1. /\ inst[w] \in Instruments /\ cp[w] \in prices /\ cp[w].round = round[w]
      /\ pc[w] # "idle"
  BY HandApart DEF Priced
<1>2. \A p \in prices : p.round \in Nat
  BY DEF Consistent, TypeOK, IsRow, Row
<1>3. \A v \in Workers : Priced(v) => cp[v] \in prices
  BY HandApart
<1> QED BY <1>1, <1>2, <1>3 DEF AlongsideKnown, NotOvertaken

LEMMA InOrderStep ==
  ASSUME Consistent, BackedByRows, AlongsideKnown, AlongsideKnown', RoundsInOrder, [Next]_vars,
         None \notin {[price |-> p, expires |-> t] : p \in prices, t \in Int}
  PROVE  RoundsInOrder'
<1> DEFINE InOrder(r, s) == r <= s \/ <<s, r>> \in alongside'
<1>0. TypeOK /\ alongside \subseteq alongside'
  BY AlongsideStep DEF Consistent
<1>1. \A r, s : NotOvertaken(r, s) => NotOvertaken(r, s)'
  BY <1>0 DEF NotOvertaken
<1>2. CASE Quiet
  BY <1>0, <1>1, <1>2 DEF Quiet, Holds, Priced, RoundsInOrder, NotOvertaken
<1>3. ASSUME NEW w \in Workers, Deed(w), \A v \in Workers \ {w} : Holds(v)
      PROVE  RoundsInOrder'
  <2>1. CASE UNCHANGED <<prices, cache, feed>> /\ pc'[w] # "broadcast"
    BY <1>0, <1>1, <1>3, <2>1 DEF Holds, RoundsInOrder, NotOvertaken
  <2>2. ASSUME NEW p, Takes(w, p) PROVE RoundsInOrder'
    <3>1. /\ prices' = prices \cup {p} /\ UNCHANGED <<cache, feed>> /\ pc'[w] # "broadcast"
          /\ p.ts = now /\ p.round = round[w] /\ pc[w] # "idle" /\ p \in prices'
      BY <2>2 DEF Takes
    <3>2. \A o \in prices : o.ts <= p.ts
      BY <3>1, Stamps
    <3>3. \A o \in prices : p.round < o.round => <<p.round, o.round>> \in alongside'
      BY <1>0, <3>1 DEF AlongsideKnown
    <3>4. ~ (p.round < p.round)
      BY <3>1 DEF Consistent, TypeOK
    <3>5. \A x, o \in prices' :
            x.round < o.round => x.ts <= o.ts \/ <<x.round, o.round>> \in alongside'
      BY <1>0, <3>1, <3>2, <3>3, <3>4 DEF RoundsInOrder
    <3> QED BY <1>0, <1>1, <1>3, <3>1, <3>5 DEF Holds, RoundsInOrder, NotOvertaken
  <2>3. CASE Caches(w)
    <3> DEFINE e == [price |-> cp[w], expires |-> now + CacheTTL]
    <3>1. Priced(w) /\ inst[w] \in Instruments /\ cp[w] \in prices
      BY <2>3, HandKnown DEF Caches, Priced
    <3>2. /\ cache' = [cache EXCEPT ![inst[w]] = e] /\ cp'[w] = cp[w] /\ inst'[w] = inst[w]
          /\ UNCHANGED <<prices, feed>>
      BY <2>3 DEF Caches, Keeps
    <3>3. e # None /\ e.price = cp[w]
      <4>1. now + CacheTTL \in Int
        BY <1>0, TimesAssumption DEF TypeOK
      <4> QED BY <3>1, <4>1
    <3> HIDE DEF e
    <3>4. /\ cache'[inst[w]] = e
          /\ \A i \in Instruments \ {inst[w]} : cache'[i] = cache[i]
      BY <1>0, <3>1, <3>2 DEF TypeOK
    <3>5. \A i \in Instruments : \A k \in DOMAIN feed[i] : feed[i][k] \in prices
      BY Stamps DEF PricesOf
    <3>6. ASSUME NEW i \in Instruments, NEW k \in DOMAIN feed[i], cache'[i] # None
          PROVE  NotOvertaken(feed[i][k].round, cache'[i].price.round)
      <4>1. CASE i = inst[w]
        BY <3>1, <3>3, <3>4, <3>5, <4>1, HandKnown
      <4>2. CASE i # inst[w]
        BY <3>4, <3>6, <4>2 DEF RoundsInOrder
      <4> QED BY <4>1, <4>2
    <3>7. ASSUME NEW v \in Workers, pc'[v] = "broadcast"
          PROVE  /\ inst'[v] \in Instruments /\ cache'[inst'[v]] # None
                 /\ NotOvertaken(cp'[v].round, cache'[inst'[v]].price.round)
      <4>1. CASE v = w
        BY <3>1, <3>2, <3>3, <3>4, <4>1, HandKnown
      <4>2. CASE v # w
        <5>1. pc[v] = "broadcast" /\ cp'[v] = cp[v] /\ inst'[v] = inst[v] /\ Priced(v)
          BY <1>3, <3>7, <4>2 DEF Holds, Priced
        <5>2. inst[v] \in Instruments
          BY <5>1, HandKnown
        <5>3. CASE inst[v] = inst[w]
          BY <3>1, <3>3, <3>4, <5>1, <5>2, <5>3, HandKnown
        <5>4. CASE inst[v] # inst[w]
          BY <3>4, <5>1, <5>2, <5>4 DEF RoundsInOrder
        <5> QED BY <5>3, <5>4
      <4> QED BY <4>1, <4>2
    <3>8. /\ \A i \in Instruments : \A k \in DOMAIN feed'[i] :
               cache'[i] # None => InOrder(feed'[i][k].round, cache'[i].price.round)
          /\ \A v \in Workers : pc'[v] = "broadcast" =>
               /\ cache'[inst'[v]] # None
               /\ InOrder(cp'[v].round, cache'[inst'[v]].price.round)
      BY <1>0, <3>2, <3>6, <3>7 DEF NotOvertaken
    <3> QED BY <1>0, <3>2, <3>8 DEF RoundsInOrder, NotOvertaken
  <2>4. CASE Sends(w)
    <3>1. Priced(w) /\ inst[w] \in Instruments /\ cp[w] \in prices
      BY <2>4, HandKnown DEF Sends, Priced
    <3>2. /\ cp'[w] = cp[w] /\ UNCHANGED <<prices, cache>> /\ pc'[w] # "broadcast"
          /\ pc[w] = "broadcast"
      BY <2>4 DEF Sends, Keeps
    <3>3. PICK n \in Nat : /\ feed'[inst[w]][n] = cp[w]
                          /\ DOMAIN feed'[inst[w]] = DOMAIN feed[inst[w]] \cup {n}
                          /\ \A k \in DOMAIN feed[inst[w]] :
                               feed'[inst[w]][k] = feed[inst[w]][k] /\ k < n
      BY <1>0, <2>4, <3>1, Sent
    <3>4. \A i \in Instruments \ {inst[w]} : feed'[i] = feed[i]
      BY <1>0, <2>4, <3>1, Sent
    <3>5. /\ \A i \in Instruments : \A k \in DOMAIN feed[i] : feed[i][k] \in prices
          /\ \A k \in DOMAIN feed[inst[w]] : k \in Int
      <4>1. feed[inst[w]] \in Seq(PricesOf(inst[w]))
        BY <3>1 DEF BackedByRows
      <4>2. DOMAIN feed[inst[w]] \subseteq Int
        BY <4>1
      <4> QED BY <4>2, Stamps DEF PricesOf
    <3>6. ASSUME NEW i \in Instruments, NEW k \in DOMAIN feed'[i], NEW l \in DOMAIN feed'[i], k < l
          PROVE  NotOvertaken(feed'[i][k].round, feed'[i][l].round)
      <4>1. CASE i # inst[w]
        BY <3>4, <3>6, <4>1 DEF RoundsInOrder
      <4>2. CASE i = inst[w] /\ l # n
        <5>1. l \in DOMAIN feed[i] /\ l < n /\ k # n
          BY <3>3, <3>5, <3>6, <4>2
        <5> QED BY <3>3, <3>6, <4>2, <5>1 DEF RoundsInOrder
      <4>3. CASE i = inst[w] /\ l = n
        <5>1. k \in DOMAIN feed[i] /\ feed[i][k] \in prices
          BY <3>3, <3>5, <3>6, <4>3
        <5> QED BY <3>1, <3>3, <4>3, <5>1, HandKnown
      <4> QED BY <4>1, <4>2, <4>3
    <3>7. ASSUME NEW i \in Instruments, NEW k \in DOMAIN feed'[i], cache[i] # None
          PROVE  NotOvertaken(feed'[i][k].round, cache[i].price.round)
      <4>1. CASE i # inst[w] \/ k # n
        BY <3>3, <3>4, <3>7, <4>1 DEF RoundsInOrder
      <4>2. CASE i = inst[w] /\ k = n
        BY <3>2, <3>3, <4>2 DEF RoundsInOrder
      <4> QED BY <4>1, <4>2
    <3>8. \A i \in Instruments : \A k \in DOMAIN feed'[i] :
            /\ \A l \in DOMAIN feed'[i] :
                 k < l => InOrder(feed'[i][k].round, feed'[i][l].round)
            /\ cache'[i] # None => InOrder(feed'[i][k].round, cache'[i].price.round)
      BY <1>0, <3>2, <3>6, <3>7 DEF NotOvertaken
    <3>9. ASSUME NEW v \in Workers, pc'[v] = "broadcast"
          PROVE  /\ cache'[inst'[v]] # None
                 /\ InOrder(cp'[v].round, cache'[inst'[v]].price.round)
      <4>1. pc[v] = "broadcast" /\ cp'[v] = cp[v] /\ inst'[v] = inst[v]
        BY <1>3, <3>2, <3>9 DEF Holds
      <4>2. /\ cache[inst[v]] # None
            /\ NotOvertaken(cp[v].round, cache[inst[v]].price.round)
        BY <4>1 DEF RoundsInOrder
      <4> QED BY <1>0, <3>2, <4>1, <4>2 DEF NotOvertaken
    <3> QED BY <1>0, <3>2, <3>8, <3>9 DEF RoundsInOrder, NotOvertaken
  <2>5. CASE Detects(w) \/ Drops(w)
    BY <2>1, <2>5 DEF Detects, Drops, Priced
  <2> QED BY <1>3, <2>2, <2>3, <2>4, <2>5 DEF Deed
<1> QED BY <1>0, <1>2, <1>3, CopyStep

\* However many workers overlap, and whatever fails in between: when readers see an
\* earlier timestamp after a later one, in the channel group or in the snapshot, the
\* two prices come of rounds that were running at the same time (None being no
\* cache entry).
THEOREM OutOfOrderOnlyByOverlap ==
  ASSUME \A x, t : [price |-> x, expires |-> t] # None
  PROVE  Spec => []OrderedUnlessOverlapping
<1>1. Init => RoundsInOrder
  BY DEF Init, RoundsInOrder
<1>2. Consistent /\ BackedByRows /\ AlongsideKnown /\ AlongsideKnown' /\ RoundsInOrder
        /\ [Next]_vars => RoundsInOrder'
  BY InOrderStep
<1>3. ASSUME Consistent, BackedByRows, OncePerRound, RoundsInOrder PROVE OrderedUnlessOverlapping
  <2>1. ASSUME NEW i \in Instruments, NEW p \in PricesOf(i), NEW o \in PricesOf(i),
               NotOvertaken(p.round, o.round), o.ts < p.ts
        PROVE  Overlapping(p.round, o.round)
    <3>1. p \in prices /\ o \in prices /\ p.inst = o.inst
      BY DEF PricesOf
    <3>2. p.round \in Nat /\ o.round \in Nat /\ p.ts \in Nat /\ o.ts \in Nat
      BY <1>3, <3>1 DEF Consistent, TypeOK, IsRow, Row
    <3>3. p.round # o.round
      BY <1>3, <2>1, <3>1, <3>2 DEF OncePerRound
    <3> QED BY <1>3, <2>1, <3>1, <3>2, <3>3 DEF NotOvertaken, RoundsInOrder, Overlapping
  <2>2. \A i \in Instruments : \A k \in DOMAIN feed[i] : feed[i][k] \in PricesOf(i)
    BY <1>3, Stamps
  <2>3. \A i \in Instruments : cache[i] # None => cache[i].price \in PricesOf(i)
    BY <1>3 DEF BackedByRows
  <2>4. ASSUME NEW i \in Instruments, NEW k \in DOMAIN feed[i]
        PROVE  /\ \A l \in DOMAIN feed[i] : k < l /\ feed[i][l].ts < feed[i][k].ts
                    => Overlapping(feed[i][k].round, feed[i][l].round)
               /\ cache[i] # None /\ cache[i].price.ts < feed[i][k].ts
                    => Overlapping(cache[i].price.round, feed[i][k].round)
    BY <1>3, <2>1, <2>2, <2>3 DEF RoundsInOrder, Overlapping
  <2> QED BY <2>4 DEF OrderedUnlessOverlapping
<1>4. Consistent /\ BackedByRows /\ OncePerRound /\ RoundsInOrder => OrderedUnlessOverlapping
  BY <1>3
<1> QED BY <1>1, <1>2, <1>4, BackedAlways, AlongsideAlways, StoredOncePerRound, PTL DEF Spec

-----------------------------------------------------------------------------
(* What the statistics read off the tape *)

\* The rounds that write are numbered from 1.
Numbered ==
  /\ \A w \in Workers : pc[w] # "idle" => round[w] >= 1
  /\ \A p \in prices : p.round >= 1

LEMMA NumberedAlways == Spec => []Numbered
<1>1. Init => Numbered
  BY DEF Init, Numbered
<1>2. ASSUME TypeOK, Numbered, [Next]_vars PROVE Numbered'
  <2>1. ASSUME NEW v \in Workers, pc'[v] # "idle" PROVE round'[v] >= 1
    <3>1. StartRound(v) => round'[v] = started + 1 /\ started + 1 >= 1
      BY <1>2 DEF TypeOK, StartRound
    <3> QED BY <1>2, <2>1, <3>1, RoundStep DEF Numbered
  <2>2. \A p \in prices' : p \in prices \/ \E w \in Workers : PriceStored(w, p)
    BY <1>2, NewPrices
  <2>3. ASSUME NEW p \in prices' PROVE p.round >= 1
    BY <1>2, <2>2 DEF Numbered, PriceStored
  <2> QED BY <2>1, <2>3 DEF Numbered
<1> QED BY <1>1, <1>2, TypeCorrect, PTL DEF Spec

\* The sums over the rows of a window.
LEMMA ScaledMidSum ==
  ASSUME NEW W, IsFiniteSet(W)
  PROVE  \E f : /\ SumsUp(f, [p \in W |-> ScaledMid(p)], W)
                /\ MapThenSumSet(ScaledMid, W) = f[W]
<1> DEFINE g == [p \in W |-> ScaledMid(p)]
           B(f) == f = [s \in SUBSET W |-> IF s = {} THEN 0
                                           ELSE ScaledMid(Pick(s)) + f[s \ {Pick(s)}]]
<1>1. MapThenSumSet(ScaledMid, W) = (CHOOSE f : B(f))[W]
  BY DEF MapThenSumSet, MapThenFoldSet, Pick
<1>2. \A f : B(f) <=> SumsUp(f, g, W)
  <2> SUFFICES ASSUME NEW f PROVE B(f) <=> SumsUp(f, g, W)
    OBVIOUS
  <2>1. \A s \in SUBSET W : s # {} => g[Pick(s)] = ScaledMid(Pick(s))
    BY Picked
  <2> QED BY <2>1 DEF SumsUp, Summed
<1>3. \E f : B(f)
  BY <1>2, SumExists
<1> HIDE DEF B
<1>4. B(CHOOSE f : B(f))
  BY <1>3
<1> QED BY <1>1, <1>2, <1>4

LEMMA SpreadBpsSum ==
  ASSUME NEW W, IsFiniteSet(W)
  PROVE  \E f : /\ SumsUp(f, [p \in W |-> SpreadBps(p)], W)
                /\ MapThenSumSet(SpreadBps, W) = f[W]
<1> DEFINE g == [p \in W |-> SpreadBps(p)]
           B(f) == f = [s \in SUBSET W |-> IF s = {} THEN 0
                                           ELSE SpreadBps(Pick(s)) + f[s \ {Pick(s)}]]
<1>1. MapThenSumSet(SpreadBps, W) = (CHOOSE f : B(f))[W]
  BY DEF MapThenSumSet, MapThenFoldSet, Pick
<1>2. \A f : B(f) <=> SumsUp(f, g, W)
  <2> SUFFICES ASSUME NEW f PROVE B(f) <=> SumsUp(f, g, W)
    OBVIOUS
  <2>1. \A s \in SUBSET W : s # {} => g[Pick(s)] = SpreadBps(Pick(s))
    BY Picked
  <2> QED BY <2>1 DEF SumsUp, Summed
<1>3. \E f : B(f)
  BY <1>2, SumExists
<1> HIDE DEF B
<1>4. B(CHOOSE f : B(f))
  BY <1>3
<1> QED BY <1>1, <1>2, <1>4

\* What is known of the rows, at any time.
RowsKnown == /\ TypeOK /\ Counted /\ RoundsConsistent /\ OncePerRound
             /\ TapeReproducible /\ Numbered

LEMMA RowsKnownAlways == Spec => []RowsKnown
<1>1. TypeOK /\ Counted /\ RoundsConsistent /\ OncePerRound /\ TapeReproducible /\ Numbered
        => RowsKnown
  BY DEF RowsKnown
<1> QED BY <1>1, TypeCorrect, CountedAlways, RoundsStayConsistent, StoredOncePerRound,
           TapeIsReproducible, NumberedAlways, PTL

\* What each row contributes to the statistics.
LEMMA SampleTells ==
  ASSUME RowsKnown, NEW p \in prices
  PROVE  /\ p.round \in 1..MaxRounds /\ p.ts \in Nat /\ now \in Nat
         /\ ScaledMid(p) \in Int
         /\ 0 < p.book.mid /\ SpreadBps(p) \in Int /\ 0 <= SpreadBps(p)
<1>1. /\ p.round \in Nat /\ p.round >= 1 /\ p.round <= started /\ p.ts \in Nat /\ now \in Nat
      /\ started \in 0..dispatched /\ dispatched \in 0..MaxRounds
  BY DEF RowsKnown, TypeOK, IsRow, Row, RoundsConsistent, RoundsApart, Numbered
<1>2. p.round \in 1..MaxRounds
  BY <1>1, CountsAssumption
<1>3. /\ p.book.den \in Nat \ {0} /\ p.book.mid \in Int /\ 0 < p.book.mid
      /\ p.book.bid \in Int /\ p.book.bid <= p.book.mid
      /\ p.book.ask \in Int /\ p.book.mid <= p.book.ask
  BY PriceTells DEF RowsKnown
<1>4. ScaledMid(p) \in Int
  <2>1. 12 \div p.book.den \in Int
    BY <1>3
  <2> QED BY <1>3, <2>1 DEF ScaledMid
<1>5. SpreadBps(p) \in Int /\ 0 <= SpreadBps(p)
  <2> DEFINE a == (p.book.ask - p.book.bid) * 10000
             m == p.book.mid
  <2>1. a \in Nat /\ m \in Nat \ {0}
    BY <1>3
  <2>2. SpreadBps(p) = a \div m
    BY DEF SpreadBps
  <2> HIDE DEF a, m
  <2>3. a + 1 \in Nat /\ a < (a + 1) * m
    BY <2>1
  <2> QED BY <2>1, <2>2, <2>3, QuotientBounds
<1> QED BY <1>1, <1>2, <1>3, <1>4, <1>5

\* A round weighs once: the rows of a window are as many as their rounds.
LEMMA SamplesAreRounds ==
  ASSUME RowsKnown, NEW i \in Instruments, NEW ticks \in Int
  PROVE  Cardinality(Window(i, ticks)) =
           Cardinality({r \in 1..MaxRounds :
                          \E p \in PricesOf(i) : p.round = r /\ now - p.ts <= ticks})
<1> DEFINE W == Window(i, ticks)
           R == {r \in 1..MaxRounds :
                   \E p \in PricesOf(i) : p.round = r /\ now - p.ts <= ticks}
           f == [p \in W |-> p.round]
<1>1. \A p \in PricesOf(i) : /\ p \in prices /\ p.inst = i /\ p.round \in 1..MaxRounds
                             /\ (p \in W <=> now - p.ts <= ticks)
  BY SampleTells DEF PricesOf, Window
<1>2. W \subseteq PricesOf(i)
  BY DEF Window
<1> HIDE DEF W
<1>3. \A p, o \in W : p.round = o.round => p = o
  BY <1>1, <1>2 DEF RowsKnown, OncePerRound
<1>4. f \in [W -> R]
  BY <1>1, <1>2
<1>5. \A r \in R : \E p \in W : f[p] = r
  BY <1>1
<1>6. \A p, o \in W : f[p] = f[o] => p = o
  BY <1>3
<1> HIDE DEF f, R
<1>7. f \in Bijection(W, R)
  BY <1>4, <1>5, <1>6 DEF Bijection, Injection, Surjection, IsInjective
<1>8. IsFiniteSet(W)
  BY <1>1, <1>2, FS_Subset DEF RowsKnown, Counted
<1>9. Cardinality(W) = Cardinality(R)
  BY <1>7, <1>8, FS_Bijection DEF ExistsBijection
<1> QED BY <1>9 DEF W, R

\* The last row of a window is the latest of the tape, unless that one is older.
LEMMA LastIsLatest ==
  ASSUME RowsKnown, NEW i \in Instruments, NEW ticks \in Int
  PROVE  {q \in Window(i, ticks) : \A o \in Window(i, ticks) : o.ts <= q.ts}
           = {p \in Latest(i) : now - p.ts <= ticks}
<1>1. now \in Nat /\ \A p \in PricesOf(i) : p.ts \in Nat
  BY SampleTells DEF PricesOf, RowsKnown, TypeOK
<1>2. ASSUME NEW q \in Window(i, ticks), \A o \in Window(i, ticks) : o.ts <= q.ts
      PROVE  q \in Latest(i) /\ now - q.ts <= ticks
  <2>1. q \in PricesOf(i) /\ q.ts >= now - ticks
    BY DEF Window
  <2>2. ASSUME NEW o \in PricesOf(i) PROVE o.ts <= q.ts
    <3>1. CASE o.ts >= now - ticks
      BY <1>2, <3>1 DEF Window
    <3>2. CASE ~(o.ts >= now - ticks)
      BY <1>1, <2>1, <3>2
    <3> QED BY <3>1, <3>2
  <2> QED BY <1>1, <2>1, <2>2 DEF Latest
<1>3. ASSUME NEW q \in Latest(i), now - q.ts <= ticks
      PROVE  q \in Window(i, ticks) /\ \A o \in Window(i, ticks) : o.ts <= q.ts
  BY <1>1, <1>3 DEF Latest, Window
<1> QED BY <1>2, <1>3

\* The average mid of the rows of a window is between the least and the greatest.
LEMMA MidsWithin ==
  ASSUME RowsKnown, NEW W \in SUBSET prices, W # {}
  PROVE  LET mids == {ScaledMid(p) : p \in W}
             n    == Cardinality(W)
             sum  == MapThenSumSet(ScaledMid, W)
         IN  /\ Min(mids) \in Int /\ Max(mids) \in Int
             /\ \A p \in W : Min(mids) <= ScaledMid(p) /\ ScaledMid(p) <= Max(mids)
             /\ n \in Nat /\ sum \in Int /\ Min(mids) * n <= sum /\ sum <= Max(mids) * n
<1> DEFINE mids == {ScaledMid(p) : p \in W}
           g == [p \in W |-> ScaledMid(p)]
           n == Cardinality(W)
<1>1. IsFiniteSet(W) /\ n \in Nat
  BY FS_Subset, FS_CardinalityType DEF RowsKnown, Counted
<1>2. \A p \in W : g[p] = ScaledMid(p) /\ g[p] \in Int
  BY SampleTells
<1>3. PICK f : SumsUp(f, g, W) /\ MapThenSumSet(ScaledMid, W) = f[W]
  BY <1>1, ScaledMidSum
<1> HIDE DEF g, n
<1>4. PICK lo \in W : \A p \in W : g[lo] <= g[p]
  BY <1>1, <1>2, LeastOne
<1>5. PICK hi \in W : \A p \in W : g[p] <= g[hi]
  BY <1>1, <1>2, GreatestOne
<1>6. Min(mids) = g[lo] /\ Max(mids) = g[hi]
  <2>1. /\ mids \in SUBSET Int /\ g[lo] \in mids /\ g[hi] \in mids
        /\ \A m \in mids : g[lo] <= m /\ m <= g[hi]
    BY <1>2, <1>4, <1>5
  <2> HIDE DEF mids
  <2> QED BY <2>1, MinIs, MaxIs
<1>7. f[W] \in Int /\ n * g[lo] <= f[W] /\ f[W] <= n * g[hi]
  BY <1>1, <1>2, <1>3, <1>4, <1>5, SumBounds DEF n
<1>8. n * g[lo] = g[lo] * n /\ n * g[hi] = g[hi] * n
  BY <1>1, <1>2
<1> QED BY <1>1, <1>2, <1>3, <1>4, <1>5, <1>6, <1>7, <1>8 DEF n

\* Spreads are not negative, nor is their sum.
LEMMA SpreadsWithin ==
  ASSUME RowsKnown, NEW W \in SUBSET prices
  PROVE  MapThenSumSet(SpreadBps, W) \in Int /\ MapThenSumSet(SpreadBps, W) >= 0
<1> DEFINE g == [p \in W |-> SpreadBps(p)]
           n == Cardinality(W)
<1>1. IsFiniteSet(W) /\ n \in Nat
  BY FS_Subset, FS_CardinalityType DEF RowsKnown, Counted
<1>2. \A p \in W : g[p] \in Int /\ 0 <= g[p]
  BY SampleTells
<1>3. PICK f : SumsUp(f, g, W) /\ MapThenSumSet(SpreadBps, W) = f[W]
  BY <1>1, SpreadBpsSum
<1> HIDE DEF g, n
<1>4. PICK top \in Int : \A p \in W : g[p] <= top
  <2>1. CASE W = {}
    BY <2>1
  <2>2. CASE W # {}
    BY <1>1, <1>2, <2>2, GreatestOne
  <2> QED BY <2>1, <2>2
<1>5. f[W] \in Int /\ n * 0 <= f[W]
  BY <1>1, <1>2, <1>3, <1>4, SumBounds DEF n
<1> QED BY <1>1, <1>3, <1>5

\* Whatever window a client asks for, and between whichever steps of the rounds, the
\* rolling statistics agree with latest/ and with the rounds of the window.
THEOREM StatsFollowTape == Spec => []StatsTellTape
<1>1. RowsKnown => StatsTellTape
  <2> SUFFICES ASSUME RowsKnown, NEW i \in Instruments, NEW window \in AskedWindows
               PROVE  LET ticks == Clamped(window)
                          s     == RollingStats(i, ticks)
                          lately == {p \in Latest(i) : now - p.ts <= ticks}
                      IN  /\ s.samples = Cardinality({r \in 1..MaxRounds :
                               \E p \in PricesOf(i) : p.round = r /\ now - p.ts <= ticks})
                          /\ s.last = {ScaledMid(p) : p \in lately}
                          /\ s.samples > 0 => /\ s.min * s.samples <= s.sum
                                              /\ s.sum <= s.max * s.samples
                                              /\ s.last \subseteq s.min..s.max
                          /\ s.spreads = s.samples /\ s.bps >= 0
    BY DEF StatsTellTape
  <2> DEFINE ticks == Clamped(window)
             s     == RollingStats(i, ticks)
             W     == Window(i, ticks)
             mids  == {ScaledMid(p) : p \in W}
             last  == {q \in W : \A o \in W : o.ts <= q.ts}
  <2>1. ticks \in Int
    BY WindowsAssumption DEF Clamped
  <2> HIDE DEF ticks
  <2>2. W \in SUBSET prices /\ last \subseteq W
    BY DEF Window, PricesOf
  <2>3. {p \in W : p.book.mid > 0} = W
    BY <2>2, SampleTells
  <2>4. /\ s.samples = Cardinality(W) /\ s.last = {ScaledMid(p) : p \in last}
        /\ s.sum = MapThenSumSet(ScaledMid, W)
        /\ s.spreads = Cardinality(W) /\ s.bps = MapThenSumSet(SpreadBps, W)
        /\ W # {} => s.min = Min(mids) /\ s.max = Max(mids)
    BY <2>3 DEF RollingStats
  <2>5. s.samples > 0 => W # {}
    BY <2>4, FS_EmptySet
  <2>6. last = {p \in Latest(i) : now - p.ts <= ticks}
    BY <2>1, LastIsLatest
  <2>7. s.samples = Cardinality({r \in 1..MaxRounds :
                        \E p \in PricesOf(i) : p.round = r /\ now - p.ts <= ticks})
    BY <2>1, <2>4, SamplesAreRounds
  <2> HIDE DEF s, W, last
  <2>8. ASSUME s.samples > 0
        PROVE  /\ s.min * s.samples <= s.sum /\ s.sum <= s.max * s.samples
               /\ s.last \subseteq s.min..s.max
    <3>1. /\ s.min \in Int /\ s.max \in Int
          /\ s.min * s.samples <= s.sum /\ s.sum <= s.max * s.samples
          /\ \A p \in W : s.min <= ScaledMid(p) /\ ScaledMid(p) <= s.max
      BY <2>2, <2>4, <2>5, <2>8, MidsWithin
    <3>2. \A p \in W : ScaledMid(p) \in Int
      BY <2>2, SampleTells
    <3>3. \A x \in s.last : x \in Int /\ s.min <= x /\ x <= s.max
      BY <2>2, <2>4, <3>1, <3>2
    <3> QED BY <3>1, <3>3
  <2>9. s.spreads = s.samples /\ s.bps >= 0
    BY <2>2, <2>4, SpreadsWithin
  <2> QED BY <2>4, <2>6, <2>7, <2>8, <2>9 DEF s, ticks
<1> QED BY <1>1, RowsKnownAlways, PTL
=============================================================================

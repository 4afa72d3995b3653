---------------------------- MODULE OhlcBuilder ----------------------------
(***************************************************************************)
(* From a published quote to the OHLC bars: the Kafka producer inside each *)
(* worker process (apps/pricing/kafka_producer.py), one partition of the   *)
(* topic, the consumer group pricestream-ohlc-builder, and the loop that   *)
(* folds each event into one bar per interval (kafka_consumer.py).         *)
(*                                                                         *)
(* Events are keyed by symbol, so the bars of one instrument come from one *)
(* partition; the module follows one instrument.  The broker and librdkafka*)
(* are modelled from the configuration the code gives them: idempotent     *)
(* producer, acks=all, auto-commit on, auto.offset.reset=latest.           *)
(***************************************************************************)
EXTENDS OhlcBar, Sequences, FiniteSets

CONSTANTS
  Producers,      \* the Celery worker processes
  Builders,       \* the kafka-consumer processes (two during a roll-out)
  Widths,         \* INTERVAL_TO_DELTA, narrowest first
  Payloads,       \* [price, usable]: the mid of an event; FALSE: no usable event
  Faults,         \* which of "expire", "stop", "db", "crash", "expel" may happen
  MaxEvents,      \* bound: events given to the producers
  MaxTime,        \* bound: timestamps of quotes
  MaxStarts,      \* bound: starts of builder processes
  MaxDeliveries   \* bound: messages handed to handle_event

ASSUME WidthsAssumption   == Widths \in Seq(Nat \ {0}) /\ Len(Widths) > 0
ASSUME PayloadsAssumption == Payloads \subseteq [price : Int, usable : BOOLEAN]
ASSUME BoundsAssumption   == /\ MaxEvents \in Nat /\ MaxTime \in Nat
                             /\ MaxStarts \in Nat /\ MaxDeliveries \in Nat

ASSUME NoneAssumption == None \notin Bars \cup Builders \cup Nat

Intervals == DOMAIN Widths
Times     == 0..MaxTime
Positions == Nat \ {0}
Messages  == [id : Nat, from : Producers, ts : Times, price : Int, usable : BOOLEAN]

VARIABLES
  accepted,     \* how many events produce() accepted; their ids are 1..accepted
  stamp,        \* per producer: Quote.timestamp of its latest event
  buffer,       \* per producer: the queue inside librdkafka
  log,          \* the partition
  committed,    \* the group's committed offset: the next message to read
  owner,        \* the member the group has assigned the partition to
  newcomer,     \* a process has joined the group since the last assignment
  assigned,     \* per builder: whether it takes the partition for its own
  pc, pos,      \* per builder: control, next message to poll
  stored,       \* per builder: the offset the next commit will carry
  step, cur,    \* per builder: interval and delivery being applied
  bars,         \* OHLCBar rows by interval and bucket_start
  starts,       \* builder processes started
  since,        \* history: `accepted` when a member first joined the group
  firstAt,      \* history: where in the log that member began
  resetAt,      \* history: where auto.offset.reset last put the group
  delivered,    \* history: log positions, in the order they reached handle_event
  applied,      \* history: per interval, the deliveries folded into its bars
  aborts        \* history: deliveries whose processing was cut short

broker  == <<log, committed, owner, newcomer>>
sending == <<accepted, stamp, buffer>>
reading == <<assigned, pos, stored>>
history == <<since, firstAt, resetAt, delivered, applied, aborts>>
vars == <<sending, broker, pc, reading, step, cur, bars, starts, history>>

\* _bucket_start: the timestamp rounded down to a multiple of the width.
Bucket(k, ts) == (ts \div Widths[k]) * Widths[k]

\* The message of a delivery.
Delivery(d) == log[delivered[d]]

Init ==
  /\ accepted = 0
  /\ stamp = [p \in Producers |-> 0]
  /\ buffer = [p \in Producers |-> << >>]
  /\ log = << >> /\ committed = None /\ owner = None /\ newcomer = FALSE
  /\ pc = [b \in Builders |-> "down"]
  /\ assigned = [b \in Builders |-> FALSE]
  /\ pos = [b \in Builders |-> 1]
  /\ stored = [b \in Builders |-> None]
  /\ step = [b \in Builders |-> 1]
  /\ cur = [b \in Builders |-> 0]
  /\ bars = [k \in Intervals |-> [t \in Times |-> None]]
  /\ starts = 0
  /\ since = None /\ firstAt = 1 /\ resetAt = 1
  /\ delivered = << >>
  /\ applied = [k \in Intervals |-> {}]
  /\ aborts = 0

-----------------------------------------------------------------------------
(* The producers *)

\* publish_quote: produce() puts the event into the local queue and returns.
Publish(p) ==
  /\ accepted < MaxEvents
  /\ \E c \in Payloads, ts \in stamp[p]..MaxTime :
       /\ buffer' = [buffer EXCEPT ![p] = Append(@,
            [id |-> accepted + 1, from |-> p, ts |-> ts,
             price |-> c.price, usable |-> c.usable])]
       /\ stamp' = [stamp EXCEPT ![p] = ts]
  /\ accepted' = accepted + 1
  /\ UNCHANGED <<broker, pc, reading, step, cur, bars, starts, history>>

\* The broker acknowledges the oldest event of a producer (idempotent: once, in order).
Deliver(p) ==
  /\ buffer[p] # << >>
  /\ log' = Append(log, Head(buffer[p]))
  /\ buffer' = [buffer EXCEPT ![p] = Tail(@)]
  /\ UNCHANGED <<accepted, stamp, committed, owner, newcomer, pc, reading, step, cur, bars,
                 starts, history>>

\* The broker is out of reach for longer than the delivery timeout:
\* _delivery_report logs the error, and the event is gone.
Expire(p) ==
  /\ "expire" \in Faults
  /\ buffer[p] # << >>
  /\ buffer' = [buffer EXCEPT ![p] = Tail(@)]
  /\ UNCHANGED <<accepted, stamp, broker, pc, reading, step, cur, bars, starts, history>>

-----------------------------------------------------------------------------
(* The consumer group *)

\* run_consumer: a process starts, or is started again.
Start(b) ==
  /\ pc[b] = "down" /\ starts < MaxStarts
  /\ starts' = starts + 1
  /\ newcomer' = TRUE
  /\ pc' = [pc EXCEPT ![b] = "poll"]
  /\ UNCHANGED <<sending, log, committed, owner, reading, step, cur, bars, history>>

\* Faulty variant: the committed offset is not looked up.
Resume_Latest(b) == Len(log) + 1

\* auto.offset.reset=latest: the end of the log when there is no committed offset.
Resume(b) == IF committed # None THEN committed ELSE Len(log) + 1

\* A polling member is assigned the partition.
Join(b) ==
  /\ pc[b] = "poll" /\ owner = None /\ ~assigned[b]
  /\ owner' = b /\ newcomer' = FALSE
  /\ assigned' = [assigned EXCEPT ![b] = TRUE]
  /\ pos' = [pos EXCEPT ![b] = Resume(b)]
  /\ stored' = [stored EXCEPT ![b] = None]
  /\ resetAt' = IF committed = None THEN Len(log) + 1 ELSE resetAt
  /\ since' = IF since = None THEN accepted ELSE since
  /\ firstAt' = IF since = None THEN Len(log) + 1 ELSE firstAt
  /\ UNCHANGED <<sending, log, committed, pc, step, cur, bars, starts,
                 delivered, applied, aborts>>

\* Faulty variant: the offset of the message instead of the next one.
CommitStored_SameMessage(b) ==
  committed' = IF owner = b /\ stored[b] # None THEN stored[b] - 1 ELSE committed

\* Faulty variant: a member that was expelled can still commit.
CommitStored_Unfenced(b) ==
  committed' = IF stored[b] # None THEN stored[b] ELSE committed

\* What a member commits; the commits of one that was expelled are fenced.
CommitStored(b) ==
  committed' = IF owner = b /\ stored[b] # None THEN stored[b] ELSE committed

\* enable.auto.commit: a background thread commits what poll() has handed out,
\* whether or not handle_event is done with it.
AutoCommit(b) ==
  /\ owner = b /\ stored[b] # None
  /\ CommitStored(b)
  /\ UNCHANGED <<sending, log, owner, newcomer, pc, reading, step, cur, bars, starts, history>>

\* A new process has joined: the owner, in poll(), commits and gives way, and the
\* partition is assigned again.
Rebalance(b) ==
  /\ newcomer
  /\ owner = b /\ pc[b] = "poll"
  /\ CommitStored(b)
  /\ owner' = None
  /\ assigned' = [assigned EXCEPT ![b] = FALSE]
  /\ UNCHANGED <<sending, log, newcomer, pc, pos, stored, step, cur, bars, starts, history>>

\* The group expels a member that it does not hear of (session timeout, a paused
\* process).  The member does not know: its commits are fenced, but its poll() goes
\* on handing out what it fetches.
Expel(b) ==
  /\ "expel" \in Faults
  /\ owner = b
  /\ owner' = None
  /\ UNCHANGED <<sending, log, committed, newcomer, pc, reading, step, cur, bars, starts, history>>

\* An expelled member is told so: it gives the partition up and joins again.
LearnExpelled(b) ==
  /\ pc[b] # "down" /\ assigned[b] /\ owner # b
  /\ assigned' = [assigned EXCEPT ![b] = FALSE]
  /\ newcomer' = TRUE
  /\ UNCHANGED <<sending, log, committed, owner, pc, pos, stored, step, cur, bars, starts, history>>

-----------------------------------------------------------------------------
(* The builder loop *)

\* poll() hands out a message and stores its offset; handle_event accepts it.
Poll(b) ==
  /\ assigned[b] /\ pc[b] = "poll"
  /\ pos[b] <= Len(log) /\ log[pos[b]].usable
  /\ Len(delivered) < MaxDeliveries
  /\ delivered' = Append(delivered, pos[b])
  /\ cur' = [cur EXCEPT ![b] = Len(delivered) + 1]
  /\ step' = [step EXCEPT ![b] = 1]
  /\ pc' = [pc EXCEPT ![b] = "bars"]
  /\ pos' = [pos EXCEPT ![b] = @ + 1]
  /\ stored' = [stored EXCEPT ![b] = pos[b] + 1]
  /\ UNCHANGED <<sending, broker, assigned, bars, starts, since, firstAt, resetAt,
                 applied, aborts>>

\* poll() hands out what is no usable event: not JSON, no symbol, an unknown
\* instrument, a bid or an ask that is no number.  (JSON that is no object, or a `ts`
\* that is no string, is not skipped but raises: a Poll and a Raise at the first bar.)
SkipUnusable(b) ==
  /\ assigned[b] /\ pc[b] = "poll"
  /\ pos[b] <= Len(log) /\ ~log[pos[b]].usable
  /\ pos' = [pos EXCEPT ![b] = @ + 1]
  /\ stored' = [stored EXCEPT ![b] = pos[b] + 1]
  /\ UNCHANGED <<sending, broker, assigned, pc, step, cur, bars, starts, history>>

\* Faulty variant: the last interval is forgotten.
MoreIntervals_ForgetsLast(b) == step[b] + 1 < Len(Widths)
\* Faulty variant: one interval too many.
MoreIntervals_OffByOne(b) == step[b] <= Len(Widths)
MoreIntervals(b) == step[b] < Len(Widths)

\* After the bar of interval k: the next interval, or back to poll().
NextInterval(b) ==
  IF MoreIntervals(b)
    THEN step' = [step EXCEPT ![b] = @ + 1] /\ UNCHANGED pc
    ELSE pc' = [pc EXCEPT ![b] = "poll"] /\ UNCHANGED step

\* Faulty variant: the widest interval first.
IntervalAt_WidestFirst(b) == Len(Widths) + 1 - step[b]
IntervalAt(b) == step[b]

\* _update_bar: one transaction on the locked row of one interval.
UpdateBar(b) ==
  /\ pc[b] = "bars"
  /\ LET k == IntervalAt(b)
         m == Delivery(cur[b])
     IN  /\ bars' = [bars EXCEPT ![k][Bucket(k, m.ts)] = Updated(@, m.price)]
         /\ applied' = [applied EXCEPT ![k] = @ \cup {cur[b]}]
  /\ NextInterval(b)
  /\ UNCHANGED <<sending, broker, reading, cur, starts, since, firstAt, resetAt,
                 delivered, aborts>>

\* The process ends; a member that leaves in good order commits what is stored.
Leave(b) ==
  /\ CommitStored(b)
  /\ owner' = IF owner = b THEN None ELSE owner
  /\ assigned' = [assigned EXCEPT ![b] = FALSE]
  /\ pc' = [pc EXCEPT ![b] = "down"]

\* SIGTERM or SIGINT: the loop ends before the next poll(), and closes.
Stop(b) ==
  /\ "stop" \in Faults
  /\ pc[b] = "poll"
  /\ Leave(b)
  /\ UNCHANGED <<sending, log, newcomer, pos, stored, step, cur, bars, starts, history>>

\* The database raises in handle_event: the loop ends, close() commits the offset
\* stored by poll(), and the intervals left to do stay without the event.
Raise(b) ==
  /\ "db" \in Faults
  /\ pc[b] = "bars"
  /\ Leave(b)
  /\ aborts' = aborts + 1
  /\ UNCHANGED <<sending, log, newcomer, pos, stored, step, cur, bars, starts,
                 since, firstAt, resetAt, delivered, applied>>

\* The process dies: nothing is committed.
Crash(b) ==
  /\ "crash" \in Faults
  /\ pc[b] # "down"
  /\ owner' = IF owner = b THEN None ELSE owner
  /\ assigned' = [assigned EXCEPT ![b] = FALSE]
  /\ pc' = [pc EXCEPT ![b] = "down"]
  /\ aborts' = IF pc[b] = "bars" THEN aborts + 1 ELSE aborts
  /\ UNCHANGED <<sending, log, committed, newcomer, pos, stored, step, cur, bars, starts,
                 since, firstAt, resetAt, delivered, applied>>

-----------------------------------------------------------------------------
Loop(b) == Join(b) \/ Poll(b) \/ SkipUnusable(b) \/ UpdateBar(b)

Next ==
  \/ \E p \in Producers : Publish(p) \/ Deliver(p) \/ Expire(p)
  \/ \E b \in Builders : \/ Start(b) \/ Loop(b) \/ AutoCommit(b) \/ Rebalance(b)
                         \/ Expel(b) \/ LearnExpelled(b)
                         \/ Stop(b) \/ Raise(b) \/ Crash(b)

Spec == Init /\ [][Next]_vars

\* The loop of a process that runs goes on.  Nothing need start a process again: the
\* Compose file has no restart policy.
FairSpec == Spec /\ \A b \in Builders : WF_vars(Loop(b))
-----------------------------------------------------------------------------
(* Properties *)

TypeOK ==
  /\ accepted \in 0..MaxEvents
  /\ stamp \in [Producers -> Times]
  /\ buffer \in [Producers -> Seq(Messages)]
  /\ log \in Seq(Messages)
  /\ committed \in Positions \cup {None} /\ owner \in Builders \cup {None}
  /\ newcomer \in BOOLEAN /\ assigned \in [Builders -> BOOLEAN]
  /\ pc \in [Builders -> {"down", "poll", "bars"}]
  /\ pos \in [Builders -> Positions]
  /\ stored \in [Builders -> Positions \cup {None}]
  /\ step \in [Builders -> Intervals]
  /\ cur \in [Builders -> 0..Len(delivered)]
  /\ bars \in [Intervals -> [Times -> Bars \cup {None}]]
  /\ starts \in 0..MaxStarts
  /\ since \in Nat \cup {None} /\ firstAt \in Positions /\ resetAt \in Positions
  /\ delivered \in Seq(DOMAIN log)
  /\ applied \in [Intervals -> SUBSET DOMAIN delivered]
  /\ aborts \in Nat

\* The deliveries that belong into the bar of interval k that starts at t.
Folded(k, t) ==
  {d \in applied[k] : /\ t % Widths[k] = 0
                      /\ t <= Delivery(d).ts /\ Delivery(d).ts < t + Widths[k]}

\* What a bar says of a set of deliveries: nothing of none; else it counts them,
\* its extremes are the tightest around their prices, the rest are among these.
Tells(bar, D) ==
  LET P == {Delivery(d).price : d \in D}
  IN  IF D = {} THEN bar = None
      ELSE /\ bar # None
           /\ bar.ticks = Cardinality(D)
           /\ {bar.open, bar.high, bar.low, bar.close} \subseteq P
           /\ \A x \in P : bar.low <= x /\ x <= bar.high

\* Every stored bar tells what was folded into it, however many builders wrote to
\* it and wherever they died, and covers the quotes of one width from its start.
BarsTellDeliveries ==
  \A k \in Intervals : \A t \in Times : Tells(bars[k][t], Folded(k, t))

\* The intervals are written narrowest first, each in a transaction of its own:
\* a wider bar never holds a delivery that the narrower bars lack, even while an
\* expelled builder and its successor work on the same events.
CoarserNeverAhead ==
  \A k, l \in Intervals : k < l => applied[l] \subseteq applied[k]

\* A committed offset is final: it never goes back, whatever an expelled member still
\* reads or tries to commit; the group is not put at the end of the log again; and only
\* a member that was expelled and does not know it yet hands a message from before the
\* offset to handle_event again.
CommittedIsFinal ==
  [][committed # None =>
       /\ committed' # None /\ committed <= committed'
       /\ resetAt' = resetAt
       /\ delivered' # delivered /\ delivered'[Len(delivered')] < committed =>
            \E b \in Builders : cur'[b] = Len(delivered') /\ assigned[b] /\ owner # b]_vars

\* The next message the group will read.
Position == IF owner # None THEN pos[owner] ELSE IF committed # None THEN committed ELSE resetAt

HandedOut(n) == \E d \in DOMAIN delivered : delivered[d] = n
Complete(n)  == \E d \in DOMAIN delivered :
                  delivered[d] = n /\ \A k \in Intervals : d \in applied[k]
InHand(n)    == \E b \in Builders : pc[b] = "bars" /\ delivered[cur[b]] = n

\* The usable messages since a member first joined that the group has read past
\* without all their bars.
Lost == {n \in firstAt..(Position - 1) : log[n].usable /\ ~Complete(n) /\ ~InHand(n)}

\* The messages that auto.offset.reset went past before anyone was handed them.
Skipped == {n \in firstAt..(resetAt - 1) : ~HandedOut(n)}

\* poll() stores the offset before handle_event runs, so an event can be lost; but each
\* death or raise costs at most the event in hand.  All else that the bars lack was
\* skipped by a member that joined when nothing was committed.
LossBounded == Cardinality(Lost \ Skipped) <= aborts

\* Through restarts and rebalances in good order no event is handed out twice, and every
\* usable one is folded into the bar of each interval, but for those skipped by a member
\* that joined when nothing was committed.
ExactlyOnce ==
  /\ Lost \subseteq Skipped
  /\ \A d, e \in DOMAIN delivered : delivered[d] = delivered[e] => d = e

\* Open and close are the prices of the earliest and of the latest quote of the bucket,
\* by Quote.timestamp, among those of the same worker process, across restarts.  Two
\* processes publish in no order: the other's quotes may be earlier or later.
OpenCloseInTime ==
  \A k \in Intervals : \A t \in Times :
    LET D == Folded(k, t)
    IN  D # {} =>
          /\ \E o \in D : /\ bars[k][t].open = Delivery(o).price
                          /\ \A d \in D : Delivery(d).from = Delivery(o).from =>
                                            Delivery(o).ts <= Delivery(d).ts
          /\ \E c \in D : /\ bars[k][t].close = Delivery(c).price
                          /\ \A d \in D : Delivery(d).from = Delivery(c).from =>
                                            Delivery(d).ts <= Delivery(c).ts

NoneRuns == \A b \in Builders : pc[b] = "down"

\* Once an offset is committed, every usable event that is in the partition behind it,
\* or in hand, ends up in the bars of all intervals, through rebalances and orderly
\* restarts, as long as a builder runs.
EventuallyInBars ==
  \A n \in 1..MaxEvents :
    (/\ committed # None /\ n \in DOMAIN log /\ log[n].usable
     /\ n >= Position \/ InHand(n)) ~> Complete(n) \/ NoneRuns

\* "OHLC bars will lag until the consumer reconnects": once nothing is queued and
\* the owner has read to the end, each event accepted since a member first joined
\* the group is in the bars.
BarsCatchUp ==
  (/\ \A p \in Producers : buffer[p] = << >>
   /\ owner # None /\ pc[owner] = "poll" /\ pos[owner] = Len(log) + 1) =>
    \A i \in (since + 1)..accepted :
      \E n \in DOMAIN log : log[n].id = i /\ (log[n].usable => Complete(n))
=============================================================================

------------------------------ MODULE BarRows ------------------------------
(***************************************************************************)
(* _update_bar (apps/pricing/kafka_consumer.py) statement by statement: the*)
(* transactions of several builders at one bar, while rounds of fetch_quotes*)
(* store rows of the same instrument and an operator deletes it in the     *)
(* admin, with the cascade to its rows (models.py, on_delete=CASCADE).     *)
(*                                                                         *)
(* The database is PostgreSQL at its default READ COMMITTED, modelled from *)
(* what the code relies on: a statement sees committed rows; FOR UPDATE,   *)
(* UPDATE and DELETE wait for the row's lock; an insert of a key waits for *)
(* an uncommitted one of the same key; Django's foreign keys are deferred, *)
(* so they are looked at on COMMIT, and wait for a parent being deleted.   *)
(* A step that waits is disabled.                                          *)
(***************************************************************************)
EXTENDS OhlcBar, FiniteSets

CONSTANTS
  Builders,     \* the kafka-consumer processes
  Admin,        \* the operator's transaction
  Prices,       \* the mids of events
  MaxIds,       \* bound: Instrument rows ever created
  MaxEvents,    \* bound: events the builders handle
  MaxRounds,    \* bound: rounds of fetch_quotes
  MaxFailures   \* bound: builders that fail with an event in hand

ASSUME PricesAssumption == Prices \subseteq Int
ASSUME BoundsAssumption == /\ MaxIds \in Nat /\ MaxEvents \in Nat
                           /\ MaxRounds \in Nat /\ MaxFailures \in Nat

Ids    == 1..MaxIds
Events == [inst : Ids, price : Prices]

ASSUME NamesAssumption ==
  /\ Admin \notin Builders
  /\ None \notin Nat \cup Bars \cup Events \cup Builders \cup {Admin}

VARIABLES
  instrument,   \* the committed Instrument row of the symbol: its id, or None
  created,      \* ids given out so far
  bars,         \* per instrument id: the committed OHLCBar row, or None
  lock,         \* per instrument id: the transaction that holds the bar's row lock
  pc,           \* per builder: where its transaction is
  event,        \* per builder: its instrument object and price, or None
  read,         \* per builder: the row it has read under the lock
  written,      \* per builder: its uncommitted row version
  rounds, home, \* rounds started; those running, with their instrument object
  rows,         \* committed rows that rounds stored, by instrument and round
  delete,       \* the operator's transaction: "none", "rows" or "instrument" deleted
  doomed,       \* the rows it has deleted
  events, failures,
  refusals      \* builders that the IntegrityError of a missing instrument ended

builder == <<pc, event, read, written, events, failures, refusals>>
ingest  == <<rounds, home, rows>>
admin   == <<delete, doomed>>
vars    == <<instrument, created, bars, lock, builder, ingest, admin>>

Init ==
  /\ instrument = None /\ created = 0
  /\ bars = [id \in Ids |-> None]
  /\ lock = [id \in Ids |-> None]
  /\ pc = [b \in Builders |-> "idle"]
  /\ event = [b \in Builders |-> None]
  /\ read = [b \in Builders |-> None]
  /\ written = [b \in Builders |-> None]
  /\ rounds = 0 /\ home = [r \in 1..MaxRounds |-> None] /\ rows = {}
  /\ delete = "none" /\ doomed = {}
  /\ events = 0 /\ failures = 0 /\ refusals = 0

-----------------------------------------------------------------------------
(* The builders *)

\* Faulty variant: Instrument.DoesNotExist is not caught.
Known_Assumed == TRUE
Known == instrument # None

\* handle_event: Instrument.objects.get, once for the bars of all intervals; an
\* event without an instrument is skipped.  Bars of other intervals are updated
\* between this step and the next.
HandleEvent(b) ==
  /\ pc[b] = "idle" /\ events < MaxEvents /\ Known
  /\ \E x \in Prices : event' = [event EXCEPT ![b] = [inst |-> instrument, price |-> x]]
  /\ pc' = [pc EXCEPT ![b] = "get"]
  /\ events' = events + 1
  /\ UNCHANGED <<instrument, created, bars, lock, read, written, failures, refusals,
                 ingest, admin>>

\* Faulty variant: a SELECT without FOR UPDATE.
Lockable_Ignored(id) == bars[id] # None /\ lock[id] # Admin
Lockable(id) == bars[id] # None /\ lock[id] = None

\* SELECT ... FOR UPDATE finds the row, once its lock is free.
Found(b) ==
  /\ Lockable(event[b].inst)
  /\ lock' = [lock EXCEPT ![event[b].inst] = b]
  /\ read' = [read EXCEPT ![b] = bars[event[b].inst]]
  /\ pc' = [pc EXCEPT ![b] = "save"]
  /\ UNCHANGED <<instrument, created, bars, event, written, events, failures,
                 refusals, ingest, admin>>

\* get_or_create: the first get() ...
Get(b) ==
  /\ pc[b] = "get"
  /\ \/ Found(b)
     \/ /\ bars[event[b].inst] = None
        /\ pc' = [pc EXCEPT ![b] = "create"]
        /\ UNCHANGED <<instrument, created, bars, lock, event, read, written, events,
                       failures, refusals, ingest, admin>>

\* A transaction that is about to commit a row it inserted, or updated.
Inserted(b) == pc[b] = "commit" /\ lock[event[b].inst] # b
Changed(id) == \/ lock[id] = Admin
               \/ \E c \in Builders : lock[id] = c /\ pc[c] = "commit"

\* ... create() in a savepoint: the defaults are inserted, unless ...
Create(b) ==
  /\ pc[b] = "create"
  /\ bars[event[b].inst] = None
  /\ \A c \in Builders : Inserted(c) => event[c].inst # event[b].inst
  /\ written' = [written EXCEPT ![b] = Opened(event[b].price)]
  /\ pc' = [pc EXCEPT ![b] = "commit"]
  /\ UNCHANGED <<instrument, created, bars, lock, event, read, events, failures,
                 refusals, ingest, admin>>

\* ... the key is taken: IntegrityError, back to the savepoint ...
KeyTaken(b) ==
  /\ pc[b] = "create"
  /\ bars[event[b].inst] # None /\ ~Changed(event[b].inst)
  /\ pc' = [pc EXCEPT ![b] = "getagain"]
  /\ UNCHANGED <<instrument, created, bars, lock, event, read, written, events, failures,
                 refusals, ingest, admin>>

\* bar.save(update_fields=...) of the row read under the lock.
Save(b) ==
  /\ pc[b] = "save"
  /\ written' = [written EXCEPT ![b] = Widened(read[b], event[b].price)]
  /\ pc' = [pc EXCEPT ![b] = "commit"]
  /\ UNCHANGED <<instrument, created, bars, lock, event, read, events, failures,
                 refusals, ingest, admin>>

\* Faulty variant: the connection stays open in its transaction.
Released_Kept(b) == lock
Released(b) == [id \in Ids |-> IF lock[id] = b THEN None ELSE lock[id]]

\* The transaction of b is over, in either way: b is at its next event.  When an error
\* ended the process, that is once it runs again, or another in its place.
EndTransaction(b) ==
  /\ lock' = Released(b)
  /\ pc' = [pc EXCEPT ![b] = "idle"]
  /\ event' = [event EXCEPT ![b] = None]
  /\ read' = [read EXCEPT ![b] = None]
  /\ written' = [written EXCEPT ![b] = None]
  /\ UNCHANGED <<instrument, created, events, ingest, admin>>

\* The instrument is gone: the IntegrityError is caught nowhere, and ends the process.
Refused(b) ==
  /\ EndTransaction(b)
  /\ refusals' = refusals + 1
  /\ UNCHANGED <<bars, failures>>

\* ... and the second get(), without whose row the IntegrityError is raised again.
GetAgain(b) ==
  /\ pc[b] = "getagain"
  /\ \/ Found(b)
     \/ bars[event[b].inst] = None /\ Refused(b)

\* Faulty variant: db_constraint=False.
HasParent_Unchecked(id) == TRUE
\* The foreign key: the instrument is there, and no open transaction deletes it.
HasParent(id) == instrument = id /\ delete # "instrument"

Commit(b) ==
  /\ pc[b] = "commit"
  /\ Inserted(b) => HasParent(event[b].inst)
  /\ bars' = [bars EXCEPT ![event[b].inst] = written[b]]
  /\ EndTransaction(b)
  /\ UNCHANGED <<failures, refusals>>

\* The inserted bar's instrument is gone: IntegrityError on COMMIT.
Orphaned(b) == Inserted(b) /\ instrument # event[b].inst /\ Refused(b)

\* The process dies, or a statement fails: the transaction is rolled back.
Fail(b) ==
  /\ pc[b] # "idle" /\ failures < MaxFailures
  /\ EndTransaction(b)
  /\ failures' = failures + 1
  /\ UNCHANGED <<bars, refusals>>

-----------------------------------------------------------------------------
(* The rounds *)

\* bulk_create(ignore_conflicts=True) waits for a delete of the row to end, and
\* creates it when it is missing; the round keeps the object it then reads.
StartRound ==
  /\ rounds < MaxRounds /\ delete # "instrument"
  /\ rounds' = rounds + 1
  /\ \/ instrument # None /\ UNCHANGED <<instrument, created>>
     \/ /\ instrument = None /\ created < MaxIds
        /\ instrument' = created + 1 /\ created' = created + 1
  /\ home' = [home EXCEPT ![rounds + 1] = instrument']
  /\ UNCHANGED <<bars, lock, rows, builder, admin>>

\* The round stores a row (Quote, ConsolidatedPrice or ArbitrageOpportunity), or
\* raises because the instrument is gone.
StoreRow(r) ==
  /\ home[r] # None
  /\ \/ HasParent(home[r]) /\ rows' = rows \cup {[inst |-> home[r], round |-> r]}
     \/ instrument # home[r] /\ UNCHANGED rows
  /\ home' = [home EXCEPT ![r] = None]
  /\ UNCHANGED <<instrument, created, bars, lock, rounds, builder, admin>>

-----------------------------------------------------------------------------
(* The operator *)

RowsOf(id) == {x \in rows : x.inst = id}

\* The cascade, before the instrument: the rows committed by now, locked ones when
\* they are free.
DeleteRows ==
  /\ delete = "none" /\ instrument # None
  /\ lock[instrument] = None
  /\ lock' = IF bars[instrument] = None THEN lock ELSE [lock EXCEPT ![instrument] = Admin]
  /\ delete' = "rows" /\ doomed' = RowsOf(instrument)
  /\ UNCHANGED <<instrument, created, bars, builder, ingest>>

DeleteInstrument ==
  /\ delete = "rows"
  /\ delete' = "instrument"
  /\ UNCHANGED <<instrument, created, bars, lock, builder, ingest, doomed>>

\* On COMMIT the foreign keys of the instrument's rows are looked at: one that was
\* committed after the cascade makes the delete fail.
EndDelete ==
  /\ delete = "instrument"
  /\ \/ /\ RowsOf(instrument) \subseteq doomed
        /\ bars[instrument] = None \/ lock[instrument] = Admin
        /\ instrument' = None
        /\ bars' = [bars EXCEPT ![instrument] = None]
        /\ rows' = rows \ doomed
     \/ /\ \/ ~(RowsOf(instrument) \subseteq doomed)
           \/ bars[instrument] # None /\ lock[instrument] # Admin
        /\ UNCHANGED <<instrument, bars, rows>>
  /\ lock' = Released(Admin)
  /\ delete' = "none" /\ doomed' = {}
  /\ UNCHANGED <<created, builder, rounds, home>>

-----------------------------------------------------------------------------
Step(b) == HandleEvent(b) \/ Get(b) \/ Create(b) \/ KeyTaken(b) \/ GetAgain(b)
           \/ Save(b) \/ Commit(b) \/ Orphaned(b)

Next ==
  \/ \E b \in Builders : Step(b) \/ Fail(b)
  \/ StartRound
  \/ \E r \in 1..MaxRounds : StoreRow(r)
  \/ DeleteRows \/ DeleteInstrument \/ EndDelete

Spec == Init /\ [][Next]_vars

\* Each session goes on with its transaction whenever no lock keeps it waiting.
FairSpec == /\ Spec
            /\ \A b \in Builders : WF_vars(Step(b))
            /\ \A r \in 1..MaxRounds : WF_vars(StoreRow(r))
            /\ WF_vars(DeleteInstrument \/ EndDelete)

-----------------------------------------------------------------------------
(* Properties *)

TypeOK ==
  /\ created \in 0..MaxIds
  /\ instrument \in 1..created \cup {None}
  /\ bars \in [Ids -> Bars \cup {None}]
  /\ lock \in [Ids -> Builders \cup {Admin, None}]
  /\ pc \in [Builders -> {"idle", "get", "create", "getagain", "save", "commit"}]
  /\ \A b \in Builders : pc[b] # "idle" => event[b] \in Events /\ event[b].inst <= created
  /\ DOMAIN event = Builders
  /\ read \in [Builders -> Bars \cup {None}] /\ written \in [Builders -> Bars \cup {None}]
  /\ rounds \in 0..MaxRounds
  /\ home \in [1..MaxRounds -> 1..created \cup {None}]
  /\ rows \subseteq [inst : 1..created, round : 1..MaxRounds] /\ doomed \subseteq rows
  /\ delete \in {"none", "rows", "instrument"}
  /\ delete # "none" => instrument # None
  /\ events \in 0..MaxEvents /\ failures \in 0..MaxFailures /\ refusals \in Nat

\* No bar and no row of a round is left behind by the instrument it belongs to,
\* although the cascade does not see what is stored while it runs: either the
\* delete fails, or the late writer does.
NoOrphans ==
  /\ \A id \in Ids : bars[id] # None => id = instrument
  /\ \A x \in rows : x.inst = instrument

\* What a reader sees as the instrument's bar.
CurrentBar == IF instrument = None THEN None ELSE bars[instrument]
Owed == [b \in Builders |-> IF pc[b] = "idle" THEN None ELSE event[b]]

Promise == INSTANCE BarLedger WITH bar <- CurrentBar, owed <- Owed

\* Whatever their interleaving, the transactions have the effect of atomic updates
\* of the bar: no builder overwrites what another has saved, and the insert that
\* loses the race for the unique key is folded in all the same.
ImplementsLedger == Promise!LedgerSpec

\* No transaction waits for ever: not builders for each other's lock or key, nor
\* builder, round and operator for each other's foreign keys.
WaitsEnd ==
  /\ \A b \in Builders : pc[b] # "idle" ~> pc[b] = "idle"
  /\ \A r \in 1..MaxRounds : home[r] # None ~> home[r] = None
  /\ delete # "none" ~> delete = "none"
=============================================================================

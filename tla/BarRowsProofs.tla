--------------------------- MODULE BarRowsProofs ---------------------------
(***************************************************************************)
(* Theorems about BarRows, for any number of builders, instrument rows,    *)
(* events, rounds and failures, by one inductive invariant: what each lock *)
(* and each uncommitted insert stands for.                                 *)
(***************************************************************************)
EXTENDS BarRows, TLAPS

\* A row lock is held by the transaction that works on the row as it is committed ...
LocksTell ==
  /\ \A id \in Ids, b \in Builders :
       lock[id] = b => /\ pc[b] \in {"save", "commit"}
                       /\ event[b].inst = id
                       /\ bars[id] # None /\ read[b] = bars[id]
                       /\ pc[b] = "commit" => written[b] = Widened(bars[id], event[b].price)
  /\ \A b \in Builders : pc[b] = "save" => lock[event[b].inst] = b
  /\ \A id \in Ids :
       lock[id] = Admin => delete # "none" /\ id = instrument /\ bars[id] # None

\* ... and a row is being inserted by one transaction only, while there is none.
InsertsTell ==
  \A b \in Builders : Inserted(b) =>
    /\ bars[event[b].inst] = None
    /\ written[b] = Opened(event[b].price)
    /\ \A c \in Builders : Inserted(c) /\ event[c].inst = event[b].inst => c = b

\* The row whose key was taken is only gone with its instrument.
AgainTells ==
  \A b \in Builders :
    pc[b] = "getagain" => bars[event[b].inst] # None \/ instrument # event[b].inst

IInv == TypeOK /\ NoOrphans /\ LocksTell /\ InsertsTell /\ AgainTells

USE PricesAssumption, BoundsAssumption, NamesAssumption

-----------------------------------------------------------------------------
(* The bar fold *)

LEMMA OpenedIsBar == ASSUME NEW x \in Int PROVE Opened(x) \in Bars /\ Opened(x) # None
<1>1. Opened(x) \in Bars
  BY SMT DEF Opened, Bars
<1> QED BY <1>1

LEMMA WidenedIsBar ==
  ASSUME NEW r \in Bars, NEW x \in Int PROVE Widened(r, x) \in Bars /\ Widened(r, x) # None
<1>1. Widened(r, x) \in Bars
  BY SMT DEF Widened, Bars, Larger, Smaller
<1> QED BY <1>1

LEMMA InitInv == Init => IInv
<1> SUFFICES ASSUME Init PROVE IInv
  OBVIOUS
<1> USE DEF Init
<1>1. TypeOK
  <2>1. created \in 0..MaxIds /\ rounds \in 0..MaxRounds /\ events \in 0..MaxEvents
        /\ failures \in 0..MaxFailures /\ refusals \in Nat
    BY SMT
  <2> QED BY <2>1 DEF TypeOK
<1>2. NoOrphans
  BY DEF NoOrphans
<1>3. LocksTell
  <2>1. \A id \in Ids : lock[id] = None
    OBVIOUS
  <2>2. \A b \in Builders : b # None /\ pc[b] = "idle" /\ delete = "none"
    OBVIOUS
  <2>3. Admin # None
    OBVIOUS
  <2> HIDE DEF Init
  <2> QED BY <2>1, <2>2, <2>3 DEF LocksTell
<1>4. InsertsTell /\ AgainTells
  BY SMT DEF InsertsTell, AgainTells, Inserted
<1> QED BY <1>1, <1>2, <1>3, <1>4 DEF IInv

-----------------------------------------------------------------------------
(* The builders *)

LEMMA HandleEventKeeps ==
  ASSUME IInv, NEW b \in Builders, HandleEvent(b) PROVE IInv'
<1> USE DEF IInv, HandleEvent, Known
<1> PICK x \in Prices : event' = [event EXCEPT ![b] = [inst |-> instrument, price |-> x]]
  OBVIOUS
<1>1. instrument \in Ids /\ instrument <= created
  BY DEF TypeOK, Ids
<1>2. TypeOK'
  <2>1. event'[b] \in Events /\ event'[b].inst <= created
    BY <1>1 DEF TypeOK, Events
  <2>2. \A c \in Builders : c # b => event'[c] = event[c] /\ pc'[c] = pc[c]
    BY DEF TypeOK
  <2> QED BY <2>1, <2>2, SMT DEF TypeOK, ingest, admin
<1>3. NoOrphans'
  BY DEF NoOrphans, ingest
<1>4. LocksTell'
  BY SMT DEF LocksTell, TypeOK, admin
<1>5. InsertsTell'
  BY SMT DEF InsertsTell, Inserted, TypeOK
<1>6. AgainTells'
  BY SMT DEF AgainTells, TypeOK
<1> QED BY <1>2, <1>3, <1>4, <1>5, <1>6

LEMMA FoundKeeps ==
  ASSUME IInv, NEW b \in Builders, pc[b] \in {"get", "getagain"}, Found(b) PROVE IInv'
<1> USE DEF IInv, Found, Lockable
<1>1. event[b].inst \in Ids /\ bars[event[b].inst] \in Bars
  BY DEF TypeOK, Events
<1>2. TypeOK'
  BY <1>1, SMT DEF TypeOK, ingest, admin
<1>3. NoOrphans'
  BY DEF NoOrphans, ingest
<1>4. LocksTell'
  BY <1>1, SMT DEF LocksTell, TypeOK, admin
<1>5. InsertsTell'
  BY <1>1, SMT DEF InsertsTell, Inserted, TypeOK
<1>6. AgainTells'
  BY SMT DEF AgainTells, TypeOK
<1> QED BY <1>2, <1>3, <1>4, <1>5, <1>6

\* A step to a place where a builder has neither lock nor insert.
LEMMA MoveKeeps ==
  ASSUME IInv, NEW b \in Builders, NEW q \in {"create", "getagain"},
         pc[b] \in {"get", "create"}, pc' = [pc EXCEPT ![b] = q],
         q = "getagain" => bars[event[b].inst] # None,
         UNCHANGED <<instrument, created, bars, lock, event, read, written, events,
                     failures, refusals, ingest, admin>>
  PROVE  IInv'
<1> USE DEF IInv
<1>2. TypeOK'
  BY SMT DEF TypeOK, ingest, admin
<1>3. NoOrphans'
  BY DEF NoOrphans, ingest
<1>4. LocksTell'
  BY SMT DEF LocksTell, TypeOK, admin
<1>5. InsertsTell'
  BY SMT DEF InsertsTell, Inserted, TypeOK
<1>6. AgainTells'
  BY SMT DEF AgainTells, TypeOK
<1> QED BY <1>2, <1>3, <1>4, <1>5, <1>6

LEMMA CreateKeeps ==
  ASSUME IInv, NEW b \in Builders, Create(b) PROVE IInv'
<1> USE DEF IInv, Create
<1>1. event[b].inst \in Ids /\ event[b].price \in Int
  BY DEF TypeOK, Events
<1>2. Opened(event[b].price) \in Bars
  BY <1>1, OpenedIsBar
<1>3. TypeOK'
  BY <1>2, SMT DEF TypeOK, ingest, admin
<1>4. NoOrphans'
  BY DEF NoOrphans, ingest
<1>5. LocksTell'
  BY <1>1, SMT DEF LocksTell, TypeOK, admin
<1>6. \A c \in Builders : c # b => (Inserted(c)' <=> Inserted(c))
  BY SMT DEF Inserted, TypeOK
<1>7. InsertsTell'
  <2> SUFFICES ASSUME NEW c \in Builders, Inserted(c)'
               PROVE  (/\ bars[event[c].inst] = None
                       /\ written[c] = Opened(event[c].price)
                       /\ \A d \in Builders :
                            Inserted(d) /\ event[d].inst = event[c].inst => d = c)'
    BY DEF InsertsTell
  <2>1. CASE c = b
    <3>1. bars'[event'[b].inst] = None /\ written'[b] = Opened(event'[b].price)
      BY SMT DEF TypeOK
    <3>2. \A d \in Builders : d # b /\ Inserted(d) => event[d].inst # event[b].inst
      OBVIOUS
    <3> QED BY <1>6, <2>1, <3>1, <3>2
  <2>2. CASE c # b
    BY <1>6, <2>2, SMT DEF InsertsTell, TypeOK
  <2> QED BY <2>1, <2>2
<1>8. AgainTells'
  BY SMT DEF AgainTells, TypeOK
<1> QED BY <1>3, <1>4, <1>5, <1>7, <1>8

LEMMA SaveKeeps ==
  ASSUME IInv, NEW b \in Builders, Save(b) PROVE IInv'
<1> USE DEF IInv, Save
<1>1. /\ event[b].inst \in Ids /\ event[b].price \in Int
      /\ lock[event[b].inst] = b /\ read[b] = bars[event[b].inst] /\ read[b] \in Bars
  <2>1. event[b] \in Events /\ read[b] \in Bars \cup {None}
    BY DEF TypeOK
  <2>2. event[b].inst \in Ids /\ event[b].price \in Int
    BY <2>1 DEF Events
  <2>3. lock[event[b].inst] = b
    BY DEF LocksTell
  <2>4. bars[event[b].inst] # None /\ read[b] = bars[event[b].inst]
    BY <2>2, <2>3 DEF LocksTell
  <2> QED BY <2>1, <2>2, <2>3, <2>4
<1>2. Widened(read[b], event[b].price) \in Bars
  BY <1>1, WidenedIsBar
<1>3. TypeOK'
  BY <1>2, SMT DEF TypeOK, ingest, admin
<1>4. NoOrphans'
  BY DEF NoOrphans, ingest
<1>5. LocksTell'
  BY <1>1, SMT DEF LocksTell, TypeOK, admin
<1>6. InsertsTell'
  BY <1>1, SMT DEF InsertsTell, Inserted, TypeOK
<1>7. AgainTells'
  BY SMT DEF AgainTells, TypeOK
<1> QED BY <1>3, <1>4, <1>5, <1>6, <1>7

\* Where the transaction of b ends, b holds no lock and has no insert any more.
LEMMA ReleasedIs ==
  ASSUME TypeOK, NEW b \in Builders \cup {Admin}
  PROVE  /\ Released(b) \in [Ids -> Builders \cup {Admin, None}]
         /\ \A id \in Ids : Released(b)[id] = IF lock[id] = b THEN None ELSE lock[id]
         /\ b # None
  BY DEF TypeOK, Released

LEMMA EndTransactionType ==
  ASSUME IInv, NEW b \in Builders, EndTransaction(b),
         bars' \in [Ids -> Bars \cup {None}], failures' \in 0..MaxFailures, refusals' \in Nat
  PROVE  TypeOK'
<1> USE DEF IInv, EndTransaction
<1>1. lock' \in [Ids -> Builders \cup {Admin, None}]
  BY ReleasedIs
<1>2. \A c \in Builders : pc'[c] # "idle" => event'[c] = event[c] /\ pc[c] # "idle"
  BY DEF TypeOK
<1> QED BY <1>1, <1>2, SMT DEF TypeOK, ingest, admin

\* The end of a transaction that leaves no trace: a rollback.
LEMMA RollbackKeeps ==
  ASSUME IInv, NEW b \in Builders, EndTransaction(b), UNCHANGED bars,
         failures' \in 0..MaxFailures, refusals' \in Nat
  PROVE  IInv'
<1> USE DEF IInv, EndTransaction
<1>1. TypeOK'
  BY EndTransactionType DEF TypeOK
<1>2. NoOrphans'
  BY DEF NoOrphans, ingest
<1>3. \A id \in Ids : lock'[id] = IF lock[id] = b THEN None ELSE lock[id]
  BY ReleasedIs
<1>4. \A c \in Builders : pc'[c] # "idle" =>
        c # b /\ pc'[c] = pc[c] /\ event'[c] = event[c] /\ read'[c] = read[c]
        /\ written'[c] = written[c] /\ event[c].inst \in Ids
  BY SMT DEF TypeOK, Events
<1>5. \A c \in Builders : Inserted(c)' => Inserted(c)
  BY <1>3, <1>4, SMT DEF Inserted
<1>6. LocksTell'
  <2>1. \A id \in Ids : lock'[id] # b /\ (lock'[id] # None => lock'[id] = lock[id])
    BY <1>3, SMT
  <2>2. \A c \in Builders : c # b => pc'[c] = pc[c] /\ event'[c] = event[c]
                             /\ read'[c] = read[c] /\ written'[c] = written[c]
    BY DEF TypeOK
  <2>3. \A c \in Builders : c # None /\ (pc'[c] = "save" => c # b /\ event[c].inst \in Ids)
    BY <1>4
  <2>4. Admin # None
    OBVIOUS
  <2> HIDE DEF EndTransaction
  <2>5. UNCHANGED <<bars, delete, instrument>>
    BY DEF EndTransaction, admin
  <2>6. \A id \in Ids, c \in Builders : lock'[id] = c => lock[id] = c /\ c # b
    BY <2>1, <2>3
  <2>7. \A c \in Builders : pc'[c] = "save" => lock'[event[c].inst] = c
    BY <1>3, <2>2, <2>3 DEF LocksTell
  <2>8. \A id \in Ids : lock'[id] = Admin => lock[id] = Admin
    BY <2>1, <2>4
  <2> QED BY <2>2, <2>3, <2>5, <2>6, <2>7, <2>8 DEF LocksTell
<1>7. InsertsTell'
  BY <1>4, <1>5, SMT DEF InsertsTell, Inserted
<1>8. AgainTells'
  BY <1>4, SMT DEF AgainTells
<1> QED BY <1>1, <1>2, <1>6, <1>7, <1>8

\* What a transaction commits is what the price makes of the committed row, which
\* is the row of the instrument as it stands.
LEMMA CommitsUpdate ==
  ASSUME IInv, NEW b \in Builders, Commit(b)
  PROVE  /\ event[b].inst \in Ids /\ event[b].inst = instrument
         /\ written[b] = Updated(bars[event[b].inst], event[b].price)
         /\ written[b] \in Bars
<1> DEFINE id == event[b].inst
<1> USE DEF IInv, Commit
<1>1. id \in Ids /\ event[b].price \in Int /\ bars[id] \in Bars \cup {None}
  BY DEF TypeOK, Events
<1>2. CASE Inserted(b)
  <2>1. bars[id] = None /\ written[b] = Opened(event[b].price)
    BY <1>2 DEF InsertsTell
  <2> QED BY <1>1, <1>2, <2>1, OpenedIsBar DEF Updated, HasParent
<1>3. CASE ~Inserted(b)
  <2>1. lock[id] = b
    BY <1>3 DEF Inserted
  <2>2. bars[id] # None /\ written[b] = Widened(bars[id], event[b].price)
    BY <1>1, <2>1 DEF LocksTell
  <2>3. id = instrument
    BY <1>1, <2>2 DEF NoOrphans
  <2> QED BY <1>1, <2>2, <2>3, WidenedIsBar DEF Updated
<1> QED BY <1>2, <1>3

LEMMA CommitKeeps ==
  ASSUME IInv, NEW b \in Builders, Commit(b) PROVE IInv'
<1> DEFINE id == event[b].inst
<1>0. id \in Ids /\ id = instrument /\ written[b] \in Bars /\ None \notin Bars
  BY CommitsUpdate
<1> USE DEF IInv, Commit, EndTransaction
<1>1. bars' \in [Ids -> Bars \cup {None}] /\ bars'[id] # None
      /\ \A i \in Ids : i # id => bars'[i] = bars[i]
  BY <1>0 DEF TypeOK
<1>2. TypeOK'
  BY <1>1, EndTransactionType DEF TypeOK
<1>3. NoOrphans'
  BY <1>0, <1>1 DEF NoOrphans, ingest
<1>4. \A i \in Ids : lock'[i] = IF lock[i] = b THEN None ELSE lock[i]
  BY ReleasedIs
<1>5. \A c \in Builders : pc'[c] # "idle" =>
        c # b /\ pc'[c] = pc[c] /\ event'[c] = event[c] /\ read'[c] = read[c]
        /\ written'[c] = written[c] /\ event[c].inst \in Ids
  BY SMT DEF TypeOK, Events
<1>6. \A c \in Builders : Inserted(c)' => Inserted(c)
  BY <1>4, <1>5, SMT DEF Inserted
<1>7. \A c \in Builders : c # b => lock[id] # c
  <2>1. CASE Inserted(b)
    BY <1>0, <2>1 DEF LocksTell, InsertsTell
  <2>2. CASE ~Inserted(b)
    BY <2>2 DEF Inserted
  <2> QED BY <2>1, <2>2
<1>8. \A c \in Builders : c # b /\ Inserted(c) => event[c].inst # id
  <2>1. CASE Inserted(b)
    BY <2>1 DEF InsertsTell
  <2>2. CASE ~Inserted(b)
    BY <1>0, <2>2 DEF Inserted, InsertsTell, LocksTell
  <2> QED BY <2>1, <2>2
<1> HIDE DEF id
<1>9. LocksTell'
  <2>1. \A i \in Ids, c \in Builders : lock'[i] = c => c # b /\ lock[i] = c /\ i # id
    BY <1>4, <1>7, ReleasedIs
  <2>2. \A i \in Ids, c \in Builders : lock'[i] = c => pc'[c] = pc[c]
          /\ event'[c] = event[c] /\ read'[c] = read[c] /\ written'[c] = written[c]
    BY <2>1 DEF TypeOK
  <2>3. \A c \in Builders : pc'[c] = "save" => lock'[event'[c].inst] = c
    BY <1>4, <1>5 DEF LocksTell
  <2>4. \A i \in Ids : lock'[i] = Admin =>
          delete' # "none" /\ i = instrument' /\ bars'[i] # None
    BY <1>1, <1>4 DEF LocksTell, admin
  <2>5. \A i \in Ids, c \in Builders : lock'[i] = c =>
          /\ pc'[c] \in {"save", "commit"} /\ event'[c].inst = i
          /\ bars'[i] # None /\ read'[c] = bars'[i]
          /\ pc'[c] = "commit" => written'[c] = Widened(bars'[i], event'[c].price)
    BY <1>1, <2>1, <2>2 DEF LocksTell
  <2> QED BY <2>3, <2>4, <2>5 DEF LocksTell
<1>10. InsertsTell'
  <2> SUFFICES ASSUME NEW c \in Builders, Inserted(c)'
               PROVE  (/\ bars[event[c].inst] = None
                       /\ written[c] = Opened(event[c].price)
                       /\ \A d \in Builders :
                            Inserted(d) /\ event[d].inst = event[c].inst => d = c)'
    BY DEF InsertsTell
  <2>1. c # b /\ event'[c] = event[c] /\ written'[c] = written[c] /\ event[c].inst \in Ids
    BY <1>5 DEF Inserted
  <2>2. bars'[event'[c].inst] = None /\ written'[c] = Opened(event'[c].price)
    BY <1>1, <1>6, <1>8, <2>1 DEF InsertsTell
  <2>3. \A d \in Builders : Inserted(d)' => Inserted(d) /\ event'[d] = event[d]
    BY <1>5, <1>6 DEF Inserted
  <2> QED BY <2>1, <2>2, <2>3 DEF InsertsTell
<1>11. AgainTells'
  BY <1>1, <1>5 DEF AgainTells
<1> QED BY <1>2, <1>3, <1>9, <1>10, <1>11

-----------------------------------------------------------------------------
(* The rounds and the operator *)

LEMMA StartRoundKeeps == ASSUME IInv, StartRound PROVE IInv'
<1> USE DEF IInv, StartRound
<1>1. /\ created' \in 0..MaxIds /\ created' >= created
      /\ instrument' \in 1..created' /\ rounds + 1 \in 1..MaxRounds
      /\ instrument # None => instrument' = instrument
      /\ instrument = None => instrument' = created + 1
  BY SMT DEF TypeOK
<1>2. TypeOK'
  <2>1. \A c \in Builders : pc[c] # "idle" => event[c] \in Events /\ event[c].inst <= created'
    BY <1>1, SMT DEF TypeOK, Events, Ids
  <2>2. 1..created \subseteq 1..created'
    BY <1>1, SMT DEF TypeOK
  <2>3. home' \in [1..MaxRounds -> 1..created' \cup {None}]
    BY <1>1, <2>2 DEF TypeOK
  <2>4. rows \subseteq [inst : 1..created', round : 1..MaxRounds]
    BY <2>2 DEF TypeOK
  <2>5. rounds' \in 0..MaxRounds /\ instrument' # None
    BY <1>1, SMT
  <2> QED BY <1>1, <2>1, <2>3, <2>4, <2>5 DEF TypeOK, builder, admin
<1>3. NoOrphans'
  <2>0. None \notin Ids /\ \A x \in rows : x.inst \in 1..created /\ x.inst # None
    BY SMT DEF TypeOK, Ids
  <2>1. instrument = None => rows = {} /\ \A id \in Ids : bars[id] = None
    BY <2>0 DEF NoOrphans
  <2>2. CASE instrument = None
    BY <2>1, <2>2 DEF NoOrphans
  <2>3. CASE instrument # None
    BY <1>1, <2>3 DEF NoOrphans
  <2> QED BY <2>2, <2>3
<1>4. LocksTell'
  <2>1. \A id \in Ids : lock[id] = Admin => instrument # None
    BY DEF LocksTell, TypeOK
  <2> QED BY <1>1, <2>1 DEF LocksTell, builder, admin
<1>5. InsertsTell'
  BY Zenon DEF InsertsTell, Inserted, builder
<1>6. AgainTells'
  <2>1. \A c \in Builders : pc[c] = "getagain" => event[c].inst \in Ids /\ event[c].inst <= created
    BY DEF TypeOK, Events
  <2>2. \A i \in Ids : i <= created => i # created + 1
    BY SMT DEF Ids, TypeOK
  <2> QED BY <1>1, <2>1, <2>2 DEF AgainTells, builder
<1> QED BY <1>2, <1>3, <1>4, <1>5, <1>6

LEMMA StoreRowKeeps == ASSUME IInv, NEW r \in 1..MaxRounds, StoreRow(r) PROVE IInv'
<1> USE DEF IInv, StoreRow
<1>1. home[r] \in 1..created
  BY DEF TypeOK
<1>2. /\ rows \subseteq rows' /\ rows' \subseteq rows \cup {[inst |-> home[r], round |-> r]}
      /\ rows' # rows => home[r] = instrument
  BY DEF HasParent
<1>3. TypeOK'
  <2>1. [inst |-> home[r], round |-> r] \in [inst : 1..created, round : 1..MaxRounds]
    BY <1>1
  <2> QED BY <1>2, <2>1 DEF TypeOK, builder, admin
<1>4. NoOrphans'
  BY <1>2 DEF NoOrphans
<1>5. LocksTell' /\ InsertsTell' /\ AgainTells'
  BY DEF LocksTell, InsertsTell, AgainTells, Inserted, builder, admin
<1> QED BY <1>3, <1>4, <1>5

LEMMA DeleteRowsKeeps == ASSUME IInv, DeleteRows PROVE IInv'
<1> USE DEF IInv, DeleteRows
<1>1. /\ instrument \in Ids
      /\ lock' \in [Ids -> Builders \cup {Admin, None}]
      /\ \A id \in Ids : lock'[id] # lock[id] =>
           id = instrument /\ lock'[id] = Admin /\ bars[id] # None /\ lock[id] = None
  BY SMT DEF TypeOK, Ids
<1>2. TypeOK'
  BY <1>1 DEF TypeOK, builder, ingest, RowsOf
<1>3. NoOrphans'
  BY DEF NoOrphans, ingest
<1>4. LocksTell'
  <2>1. \A id \in Ids, c \in Builders : lock'[id] = c => lock[id] = c
    BY <1>1
  <2>2. \A c \in Builders : pc[c] = "save" => event[c].inst \in Ids /\ c # None
    BY DEF TypeOK, Events
  <2> QED BY <1>1, <2>1, <2>2 DEF LocksTell, builder
<1>5. \A c \in Builders : pc[c] = "commit" => event[c].inst \in Ids /\ c # None
  BY DEF TypeOK, Events
<1>6. \A c \in Builders : Inserted(c)' => Inserted(c)
  BY <1>1, <1>5 DEF Inserted, builder
<1>7. InsertsTell' /\ AgainTells'
  BY <1>6 DEF InsertsTell, AgainTells, builder
<1> QED BY <1>2, <1>3, <1>4, <1>7

\* A delete that commits leaves neither a bar nor a row.
LEMMA DeletesAll ==
  ASSUME IInv, EndDelete, instrument' # instrument
  PROVE  instrument' = None /\ bars' = [id \in Ids |-> None] /\ rows' = {}
<1> USE DEF IInv, EndDelete
<1>1. /\ RowsOf(instrument) \subseteq doomed /\ instrument' = None
      /\ bars' = [bars EXCEPT ![instrument] = None] /\ rows' = rows \ doomed
  OBVIOUS
<1>2. rows' = {}
  BY <1>1 DEF NoOrphans, RowsOf
<1>3. bars' = [id \in Ids |-> None]
  BY <1>1 DEF NoOrphans, TypeOK
<1> QED BY <1>1, <1>2, <1>3

LEMMA EndDeleteKeeps == ASSUME IInv, EndDelete PROVE IInv'
<1> USE DEF IInv, EndDelete
<1>1. /\ lock' \in [Ids -> Builders \cup {Admin, None}]
      /\ \A id \in Ids : lock'[id] = IF lock[id] = Admin THEN None ELSE lock[id]
  BY ReleasedIs
<1>2. \A c \in Builders : c # Admin /\ c # None
  OBVIOUS
<1>3. Admin # None
  OBVIOUS
<1>4. \A c \in Builders : pc[c] # "idle" => event[c].inst \in Ids
  BY DEF TypeOK, Events
<1>5. \A c \in Builders : Inserted(c)' => Inserted(c)
  BY <1>1, <1>2, <1>4 DEF Inserted, builder
<1>6. CASE instrument' = instrument
  <2>1. UNCHANGED <<instrument, bars, rows>>
    BY <1>6 DEF TypeOK
  <2>2. TypeOK'
    BY <1>1, <2>1 DEF TypeOK, builder
  <2>3. NoOrphans'
    BY <2>1 DEF NoOrphans
  <2>4. LocksTell'
    BY <1>1, <1>2, <1>3, <1>4, <2>1 DEF LocksTell, builder
  <2>5. InsertsTell' /\ AgainTells'
    BY <1>5, <2>1 DEF InsertsTell, AgainTells, builder
  <2> QED BY <2>2, <2>3, <2>4, <2>5
<1>7. CASE instrument' # instrument
  <2>1. instrument' = None /\ bars' = [id \in Ids |-> None] /\ rows' = {}
    BY <1>7, DeletesAll
  <2>2. TypeOK'
    BY <1>1, <2>1 DEF TypeOK, builder
  <2>3. NoOrphans'
    BY <2>1 DEF NoOrphans
  <2>4. \A id \in Ids : bars[id] # None => lock[id] \in {Admin, None}
    <3>1. bars[instrument] = None \/ lock[instrument] = Admin
      BY <1>7
    <3>2. \A id \in Ids : bars[id] # None => id = instrument
      BY DEF NoOrphans
    <3> QED BY <3>1, <3>2
  <2>5. LocksTell'
    BY <1>1, <1>2, <1>3, <1>4, <2>1, <2>4 DEF LocksTell, builder
  <2>6. InsertsTell'
    BY <1>4, <1>5, <2>1 DEF InsertsTell, Inserted, builder
  <2>7. AgainTells'
    <3>1. None \notin Ids
      BY DEF Ids
    <3>2. \A c \in Builders : pc'[c] # "idle" => event'[c].inst \in Ids
      BY <1>4 DEF builder
    <3> QED BY <2>1, <3>1, <3>2 DEF AgainTells
  <2> QED BY <2>2, <2>3, <2>5, <2>6, <2>7
<1> QED BY <1>6, <1>7

-----------------------------------------------------------------------------
LEMMA RefusedKeeps == ASSUME IInv, NEW b \in Builders, Refused(b) PROVE IInv'
<1>1. failures' \in 0..MaxFailures /\ refusals' \in Nat
  BY SMT DEF Refused, IInv, TypeOK
<1> QED BY <1>1, RollbackKeeps DEF Refused

LEMMA StepKeeps == ASSUME IInv, NEW b \in Builders, Step(b) PROVE IInv'
<1>1. CASE HandleEvent(b)
  BY <1>1, HandleEventKeeps
<1>2. CASE Get(b)
  <2>1. CASE Found(b)
    BY <1>2, <2>1, FoundKeeps DEF Get
  <2>2. CASE ~Found(b)
    BY <1>2, <2>2, MoveKeeps DEF Get
  <2> QED BY <2>1, <2>2
<1>3. CASE Create(b)
  BY <1>3, CreateKeeps
<1>4. CASE KeyTaken(b)
  BY <1>4, MoveKeeps DEF KeyTaken
<1>5. CASE GetAgain(b)
  <2>1. CASE Found(b)
    BY <1>5, <2>1, FoundKeeps DEF GetAgain
  <2>2. CASE ~Found(b)
    BY <1>5, <2>2, RefusedKeeps DEF GetAgain
  <2> QED BY <2>1, <2>2
<1>6. CASE Save(b)
  BY <1>6, SaveKeeps
<1>7. CASE Commit(b)
  BY <1>7, CommitKeeps
<1>8. CASE Orphaned(b)
  BY <1>8, RefusedKeeps DEF Orphaned
<1> QED BY <1>1, <1>2, <1>3, <1>4, <1>5, <1>6, <1>7, <1>8 DEF Step

LEMMA NextKeeps == IInv /\ [Next]_vars => IInv'
<1> SUFFICES ASSUME IInv, [Next]_vars PROVE IInv'
  OBVIOUS
<1>1. ASSUME NEW b \in Builders, Fail(b) PROVE IInv'
  <2>1. EndTransaction(b) /\ bars' = bars /\ failures' \in 0..MaxFailures
        /\ refusals' \in Nat
    BY <1>1, SMT DEF Fail, IInv, TypeOK
  <2> QED BY <2>1, RollbackKeeps
<1>2. CASE DeleteInstrument
  <2> USE <1>2 DEF DeleteInstrument, IInv
  <2>1. TypeOK' /\ NoOrphans'
    BY DEF TypeOK, NoOrphans, builder, ingest
  <2>2. LocksTell' /\ InsertsTell' /\ AgainTells'
    BY DEF LocksTell, InsertsTell, AgainTells, Inserted, builder
  <2> QED BY <2>1, <2>2
<1>3. CASE UNCHANGED vars
  <2> USE <1>3 DEF vars, builder, ingest, admin, IInv
  <2>1. TypeOK' /\ NoOrphans'
    BY DEF TypeOK, NoOrphans
  <2>2. LocksTell' /\ InsertsTell' /\ AgainTells'
    BY DEF LocksTell, InsertsTell, AgainTells, Inserted
  <2> QED BY <2>1, <2>2
<1> QED BY <1>1, <1>2, <1>3, StepKeeps, StartRoundKeeps, StoreRowKeeps, DeleteRowsKeeps,
           EndDeleteKeeps DEF Next

LEMMA Invariance == Spec => []IInv
  BY InitInv, NextKeeps, PTL DEF Spec

\* Every variable keeps its type; an open transaction has an event in hand.
THEOREM TypeCorrect == Spec => []TypeOK
<1>1. IInv => TypeOK
  BY DEF IInv
<1> QED BY <1>1, Invariance, PTL

\* No bar and no row of a round outlives its instrument, however its delete
\* interleaves with builders and rounds that store while the cascade runs.
THEOREM NothingOrphaned == Spec => []NoOrphans
<1>1. IInv => NoOrphans
  BY DEF IInv
<1> QED BY <1>1, Invariance, PTL

-----------------------------------------------------------------------------
(* The refinement *)

LEMMA LedgerInitOf == Init => Promise!LedgerInit
  BY DEF Init, Promise!LedgerInit, CurrentBar, Owed

\* What the ledger sees of a builder, and what it sees of its transaction's end.
LEMMA OwedIs ==
  ASSUME TypeOK
  PROVE  \A b \in Builders :
           IF pc[b] = "idle" THEN Owed[b] = None
           ELSE Owed[b] = event[b] /\ event[b] # None /\ event[b] \in Events
                /\ event[b].inst <= created
  BY DEF TypeOK, Owed

LEMMA Settles ==
  ASSUME TypeOK, NEW b \in Builders, EndTransaction(b)
  PROVE  Promise!Settle(b)
  BY DEF TypeOK, Owed, EndTransaction, Promise!Settle

LEMMA QuietSteps ==
  ASSUME TypeOK, UNCHANGED <<instrument, bars, event, failures, refusals>>,
         \A b \in Builders : pc'[b] = "idle" <=> pc[b] = "idle"
  PROVE  UNCHANGED Promise!ledger
<1>1. Owed' = Owed
  BY DEF Owed
<1>2. CurrentBar' = CurrentBar
  BY DEF CurrentBar
<1> QED BY <1>1, <1>2 DEF Promise!ledger

LEMMA HandleEventOf ==
  ASSUME IInv, NEW b \in Builders, HandleEvent(b)
  PROVE  \E x \in Prices : Promise!Owe(b, x)
<1> USE DEF IInv, HandleEvent, Known
<1> PICK x \in Prices : event' = [event EXCEPT ![b] = [inst |-> instrument, price |-> x]]
  OBVIOUS
<1>1. Owed' = [Owed EXCEPT ![b] = [inst |-> instrument, price |-> x]]
  BY DEF Owed, TypeOK
<1>2. Owed[b] = None /\ CurrentBar' = CurrentBar
  BY OwedIs DEF CurrentBar
<1> QED BY <1>1, <1>2 DEF Promise!Owe

LEMMA CommitOf ==
  ASSUME IInv, NEW b \in Builders, Commit(b) PROVE Promise!Apply(b)
<1> USE DEF IInv, Commit
<1>1. /\ instrument \in Ids /\ event[b].inst = instrument
      /\ written[b] = Updated(bars[instrument], event[b].price)
  BY CommitsUpdate
<1>0. instrument # None
  BY <1>1 DEF Ids
<1>2. Owed[b] = event[b] /\ event[b] # None
  BY OwedIs
<1>3. CurrentBar = bars[instrument] /\ CurrentBar' = written[b]
  BY <1>0, <1>1 DEF CurrentBar, EndTransaction, TypeOK
<1>4. Promise!Settle(b) /\ UNCHANGED <<instrument, failures, refusals>>
  BY Settles DEF EndTransaction
<1>5. \A r, x : Updated(r, x) = Promise!Updated(r, x)
  BY DEF Updated, Opened, Widened, Larger, Smaller, Promise!Updated, Promise!Opened,
         Promise!Widened, Promise!Larger, Promise!Smaller
<1> QED BY <1>1, <1>2, <1>3, <1>4, <1>5 DEF Promise!Apply

LEMMA RefusalOf ==
  ASSUME IInv, NEW b \in Builders, pc[b] # "idle", Refused(b), event[b].inst # instrument
  PROVE  Promise!Refuse(b)
<1> USE DEF IInv, Refused
<1>1. Owed[b] = event[b] /\ event[b] # None
  BY OwedIs
<1>2. CurrentBar' = CurrentBar /\ instrument' = instrument
  BY DEF CurrentBar, EndTransaction
<1> QED BY <1>1, <1>2, Settles DEF Promise!Refuse

LEMMA FailOf == ASSUME IInv, NEW b \in Builders, Fail(b) PROVE Promise!Fail(b)
<1> USE DEF IInv, Fail
<1>1. Owed[b] = event[b] /\ event[b] # None
  BY OwedIs
<1>2. CurrentBar' = CurrentBar /\ instrument' = instrument
  BY DEF CurrentBar, EndTransaction
<1> QED BY <1>1, <1>2, Settles DEF Promise!Fail

LEMMA StepOf ==
  ASSUME IInv, NEW b \in Builders, Step(b)
  PROVE  [Promise!LedgerNext]_(Promise!ledger)
<1> USE DEF IInv
<1>1. CASE HandleEvent(b)
  BY <1>1, HandleEventOf DEF Promise!LedgerNext
<1>2. CASE Commit(b)
  BY <1>2, CommitOf DEF Promise!LedgerNext
<1>3. CASE Orphaned(b)
  BY <1>3, RefusalOf DEF Orphaned, Inserted, Promise!LedgerNext
<1>4. CASE GetAgain(b) /\ ~Found(b)
  <2>1. event[b].inst # instrument
    BY <1>4 DEF GetAgain, AgainTells
  <2> QED BY <1>4, <2>1, RefusalOf DEF GetAgain, Promise!LedgerNext
<1>5. CASE Get(b) \/ Create(b) \/ KeyTaken(b) \/ Save(b) \/ (GetAgain(b) /\ Found(b))
  <2>1. UNCHANGED <<instrument, bars, event, failures, refusals>> /\ pc[b] # "idle"
    BY <1>5 DEF Get, Create, KeyTaken, Save, GetAgain, Found
  <2>2. \E q \in {"create", "getagain", "save", "commit"} : pc' = [pc EXCEPT ![b] = q]
    BY <1>5 DEF Get, Create, KeyTaken, Save, GetAgain, Found
  <2>3. \A c \in Builders : pc'[c] = "idle" <=> pc[c] = "idle"
    BY <2>1, <2>2 DEF TypeOK
  <2> QED BY <2>1, <2>3, QuietSteps
<1> QED BY <1>1, <1>2, <1>3, <1>4, <1>5 DEF Step

LEMMA StartRoundOf ==
  ASSUME IInv, StartRound PROVE [Promise!LedgerNext]_(Promise!ledger)
<1> USE DEF IInv, StartRound
<1>1. Owed' = Owed
  BY DEF Owed, builder
<1>2. CASE UNCHANGED instrument
  BY <1>1, <1>2 DEF CurrentBar, Promise!ledger, builder
<1>3. CASE ~UNCHANGED instrument
  <2>1. instrument = None /\ instrument' = created + 1 /\ created + 1 \in Ids
    BY <1>3, SMT DEF TypeOK, Ids
  <2>2. None \notin Ids
    BY DEF Ids
  <2>3. CurrentBar' = None /\ CurrentBar = None
    BY <2>1, <2>2 DEF CurrentBar, NoOrphans
  <2>4. \A b \in Builders : Owed[b] # None => Owed[b].inst # created + 1
    <3>1. \A i \in Ids : i <= created => i # created + 1
      BY SMT DEF Ids, TypeOK
    <3>2. \A e \in Events : e.inst \in Ids
      BY DEF Events
    <3> QED BY <3>1, <3>2, OwedIs
  <2>5. Promise!Register(created + 1)
    BY <1>1, <2>1, <2>3, <2>4 DEF Promise!Register, builder
  <2> QED BY <2>1, <2>5 DEF Promise!LedgerNext
<1> QED BY <1>2, <1>3

LEMMA EndDeleteOf ==
  ASSUME IInv, EndDelete PROVE [Promise!LedgerNext]_(Promise!ledger)
<1> USE DEF IInv
<1>1. UNCHANGED <<Owed, failures, refusals>>
  BY DEF EndDelete, builder, Owed
<1>2. CASE instrument' = instrument
  BY <1>1, <1>2 DEF EndDelete, TypeOK, CurrentBar, Promise!ledger
<1>3. CASE instrument' # instrument
  <2>1. instrument' = None /\ instrument # None
    BY <1>3, DeletesAll DEF EndDelete, TypeOK
  <2>2. Promise!Delete
    BY <1>1, <2>1 DEF CurrentBar, Promise!Delete
  <2> QED BY <2>2 DEF Promise!LedgerNext
<1> QED BY <1>2, <1>3

LEMMA NextOf ==
  IInv /\ [Next]_vars => [Promise!LedgerNext]_(Promise!ledger)
<1> SUFFICES ASSUME IInv, [Next]_vars PROVE [Promise!LedgerNext]_(Promise!ledger)
  OBVIOUS
<1>1. ASSUME NEW b \in Builders, Fail(b) PROVE Promise!LedgerNext
  BY <1>1, FailOf DEF Promise!LedgerNext
<1>2. CASE (\E r \in 1..MaxRounds : StoreRow(r)) \/ DeleteRows \/ DeleteInstrument
           \/ UNCHANGED vars
  <2>1. UNCHANGED <<instrument, bars, builder>>
    BY <1>2 DEF StoreRow, DeleteRows, DeleteInstrument, vars
  <2> QED BY <2>1, QuietSteps DEF builder, IInv
<1> QED BY <1>1, <1>2, StepOf, StartRoundOf, EndDeleteOf DEF Next

\* The interleaved transactions of _update_bar implement its atomic update, whoever
\* else is at the bar or deletes its instrument.
THEOREM Implementation == Spec => ImplementsLedger
  BY LedgerInitOf, NextOf, Invariance, PTL DEF Spec, ImplementsLedger, Promise!LedgerSpec
=============================================================================

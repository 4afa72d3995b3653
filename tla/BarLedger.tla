----------------------------- MODULE BarLedger -----------------------------
(***************************************************************************)
(* What _update_bar promises of the OHLC bar of one instrument, interval   *)
(* and bucket: each price that a builder takes is folded into the bar as   *)
(* it then is, in one step.  A price is only ever dropped because its      *)
(* builder fails or because the instrument it was taken for is deleted;    *)
(* two builders at the same bar are no reason.                             *)
(*                                                                         *)
(* It is the atomic UpdateBar of OhlcBuilder, for an instrument that may   *)
(* be deleted and registered again; BarRows shows how it is implemented.   *)
(***************************************************************************)
EXTENDS OhlcBar

CONSTANTS
  Builders,   \* the kafka-consumer processes
  Prices,     \* the mids of events
  Ids         \* the primary keys of Instrument rows

VARIABLES
  instrument, \* the id of the instrument's row, or None
  bar,        \* its OHLCBar row, or None
  owed,       \* per builder: the price in hand and the instrument it is for, or None
  failures,   \* how many builders died, or failed, with a price in hand
  refusals    \* how many ended because the instrument of their price is gone

ledger == <<instrument, bar, owed, failures, refusals>>

LedgerInit ==
  /\ instrument = None /\ bar = None
  /\ owed = [b \in Builders |-> None]
  /\ failures = 0 /\ refusals = 0

Settle(b) == owed' = [owed EXCEPT ![b] = None]

Owe(b, x) ==
  /\ owed[b] = None /\ instrument # None
  /\ owed' = [owed EXCEPT ![b] = [inst |-> instrument, price |-> x]]
  /\ UNCHANGED <<instrument, bar, failures, refusals>>

Apply(b) ==
  /\ owed[b] # None /\ owed[b].inst = instrument
  /\ bar' = Updated(bar, owed[b].price)
  /\ Settle(b)
  /\ UNCHANGED <<instrument, failures, refusals>>

\* The instrument it was for is gone; another may bear its symbol by now.  The error
\* ends the builder.
Refuse(b) ==
  /\ owed[b] # None /\ owed[b].inst # instrument
  /\ Settle(b)
  /\ refusals' = refusals + 1
  /\ UNCHANGED <<instrument, bar, failures>>

Fail(b) ==
  /\ owed[b] # None
  /\ Settle(b)
  /\ failures' = failures + 1
  /\ UNCHANGED <<instrument, bar, refusals>>

Delete ==
  /\ instrument # None
  /\ instrument' = None /\ bar' = None
  /\ UNCHANGED <<owed, failures, refusals>>

\* A new row, of which nothing is owed yet.
Register(id) ==
  /\ instrument = None
  /\ \A b \in Builders : owed[b] # None => owed[b].inst # id
  /\ instrument' = id
  /\ UNCHANGED <<bar, owed, failures, refusals>>

LedgerNext ==
  \/ Delete
  \/ \E id \in Ids : Register(id)
  \/ \E b \in Builders : Apply(b) \/ Refuse(b) \/ Fail(b) \/ \E x \in Prices : Owe(b, x)

LedgerSpec == LedgerInit /\ [][LedgerNext]_ledger
=============================================================================

----------------------------- MODULE OhlcLedger -----------------------------
(***************************************************************************)
(* OhlcBuilder implements BarLedger, for the bar of each interval and      *)
(* bucket at once.  BarRows implements it as well, statement by statement: *)
(* between them the ledger says what an UpdateBar may be taken for.        *)
(***************************************************************************)
EXTENDS OhlcBuilder

Prices == {c.price : c \in Payloads}

\* A price in hand, and the instrument that it is for.
Debts == [inst : {1}, price : Int]
ASSUME DebtsAssumption == None \notin Debts

\* The instrument is there, under the same id, from the first start of a builder on.
TheInstrument == IF starts = 0 THEN None ELSE 1

\* Builder b is still to fold its event into the bar of interval k that starts at t.
Owes(b, k, t) ==
  pc[b] = "bars" /\ step[b] <= k /\ Bucket(k, Delivery(cur[b]).ts) = t

OwedTo(k, t) ==
  [b \in Builders |->
     IF Owes(b, k, t) THEN [inst |-> 1, price |-> Delivery(cur[b]).price] ELSE None]

\* The deliveries of the bar that are neither folded into it nor in hand.
Dropped(k, t) ==
  {d \in DOMAIN delivered : /\ Bucket(k, Delivery(d).ts) = t /\ d \notin applied[k]
                            /\ \A b \in Builders : Owes(b, k, t) => cur[b] # d}

\* The starts of the bars of interval k.
Buckets(k) == {Bucket(k, ts) : ts \in Times}

Ledger(k, t) == INSTANCE BarLedger WITH
  Ids        <- {1},
  instrument <- TheInstrument,
  bar        <- bars[k][t],
  owed       <- OwedTo(k, t),
  failures   <- Cardinality(Dropped(k, t)),
  refusals   <- 0

\* Each builder folds the price of an event it takes into each of the bars it is
\* for, once and as the bar then is: no other builder, no restart, rebalance or
\* expulsion takes the price from it or changes the bar.  Only a builder that raises
\* or dies drops a price, one of a bar for each time.
\* (Of each bar, the first two conjuncts are Ledger(k, t)!LedgerSpec.)
ImplementsLedger ==
  /\ \A k \in Intervals : \A t \in Buckets(k) : Ledger(k, t)!LedgerInit
  /\ [][\A k \in Intervals : \A t \in Buckets(k) :
          [Ledger(k, t)!LedgerNext]_(Ledger(k, t)!ledger)]_vars
  /\ [](\A k \in Intervals : \A t \in Buckets(k) : Cardinality(Dropped(k, t)) <= aborts)
=============================================================================

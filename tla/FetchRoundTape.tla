--------------------------- MODULE FetchRoundTape ---------------------------
(***************************************************************************)
(* FetchRound implements Tape: what the workers do to the price rows, the  *)
(* cache and the channel group is what rounds may do there.                *)
(***************************************************************************)
EXTENDS FetchRound

\* Of a ConsolidatedPrice row, what Tape tells apart.
RowOf(p) == [round |-> p.round, inst |-> p.inst, ts |-> p.ts]

StoredRows == {RowOf(p) : p \in prices}

EntryOf(e) ==
  IF e = None THEN None ELSE [price |-> RowOf(e.price), expires |-> e.expires]
CachedRows == [i \in Instruments |-> EntryOf(cache[i])]

RowsOf(s) == [k \in DOMAIN s |-> RowOf(s[k])]
SentRows  == [i \in Instruments |-> RowsOf(feed[i])]

\* The rows that workers have in hand at a point of the loop.
InHand(point) == {RowOf(cp[w]) : w \in {v \in Workers : pc[v] = point}}

Promise == INSTANCE Tape WITH
  Rounds   <- 0..MaxRounds,
  rows     <- StoredRows,
  cache    <- CachedRows,
  feed     <- SentRows,
  uncached <- InHand("cache"),
  unsent   <- InHand("broadcast")

\* Every step of the workers and of their environment is a step of Tape, or
\* leaves rows, cache, channel group and clock alone: no failure, no crash and no
\* other round makes a worker cache or announce what is not the row it stored.
ImplementsTape == Promise!TapeSpec
=============================================================================

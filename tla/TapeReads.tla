----------------------------- MODULE TapeReads -----------------------------
(***************************************************************************)
(* What the web process reads off the tape while the rounds write it: the  *)
(* latest price (views.py) and the rolling statistics (stats.py).  Both    *)
(* are queries without a state of their own; `now` is when they run.       *)
(* mid_stdev, computed in floating point, is left out.                     *)
(***************************************************************************)
EXTENDS FetchRoundTape

CONSTANT AskedWindows   \* what clients pass as ?window=, in ticks

ASSUME WindowsAssumption == AskedWindows \subseteq Int

\* order_by("-timestamp").first(): one of the rows with the latest timestamp.
Latest(i) == {p \in PricesOf(i) : \A o \in PricesOf(i) : o.ts <= p.ts}

\* RollingStatsView: the window in force, from one tick to a day.
Clamped(window) == IF window < 1 THEN 1 ELSE IF window > 86400 THEN 86400 ELSE window

\* Faulty variant: timestamp__gt.
Window_Open(i, ticks) == {p \in PricesOf(i) : p.ts > now - ticks}
\* The rows of the last `ticks` of the tape.
Window(i, ticks) == {p \in PricesOf(i) : p.ts >= now - ticks}

\* Mids over one denominator, a multiple of those of rounds of up to three quotes.
ScaledMid(p) == p.book.mid * (12 \div p.book.den)
\* The spread of a book in basis points of its mid, rounded down.
SpreadBps(p) == ((p.book.ask - p.book.bid) * 10000) \div p.book.mid

\* compute_rolling_stats; of the two averages, sum and number of the samples.
\* `last` may be the mid of any of the latest rows.
RollingStats(i, ticks) ==
  LET W      == Window(i, ticks)
      mids   == {ScaledMid(p) : p \in W}
      spread == {p \in W : p.book.mid > 0}
  IN  [ samples |-> Cardinality(W),
        last    |-> {ScaledMid(p) : p \in {q \in W : \A o \in W : o.ts <= q.ts}},
        sum     |-> MapThenSumSet(ScaledMid, W),
        min     |-> IF W = {} THEN None ELSE Min(mids),
        max     |-> IF W = {} THEN None ELSE Max(mids),
        spreads |-> Cardinality(spread),
        bps     |-> MapThenSumSet(SpreadBps, spread) ]

-----------------------------------------------------------------------------
(* Properties *)

AllIdle == \A w \in Workers : pc[w] = "idle"

\* "cache for last mid-price": while no round is running, a cached snapshot is
\* what /api/quotes/latest/ answers from the tape.
CacheIsLatest ==
  AllIdle => \A i \in Instruments : Cached(i) # None => Cached(i) \in Latest(i)

\* At any moment, between any two steps of the rounds, the statistics of any
\* window agree with the tape's other readers and with what rounds promise:
\* each round of the window weighs once, the last mid is the one that
\* /api/quotes/latest/ answers as long as that one is within the window, the
\* averages stay within the extremes, and every sample has a spread, not negative.
StatsTellTape ==
  \A i \in Instruments, window \in AskedWindows :
    LET ticks == Clamped(window)
        s     == RollingStats(i, ticks)
        lately == {p \in Latest(i) : now - p.ts <= ticks}
    IN  /\ s.samples = Cardinality({r \in 1..MaxRounds :
                         \E p \in PricesOf(i) : p.round = r /\ now - p.ts <= ticks})
        /\ s.last = {ScaledMid(p) : p \in lately}
        /\ s.samples > 0 => /\ s.min * s.samples <= s.sum /\ s.sum <= s.max * s.samples
                            /\ s.last \subseteq s.min..s.max
        /\ s.spreads = s.samples /\ s.bps >= 0
=============================================================================

----------------------------- MODULE Aggregator -----------------------------
(***************************************************************************)
(* The pure functions of apps/pricing/aggregator.py: what one polling      *)
(* round of an instrument makes of the quotes of the venues.               *)
(*                                                                         *)
(* A quote is a record with at least the fields source, bid, ask, ts.      *)
(* Venues are numbered in the order all_clients() polls them (1 binance,   *)
(* 2 coinbase, 3 kraken), and a round holds at most one quote of a venue,  *)
(* so the list round_quotes is the set of its quotes: nothing is lost and  *)
(* the list order is the order of `source`.                                *)
(*                                                                         *)
(* Decimals are exact.  A consolidated book is given by numerators over a  *)
(* common denominator den, so that halves and thirds stay integers.        *)
(***************************************************************************)
EXTENDS Integers, FiniteSets, FiniteSetsExt

\* `q.bid > 0 and q.ask > 0`, the filter of both functions.
Positive(q) == q.bid > 0 /\ q.ask > 0

\* _is_fresh: the age of q at time t is at most maxAge.
IsFresh(q, t, maxAge) == t - q.ts <= maxAge

\* The quotes that consolidate() works on, positive and through the staleness gate,
\* when the clock does not move on meanwhile; FetchRound reads it for each quote.
Candidates(Q, t, maxAge) == {q \in Q : Positive(q) /\ IsFresh(q, t, maxAge)}

BestBid(C) == Max({q.bid : q \in C})
BestAsk(C) == Min({q.ask : q \in C})
\* Faulty variant: a locked book (bid = ask) counts as crossed.
Crossed_Locked(C) == BestBid(C) >= BestAsk(C)
Crossed(C) == BestBid(C) > BestAsk(C)

TwiceMid(q) == q.bid + q.ask
Sources(C)  == {q.source : q \in C}

\* Faulty variant: the fallback keeps the crossed bid and ask.
Consolidated_Unclamped(C) ==
  LET den == IF Crossed(C) THEN 2 * Cardinality(C) ELSE 2
  IN  [ mid |-> IF Crossed(C) THEN MapThenSumSet(TwiceMid, C)
                             ELSE BestBid(C) + BestAsk(C),
        bid |-> BestBid(C) * den, ask |-> BestAsk(C) * den,
        den |-> den, sources |-> Sources(C) ]

\* Faulty variant: the fallback divides the sum by one venue too few.
Consolidated_WrongMean(C) ==
  LET den == IF Crossed(C) /\ Cardinality(C) > 1 THEN 2 * (Cardinality(C) - 1) ELSE 2
  IN  [ mid |-> IF Crossed(C) THEN MapThenSumSet(TwiceMid, C)
                             ELSE BestBid(C) + BestAsk(C),
        bid |-> BestBid(C) * den, ask |-> BestAsk(C) * den,
        den |-> den, sources |-> Sources(C) ]

\* consolidate() when there are candidates (C # {}); it returns None otherwise.
\* Crossed: the mid of the mids, clamped into the book from both sides.
Consolidated(C) ==
  LET den == IF Crossed(C) THEN 2 * Cardinality(C) ELSE 2
      mid == IF Crossed(C) THEN MapThenSumSet(TwiceMid, C)
                           ELSE BestBid(C) + BestAsk(C)
      bid == BestBid(C) * den
      ask == BestAsk(C) * den
  IN  [ mid |-> mid,
        bid |-> IF Crossed(C) /\ mid < bid THEN mid ELSE bid,
        ask |-> IF Crossed(C) /\ mid > ask THEN mid ELSE ask,
        den |-> den,
        sources |-> Sources(C) ]

-----------------------------------------------------------------------------
\* A pair of venues to buy on and to sell on, with a positive spread.
Crossings(Q) ==
  { p \in [buy : Q, sell : Q] :
      /\ Positive(p.buy) /\ Positive(p.sell)
      /\ p.buy.source # p.sell.source
      /\ p.sell.bid - p.buy.ask > 0 }

Spread(p) == p.sell.bid - p.buy.ask

\* The order in which the two nested loops visit the pairs.
VisitedBefore(p, o) ==
  \/ p.buy.source < o.buy.source
  \/ p.buy.source = o.buy.source /\ p.sell.source < o.sell.source

\* Faulty variant: the first crossing found, not the widest.
Widest_First(P) == CHOOSE p \in P : \A o \in P \ {p} : VisitedBefore(p, o)

\* `best is None or arb.spread > best.spread`: the first of the widest pairs.
Widest(P) ==
  CHOOSE p \in P : \A o \in P \ {p} :
    Spread(p) > Spread(o) \/ (Spread(p) = Spread(o) /\ VisitedBefore(p, o))

\* detect_arbitrage() when there are crossings; it returns None otherwise.
\* spread_bps is kept in whole basis points, rounded down.
Arbitrage(Q) ==
  LET p == Widest(Crossings(Q))
  IN  [ buy_venue  |-> p.buy.source,  buy_price  |-> p.buy.ask,
        sell_venue |-> p.sell.source, sell_price |-> p.sell.bid,
        spread     |-> Spread(p),
        spread_bps |-> (Spread(p) * 20000) \div (p.buy.ask + p.sell.bid) ]
=============================================================================

---------------------------- MODULE AggregatorMC ----------------------------
(***************************************************************************)
(* Enumerates the rounds the aggregator can be given: each venue in turn   *)
(* fails or adds a quote with some book and age.  Every reachable value of *)
(* Q is one input of consolidate() and detect_arbitrage(); the invariants  *)
(* compare their results with what the functions promise.                  *)
(***************************************************************************)
EXTENDS Aggregator

CONSTANTS Venues,    \* number of venues
          MaxPrice,  \* prices are 0 .. MaxPrice (0: a quote to be dropped)
          MaxAge

ASSUME BoundsAssumption == Venues \in Nat /\ MaxPrice \in Nat /\ MaxAge \in Nat

VARIABLES venue, Q
vars == <<venue, Q>>

Now  == MaxAge + 1
Ages == {MaxAge, MaxAge + 1}   \* the oldest fresh quote, the youngest stale one

Init == venue = 1 /\ Q = {}

FetchFails == venue <= Venues /\ venue' = venue + 1 /\ UNCHANGED Q

FetchSucceeds ==
  /\ venue <= Venues
  /\ \E bid, ask \in 0..MaxPrice, age \in Ages :
       Q' = Q \cup {[source |-> venue, bid |-> bid, ask |-> ask, ts |-> Now - age]}
  /\ venue' = venue + 1

Next == FetchFails \/ FetchSucceeds
Spec == Init /\ [][Next]_vars

-----------------------------------------------------------------------------
Cand == Candidates(Q, Now, MaxAge)
Book == Consolidated(Cand)

Soundly(q) == q.bid <= q.ask   \* the venue's own book is not crossed

\* Even when the venues' books cross, the published book is ordered around its mid:
\* the mid-of-mids fallback of consolidate() never quotes a bid above or an ask below
\* it.  And on either branch the mid is within the candidate venues' own mids.
BookWithinVenues ==
  Cand # {} =>
    /\ Book.bid <= Book.mid /\ Book.mid <= Book.ask
    /\ \E q \in Cand : TwiceMid(q) * Book.den <= 2 * Book.mid
    /\ \E q \in Cand : TwiceMid(q) * Book.den >= 2 * Book.mid

\* The two functions agree: when every quote is fresh and no venue crosses
\* itself, an arbitrage is recorded exactly when consolidate() takes its
\* fallback, and it buys at the best ask and sells at the best bid.
ArbitrageIsTheCross ==
  (Cand # {} /\ Cand = {q \in Q : Positive(q)} /\ \A q \in Cand : Soundly(q)) =>
    /\ Crossed(Cand) <=> Crossings(Q) # {}
    /\ Crossed(Cand) => LET a == Arbitrage(Q)
                        IN  /\ a.buy_price = BestAsk(Cand)
                            /\ a.sell_price = BestBid(Cand)

\* The opportunity detect_arbitrage() returns is the largest there is, pairs
\* two different venues, and its spread in basis points stays below 20000,
\* far inside the numeric(12,4) column of ArbitrageOpportunity.spread_bps.
ArbitrageLargest ==
  Crossings(Q) # {} =>
    LET a == Arbitrage(Q)
    IN  /\ a.spread > 0 /\ a.buy_venue # a.sell_venue
        /\ 0 <= a.spread_bps /\ a.spread_bps < 20000
        /\ \A q, r \in Q : (q.source # r.source /\ q.ask > 0 /\ r.bid > 0
                              /\ q.bid > 0 /\ r.ask > 0) => r.bid - q.ask <= a.spread
=============================================================================

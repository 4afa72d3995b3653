----------------------------- MODULE FetchRound -----------------------------
(***************************************************************************)
(* The ingest path: Celery Beat dispatches fetch_quotes, worker processes  *)
(* execute it (apps/pricing/tasks.py).  Rounds overlap when a round takes  *)
(* longer than FETCH_INTERVAL_SECONDS, because several worker processes    *)
(* consume the queue and nothing excludes them.                            *)
(*                                                                         *)
(* One action per call that leaves the worker process (database, HTTP,     *)
(* Kafka producer, Redis) and per reading of the clock in the staleness    *)
(* gate; the pure code between two calls belongs to the action before it.  *)
(* Numbers stand for the instruments' symbols in their alphabetical order  *)
(* (Instrument.Meta.ordering) and for the venues in the order of           *)
(* all_clients().  Ticks of `now` may fall between any two actions.        *)
(***************************************************************************)
EXTENDS Aggregator, Sequences

CONSTANTS
  Workers,         \* the Celery worker processes
  NumClients,      \* number of exchange clients
  NumInstruments,  \* number of symbols in settings.INSTRUMENTS
  Books,           \* the [bid, ask] pairs an exchange may answer
  MaxAge,          \* settings.MAX_QUOTE_AGE_SECONDS
  CacheTTL,        \* the timeout of the cached snapshot
  Faults,          \* which of "db", "redis", "crash" may happen
  MaxRounds,       \* bound: rounds that Beat dispatches
  MaxTime,         \* bound: ticks of the clock
  None             \* Python's None

ASSUME CountsAssumption == /\ NumClients \in Nat \ {0}
                           /\ NumInstruments \in Nat
                           /\ MaxRounds \in Nat
                           /\ MaxTime \in Nat
ASSUME TimesAssumption  == MaxAge \in Nat /\ CacheTTL \in Nat
ASSUME BooksAssumption  == Books \subseteq [bid : Int, ask : Int]

Instruments == 1..NumInstruments
Clients     == 1..NumClients

VARIABLES
  now,
  dispatched, started,   \* fetch_quotes messages sent by Beat, and taken from the queue
  registered, active,    \* Instrument rows, and those with is_active
  quotes, prices, arbs,  \* rows of Quote, ConsolidatedPrice, ArbitrageOpportunity
  cache,                 \* Redis: pricestream:mid:<symbol>, with its expiry
  feed,                  \* what was sent to the channel group quotes.<symbol>
  published,             \* the quotes the Kafka producer accepted
  metrics,               \* per worker process: its own prometheus_client registry
  done,                  \* history: the rounds that returned, and when
  alongside,             \* history: <<r, s>> when r was running as s started
  pc, round, todo, inst, client, held, cp,  \* per worker: the locals of fetch_quotes
  checked, candidates    \* per worker: the quotes that consolidate() has looked at
                         \* so far, and those it has kept

env     == <<now, dispatched, started, alongside, registered, active>>
tables  == <<quotes, prices, arbs>>
outputs == <<cache, feed, published>>
gate    == <<checked, candidates>>
frame   == <<round, todo, inst, client, held, cp, gate>>
vars == <<env, tables, outputs, metrics, done, pc, frame>>

Counters == [fetched : Nat, failed : Nat, consolidated : Nat,
             arbitrage : Nat, published : Nat, publish_failed : Nat]
NoCounts == [fetched |-> 0, failed |-> 0, consolidated |-> 0,
             arbitrage |-> 0, published |-> 0, publish_failed |-> 0]

PricesOf(i) == {p \in prices : p.inst = i}
RoundQuotes(r, i) == {q \in quotes : q.round = r /\ q.inst = i}
Pending == dispatched - started

Init ==
  /\ now = 0 /\ dispatched = 0 /\ started = 0
  /\ registered = {} /\ active = {}
  /\ quotes = {} /\ prices = {} /\ arbs = {}
  /\ cache = [i \in Instruments |-> None]
  /\ feed = [i \in Instruments |-> << >>]
  /\ published = {}
  /\ metrics = [p \in Workers |-> NoCounts]
  /\ done = {} /\ alongside = {}
  /\ pc = [w \in Workers |-> "idle"]
  /\ round = [w \in Workers |-> 0]
  /\ todo = [w \in Workers |-> {}]
  /\ inst = [w \in Workers |-> 0]
  /\ client = [w \in Workers |-> 1]
  /\ held = [w \in Workers |-> {}]
  /\ cp = [w \in Workers |-> None]
  /\ checked = [w \in Workers |-> {}]
  /\ candidates = [w \in Workers |-> {}]

-----------------------------------------------------------------------------
(* The environment of the workers *)

\* CELERY_BEAT_SCHEDULE: one more fetch_quotes message, whatever the workers do.
Beat ==
  /\ dispatched < MaxRounds
  /\ dispatched' = dispatched + 1
  /\ UNCHANGED <<now, started, alongside, registered, active, tables, outputs,
                 metrics, done, pc, frame>>

Tick ==
  /\ now < MaxTime
  /\ now' = now + 1
  /\ UNCHANGED <<dispatched, started, alongside, registered, active, tables,
                 outputs, metrics, done, pc, frame>>

\* An operator flips is_active in the admin.
AdminToggle ==
  /\ \E i \in registered :
       active' = IF i \in active THEN active \ {i} ELSE active \cup {i}
  /\ UNCHANGED <<now, dispatched, started, alongside, registered, tables, outputs,
                 metrics, done, pc, frame>>

-----------------------------------------------------------------------------
(* Control flow of fetch_quotes *)

\* The locals of consolidate() are gone.
LeaveGate(w) ==
  /\ checked' = [checked EXCEPT ![w] = {}]
  /\ candidates' = [candidates EXCEPT ![w] = {}]

\* The function has returned or raised: its locals are gone.
Forget(w) ==
  /\ pc' = [pc EXCEPT ![w] = "idle"]
  /\ todo' = [todo EXCEPT ![w] = {}]
  /\ inst' = [inst EXCEPT ![w] = 0]
  /\ client' = [client EXCEPT ![w] = 1]
  /\ held' = [held EXCEPT ![w] = {}]
  /\ cp' = [cp EXCEPT ![w] = None]
  /\ LeaveGate(w)

\* Faulty variant: an instrument is not taken off the rows left.
Without_Keeps(rest, i) == rest
Without(rest, i) == rest \ {i}

\* The head of the `for instrument` loop of round r, rest being the rows left.
NextInstrument(w, r, rest) ==
  \/ /\ rest = {}
     /\ done' = done \cup {[round |-> r, ts |-> now]}
     /\ Forget(w)
  \/ /\ \E i \in rest :
          /\ \A j \in rest : i <= j
          /\ inst' = [inst EXCEPT ![w] = i]
          /\ todo' = [todo EXCEPT ![w] = Without(rest, i)]
     /\ pc' = [pc EXCEPT ![w] = "fetch"]
     /\ client' = [client EXCEPT ![w] = 1]
     /\ held' = [held EXCEPT ![w] = {}]
     /\ cp' = [cp EXCEPT ![w] = None]
     /\ LeaveGate(w)
     /\ UNCHANGED done

\* Faulty variant: one client too many.
MoreClients_OffByOne(w) == client[w] <= NumClients
MoreClients(w) == client[w] < NumClients

\* The head of the `for client` loop.
NextClient(w) ==
  IF MoreClients(w)
    THEN /\ client' = [client EXCEPT ![w] = @ + 1]
         /\ pc' = [pc EXCEPT ![w] = "fetch"]
    ELSE /\ pc' = [pc EXCEPT ![w] = "consolidate"]
         /\ UNCHANGED client

\* Instrument.objects.bulk_create(..., ignore_conflicts=True): missing rows are
\* inserted with the default is_active=True, existing ones are left alone.
RegisterInstruments ==
  /\ registered' = Instruments
  /\ active' = active \cup (Instruments \ registered)

\* Faulty variant: while every instrument is inactive no message is taken.
MessageWaits_NeedsActive == started < dispatched /\ (registered = {} \/ active # {})
MessageWaits == started < dispatched

\* A worker takes the next message (acknowledged on receipt) and registers the
\* instruments.
StartRound(w) ==
  /\ pc[w] = "idle" /\ MessageWaits
  /\ started' = started + 1
  /\ RegisterInstruments
  /\ round' = [round EXCEPT ![w] = started + 1]
  /\ alongside' = alongside \cup
                     {<<round[v], started + 1>> : v \in {u \in Workers : pc[u] # "idle"}}
  /\ pc' = [pc EXCEPT ![w] = "select"]
  /\ UNCHANGED <<now, dispatched, tables, outputs, metrics, done, todo, inst, client,
                 held, cp, gate>>

\* The loop evaluates the queryset of the active instruments, once.
ReadActive(w) ==
  /\ pc[w] = "select"
  /\ NextInstrument(w, round[w], active)
  /\ UNCHANGED <<env, tables, outputs, metrics, round>>

\* bulk_create raises, before or after the database has committed: the message is spent.
StartRoundFails(w) ==
  /\ "db" \in Faults
  /\ pc[w] = "idle" /\ started < dispatched
  /\ started' = started + 1
  /\ RegisterInstruments \/ UNCHANGED <<registered, active>>
  /\ UNCHANGED <<now, dispatched, alongside, tables, outputs, metrics, done, pc, frame>>

\* client.fetch() returned None: an HTTP error, a timeout, an unusable answer.
FetchFails(w) ==
  /\ pc[w] = "fetch"
  /\ metrics' = [metrics EXCEPT ![w].failed = @ + 1]
  /\ NextClient(w)
  /\ UNCHANGED <<env, tables, outputs, done, round, todo, inst, held, cp, gate>>

\* client.fetch() answered: Quote.objects.create, round_quotes.append, count.
FetchSucceeds(w) ==
  /\ pc[w] = "fetch"
  /\ \E b \in Books :
       LET q == [round |-> round[w], inst |-> inst[w], source |-> client[w],
                 bid |-> b.bid, ask |-> b.ask, ts |-> now]
       IN  /\ quotes' = quotes \cup {q}
           /\ held' = [held EXCEPT ![w] = @ \cup {q}]
  /\ metrics' = [metrics EXCEPT ![w].fetched = @ + 1]
  /\ pc' = [pc EXCEPT ![w] = "publish"]
  /\ UNCHANGED <<env, prices, arbs, outputs, done, round, todo, inst, client, cp,
                 gate>>

\* _publish_to_kafka: the producer takes the quote just stored ...
PublishQuote(w) ==
  /\ pc[w] = "publish"
  /\ \E q \in held[w] : q.source = client[w] /\ published' = published \cup {q}
  /\ metrics' = [metrics EXCEPT ![w].published = @ + 1]
  /\ NextClient(w)
  /\ UNCHANGED <<env, tables, cache, feed, done, round, todo, inst, held, cp, gate>>

\* Faulty variant: the failure is swallowed without being counted.
PublishFails_Uncounted(w) ==
  /\ pc[w] = "publish"
  /\ NextClient(w)
  /\ UNCHANGED <<env, tables, outputs, metrics, done, round, todo, inst, held, cp, gate>>

\* ... or produce() raises (local queue full, no librdkafka): counted, not raised.
PublishFails(w) ==
  /\ pc[w] = "publish"
  /\ metrics' = [metrics EXCEPT ![w].publish_failed = @ + 1]
  /\ NextClient(w)
  /\ UNCHANGED <<env, tables, outputs, done, round, todo, inst, held, cp, gate>>

\* Faulty variant: no staleness gate.
Kept_Ungated(w, q) == TRUE
\* Faulty variant: the gate drops the oldest fresh quotes too.
Kept_Strict(w, q) == now - q.ts < MaxAge
\* _is_fresh, which asks for the time anew for each quote.
Kept(w, q) == IsFresh(q, now, MaxAge)

\* The quotes that consolidate() has still to ask the age of.
Unchecked(w) == {q \in held[w] : Positive(q)} \ checked[w]

\* One iteration of the comprehension over round_quotes: the next positive quote.
CheckQuote(w) ==
  /\ pc[w] = "consolidate"
  /\ \E q \in Unchecked(w) :
       /\ \A o \in Unchecked(w) : q.source <= o.source
       /\ checked' = [checked EXCEPT ![w] = @ \cup {q}]
       /\ candidates' = [candidates EXCEPT ![w] = IF Kept(w, q) THEN @ \cup {q} ELSE @]
  /\ UNCHANGED <<env, tables, outputs, metrics, done, pc, round, todo, inst, client,
                 held, cp>>

\* Faulty variant: the round waits for the quote of a second venue.
Enough_Two(C) == Cardinality(C) >= 2
Enough(C) == C # {}

\* consolidate(round_quotes) is None: `continue`, without arbitrage detection.
NoPrice(w) ==
  /\ pc[w] = "consolidate" /\ Unchecked(w) = {}
  /\ candidates[w] = {}
  /\ NextInstrument(w, round[w], todo[w])
  /\ UNCHANGED <<env, tables, outputs, metrics, round>>

\* ConsolidatedPrice.objects.create, stamped at this moment, and its counter.
WritePrice(w) ==
  /\ pc[w] = "consolidate" /\ Unchecked(w) = {}
  /\ Enough(candidates[w])
  /\ LET p == [round |-> round[w], inst |-> inst[w], ts |-> now,
               book |-> Consolidated(candidates[w])]
     IN  prices' = prices \cup {p} /\ cp' = [cp EXCEPT ![w] = p]
  /\ metrics' = [metrics EXCEPT ![w].consolidated = @ + 1]
  /\ pc' = [pc EXCEPT ![w] = "cache"]
  /\ LeaveGate(w)
  /\ UNCHANGED <<env, quotes, arbs, outputs, done, round, todo, inst, client, held>>

\* Faulty variant: cache.add, which keeps an entry that is still there.
CacheSet_Add(i, p) ==
  IF cache[i] # None /\ now < cache[i].expires THEN cache
  ELSE [cache EXCEPT ![i] = [price |-> p, expires |-> now + CacheTTL]]
\* Faulty variant: the snapshot is stamped with the time of caching.
CacheSet_Restamped(i, p) ==
  [cache EXCEPT ![i] = [price |-> [p EXCEPT !.ts = now], expires |-> now + CacheTTL]]
\* cache.set(..., timeout=60): unconditional, whatever is cached already.
CacheSet(i, p) == [cache EXCEPT ![i] = [price |-> p, expires |-> now + CacheTTL]]

SetCache(w) ==
  /\ pc[w] = "cache"
  /\ cache' = CacheSet(inst[w], cp[w])
  /\ pc' = [pc EXCEPT ![w] = "broadcast"]
  /\ UNCHANGED <<env, tables, feed, published, metrics, done, frame>>

\* Faulty variant: sent again after a timeout.
GroupSend_Retried(s, p) == s \o <<p, p>>
\* Faulty variant: an unchanged book is not sent.
GroupSend_SkipsUnchanged(s, p) ==
  IF s # << >> /\ s[Len(s)].book = p.book THEN s ELSE Append(s, p)
GroupSend(s, p) == Append(s, p)

\* _broadcast_ws: group_send to quotes.<symbol>.
Broadcast(w) ==
  /\ pc[w] = "broadcast"
  /\ feed' = [feed EXCEPT ![inst[w]] = GroupSend(@, cp[w])]
  /\ pc' = [pc EXCEPT ![w] = "arbitrage"]
  /\ UNCHANGED <<env, tables, cache, published, metrics, done, frame>>

\* Faulty variant: the detection looks at every stored quote.
Detectable_AllQuotes(w) == quotes
\* Faulty variant: only the fresh quotes are looked at.
Detectable_Gated(w) == Candidates(held[w], now, MaxAge)
\* What detect_arbitrage is given: round_quotes, stale ones included.
Detectable(w) == held[w]

\* detect_arbitrage(round_quotes) is not None: the row, and its counter.
RecordArbitrage(w) ==
  /\ pc[w] = "arbitrage"
  /\ Crossings(Detectable(w)) # {}
  /\ arbs' = arbs \cup {[round |-> round[w], inst |-> inst[w], ts |-> now,
                         arb |-> Arbitrage(Detectable(w))]}
  /\ metrics' = [metrics EXCEPT ![w].arbitrage = @ + 1]
  /\ NextInstrument(w, round[w], todo[w])
  /\ UNCHANGED <<env, quotes, prices, outputs, round>>

NoArbitrage(w) ==
  /\ pc[w] = "arbitrage"
  /\ Crossings(Detectable(w)) = {}
  /\ NextInstrument(w, round[w], todo[w])
  /\ UNCHANGED <<env, tables, outputs, metrics, round>>

\* An exception of the database or of Redis leaves the task: nothing catches it,
\* nothing retries it, and the instruments left to do are skipped.
Raise(w) ==
  /\ \/ "db" \in Faults /\ pc[w] \in {"select", "fetch"}
     \/ "db" \in Faults /\ pc[w] = "consolidate" /\ Unchecked(w) = {} /\ candidates[w] # {}
     \/ "db" \in Faults /\ pc[w] = "arbitrage" /\ Crossings(Detectable(w)) # {}
     \/ "redis" \in Faults /\ pc[w] \in {"cache", "broadcast"}
  /\ Forget(w)
  /\ UNCHANGED <<env, tables, outputs, metrics, done, round>>

\* The process dies, at work or idle, and is replaced: its registry starts from zero.
Crash(w) ==
  /\ "crash" \in Faults
  /\ Forget(w)
  /\ metrics' = [metrics EXCEPT ![w] = NoCounts]
  /\ UNCHANGED <<env, tables, outputs, done, round>>

-----------------------------------------------------------------------------
\* What the worker does by itself: every one of its calls returns or fails.
Step(w) ==
  \/ StartRound(w) \/ ReadActive(w)
  \/ FetchFails(w) \/ FetchSucceeds(w)
  \/ PublishQuote(w) \/ PublishFails(w)
  \/ CheckQuote(w) \/ NoPrice(w) \/ WritePrice(w)
  \/ SetCache(w) \/ Broadcast(w)
  \/ RecordArbitrage(w) \/ NoArbitrage(w)

Fault(w) == StartRoundFails(w) \/ Raise(w) \/ Crash(w)

Next ==
  \/ Beat \/ Tick \/ AdminToggle
  \/ \E w \in Workers : Step(w) \/ Fault(w)

Spec == Init /\ [][Next]_vars

\* A live worker process keeps taking its next step: HTTP calls time out
\* (exchanges.DEFAULT_TIMEOUT), the others return or raise.
FairSpec == Spec /\ \A w \in Workers : WF_vars(Step(w))

-----------------------------------------------------------------------------
(* Properties *)

Quotes == [round : Nat, inst : Instruments, source : Clients,
           bid : Int, ask : Int, ts : Nat]
Row == [round : Nat, inst : Instruments, ts : Nat]
IsRow(x) == [round |-> x.round, inst |-> x.inst, ts |-> x.ts] \in Row

\* Within the loop a worker is at one of the instruments.
Running == \A w \in Workers : pc[w] \notin {"idle", "select"} => inst[w] \in Instruments

\* The type invariant: of a price or an arbitrage only the key is typed, the
\* rest is what TapeReproducible and ArbitrageReproducible say it is.
TypeOK ==
  /\ now \in 0..MaxTime
  /\ dispatched \in 0..MaxRounds /\ started \in 0..dispatched
  /\ registered \subseteq Instruments /\ active \subseteq registered
  /\ quotes \subseteq Quotes
  /\ \A p \in prices : IsRow(p)
  /\ \A a \in arbs : IsRow(a)
  /\ DOMAIN cache = Instruments /\ DOMAIN feed = Instruments
  /\ metrics \in [Workers -> Counters]
  /\ \A d \in done : d.round \in Nat /\ d.ts \in 0..now
  /\ pc \in [Workers -> {"idle", "select", "fetch", "publish", "consolidate", "cache",
                         "broadcast", "arbitrage"}]
  /\ round \in [Workers -> Nat]
  /\ todo \in [Workers -> SUBSET Instruments]
  /\ inst \in [Workers -> Instruments \cup {0}] /\ Running
  /\ client \in [Workers -> Clients]
  /\ held \in [Workers -> SUBSET Quotes] /\ DOMAIN cp = Workers
  /\ checked \in [Workers -> SUBSET Quotes]
  /\ candidates \in [Workers -> SUBSET Quotes]
  /\ alongside \subseteq Nat \X Nat

\* Everything that leaves the process is backed by a committed row of the same
\* instrument: the cached snapshot, each message of the channel group and each
\* event given to Kafka.  Postgres is the source of truth whatever round
\* overlaps, raises or dies in between.
BackedByRows ==
  /\ published \subseteq quotes
  /\ \A i \in Instruments :
       /\ cache[i] # None => cache[i].price \in PricesOf(i)
       /\ feed[i] \in Seq(PricesOf(i))

\* Every ConsolidatedPrice row can be recomputed from the Quote rows, up to what
\* the clock did between the gate and the row: it is the consolidation of quotes
\* that its own round stored for its instrument; each of these was positive and
\* still fresh when the last of them all was stored, and a positive quote that was
\* left out is stale at the row's timestamp.  No round mixes in a quote of another
\* round, of another worker or of the instrument before, and none is stored afterwards.
TapeReproducible ==
  \A p \in prices :
    LET Q == RoundQuotes(p.round, p.inst)
    IN  \E C \in SUBSET Q :
          /\ C # {} /\ p.book = Consolidated(C)
          /\ \A q \in C : Positive(q) /\ \A o \in Q : o.ts - q.ts <= MaxAge
          /\ \A q \in Q \ C : Positive(q) => p.ts - q.ts > MaxAge

\* The same for ArbitrageOpportunity rows: they name the widest crossing among
\* the quotes stored by their round for their instrument, and come with a price.
ArbitrageReproducible ==
  \A a \in arbs :
    LET Q == RoundQuotes(a.round, a.inst)
    IN  /\ Crossings(Q) # {} /\ a.arb = Arbitrage(Q)
        /\ \E p \in prices : p.round = a.round /\ p.inst = a.inst /\ p.ts <= a.ts

\* "so the consolidated tape never gaps": a round that returned has written a
\* price for every instrument it has quotes of, unless each of them was
\* unusable or had become stale by then.
TapeNeverGaps ==
  \A d \in done : \A i \in Instruments :
    \/ \E p \in prices : p.round = d.round /\ p.inst = i
    \/ \A q \in RoundQuotes(d.round, i) : Positive(q) => d.ts - q.ts > MaxAge

\* Rounds do not share anything: each running worker is at a round of its own,
\* which no row, and no returned round, of another worker bears.
RoundsApart ==
  /\ \A x \in quotes \cup prices \cup arbs \cup done : x.round <= started
  /\ \A x \in quotes \cup prices : x.ts <= now
  /\ \A w \in Workers : pc[w] # "idle" =>
       /\ round[w] <= started
       /\ \A d \in done : d.round # round[w]
       /\ \A v \in Workers \ {w} : pc[v] # "idle" => round[v] # round[w]

Priced(w) == pc[w] \in {"cache", "broadcast", "arbitrage"}

\* What consolidate() has made so far of the quotes of worker w: a quote it has
\* dropped is stale, one it has kept was fresh after all of them were stored.
AtGate(w) ==
  /\ candidates[w] \subseteq checked[w] /\ checked[w] \subseteq held[w]
  /\ checked[w] # {} => pc[w] = "consolidate"
  /\ \A q \in checked[w] : Positive(q)
  /\ \A q \in checked[w] \ candidates[w] : now - q.ts > MaxAge
  /\ \A q \in candidates[w], o \in held[w] : o.ts - q.ts <= MaxAge

\* Where worker w stands in its loop: the instruments in todo[w] are untouched,
\* held[w] is what is stored for the current one, and the others are dealt with.
InLoop(w) ==
  LET r == round[w]
      i == inst[w]
  IN  /\ i \notin todo[w]
      /\ held[w] = RoundQuotes(r, i)
      /\ \A q \in quotes : q.round = r => q.inst \notin todo[w]
      /\ \A p \in prices : p.round = r => p.inst \notin todo[w] /\ (p.inst = i => Priced(w))
      /\ \A a \in arbs : a.round = r => a.inst \notin todo[w] /\ a.inst # i
      /\ Priced(w) => cp[w] \in prices /\ cp[w].round = r /\ cp[w].inst = i
      /\ \A j \in Instruments \ (todo[w] \cup {i}) :
           \/ \E p \in prices : p.round = r /\ p.inst = j
           \/ \A q \in RoundQuotes(r, j) : Positive(q) => now - q.ts > MaxAge

\* Before the loop nothing is stored of the round.
AtWork(w) ==
  IF pc[w] = "select" THEN \A x \in quotes \cup prices \cup arbs : x.round # round[w]
                      ELSE InLoop(w) /\ AtGate(w)

\* The locals of every running worker agree with what it has stored, although
\* other workers store rows of the same instruments in between: round_quotes is
\* exactly what the database holds of the current instrument of its round.
RoundsConsistent == RoundsApart /\ \A w \in Workers : pc[w] # "idle" => AtWork(w)

\* A venue is quoted once, an instrument is priced once, and its arbitrage is
\* recorded once, in a round.
OncePerRound ==
  /\ \A q, o \in quotes :
       q.round = o.round /\ q.inst = o.inst /\ q.source = o.source => q = o
  /\ \A p, o \in prices : p.round = o.round /\ p.inst = o.inst => p = o
  /\ \A a, b \in arbs : a.round = b.round /\ a.inst = b.inst => a = b

\* What the rows say is sound, which consumers of the tape rely on: a mid is
\* positive and within its bid and ask, although some quotes were not positive and
\* venues may have crossed; an arbitrage is between two venues, at a profit, and no
\* two venues of its round were further apart.
RowsSound ==
  /\ \A p \in prices :
       0 < p.book.mid /\ p.book.bid <= p.book.mid /\ p.book.mid <= p.book.ask
  /\ \A a \in arbs :
       /\ a.arb.buy_venue # a.arb.sell_venue /\ a.arb.spread > 0
       /\ \A q, o \in RoundQuotes(a.round, a.inst) :
            Positive(q) /\ Positive(o) /\ q.source # o.source
              => o.bid - q.ask <= a.arb.spread

\* In each process's registry the quotes stored since it started have been
\* offered to Kafka once each, but for the one it is about to offer: neither a
\* raise in the round nor a restart unbalances the counters.
QuotesOfferedOnce ==
  \A w \in Workers :
    metrics[w].fetched = metrics[w].published + metrics[w].publish_failed
                         + (IF pc[w] = "publish" THEN 1 ELSE 0)

\* What cache.get returns: an entry disappears when it expires.
Cached(i) == IF cache[i] # None /\ now < cache[i].expires THEN cache[i].price ELSE None

\* Rounds r and s were running at the same time.
Overlapping(r, s) == <<r, s>> \in alongside \/ <<s, r>> \in alongside

\* What readers get to see out of order comes of overlapping rounds and of nothing
\* else, no failure, crash or retry: two messages of a channel group that are not in
\* the order of their timestamps, and a snapshot that is cached although a later
\* price was announced, are of rounds that were running at the same time.
OrderedUnlessOverlapping ==
  \A i \in Instruments : \A k \in DOMAIN feed[i] :
    /\ \A l \in DOMAIN feed[i] :
         k < l /\ feed[i][l].ts < feed[i][k].ts
           => Overlapping(feed[i][k].round, feed[i][l].round)
    /\ cache[i] # None /\ cache[i].price.ts < feed[i][k].ts
         => Overlapping(cache[i].price.round, feed[i][k].round)

\* While no round is running, every row of the tape has been broadcast.
EveryPriceBroadcast ==
  (\A w \in Workers : pc[w] = "idle") =>
    \A p \in prices : \E k \in DOMAIN feed[p.inst] : feed[p.inst][k] = p

\* "The largest opportunity is persisted as an ArbitrageOpportunity row": when
\* no round is running, each priced book that crosses between venues has one.
ArbitragePersisted ==
  (\A w \in Workers : pc[w] = "idle") =>
    \A p \in prices :
      Crossings(RoundQuotes(p.round, p.inst)) # {} =>
        \E a \in arbs : a.round = p.round /\ a.inst = p.inst

\* Every round ends, however many exchanges and brokers fail: no failure keeps a
\* worker in the loop over the clients or the instruments.
RoundsEnd == \A w \in Workers : pc[w] # "idle" ~> pc[w] = "idle"

\* Every dispatched round is eventually taken by some worker, however many more
\* Beat dispatches behind it.
EveryRoundTaken == \A n \in 1..MaxRounds : dispatched >= n ~> started >= n
=============================================================================

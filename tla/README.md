# pricestream in TLA+

TLA+ modules, TLC configurations and TLAPS proofs for pricestream: a Celery task
polls exchanges, stores quotes, consolidates them into a tape, detects
cross-venue arbitrage, and feeds Redis, a WebSocket channel group and Kafka; a
Kafka consumer folds the quotes into OHLC bars.  Paths below are relative to the
repository.

## The system

| component | state | operations | source |
|---|---|---|---|
| Beat and the Celery queue | messages waiting | one `fetch_quotes` message every `FETCH_INTERVAL_SECONDS`, whatever is running | `pricestream/settings.py:172-187` |
| ingest round | locals of a running `fetch_quotes`; rows of `Quote`, `ConsolidatedPrice`, `ArbitrageOpportunity` | fetch each venue, store, publish, consolidate, cache, broadcast, detect | `apps/pricing/tasks.py` |
| aggregation | none | `consolidate`, `detect_arbitrage` | `apps/pricing/aggregator.py` |
| Redis cache | one snapshot per symbol, 60 s | `cache.set` by the round, `cache.get` by WebSocket connections | `tasks.py:88`, `consumers.py:23` |
| channel layer | groups `quotes.<symbol>` | `group_send` by the round; `group_add`, `group_discard` by connections | `tasks.py:149`, `consumers.py` |
| Kafka producer | local queue of each worker process | `produce`, delivery or expiry | `apps/pricing/kafka_producer.py` |
| OHLC builder | group offset, the loop's locals, `OHLCBar` rows | poll, fold into three bars, commit, close | `apps/pricing/kafka_consumer.py` |
| metrics | one registry per process | counters incremented by the round; `/metrics/` renders the registry of the web process | `metrics.py`, `views.py:126-129` |
| instruments, admin | `Instrument` rows, keys and cascades | `bulk_create` each round; `is_active` edited, rows deleted in the admin | `tasks.py:28`, `admin.py`, `models.py`, `migrations/` |
| statistics, health, REST | none | read only | `stats.py`, `health.py`, `views.py` |

Two worker replicas (`k8s/celery-worker.yaml:7`) share the queue, and nothing
keeps two rounds from overlapping.  A round is not a transaction: each row is
committed by itself, and an exception of the database or of Redis ends the round
where it stands, without retry.  The builder commits offsets in the background
as soon as `poll()` has handed a message out.  These three facts are behind most
of the hazards listed in `PROJECT.json`; what makes each component correct is:

- aggregation: an ordered book inside what the venues offered, the widest strict
  crossing reported;
- ingest: the tape can be recomputed from the quotes of its own round although the
  clock is read anew for each quote and again for the row, never gaps, is written
  once per round and instrument, and everything that leaves the process is backed
  by a row;
- cache and feed: readers get prices out of order only where rounds overlap; with
  one worker the latest price is the one cached, with two it need not be;
- OHLC: bars tell the deliveries folded into them, a wider bar never runs ahead
  of a narrower one, a failure loses at most the event in hand, a committed offset
  is final, orderly restarts repeat nothing and lose nothing once an offset is
  committed; the transactions of builders at one bar have the effect
  of atomic updates, whatever inserts, locks and deletes come between;
- tables: no row outlives its instrument, and nobody waits for ever for a lock or
  for a foreign key;
- statistics: each round of the window weighs once, and the last mid is the one
  that `/api/quotes/latest/` answers;
- metrics: the counters of a registry balance.

## Modules

| module | what it holds |
|---|---|
| `Aggregator` | the pure functions, as operators on the set of a round's quotes |
| `AggregatorMC` | all rounds of three venues over small prices, and the reference definitions the results are compared with |
| `FetchRound` | the ingest path: Beat, worker processes, database, Redis, producer, registries |
| `FetchRoundMC` | books for TLC; extends `TapeReads`, so that a run can check readers and refinement |
| `AggregatorProofs` | lemmas about the pure functions, for any finite set of quotes |
| `AggregatorMCProofs` | from them, the theorems about `AggregatorMC` |
| `FetchRoundProofs` | theorems about `FetchRound`: its rows, its counters, how long a round lasts |
| `Tape` | what the ingest path promises its readers: the abstract specification |
| `FetchRoundTape` | the refinement mapping from `FetchRound` to `Tape` |
| `TapeReads` | the latest price and the rolling statistics, as queries on the tables of `FetchRound` |
| `WsFeed` | the WebSocket connections, composed with `Tape` |
| `FetchRoundTapeProofs` | theorems about what is made of the rows: the refinement of `Tape`, the copies in cache, feed and arbitrage rows, the statistics |
| `WsFeedProofs` | theorems about `Tape` and `WsFeed` |
| `OhlcBuilder` | producer queues, one partition, the consumer group, the builder loop, the bars |
| `OhlcBuilderMC` | widths and events for TLC |
| `OhlcBuilderProofs` | theorems about `OhlcBuilder`: types, bars, committed offsets |
| `OhlcDeliveryProofs` | theorems about which events reach the bars, and in which order; the refinement of `BarLedger` |
| `OhlcBar` | one bar, and what a price makes of it; shared by `OhlcBuilder`, `BarLedger` and `BarRows` |
| `BarLedger` | what `_update_bar` promises of one bar: the abstract specification |
| `OhlcLedger` | the refinement mapping from `OhlcBuilder` to `BarLedger` |
| `BarRows` | `_update_bar` statement by statement, with rounds and an operator at the same rows |
| `BarRowsProofs` | theorems about `BarRows` |

A definition named `X_Something`, marked "Faulty variant", is `X` with a
plausible mistake.  It takes no part in the specification; the mutation tests
substitute it for `X` to show that a property can fail.

### Aggregator

A quote is `[source, bid, ask, ts]`; venues are numbered in the order
`all_clients()` polls them, so "first of equals" in Python is "smallest venue".
Prices are exact: `mid` is carried as the numerator of a fraction whose
denominator is twice the number of venues (`den`), so no rounding is hidden.
Left out: `spread_bps` as a quotient, and the ten decimals of the columns.

### FetchRound

Each action is one call that leaves the process, together with the pure code
that follows it:

| action | code in `tasks.py` |
|---|---|
| `StartRound`, `StartRoundFails` | 23-38: take the message, register the instruments |
| `ReadActive` | 44-46: read the active instruments, once |
| `FetchSucceeds`, `FetchFails` | 49-67: the HTTP call; on success the `Quote` row, the append, the counter |
| `PublishQuote`, `PublishFails` | 124-136: `produce()` accepts or raises; both are swallowed and counted |
| `CheckQuote` | 70, in `aggregator.py` 57-59: the age of the next positive quote; each asks for the time itself (`_is_fresh`, 44) |
| `NoPrice`, `WritePrice` | 71-86: `continue`, or the `ConsolidatedPrice` row, stamped when it is made (`models.py:83`) |
| `SetCache`, `Broadcast` | 88-99 |
| `RecordArbitrage`, `NoArbitrage` | 102-118 |
| `NextClient`, `NextInstrument`, `Forget` | the two loop heads and the return; part of the actions above |
| `Raise`, `Crash` | an uncaught exception; the process dying |

`Beat`, `Tick` and `AdminToggle` are the environment.  `feed` is what was sent to
the channel group, in order; `published` what Kafka's producer accepted; `done`
records which rounds returned, and when.  A crash resets the registry of the
process, because a restarted process starts counting from zero.  `Tick` may fall
between any two actions, so a quote may be let through the gate and be stale by the
timestamp of the row.  `alongside` is a history variable: which rounds were running
when another started.  Two early returns cannot be reached and are left out: that of
`_publish_to_kafka` when the producer module cannot be imported (126-130; it is part
of the application), and that of `_broadcast_ws` without `channels` or without a
channel layer (144-148; `settings.py:157-169` always configures one).

### Tape and FetchRoundTape

`Tape` forgets workers, venues, quotes and prices.  A round stores at most one
row per instrument, stamped with the time of storing (`Store`); the row then goes
to the cache (`SetCache`) and after that, once, to the channel group
(`Broadcast`), unless the round is cut short (`Abandon`).  Rounds overlap freely,
so rows may pass each other between table, cache and group: this is what a reader
must live with, and what `WsFeed` and its proofs are built on.

`FetchRoundTape` maps `FetchRound` to it: rows, cache entries and sent updates
lose their price, and the rows on their way are those in the hands of a worker
that is about to cache or to broadcast.  `WritePrice`, `SetCache` and `Broadcast`
are the steps of the same purpose, `Raise` and `Crash` abandon what is in hand,
and everything else is a stutter.

### TapeReads

The web process reads the tape while rounds write it, so its queries are operators
on the state of `FetchRound`: `Latest` is what `/api/quotes/latest/` may answer
(several rows can bear the latest timestamp), `RollingStats` is
`compute_rolling_stats` over the window that `RollingStatsView` clamps to
1..86400.  An average is kept as its sum and number of samples; mids get one
common denominator (12, for rounds of up to three quotes), a spread is rounded
down to a basis point.  `mid_stdev` is computed in floating point and left out.

### WsFeed

| action | code in `consumers.py` |
|---|---|
| `Join` | 17-20: `group_add`, before anything is known of the instrument |
| `Open` | 21-25: `accept`, `cache.get`, and the snapshot is sent if there is one |
| `QuoteUpdate` | 30-31: the handler sends the next update of the queue |
| `Close` | 27-28: `group_discard`; also an exception in `connect()` and the death of the process |
| `Announce` | `group_send` in `tasks.py`, into the queue of every member |

channels handles the messages of one connection one after the other, so updates
that arrive while `connect()` runs wait.  A queue holds `Capacity` updates; a full
one loses the new update or its oldest one, as the channel layer chooses.
Symbols outside the configuration, which join a group nobody writes to, are not
modelled.  `written`, `openedAt` and `overrun` are history variables.

### OhlcBuilder

| action | code |
|---|---|
| `Publish` | `publish_quote`: into the local queue of the process |
| `Deliver`, `Expire` | librdkafka: acknowledged in order (idempotent, acks=all), or given up after the delivery timeout, which `_delivery_report` logs |
| `Start`, `Join` | `run_consumer`; the assignment, at the committed offset or at the end of the log (`auto.offset.reset`) |
| `AutoCommit` | the background commit of the offset stored by `poll()` |
| `Poll`, `SkipUnusable` | `poll()` and the early returns of the loop and of `handle_event` |
| `UpdateBar` | `_update_bar` for the next interval: one transaction each |
| `Stop`, `Raise`, `Leave` | SIGTERM at the loop head; a database error; `finally: consumer.close()` |
| `Rebalance` | giving way in good order once a process has joined (`newcomer`) |
| `Expel`, `LearnExpelled` | the session timeout of a member that still works; the member finding out. In between, its commits are fenced and its `poll()` goes on handing out what it has fetched |
| `Crash` | death |

Events are keyed by symbol, so an instrument lives in one partition, and the bars
of different instruments share nothing; the module follows one.  `payload` is
reduced to the mid and to whether `handle_event` can use it: JSON that is no object,
or a `ts` that is no string, is not skipped but raises, as `Raise` does.  An event without
`ts` (folded at the current time) is not published by this code and not modelled.
The history variables `delivered`, `applied`, `aborts`, `since`, `firstAt` and
`resetAt` only serve the properties.

Losses are counted from `firstAt`, the end of the log when a member first joined the
group.  While nothing is committed, each member that is assigned the partition starts
at its end (`auto.offset.reset=latest`); the messages passed over this way are
`Skipped`, and no death is to blame for them: `LossBounded` and `ExactlyOnce` except
them by name, and `ohlc_reset` shows one.  `CommittedIsFinal` says who may still read
behind the committed offset: only a member that was expelled and does not know it.

### BarLedger and BarRows

`OhlcBuilder!UpdateBar` is one step.  `BarRows` opens it up, for one instrument,
interval and bucket, into the statements that reach the database:

| action | code |
|---|---|
| `HandleEvent` | `kafka_consumer.py` 110-134: the instrument is read, once per event |
| `Get` (`Found`) | 42: `SELECT ... FOR UPDATE`, the first half of `get_or_create` |
| `Create`, `KeyTaken`, `GetAgain` | its second half: the insert in a savepoint; on a taken key back to the savepoint and `get()` again |
| `Save` | 55-60 |
| `Commit`, `Orphaned` | the end of `transaction.atomic()`, with the deferred foreign key of an inserted row; where it fails, the error ends the process (`Refused`), which is at its next event only when it runs again |
| `Fail` | a statement fails or the process dies: rollback |
| `StartRound`, `StoreRow` | `tasks.py` 28-46: `bulk_create(ignore_conflicts=True)` and the queryset; 56, 74, 104: a row of the instrument is stored, or its foreign key fails |
| `DeleteRows`, `DeleteInstrument`, `EndDelete` | `admin.py` 6-10: the operator deletes the instrument; Django collects and deletes its rows first (`on_delete=CASCADE`), in one transaction |

The database is PostgreSQL (`settings.py:88`; the tests run on SQLite, which has
no row locks), at its default READ COMMITTED.  What the model takes from it: a
statement sees what is committed; `FOR UPDATE`, `UPDATE` and `DELETE` wait for the
row's lock; an insert waits for an uncommitted insert of the same key; the foreign
keys, which Django declares `DEFERRABLE INITIALLY DEFERRED`, are looked at when a
transaction commits and wait for a delete of the parent that is under way.  An id
is never given out twice.  Bars of the other intervals are rows of their own,
updated by transactions of their own: the same model stands for each.

`BarLedger` is the promise: a builder takes a price for the instrument as it is
(`Owe`), and the price is folded into the bar in one step (`Apply`), unless the
builder fails (`Fail`) or the instrument it was taken for is gone, even if its symbol
is registered again: the `IntegrityError` is caught nowhere and ends the builder
(`Refuse`, counted in `refusals`).  The refinement mapping shows the ledger the
bar of the current instrument and the event of each builder with an open
transaction; `Commit` is `Apply`, and all the statements before it are stutters.

`OhlcLedger` maps `OhlcBuilder` to the same promise, once for each interval and
bucket: a builder owes the price of the event in hand to its bar of every interval
that `step` has not passed (`Owes`), `Poll` is `Owe`, `UpdateBar` is `Apply` for one
bar and a stutter for all others, `Raise` and `Crash` are `Fail`.  So the two levels
meet: what is proved of `OhlcBuilder`, where `UpdateBar` is one step, assumes no more
of it than what `BarRows` implements.

## Runs

| run | question |
|---|---|
| `aggregator` | does every round of three venues consolidate to an ordered book within the venues' prices, and is the reported arbitrage the widest strict crossing? |
| `overlap` | do two overlapping rounds of two dying workers keep the tape, the arbitrage rows and the copies outside consistent, does their every step implement `Tape`, and is overlapping the only way to get out of order? |
| `faults` | does a round over two instruments stay consistent, what it stores sound, and does it end, when the database, Redis or the process fails at any step? |
| `serial` | with one worker, while venues and Kafka may fail: is the cache the latest row, the feed complete, every crossing recorded, and what do the rolling statistics say between any two of its steps; does each message get taken, whatever is dispatched behind it? |
| `ws_feed` | what does a connection see that comes and goes between overlapping rounds: does a price fall between its snapshot and its updates, is one skipped or repeated, is the latest shown, does every waiting update arrive? |
| `ohlc_faults` | what lost events, deaths, database errors and expelled members can do to the bars, and what not; does every step implement `BarLedger`, for each bar? |
| `bar_rows` | do the interleaved transactions of two builders at one bar, with rounds and a deleting operator between them, amount to atomic updates; is a row ever orphaned; does somebody wait for ever? |
| `ohlc_graceful` | two workers publishing, through restarts and rebalances in good order: is each event folded exactly once but for those skipped before the first commit, are open and close in the time order of each worker's quotes, and does each event behind a committed offset reach all bars while a builder runs? |

Runs that end in a counterexample, each a disagreement between the repository's
texts and its code:

| run | what happens |
|---|---|
| `cache_overlap` | round 1 writes its row, round 2 writes its row and the cache, round 1 writes the cache: the "last mid-price" is older than the tape |
| `arbitrage_redis_down` | Redis fails after the price row: the crossing of that round is never recorded |
| `ohlc_expired` | an event that expires in the producer's queue never reaches the bars |
| `ohlc_reset` | a builder that has committed nothing loses its session and joins again at the end of the log: the event that came meanwhile never reaches the bars |

### Bounds

- `aggregator`: three venues (the code's number), prices 0..3 and ages 0 and 1
  against a limit of 0: zero, locked, crossed, self-crossed and stale books all
  occur, alone and together.  TLC checks it exhaustively.
- `FetchRound`: `MaxRounds` 2, because hazards are about two rounds at one
  instrument; 2 venues and 1 instrument where rounds overlap, 2 instruments where
  a single round fails half-way; `MaxTime` 1 with `MaxAge` 0 makes a quote stale
  by one tick, also between the gate's reading of the clock and the row's.  One book
  that crosses with itself makes both the fallback and the arbitrage happen; runs
  about prices use several books.  Proofs lift these bounds.
  `serial` has two ticks, so that a row can leave the window while another is in
  it, and asks for windows of 0 (clamped to 1), 1 and more than a day (clamped).
- `OhlcBuilder`: 2 events, 2 builders, up to 3 deliveries: an event can be replayed
  while its first delivery is still in hand, and read by an expelled member after its
  successor has committed it.  `ohlc_faults` has 2 starts, one per builder, and one
  producer; `ohlc_graceful` 3 starts, so that a builder comes back, and two producers.
  Widths 1 and 2 stand for those of 60, 300 and 3600 s: one divides the other, the
  timestamps cross a border of the first and not of the second.
- `BarRows`: 2 builders, 3 events, 2 instrument rows, 2 rounds, 1 failure: an
  insert races an insert and a delete, the third event finds the row, and an event
  taken for the first instrument meets the second.  The proofs lift these bounds.
- `WsFeed`: three rounds over one instrument, one connection that may come and go
  any number of times, `Capacity` 2, one tick and a timeout of one tick: the queue
  overflows, the snapshot expires before, during and after `connect()`, and rows
  pass each other.  Connections share no state, so one is enough, and the proofs
  are for any number.
- Deadlock is checked in `ws_feed`, where a connection can always leave and come
  back.  Elsewhere the model stops when its bounds are used up.
- Symmetry is used in runs without liveness; workers, producers and builders are
  interchangeable.

### Fairness

`FetchRound!FairSpec`: weak fairness of each worker's own next step.  HTTP calls
time out (`exchanges.py`, `DEFAULT_TIMEOUT`), the other calls return or raise, and
a Celery process takes the next message when idle.  Failures are not fair: they
may happen always or never.  `OhlcBuilder!FairSpec`: weak fairness of the builder
loop of a process that runs: `poll()` returns or times out, the database answers or
raises.  That a process is started again is not assumed (`docker-compose.yml:111-124`
has no restart policy), nor that librdkafka delivers or commits: `Start`, `Deliver`,
`AutoCommit`, `Expire`, rebalances and all faults are not fair, which is why
`EventuallyInBars` speaks of events in the partition and ends with `NoneRuns`.
`BarRows!FairSpec`: weak fairness of each open transaction: a session goes on with
its next statement unless a lock keeps it waiting, and PostgreSQL hands a released
lock on.  Starting rounds, deletes and failures are not fair.
`WsFeed!FairSpec`: weak fairness, per connection, of "`connect()` goes on or the
next update is handled": the event loop of the ASGI process.  Neither the rounds
nor the client's leaving are fair.

## Proofs

`AggregatorProofs` has no specification of its own: it proves what the operators
of `Aggregator` return, for any finite set of quotes with integer prices.  The mid
of a crossed market is a sum over the venues, a recursive function on sets, and the
induction that its value needs cannot be taken from the library, whose theorems are
about a predicate.  `InductiveFamily` states it of a family of subsets instead, a
set that the provers can instantiate, and gets it from well-founded minima
(`WFMin`).  From it come the existence of the sums (`SumExists`), their bounds
(`SumBounds`, `MeanOfMids`) and that there are best prices at all (`LeastOne`,
`GreatestOne`); from these the book (`BookParts`, `MidWithin`, `MidPositive`), the
crossing that the two loops end with (`WidestFound`, `WidestTells`) and the range of
its basis points (`BpsInRange`).

`AggregatorMCProofs` applies them to every round of any number of venues, any prices
and ages; the invariant behind them (`Collected`) is only that the round's quotes are
finitely many, one per venue, with integer prices:

| theorem | |
|---|---|
| `BookStaysWithinVenues` | `Spec => []BookWithinVenues` |
| `ArbitrageIsLargest` | `Spec => []ArbitrageLargest` |
| `ArbitrageMeetsTheCross` | `Spec => []ArbitrageIsTheCross` |

`FetchRoundProofs` proves, for any number of processes, venues, instruments and
rounds, any books and any combination of faults:

| theorem | |
|---|---|
| `TypeCorrect` | `Spec => []TypeOK` |
| `RoundsStayConsistent` | `Spec => []RoundsConsistent` |
| `TapeIsReproducible`, `ArbitrageIsReproducible`, `StoredOncePerRound`, `RowsAreSound`, `DisseminatedIsBacked`, `TapeHasNoGaps`, `QuotesAreOfferedOnce` | the safety properties of the runs `overlap` and `faults` |
| `RoundsShorten` | `Spec => [][\A w \in Workers : RoundShortens(w)]_vars` |

The argument: none of the tape properties is inductive, for they speak of rows
and not of the locals the next row is computed from.  `RoundsConsistent` is the
strengthening.  It says that rounds in progress are distinct (`RoundsApart`), and
of each worker at work (`AtWork`) that `held` is exactly what the database holds
of the current instrument in its round, that the instruments in `todo` have no
row yet, and that those dealt with are priced or had no usable fresh quote.  A
step of another worker adds rows of another round only, so it leaves `AtWork`
alone (`Undisturbed`); a step of the worker itself re-establishes it.  The
assumptions are those named in the modules: counts and times are naturals, books are
pairs of integers.

The clock moves between the gate's readings, so the candidates of a price are neither
the quotes fresh at one moment nor those fresh at the row's timestamp.
`TapeIsReproducible` says what holds: they are positive quotes of the round, each
fresh when the last quote of the round was stored, and a positive quote left out is
stale at the row's timestamp.  `AtGate` carries that through the gate, quote by quote:
what was checked and dropped is stale from then on, what was kept was checked after
all were stored.

`StoredOncePerRound` needs one thing more of the quotes, which `RoundsConsistent`
leaves open: the venues asked are those before the next one (`AskedInOrder`), so
that the quote that comes in is of a venue which has none.  `RowsAreSound` puts the
two modules together.  It is not inductive either, and need not be: a price is the
consolidation of the quotes of its round (`TapeIsReproducible`), an arbitrage their
widest crossing (`ArbitrageIsReproducible`), these are finitely many (`Counted`) and
of one venue each (`StoredOncePerRound`), and of such sets `AggregatorProofs` speaks.

`RoundsShorten` is what can be proved of the liveness property `RoundsEnd`:
`StepsLeft` is at most `NumInstruments * PerInstrument`, each step of the worker
leaves less of it, and failures, the clock and the other workers never leave more.
It counts the instruments left in `todo` (`TodoCounted`) and the calls left of the
current one (`HereLeft`); the next instrument costs fewer than it takes from `todo`
(`NextInstrumentShortens`).

`OhlcBuilderProofs` proves, for any number of producers and builders, any widths,
events and bounds, and any combination of faults:

| theorem | |
|---|---|
| `TypeCorrect` | `Spec => []TypeOK` |
| `WiderBarsNeverAhead` | `Spec => []CoarserNeverAhead` |
| `StoredBarsTell` | `Spec => []BarsTellDeliveries` |
| `CommitsAreFinal` | `Spec => CommittedIsFinal` |

`CoarserNeverAhead` says nothing of builders, so it is not inductive:
`InHandOnce` adds that a builder in the middle of an event has folded it into
exactly the intervals before its step, and that no two builders have the same
delivery in hand, even when one was expelled and the other reads the same
message again.  `StoredBarsTell` rests on it too: `UpdateBar` adds a delivery
that the bar does not hold yet (`UpdatedTells`), and by the arithmetic of
`_bucket_start` (`BucketOf`: the one multiple of the width within one width
below the timestamp) it adds it to that bar alone.  `CommitsAreFinal` needs
`ReadsOn`: the owner has the partition assigned, its position is never below the
committed offset, and the offset it would commit is its position (`CommitAdvances`).
Of an expelled member it says nothing, for its position may be anywhere; its commits
are fenced, so the offset does not follow it (`OnlyPollDelivers`: and only its
`poll()` can hand out what is below).  The assumptions: widths are positive,
bounds are naturals, prices are integers, `None` is no bar, no builder and no
offset.

`OhlcDeliveryProofs` proves:

| theorem | | assuming of `Faults` |
|---|---|---|
| `LossIsBounded` | `Spec => []LossBounded` | nothing |
| `BarsAreLedgers` | `Spec => ImplementsLedger` | nothing |
| `FoldedExactlyOnce` | `Spec => []ExactlyOnce` | no `"crash"`, `"expel"`, `"db"` |
| `OpensAndClosesInTime` | `Spec => []OpenCloseInTime`, for any number of producers | no `"crash"`, `"expel"` |

`LossBounded` follows the group's `Position`.  Commits, rebalances and deaths never
move it forward (`SettleKeepsPosition`); only a reset does so without reading, and then
`resetAt` is the position.  So every usable message from `resetAt` on that the group
has read past was handed out (`Handed`), and what is lost without being `Skipped` was
handed out, is in no one's hand and not complete (`Aborted`, `LostWasAborted`).  The
last bar makes a delivery complete (`UpdateCompletes`, by `InHandOnce`), a message that
is read is in hand (`ReadIsInHand`), and a builder that dies or raises drops one
message at most and is counted (`SettleAborts`): at most `aborts` messages are
`Aborted`, expelled members that read on included.  `FoldedExactlyOnce` and
`OpensAndClosesInTime` need `Orderly`: without a death or
an expulsion only the owner has an event in hand, and what was delivered is
strictly below the position, also while nothing is committed yet.  `Timely` says
the same of timestamps, per producer, from its clock through its queue to the log; the
delivery that `UpdateBar` folds in is then the latest of its producer (`LastFolded`).  A
failure of the database loses events but reorders none, hence the weaker assumption of
`OpensAndClosesInTime`.

Its last theorem, `BarsAreLedgers`, is `Spec => ImplementsLedger` for any faults.  A
builder owes a bar what `InHandOnce` says it has not folded (`InDebt`), so `UpdateBar`
settles what is owed to its one bar and touches no other's debts (`UpdateApplies`),
and of the builders that die only the one with the price in hand drops it
(`AbortFails`); all other steps leave every ledger alone (`AsideMovesNothing`).  The
third conjunct of `ImplementsLedger`, that drops are bounded by `aborts`
(`DropsStep`), keeps the mapping honest: without it a step that just forgot a price
would pass for a failure.  Assumed besides: `None` is no price in hand.

`FetchRoundTapeProofs` proves `Implementation`, `Spec => ImplementsTape`: every
step of `FetchRound` is a step of `Tape` or a stutter, for all constants for which
`None` is no cache entry.  The initial states are immediate.  Of the steps,
`WritePrice` needs that its round has no row of the instrument yet, which is what
`AtWork` says of the instrument in hand; `Raise`, `Crash` and `Broadcast`, which
drop a row in hand, need that no other worker holds the same one (`HandApart`: a
row carries its round, and rounds in progress are distinct).

It proves what the code promises of the copies only where it
is true, with the assumption each needs; the runs that end in a counterexample
(`cache_overlap`, `arbitrage_redis_down`) drop one of them:

| theorem | | assuming |
|---|---|---|
| `PricesGoOut` | `Spec => []EveryPriceBroadcast` | `Faults` without `"redis"`, `"crash"` |
| `CrossingsAreRecorded` | `Spec => []ArbitragePersisted` | `Faults` without `"redis"`, `"crash"`, `"db"` |
| `OutOfOrderOnlyByOverlap` | `Spec => []OrderedUnlessOverlapping` | nothing of workers or `Faults` |

All three hold however many rounds overlap: the runs check the first two for one
worker, the theorems for any number.  The invariants of the first two (`Delivered`, `Watched`) say that a
price without its copy, or a crossing without its row, is in the hand of a worker
that is still to make it; a price's quotes are no more added to
(`PricedQuotesStable`).  The third is about the order in which prices reach the group
and the cache, which two workers may break: it says that they break it only for rounds
that `alongside` has on record.  A running round that is older than a stored price, or
than another running round, was there when that one started (`AlongsideKnown`); so a
price is stored, cached and sent behind a younger one only by a round that the younger
one ran alongside (`NotOvertaken`, `RoundsInOrder`).  No such theorem is stated of
`CacheIsLatest`: it is true of one worker, which `serial` checks, and `cache_overlap`
shows it false of two.

Its last theorem is `StatsFollowTape`, `Spec => []StatsTellTape`, for any window and
between any two steps.  Rows are numbered by the round they were stored in
(`Numbered`: from 1 on), and there is one per round
(`StoredOncePerRound`), so the rows of a window are as many as their rounds
(`SamplesAreRounds`); the latest row of the window is the latest of the tape unless
that one is older than the window (`LastIsLatest`); sums of mids and spreads are
bounded by the lemmas of `AggregatorProofs` (`MidsWithin`, `SpreadsWithin`).

`WsFeedProofs` proves, for any number of connections, instruments and rounds, any
timeout and any capacity:

| theorem | |
|---|---|
| `NothingTwice` | `TapeSpec => []AnnouncedOnce` |
| `TypeCorrect` | `Spec => []TypeOK` |
| `NoUpdateSkipped` | `Spec => []NothingSkipped` |
| `NoGapAfterSnapshot` | `Spec => []HeardOrSuperseded` |
| `LatestIsShown` | `Spec => []ShowsLatest` |

`NothingTwice` is about `Tape` alone: a row is on its way to the cache or to the
group but never to both, and an announced one is on its way no more (`Settled`).
Every step of `WsFeed` is one of `Tape` or leaves it alone (`FeedImplementsTape`),
so that invariant holds here too.  `CacheTells` is the strengthening:
the entry in the cache is the last one written and outlives every price written
before, and what is announced was written.  A connection that looks up the
snapshot after joining the group has thus everything announced so far covered by
the snapshot (`CoveredOnOpen`), and gets the rest through its queue; the order of
`cache.set` before `group_send` in the round matters as much as that of
`group_add` before `cache.get` in the connection.  `ShowsLatest` is no invariant of
its own: it follows from the other two and from `AnnouncedOnce`, for a covered
price that is announced last can only be the snapshot itself (`LatestShown`).

`BarRowsProofs` proves, for any number of builders, instrument rows, events, rounds
and failures:

| theorem | |
|---|---|
| `TypeCorrect` | `Spec => []TypeOK` |
| `NothingOrphaned` | `Spec => []NoOrphans` |
| `Implementation` | `Spec => ImplementsLedger` |

The invariant says what a lock and an uncommitted insert stand for.  `LocksTell`: a
builder that holds a row's lock has read the row as it is committed, and is about
to commit what its price makes of that; the operator holds locks of its own
instrument only.  `InsertsTell`: a row is being inserted by one transaction at a
time, while there is none.  `AgainTells`: the row whose key was taken is gone only
if its instrument is.  From these, what is committed is always `Updated` of the
committed row, and of the instrument as it stands (`CommitsUpdate`), which is the
ledger's `Apply`; a refused transaction belongs to an instrument that is gone
(`AgainTells`, `Orphaned`).  `NoOrphans` is inductive with them,
because a late writer waits for the delete and the delete looks again at its end
(`DeletesAll`).  The assumptions: prices are integers, bounds naturals, the operator
is no builder, `None` no value.

Every invariant and every action property that a passing run checks is thus stated
by a theorem, but for `CacheIsLatest`.  Only model-checked are also the properties that
need fairness, which the provers do not reason about: `RoundsEnd`, `EveryRoundTaken`,
`EventuallyInBars`, `UpdatesArrive` and `WaitsEnd`.  Of `RoundsEnd`, `RoundsShorten` proves the part that
is not about fairness.

## Not modelled

- what the channel layer forgets by age: it drops a message that waits for more than
  60 s, and a group membership that is more than 24 h old, after which a connection
  that stays open gets no updates; `WsFeed` has the capacity only;
- the `/metrics/` view: prometheus_client keeps a registry per process and
  `metrics_view` (`views.py:126-129`) renders that of the web process, while the
  counters of `metrics.py` are incremented in the worker processes, so the view shows
  none of them; `FetchRound` has the registries of the workers only;
- gauges and the histogram: written, never read by the code; the counter
  `stale_quotes_total` (`metrics.py:28`), which no line of the code increments;
- decimals: columns of ten places, and `spread_bps` quantized to four;
- edits and deletes of single quotes, prices and bars in the admin (a bar's change
  form writes back all its columns); `FetchRound` does not see the deletes that
  `BarRows` models, its rounds then fail as by a database error;
- the health endpoints: they keep no state, and what can go wrong there, three
  probes of up to 2 s in a row against the orchestrator's timeout, is a matter of
  durations; the verdict itself is two conditions;
- the lock around the creation of the Kafka producer (`kafka_producer.py:22-39`):
  Celery's default pool (`scripts/entrypoint.sh:23`) runs one task at a time in each
  process, so no second thread ever contends for it;
- HTTP parsing of the three exchanges: an answer or `None`;
- the other REST views and the serializers: generic filters over the tables;
- the rate of Beat: whether workers keep up with one message per
  `FETCH_INTERVAL_SECONDS` is a matter of durations; messages do not expire and the
  queue is not bounded by the code (`EveryRoundTaken` is about each message, not about
  the queue's length);
- configuration errors (an `INSTRUMENTS` entry without a dash stops every round).

## Plan

Done: `Aggregator`, `FetchRound`, `Tape`, `TapeReads`, `WsFeed`, `OhlcBuilder`,
`BarRows` with `BarLedger`, and the proofs above.  Next, in this order:

1. `Pipeline`: `FetchRound`'s producer composed with `OhlcBuilder`'s queue.
2. Proofs: the measures behind `EventuallyInBars` and `WaitsEnd`, as `RoundsShorten`
   is of `RoundsEnd`.
3. Edits of single rows in the admin, against the builders.

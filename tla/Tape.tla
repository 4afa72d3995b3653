-------------------------------- MODULE Tape --------------------------------
(***************************************************************************)
(* What the ingest path promises to its readers, without its workers: a    *)
(* round stores at most one price per instrument, at the time it stores it,*)
(* and each stored price goes to the cache and then, once, to the channel  *)
(* group, unless its round is cut short.  Rounds overlap freely, so prices *)
(* may pass each other between the table, the cache and the group.         *)
(*                                                                         *)
(* FetchRoundTape shows that FetchRound implements this; WsFeed attaches   *)
(* the WebSocket connections to it.                                        *)
(***************************************************************************)
EXTENDS Integers, Sequences

CONSTANTS
  Instruments,
  Rounds,       \* the names of the rounds
  CacheTTL,     \* the timeout of the cached snapshot
  MaxTime,      \* bound: ticks of the clock
  None

ASSUME ClockAssumption == MaxTime \in Nat /\ CacheTTL \in Nat

VARIABLES
  now,
  rows,         \* the ConsolidatedPrice rows, by round, instrument and timestamp
  cache,        \* pricestream:mid:<symbol>, with its expiry
  feed,         \* what was sent to the channel group quotes.<symbol>
  uncached,     \* rows on their way to the cache
  unsent        \* rows on their way to the channel group

tape == <<now, rows, cache, feed, uncached, unsent>>

Rows == [round : Rounds, inst : Instruments, ts : 0..MaxTime]

TapeInit ==
  /\ now = 0 /\ rows = {}
  /\ cache = [i \in Instruments |-> None]
  /\ feed = [i \in Instruments |-> << >>]
  /\ uncached = {} /\ unsent = {}

Tick ==
  /\ now < MaxTime
  /\ now' = now + 1
  /\ UNCHANGED <<rows, cache, feed, uncached, unsent>>

\* Round r stores its price of instrument i, the only one.
Store(r, i) ==
  /\ \A p \in rows : p.round = r => p.inst # i
  /\ rows' = rows \cup {[round |-> r, inst |-> i, ts |-> now]}
  /\ uncached' = uncached \cup {[round |-> r, inst |-> i, ts |-> now]}
  /\ UNCHANGED <<now, cache, feed, unsent>>

\* Faulty variant: cache.add, which keeps an entry that is still there.
Snapshot_Add(p) ==
  IF cache[p.inst] # None /\ now < cache[p.inst].expires THEN cache[p.inst]
  ELSE [price |-> p, expires |-> now + CacheTTL]
Snapshot(p) == [price |-> p, expires |-> now + CacheTTL]

\* The snapshot is overwritten, whatever it was.
SetCache(p) ==
  /\ p \in uncached
  /\ cache' = [cache EXCEPT ![p.inst] = Snapshot(p)]
  /\ uncached' = uncached \ {p}
  /\ unsent' = unsent \cup {p}
  /\ UNCHANGED <<now, rows, feed>>

\* Faulty variant: a price that could not be cached is announced all the same.
Announceable_Uncached == uncached \cup unsent
Announceable == unsent

\* Faulty variant: a price that was sent is not forgotten, and is sent again.
StillUnsent_Keeps(p) == unsent
StillUnsent(p) == unsent \ {p}

Broadcast(p) ==
  /\ p \in Announceable
  /\ feed' = [feed EXCEPT ![p.inst] = Append(@, p)]
  /\ unsent' = StillUnsent(p)
  /\ UNCHANGED <<now, rows, cache, uncached>>

\* The round raises or dies with the price in hand: the row stays.
Abandon(p) ==
  /\ p \in uncached \cup unsent
  /\ uncached' = uncached \ {p}
  /\ unsent' = unsent \ {p}
  /\ UNCHANGED <<now, rows, cache, feed>>

TapeNext ==
  \/ Tick
  \/ \E r \in Rounds, i \in Instruments : Store(r, i)
  \/ \E p \in uncached \cup unsent : SetCache(p) \/ Broadcast(p) \/ Abandon(p)

TapeSpec == TapeInit /\ [][TapeNext]_tape

-----------------------------------------------------------------------------
TapeTypeOK ==
  /\ now \in 0..MaxTime
  /\ rows \subseteq Rows /\ uncached \subseteq rows /\ unsent \subseteq rows
  /\ cache \in [Instruments -> [price : Rows, expires : Nat] \cup {None}]
  /\ feed \in [Instruments -> Seq(Rows)]

\* However rounds overlap, a row is announced to the channel group at most once,
\* and after that its round has nothing left to do with it.
AnnouncedOnce ==
  \A i \in Instruments : \A k, l \in DOMAIN feed[i] :
    /\ feed[i][k] = feed[i][l] => k = l
    /\ feed[i][k] \notin uncached \cup unsent
=============================================================================

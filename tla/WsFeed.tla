------------------------------- MODULE WsFeed -------------------------------
(***************************************************************************)
(* The live feed: WebSocket connections (apps/pricing/consumers.py) that   *)
(* read the cached snapshot once and the channel group from then on, while *)
(* the rounds of Tape write both.                                          *)
(*                                                                         *)
(* channels dispatches the messages of a connection one after the other:   *)
(* while connect() runs, the updates of the group wait in its queue.       *)
(***************************************************************************)
EXTENDS Tape, FiniteSets, SequencesExt

CONSTANTS
  Connections,  \* WebSocket connections, which come and go
  Capacity      \* updates the channel layer keeps for a connection

ASSUME CapacityAssumption == Capacity \in Nat \ {0}
ASSUME NoneAssumption == None \notin [price : Rows, expires : Nat]

VARIABLES
  state,     \* per connection: "closed", "joined" (in the group), "open"
  symbol,    \* self.symbol
  queue,     \* what the channel layer holds for the connection
  snapshot,  \* the cached price sent on connect, or None
  updates,   \* the updates sent to the client, in order
  written,   \* history: per instrument, the prices in the order they were cached
  openedAt,  \* history: when the snapshot was looked up
  overrun    \* history: an update was dropped since the connection was made

clients == <<state, symbol, queue, snapshot, updates, openedAt, overrun>>
vars == <<tape, clients, written>>

Init ==
  /\ TapeInit
  /\ state = [c \in Connections |-> "closed"]
  /\ symbol = [c \in Connections |-> None]
  /\ queue = [c \in Connections |-> << >>]
  /\ snapshot = [c \in Connections |-> None]
  /\ updates = [c \in Connections |-> << >>]
  /\ written = [i \in Instruments |-> << >>]
  /\ openedAt = [c \in Connections |-> 0]
  /\ overrun = [c \in Connections |-> FALSE]

-----------------------------------------------------------------------------
(* The rounds *)

\* The channels in the group quotes.<symbol>.
Members(i) == {c \in Connections : symbol[c] = i /\ state[c] # "closed"}

\* Faulty variant: the channel layer keeps one more.
Full_OffByOne(c) == Len(queue[c]) > Capacity
Full(c) == Len(queue[c]) >= Capacity

\* group_send: every member's queue gets the price.  In a full one either the
\* price or the oldest update is dropped (Redis list, or buffer of the process).
Announce(p) ==
  LET full == {c \in Members(p.inst) : Full(c)}
  IN  /\ Broadcast(p)
      /\ \E keep \in SUBSET full :
           queue' = [c \in Connections |->
             IF c \notin Members(p.inst) \/ c \in keep THEN queue[c]
             ELSE IF c \in full THEN Append(Tail(queue[c]), p)
             ELSE Append(queue[c], p)]
      /\ overrun' = [c \in Connections |-> overrun[c] \/ c \in full]
      /\ UNCHANGED <<state, symbol, snapshot, updates, openedAt, written>>

Remember(p) ==
  /\ SetCache(p)
  /\ written' = [written EXCEPT ![p.inst] = Append(@, p)]
  /\ UNCHANGED clients

Ingest ==
  /\ \/ Tick
     \/ \E r \in Rounds, i \in Instruments : Store(r, i)
     \/ \E p \in uncached \cup unsent : Abandon(p)
  /\ UNCHANGED <<clients, written>>

-----------------------------------------------------------------------------
(* A connection *)

\* connect(): group_add, before anything else is known of the instrument.
Join(c) ==
  /\ state[c] = "closed"
  /\ state' = [state EXCEPT ![c] = "joined"]
  /\ \E i \in Instruments : symbol' = [symbol EXCEPT ![c] = i]
  /\ queue' = [queue EXCEPT ![c] = << >>]
  /\ snapshot' = [snapshot EXCEPT ![c] = None]
  /\ updates' = [updates EXCEPT ![c] = << >>]
  /\ overrun' = [overrun EXCEPT ![c] = FALSE]
  /\ UNCHANGED <<tape, openedAt, written>>

\* What cache.get returns: an entry disappears when it expires.
Cached(i) == IF cache[i] # None /\ now < cache[i].expires THEN cache[i].price ELSE None

\* Faulty variant: without a snapshot connect() waits for one.
Ready_NeedsSnapshot(c) == state[c] = "joined" /\ Cached(symbol[c]) # None
Ready(c) == state[c] = "joined"

\* connect(), after accept(): cache.get, and the snapshot is sent if there is one.
Open(c) ==
  /\ Ready(c)
  /\ state' = [state EXCEPT ![c] = "open"]
  /\ snapshot' = [snapshot EXCEPT ![c] = Cached(symbol[c])]
  /\ openedAt' = [openedAt EXCEPT ![c] = now]
  /\ UNCHANGED <<tape, symbol, queue, updates, overrun, written>>

\* Faulty variant: the latest of the waiting updates is sent.
Sent_Latest(q) == q[Len(q)]
Sent(q) == Head(q)

\* quote_update: the oldest waiting update is sent to the client.
QuoteUpdate(c) ==
  /\ state[c] = "open" /\ queue[c] # << >>
  /\ updates' = [updates EXCEPT ![c] = Append(@, Sent(queue[c]))]
  /\ queue' = [queue EXCEPT ![c] = Tail(queue[c])]
  /\ UNCHANGED <<tape, state, symbol, snapshot, openedAt, overrun, written>>

\* The client leaves (group_discard), or Redis raises in connect(), or the process
\* dies; a channel that stays in the group is never read again.
Close(c) ==
  /\ state[c] # "closed"
  /\ state' = [state EXCEPT ![c] = "closed"]
  /\ UNCHANGED <<tape, symbol, queue, snapshot, updates, openedAt, overrun, written>>

Next ==
  \/ Ingest
  \/ \E p \in uncached \cup unsent : Remember(p) \/ Announce(p)
  \/ \E c \in Connections : Join(c) \/ Open(c) \/ QuoteUpdate(c) \/ Close(c)

Spec == Init /\ [][Next]_vars

\* The event loop of the ASGI process goes on with connect() and the handlers.
FairSpec == Spec /\ \A c \in Connections : WF_vars(Open(c) \/ QuoteUpdate(c))

-----------------------------------------------------------------------------
(* Properties *)

TypeOK ==
  /\ TapeTypeOK
  /\ state \in [Connections -> {"closed", "joined", "open"}]
  /\ symbol \in [Connections -> Instruments \cup {None}]
  /\ \A c \in Connections : state[c] # "closed" => symbol[c] \in Instruments
  /\ queue \in [Connections -> Seq(Rows)]
  /\ \A c \in Connections : Len(queue[c]) <= Capacity
  /\ snapshot \in [Connections -> Rows \cup {None}]
  /\ updates \in [Connections -> Seq(Rows)]
  /\ written \in [Instruments -> Seq(Rows)]
  /\ openedAt \in [Connections -> 0..MaxTime]
  /\ overrun \in [Connections -> BOOLEAN]

\* What the client of a connection was sent, or is about to be.
Heard(c) == updates[c] \o queue[c]

\* "consolidated mid pushed on every tick": from its first update on a connection
\* gets every price that is broadcast, once and in order, unless it lagged
\* behind by all that the channel layer keeps.
NothingSkipped ==
  \A c \in Connections :
    state[c] # "closed" /\ ~overrun[c] => IsSuffix(Heard(c), feed[symbol[c]])

\* No gap between the snapshot and the updates: a price that was broadcast and
\* that an open connection does not get had been cached no later than the
\* snapshot it got, or had expired when it connected.  This rests on both orders:
\* the cache before the group in tasks.py, group_add before cache.get here.
HeardOrSuperseded ==
  \A c \in Connections :
    LET i == symbol[c]
    IN  state[c] = "open" /\ ~overrun[c] =>
          \A p \in Range(feed[i]) :
            \/ p \in Range(Heard(c))
            \/ \E k, l \in DOMAIN written[i] :
                 k <= l /\ written[i][k] = p /\ written[i][l] = snapshot[c]
            \/ snapshot[c] = None /\ openedAt[c] >= p.ts + CacheTTL

\* The price that the client of a connection sees.
Shown(c) == IF updates[c] = << >> THEN snapshot[c] ELSE Last(updates[c])

\* While prices are announced in the order they were cached, an open connection
\* with nothing to come shows the last one, whether it came as the snapshot or as
\* an update, or the cached one had expired when it connected.
ShowsLatest ==
  \A c \in Connections :
    LET i == symbol[c]
    IN  (/\ state[c] = "open" /\ ~overrun[c] /\ queue[c] = << >>
         /\ feed[i] = written[i] /\ feed[i] # << >>) =>
          \/ Shown(c) = Last(written[i])
          \/ Shown(c) = None /\ openedAt[c] >= Last(written[i]).ts + CacheTTL

\* An update that waits for a connection is sent to its client, unless the
\* connection ends or is overrun.
UpdatesArrive ==
  \A c \in Connections, p \in Rows :
    p \in Range(queue[c]) ~>
      p \in Range(updates[c]) \/ state[c] = "closed" \/ overrun[c]
=============================================================================

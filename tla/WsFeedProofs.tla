---------------------------- MODULE WsFeedProofs ----------------------------
(***************************************************************************)
(* Theorems about Tape, and about the connections that WsFeed attaches to  *)
(* it, for any number of connections, instruments and rounds, any timeout  *)
(* and any capacity of the channel layer.                                  *)
(***************************************************************************)
EXTENDS WsFeed, SequenceTheorems, TLAPS

USE DEF Snapshot, Announceable, StillUnsent, Full, Ready, Sent

-----------------------------------------------------------------------------
(* The tape: no row is announced twice *)

\* A row is on its way to the cache or to the group, never to both; what was
\* announced is a row, and on its way no more.
Settled ==
  /\ uncached \cap unsent = {}
  /\ \A i \in Instruments : \A k \in DOMAIN feed[i] :
       feed[i][k] \in rows \ (uncached \cup unsent)

TapeInv == TapeTypeOK /\ Settled /\ AnnouncedOnce

\* The first state: nothing stored, nothing announced.
LEMMA TapeStart == TapeInit => TapeInv
  BY ClockAssumption DEF TapeInit, TapeInv, TapeTypeOK, Settled, AnnouncedOnce

\* Storing adds a row that was not there, so it was not announced either.
LEMMA StoreKeeps ==
  ASSUME TapeInv, NEW r \in Rounds, NEW i \in Instruments, Store(r, i)
  PROVE  TapeInv'
<1> DEFINE new == [round |-> r, inst |-> i, ts |-> now]
<1>1. new \in Rows /\ new \notin rows
  BY DEF TapeInv, TapeTypeOK, Rows, Store
<1>2. TapeTypeOK'
  BY <1>1 DEF TapeInv, TapeTypeOK, Store
<1>3. Settled'
  BY <1>1 DEF TapeInv, TapeTypeOK, Settled, Store
<1>4. AnnouncedOnce'
  BY <1>1 DEF TapeInv, TapeTypeOK, Settled, AnnouncedOnce, Store
<1> QED  BY <1>2, <1>3, <1>4 DEF TapeInv

\* Caching hands a row over from one set to the other.
LEMMA SetCacheKeeps ==
  ASSUME TapeInv, NEW p \in uncached, SetCache(p)
  PROVE  TapeInv'
<1>1. p \in Rows /\ p.inst \in Instruments
  BY DEF TapeInv, TapeTypeOK, Rows
<1>2. now + CacheTTL \in Nat
  BY ClockAssumption DEF TapeInv, TapeTypeOK
<1>3. TapeTypeOK'
  BY <1>1, <1>2 DEF TapeInv, TapeTypeOK, SetCache
<1>4. Settled' /\ AnnouncedOnce'
  BY DEF TapeInv, Settled, AnnouncedOnce, SetCache
<1> QED  BY <1>3, <1>4 DEF TapeInv

\* Announcing appends a row that was still on its way, so none that was announced.
LEMMA BroadcastKeeps ==
  ASSUME TapeInv, NEW p \in unsent, Broadcast(p)
  PROVE  TapeInv'
<1>1. p \in Rows /\ p \in rows /\ p.inst \in Instruments
  BY DEF TapeInv, TapeTypeOK, Rows
<1>2. TapeTypeOK'
  BY <1>1 DEF TapeInv, TapeTypeOK, Broadcast
<1>3. ASSUME NEW j \in Instruments
      PROVE  \/ /\ j # p.inst /\ feed'[j] = feed[j]
             \/ /\ j = p.inst
                /\ DOMAIN feed'[j] = DOMAIN feed[j] \cup {Len(feed[j]) + 1}
                /\ \A k \in DOMAIN feed[j] : feed'[j][k] = feed[j][k]
                /\ feed'[j][Len(feed[j]) + 1] = p
  <2>1. feed[j] \in Seq(Rows) /\ feed \in [Instruments -> Seq(Rows)]
    BY DEF TapeInv, TapeTypeOK
  <2>2. CASE j # p.inst  BY <2>1, <2>2 DEF Broadcast
  <2>3. CASE j = p.inst
    <3>1. feed'[j] = Append(feed[j], p)  BY <2>1, <2>3 DEF Broadcast
    <3> QED  BY <1>1, <2>1, <2>3, <3>1
  <2> QED  BY <2>2, <2>3
<1>4. \A j \in Instruments : \A k \in DOMAIN feed[j] :
        feed[j][k] # p /\ feed[j][k] \in rows \ (uncached \cup unsent)
  BY DEF TapeInv, Settled
<1>5. Settled'
  <2>1. (uncached \cap unsent)' = {}
    BY DEF TapeInv, Settled, Broadcast
  <2>2. p \notin uncached'  /\ p \notin unsent' /\ p \in rows'
    BY <1>1 DEF TapeInv, Settled, Broadcast
  <2>3. \A q \in rows \ (uncached \cup unsent) : q \in (rows \ (uncached \cup unsent))'
    BY DEF Broadcast
  <2> QED  BY <1>3, <1>4, <2>1, <2>2, <2>3 DEF Settled
<1>6. AnnouncedOnce'
  <2>1. \A j \in Instruments : \A k \in DOMAIN feed'[j] : feed'[j][k] \notin (uncached \cup unsent)'
    BY <1>5 DEF Settled
  <2>2. ASSUME NEW j \in Instruments, NEW k \in DOMAIN feed'[j], NEW l \in DOMAIN feed'[j],
               feed'[j][k] = feed'[j][l]
        PROVE  k = l
    <3>1. \A m, n \in DOMAIN feed[j] : feed[j][m] = feed[j][n] => m = n
      BY DEF TapeInv, AnnouncedOnce
    <3> QED  BY <1>3, <1>4, <2>2, <3>1
  <2> QED  BY <2>1, <2>2 DEF AnnouncedOnce
<1> QED  BY <1>2, <1>5, <1>6 DEF TapeInv

LEMMA TapeStep == TapeInv /\ [TapeNext]_tape => TapeInv'
<1> SUFFICES ASSUME TapeInv, [TapeNext]_tape PROVE TapeInv'  OBVIOUS
<1>1. CASE Tick
  BY <1>1, ClockAssumption DEF Tick, TapeInv, TapeTypeOK, Settled, AnnouncedOnce
<1>2. ASSUME NEW r \in Rounds, NEW i \in Instruments, Store(r, i) PROVE TapeInv'
  BY <1>2, StoreKeeps
<1>3. ASSUME NEW p \in uncached \cup unsent, SetCache(p) PROVE TapeInv'
  <2>1. p \in uncached  BY <1>3 DEF SetCache
  <2> QED  BY <1>3, <2>1, SetCacheKeeps
<1>4. ASSUME NEW p \in uncached \cup unsent, Broadcast(p) PROVE TapeInv'
  <2>1. p \in unsent  BY <1>4 DEF Broadcast
  <2> QED  BY <1>4, <2>1, BroadcastKeeps
<1>5. ASSUME NEW p \in uncached \cup unsent, Abandon(p) PROVE TapeInv'
  BY <1>5 DEF Abandon, TapeInv, TapeTypeOK, Settled, AnnouncedOnce
<1>6. CASE UNCHANGED tape
  BY <1>6 DEF tape, TapeInv, TapeTypeOK, Settled, AnnouncedOnce
<1> QED  BY <1>1, <1>2, <1>3, <1>4, <1>5, <1>6 DEF TapeNext

\* However rounds overlap and wherever they are cut short, group_send carries each
\* ConsolidatedPrice row at most once, and a round is done with a row it has sent.
THEOREM NothingTwice == TapeSpec => []AnnouncedOnce
<1>1. TapeInv => AnnouncedOnce  BY DEF TapeInv
<1> QED  BY <1>1, TapeStart, TapeStep, PTL DEF TapeSpec

-----------------------------------------------------------------------------
(* Sequences *)

\* A suffix, by its elements.
LEMMA SuffixByIndex ==
  ASSUME NEW S, NEW s \in Seq(S), NEW t \in Seq(S)
  PROVE  IsSuffix(s, t) <=>
           /\ Len(s) <= Len(t)
           /\ \A k \in 1..Len(s) : s[k] = t[k + Len(t) - Len(s)]
<1> DEFINE rs == Reverse(s)
           rt == Reverse(t)
<1>0. Len(s) \in Nat /\ Len(t) \in Nat
  OBVIOUS
<1>1. /\ rs \in Seq(S) /\ Len(rs) = Len(s)
      /\ \A k \in 1..Len(s) : rs[k] = s[Len(s) - k + 1]
  BY DEF Reverse
<1>2. /\ rt \in Seq(S) /\ Len(rt) = Len(t)
      /\ \A k \in 1..Len(t) : rt[k] = t[Len(t) - k + 1]
  BY DEF Reverse
<1> HIDE DEF rs, rt
<1>3. SubSeq(rs, 1, Len(rs)) = rs
  BY <1>1, SubSeqFull
<1>4. ASSUME Len(s) <= Len(t)
      PROVE  rs = SubSeq(rt, 1, Len(rs)) <=> \A k \in 1..Len(s) : rs[k] = rt[k]
  <2> DEFINE sub == SubSeq(rt, 1, Len(rs))
  <2>1. /\ sub \in Seq(S) /\ Len(sub) = Len(s)
        /\ \A k \in 1..Len(s) : sub[k] = rt[k]
    BY <1>0, <1>1, <1>2, <1>4
  <2> HIDE DEF sub
  <2>2. (\A k \in 1..Len(s) : rs[k] = sub[k]) => rs = sub
    BY <1>1, <2>1, SeqEqual
  <2> QED  BY <2>1, <2>2 DEF sub
<1>5. ASSUME Len(s) <= Len(t)
      PROVE  (\A k \in 1..Len(s) : rs[k] = rt[k])
               <=> \A k \in 1..Len(s) : s[k] = t[k + Len(t) - Len(s)]
  <2>1. ASSUME \A k \in 1..Len(s) : rs[k] = rt[k], NEW k \in 1..Len(s)
        PROVE  s[k] = t[k + Len(t) - Len(s)]
    <3>1. Len(s) - k + 1 \in 1..Len(s) /\ Len(s) - k + 1 \in 1..Len(t)
      BY <1>0, <1>5
    <3>2. rs[Len(s) - k + 1] = rt[Len(s) - k + 1]  BY <2>1, <3>1
    <3>3. /\ Len(s) - (Len(s) - k + 1) + 1 = k
          /\ Len(t) - (Len(s) - k + 1) + 1 = k + Len(t) - Len(s)
      BY <1>0
    <3> QED  BY <1>1, <1>2, <3>1, <3>2, <3>3
  <2>2. ASSUME \A k \in 1..Len(s) : s[k] = t[k + Len(t) - Len(s)], NEW k \in 1..Len(s)
        PROVE  rs[k] = rt[k]
    <3>1. Len(s) - k + 1 \in 1..Len(s) /\ k \in 1..Len(t)
      BY <1>0, <1>5
    <3>2. (Len(s) - k + 1) + Len(t) - Len(s) = Len(t) - k + 1
      BY <1>0
    <3> QED  BY <1>1, <1>2, <2>2, <3>1, <3>2
  <2> QED  BY <2>1, <2>2
<1> QED  BY <1>1, <1>2, <1>3, <1>4, <1>5 DEF IsSuffix, IsPrefix, rs, rt

LEMMA EmptyIsSuffix ==
  ASSUME NEW S, NEW t \in Seq(S)
  PROVE  IsSuffix(<< >>, t)
<1>1. << >> \in Seq(S) /\ Len(<< >>) = 0 /\ Len(t) \in Nat  OBVIOUS
<1>2. 1..Len(<< >>) = {} /\ Len(<< >>) <= Len(t)  BY <1>1
<1> QED  BY <1>1, <1>2, SuffixByIndex

\* Both sequences may grow by the same element.
LEMMA SuffixGrows ==
  ASSUME NEW S, NEW s \in Seq(S), NEW t \in Seq(S), NEW e \in S, IsSuffix(s, t)
  PROVE  IsSuffix(Append(s, e), Append(t, e))
<1> DEFINE s1 == Append(s, e)
           t1 == Append(t, e)
<1>1. /\ s1 \in Seq(S) /\ Len(s1) = Len(s) + 1
      /\ t1 \in Seq(S) /\ Len(t1) = Len(t) + 1
      /\ \A k \in 1..Len(s) : s1[k] = s[k]
      /\ \A k \in 1..Len(t) : t1[k] = t[k]
      /\ s1[Len(s) + 1] = e /\ t1[Len(t) + 1] = e
      /\ Len(s) \in Nat /\ Len(t) \in Nat
  OBVIOUS
<1> HIDE DEF s1, t1
<1>2. Len(s) <= Len(t) /\ \A k \in 1..Len(s) : s[k] = t[k + Len(t) - Len(s)]
  BY SuffixByIndex
<1>3. ASSUME NEW k \in 1..Len(s1)
      PROVE  s1[k] = t1[k + Len(t1) - Len(s1)]
  <2>1. k + Len(t1) - Len(s1) = k + Len(t) - Len(s)  BY <1>1
  <2>2. CASE k \in 1..Len(s)
    <3>1. k + Len(t) - Len(s) \in 1..Len(t)  BY <1>1, <1>2, <2>2
    <3> QED  BY <1>1, <1>2, <2>1, <2>2, <3>1
  <2>3. CASE k = Len(s) + 1
    <3>1. k + Len(t) - Len(s) = Len(t) + 1  BY <1>1, <2>3
    <3> QED  BY <1>1, <2>1, <2>3, <3>1
  <2> QED  BY <1>1, <2>2, <2>3
<1>4. Len(s1) <= Len(t1)
  BY <1>1, <1>2
<1>5. IsSuffix(s1, t1)
  BY <1>1, <1>3, <1>4, SuffixByIndex
<1> QED  BY <1>5 DEF s1, t1

\* What a client hears grows at the end when an update joins its queue ...
LEMMA QueueGrows ==
  ASSUME NEW u \in Seq(Rows), NEW q \in Seq(Rows), NEW e \in Rows
  PROVE  u \o Append(q, e) = Append(u \o q, e)
<1> DEFINE l == u \o Append(q, e)
           r == Append(u \o q, e)
<1>1. l \in Seq(Rows) /\ r \in Seq(Rows) /\ Len(l) = Len(r)
  OBVIOUS
<1>2. \A k \in 1..Len(l) : l[k] = r[k]
  OBVIOUS
<1> QED  BY <1>1, <1>2, SeqEqual

\* ... and stays what it is when an update is sent.
LEMMA QueueMoves ==
  ASSUME NEW S, NEW u \in Seq(S), NEW q \in Seq(S), q # << >>
  PROVE  /\ Append(u, Head(q)) \o Tail(q) = u \o q
         /\ Head(q) \in S /\ Tail(q) \in Seq(S) /\ Len(Tail(q)) < Len(q)
<1> DEFINE l == Append(u, Head(q)) \o Tail(q)
           r == u \o q
<1>1. /\ Len(q) \in Nat \ {0} /\ Head(q) = q[1] /\ Head(q) \in S
      /\ Tail(q) \in Seq(S) /\ Len(Tail(q)) = Len(q) - 1
      /\ \A k \in 1..Len(Tail(q)) : Tail(q)[k] = q[k + 1]
  BY HeadTailProperties
<1>2. l \in Seq(S) /\ r \in Seq(S) /\ Len(l) = Len(r)
  BY <1>1
<1>3. \A k \in 1..Len(l) : l[k] = r[k]
  BY <1>1
<1> QED  BY <1>1, <1>2, <1>3, SeqEqual

LEMMA RangeGrows ==
  ASSUME NEW S, NEW s \in Seq(S), NEW e \in S
  PROVE  Range(Append(s, e)) = Range(s) \cup {e}
<1>1. /\ DOMAIN Append(s, e) = DOMAIN s \cup {Len(s) + 1}
      /\ \A k \in DOMAIN s : Append(s, e)[k] = s[k]
      /\ Append(s, e)[Len(s) + 1] = e
  OBVIOUS
<1> QED  BY <1>1 DEF Range

LEMMA AppendedIsLast ==
  ASSUME NEW S, NEW s \in Seq(S), NEW e \in S
  PROVE  Append(s, e) # << >> /\ Last(Append(s, e)) = e
<1>1. /\ Len(Append(s, e)) = Len(s) + 1 /\ Len(s) \in Nat
      /\ Append(s, e)[Len(s) + 1] = e
  OBVIOUS
<1>2. Len(<< >>) = 0  OBVIOUS
<1> QED  BY <1>1, <1>2 DEF Last

-----------------------------------------------------------------------------
(* The inductive invariant *)

\* What connections rely on of the rounds: the entry in the cache is the last one
\* written and outlives every price written so far, and a price is written before
\* it is announced.
CacheTells ==
  /\ \A p \in rows : p.ts <= now
  /\ \A p \in unsent : p \in Range(written[p.inst])
  /\ \A i \in Instruments :
       /\ Range(feed[i]) \subseteq Range(written[i])
       /\ written[i] = << >> => cache[i] = None
       /\ written[i] # << >> => cache[i] # None /\ cache[i].price = Last(written[i])
       /\ \A p \in Range(written[i]) :
            p.ts <= now /\ cache[i].expires >= p.ts + CacheTTL

FeedInv == TypeOK /\ TapeInv /\ CacheTells /\ NothingSkipped /\ HeardOrSuperseded

LEMMA FeedStart == Init => FeedInv
<1> SUFFICES ASSUME Init PROVE FeedInv  OBVIOUS
<1>1. TapeInv
  BY TapeStart DEF Init
<1>2. TypeOK
  BY <1>1, CapacityAssumption, ClockAssumption DEF Init, TypeOK, TapeInv
<1>3. CacheTells
  BY DEF Init, TapeInit, CacheTells, Range
<1>4. NothingSkipped /\ HeardOrSuperseded
  BY DEF Init, NothingSkipped, HeardOrSuperseded
<1> QED  BY <1>1, <1>2, <1>3, <1>4 DEF FeedInv

\* The ways a step can go.
LEMMA FeedSteps ==
  ASSUME [Next]_vars
  PROVE  \/ Ingest
         \/ \E p \in uncached : Remember(p)
         \/ \E p \in unsent : Announce(p)
         \/ \E c \in Connections : Join(c) \/ Open(c) \/ QuoteUpdate(c) \/ Close(c)
         \/ UNCHANGED vars
  BY DEF Next, Remember, SetCache, Announce, Broadcast

\* Every step is one of Tape, or leaves Tape alone.
LEMMA FeedImplementsTape == [Next]_vars => [TapeNext]_tape
  BY DEF Next, vars, Ingest, Remember, Announce, Join, Open, QuoteUpdate, Close,
         TapeNext

LEMMA CachedTyped ==
  ASSUME TapeTypeOK, NEW i \in Instruments
  PROVE  Cached(i) \in Rows \cup {None}
  BY DEF TapeTypeOK, Cached

\* Types.
LEMMA TypesKept ==
  ASSUME FeedInv, [Next]_vars
  PROVE  TypeOK'
<1>1. TypeOK /\ TapeTypeOK /\ TapeTypeOK'
  BY TapeStep, FeedImplementsTape DEF FeedInv, TapeInv
<1>2. CASE Ingest
  BY <1>1, <1>2 DEF Ingest, TypeOK, clients
<1>3. ASSUME NEW p \in uncached, Remember(p) PROVE TypeOK'
  <2>1. p \in Rows /\ p.inst \in Instruments
    BY <1>1 DEF TapeTypeOK, Rows
  <2>2. written' \in [Instruments -> Seq(Rows)]
    BY <1>1, <1>3, <2>1 DEF Remember, TypeOK
  <2> QED  BY <1>1, <1>3, <2>2 DEF Remember, TypeOK, clients
<1>4. ASSUME NEW p \in unsent, Announce(p) PROVE TypeOK'
  <2>1. p \in Rows
    BY <1>1 DEF TapeTypeOK
  <2>2. queue' \in [Connections -> Seq(Rows)] /\ overrun' \in [Connections -> BOOLEAN]
    <3>1. \A c \in Connections :
            /\ queue[c] \in Seq(Rows) /\ Append(queue[c], p) \in Seq(Rows)
            /\ Len(queue[c]) >= Capacity => Append(Tail(queue[c]), p) \in Seq(Rows)
      BY <1>1, <2>1, CapacityAssumption DEF TypeOK
    <3> QED  BY <1>1, <1>4, <3>1 DEF Announce, TypeOK
  <2>3. \A c \in Connections : Len(queue[c])' <= Capacity
    <3>1. \A c \in Connections :
            /\ queue[c] \in Seq(Rows) /\ Len(queue[c]) \in Nat /\ Len(queue[c]) <= Capacity
            /\ Len(Append(queue[c], p)) = Len(queue[c]) + 1
            /\ Len(queue[c]) >= Capacity => Len(Append(Tail(queue[c]), p)) = Len(queue[c])
      BY <1>1, <2>1, CapacityAssumption DEF TypeOK
    <3> QED  BY <1>1, <1>4, <3>1, CapacityAssumption DEF Announce
  <2> QED  BY <1>1, <1>4, <2>2, <2>3 DEF Announce, TypeOK
<1>5. ASSUME NEW c \in Connections, Join(c) PROVE TypeOK'
  <2>1. << >> \in Seq(Rows) /\ Len(<< >>) = 0  OBVIOUS
  <2> QED  BY <1>1, <1>5, <2>1, CapacityAssumption DEF Join, TypeOK
<1>6. ASSUME NEW c \in Connections, Open(c) PROVE TypeOK'
  <2>1. symbol[c] \in Instruments
    BY <1>1, <1>6 DEF TypeOK, Open
  <2>2. Cached(symbol[c]) \in Rows \cup {None} /\ now \in 0..MaxTime
    BY <1>1, <2>1, CachedTyped DEF TapeTypeOK
  <2> QED  BY <1>1, <1>6, <2>2 DEF Open, TypeOK
<1>7. ASSUME NEW c \in Connections, QuoteUpdate(c) PROVE TypeOK'
  <2>1. /\ queue[c] \in Seq(Rows) /\ queue[c] # << >> /\ updates[c] \in Seq(Rows)
        /\ Len(queue[c]) \in Nat /\ Len(queue[c]) <= Capacity
    BY <1>1, <1>7 DEF TypeOK, QuoteUpdate
  <2>2. Head(queue[c]) \in Rows /\ Tail(queue[c]) \in Seq(Rows)
        /\ Len(Tail(queue[c])) \in Nat /\ Len(Tail(queue[c])) <= Capacity
        /\ Append(updates[c], Head(queue[c])) \in Seq(Rows)
    BY <2>1, QueueMoves, CapacityAssumption
  <2> QED  BY <1>1, <1>7, <2>2 DEF QuoteUpdate, TypeOK
<1>8. ASSUME NEW c \in Connections, Close(c) PROVE TypeOK'
  BY <1>1, <1>8 DEF Close, TypeOK
<1>9. CASE UNCHANGED vars
  BY <1>1, <1>9 DEF vars, clients, TypeOK
<1> QED
  BY <1>2, <1>3, <1>4, <1>5, <1>6, <1>7, <1>8, <1>9, FeedSteps

\* CacheTells speaks of nothing that connections change.
LEMMA CacheTellsKept ==
  ASSUME FeedInv, [Next]_vars
  PROVE  CacheTells'
<1>1. /\ TypeOK /\ TapeTypeOK /\ CacheTells
      /\ uncached \subseteq rows /\ unsent \subseteq rows /\ rows \subseteq Rows
      /\ now \in Nat /\ CacheTTL \in Nat
  BY ClockAssumption DEF FeedInv, TapeInv, TapeTypeOK
<1>2. CASE Ingest
  <2>1. UNCHANGED <<cache, feed, written>> /\ unsent' \subseteq unsent
    BY <1>2 DEF Ingest, Tick, Store, Abandon
  <2>2. now' \in Nat /\ now <= now'
    BY <1>1, <1>2 DEF Ingest, Tick, Store, Abandon
  <2>3. \A p \in rows' : p.ts <= now'
    <3>1. CASE rows' = rows
      BY <1>1, <2>2, <3>1 DEF CacheTells, Rows
    <3>2. ASSUME NEW r \in Rounds, NEW i \in Instruments, Store(r, i)
          PROVE  \A p \in rows' : p.ts <= now'
      BY <1>1, <3>2 DEF CacheTells, Store
    <3> QED  BY <1>2, <3>1, <3>2 DEF Ingest, Tick, Abandon
  <2>4. ASSUME NEW i \in Instruments, NEW p \in Range(written[i])
        PROVE  p.ts <= now'
    <3>1. p \in Rows /\ p.ts <= now  BY <1>1 DEF TypeOK, CacheTells, Range
    <3> QED  BY <1>1, <2>2, <3>1 DEF Rows
  <2> QED  BY <1>1, <2>1, <2>3, <2>4 DEF CacheTells
<1>3. ASSUME NEW p \in uncached, Remember(p) PROVE CacheTells'
  <2>1. p \in Rows /\ p \in rows /\ p.inst \in Instruments /\ p.ts \in Nat /\ p.ts <= now
    BY <1>1 DEF Rows, CacheTells
  <2>2. /\ written[p.inst] \in Seq(Rows)
        /\ written' = [written EXCEPT ![p.inst] = Append(@, p)]
        /\ written \in [Instruments -> Seq(Rows)]
        /\ cache' = [cache EXCEPT ![p.inst] = [price |-> p, expires |-> now + CacheTTL]]
        /\ cache \in [Instruments -> [price : Rows, expires : Nat] \cup {None}]
        /\ UNCHANGED <<now, rows, feed>> /\ unsent' = unsent \cup {p}
    BY <1>1, <1>3, <2>1 DEF TypeOK, TapeTypeOK, Remember, SetCache
  <2>3. Range(Append(written[p.inst], p)) = Range(written[p.inst]) \cup {p}
    BY <2>1, <2>2, RangeGrows
  <2>4. \A i \in Instruments : Range(written[i]) \subseteq Range(written'[i])
    BY <2>1, <2>2, <2>3
  <2>5. \A q \in unsent' : q \in Range(written'[q.inst])
    <3>1. p \in Range(written'[p.inst])  BY <2>1, <2>2, <2>3
    <3>2. \A q \in unsent : q.inst \in Instruments  BY <1>1 DEF Rows
    <3> QED  BY <1>1, <2>2, <2>4, <3>1, <3>2 DEF CacheTells
  <2>6. ASSUME NEW i \in Instruments, i # p.inst
        PROVE  written'[i] = written[i] /\ cache'[i] = cache[i]
    BY <2>2, <2>6
  <2>7. /\ written'[p.inst] # << >> /\ Last(written'[p.inst]) = p
        /\ cache'[p.inst].price = p /\ cache'[p.inst].expires = now + CacheTTL
        /\ cache'[p.inst] # None
    <3>1. /\ written'[p.inst] = Append(written[p.inst], p)
          /\ cache'[p.inst] = [price |-> p, expires |-> now + CacheTTL]
      BY <2>1, <2>2
    <3>2. Append(written[p.inst], p) # << >> /\ Last(Append(written[p.inst], p)) = p
      BY <2>1, <2>2, AppendedIsLast
    <3>3. cache'[p.inst] # None
      BY <1>1, <2>1, <3>1, NoneAssumption
    <3> QED  BY <3>1, <3>2, <3>3
  <2>8. \A q \in Range(written'[p.inst]) : q.ts <= now /\ now + CacheTTL >= q.ts + CacheTTL
    <3>1. \A q \in Range(written[p.inst]) : q \in Rows /\ q.ts <= now
      BY <1>1, <2>1, <2>2 DEF CacheTells, Range
    <3>2. \A q \in Range(written[p.inst]) \cup {p} : q.ts \in Nat /\ q.ts <= now
      BY <2>1, <3>1 DEF Rows
    <3> QED  BY <1>1, <2>1, <2>2, <2>3, <3>2
  <2> QED  BY <1>1, <2>2, <2>4, <2>5, <2>6, <2>7, <2>8 DEF CacheTells
<1>4. ASSUME NEW p \in unsent, Announce(p) PROVE CacheTells'
  <2>1. p \in Rows /\ p.inst \in Instruments /\ p \in Range(written[p.inst])
    BY <1>1 DEF Rows, CacheTells
  <2>2. /\ feed[p.inst] \in Seq(Rows) /\ feed \in [Instruments -> Seq(Rows)]
        /\ feed' = [feed EXCEPT ![p.inst] = Append(@, p)]
        /\ UNCHANGED <<now, rows, cache, written>> /\ unsent' \subseteq unsent
    BY <1>1, <1>4, <2>1 DEF TapeTypeOK, Announce, Broadcast
  <2>3. Range(Append(feed[p.inst], p)) = Range(feed[p.inst]) \cup {p}
    BY <2>1, <2>2, RangeGrows
  <2>4. \A i \in Instruments : Range(feed'[i]) \subseteq Range(written'[i])
    BY <1>1, <2>1, <2>2, <2>3 DEF CacheTells
  <2> QED  BY <1>1, <2>2, <2>4 DEF CacheTells
<1>5. CASE UNCHANGED <<tape, written>>
  BY <1>1, <1>5 DEF CacheTells, tape
<1> QED
  BY <1>2, <1>3, <1>4, <1>5, FeedSteps DEF Join, Open, QuoteUpdate, Close, vars

\* What group_send does to a connection that is not overrun by it: both what it
\* hears and the group's history grow, or neither.
LEMMA AnnounceHeard ==
  ASSUME TypeOK, NEW p \in unsent, Announce(p), NEW c \in Connections,
         state[c] # "closed", ~overrun'[c]
  PROVE  /\ ~overrun[c] /\ symbol'[c] = symbol[c] /\ state'[c] = state[c]
         /\ symbol[c] \in Instruments
         /\ Heard(c) \in Seq(Rows) /\ feed[symbol[c]] \in Seq(Rows) /\ p \in Rows
         /\ \/ /\ feed'[symbol[c]] = feed[symbol[c]]
                /\ Heard(c)' = Heard(c)
            \/ /\ feed'[symbol[c]] = Append(feed[symbol[c]], p)
               /\ Heard(c)' = Append(Heard(c), p)
<1>1. /\ p \in Rows /\ p.inst \in Instruments /\ symbol[c] \in Instruments
      /\ feed \in [Instruments -> Seq(Rows)] /\ overrun[c] \in BOOLEAN
      /\ queue[c] \in Seq(Rows) /\ updates[c] \in Seq(Rows)
  BY DEF TypeOK, TapeTypeOK, Rows
<1>2. ~overrun[c] /\ ~(c \in Members(p.inst) /\ Len(queue[c]) >= Capacity)
  BY <1>1 DEF Announce
<1>3. UNCHANGED <<state, symbol, updates>> /\ feed' = [feed EXCEPT ![p.inst] = Append(@, p)]
  BY DEF Announce, Broadcast
<1>4. queue'[c] = IF symbol[c] = p.inst THEN Append(queue[c], p) ELSE queue[c]
  <2> DEFINE full == {d \in Members(p.inst) : Len(queue[d]) >= Capacity}
  <2>1. PICK keep \in SUBSET full :
          queue' = [d \in Connections |->
            IF d \notin Members(p.inst) \/ d \in keep THEN queue[d]
            ELSE IF d \in full THEN Append(Tail(queue[d]), p)
            ELSE Append(queue[d], p)]
    BY DEF Announce
  <2>2. c \notin full /\ c \notin keep
    BY <1>2, <2>1
  <2>3. c \in Members(p.inst) <=> symbol[c] = p.inst
    BY DEF Members
  <2> QED  BY <2>1, <2>2, <2>3
<1>5. updates[c] \o Append(queue[c], p) = Append(updates[c] \o queue[c], p)
  <2>1. updates[c] \in Seq(Rows) /\ queue[c] \in Seq(Rows) /\ p \in Rows  BY <1>1
  <2> QED  BY <2>1, QueueGrows
<1>6. updates[c] \o queue[c] \in Seq(Rows)
  BY <1>1
<1> QED  BY <1>1, <1>2, <1>3, <1>4, <1>5, <1>6 DEF Heard

\* An update moves from the queue to the client.
LEMMA UpdateHeard ==
  ASSUME TypeOK, NEW c \in Connections, QuoteUpdate(c)
  PROVE  \A d \in Connections : Heard(d)' = Heard(d)
<1>1. /\ queue[c] \in Seq(Rows) /\ updates[c] \in Seq(Rows) /\ queue[c] # << >>
      /\ DOMAIN queue = Connections /\ DOMAIN updates = Connections
  BY DEF TypeOK, QuoteUpdate
<1>2. Append(updates[c], Head(queue[c])) \o Tail(queue[c]) = updates[c] \o queue[c]
  BY <1>1, QueueMoves
<1> QED  BY <1>1, <1>2 DEF QuoteUpdate, Heard

\* Nothing that a connection hears of an instrument, past and present, changes.
LEMMA Unheard ==
  ASSUME UNCHANGED <<queue, updates>>
  PROVE  \A c \in Connections : Heard(c)' = Heard(c)
  BY DEF Heard

\* No update is skipped.
LEMMA NothingSkippedKept ==
  ASSUME FeedInv, [Next]_vars
  PROVE  NothingSkipped'
<1>1. TypeOK /\ NothingSkipped /\ feed \in [Instruments -> Seq(Rows)]
  BY DEF FeedInv, TypeOK, TapeTypeOK
<1>2. CASE UNCHANGED <<state, symbol, overrun, queue, updates, feed>>
  BY <1>1, <1>2, Unheard DEF NothingSkipped
<1>3. ASSUME NEW p \in unsent, Announce(p) PROVE NothingSkipped'
  <2> SUFFICES ASSUME NEW c \in Connections, state'[c] # "closed", ~overrun'[c]
               PROVE  IsSuffix(Heard(c)', feed'[symbol'[c]])
    BY DEF NothingSkipped
  <2>1. state[c] # "closed"
    BY <1>3 DEF Announce
  <2>2. /\ Heard(c) \in Seq(Rows) /\ feed[symbol[c]] \in Seq(Rows) /\ p \in Rows
        /\ ~overrun[c] /\ symbol'[c] = symbol[c]
        /\ \/ feed'[symbol[c]] = feed[symbol[c]] /\ Heard(c)' = Heard(c)
           \/ /\ feed'[symbol[c]] = Append(feed[symbol[c]], p)
              /\ Heard(c)' = Append(Heard(c), p)
    BY <1>1, <1>3, <2>1, AnnounceHeard
  <2>3. IsSuffix(Heard(c), feed[symbol[c]])
    BY <1>1, <2>1, <2>2 DEF NothingSkipped
  <2>4. IsSuffix(Append(Heard(c), p), Append(feed[symbol[c]], p))
    BY <2>2, <2>3, SuffixGrows, Zenon
  <2> QED  BY <2>2, <2>3, <2>4
<1>4. ASSUME NEW c \in Connections, Join(c) PROVE NothingSkipped'
  <2> SUFFICES ASSUME NEW d \in Connections, state'[d] # "closed", ~overrun'[d]
               PROVE  IsSuffix(Heard(d)', feed'[symbol'[d]])
    BY DEF NothingSkipped
  <2>1. feed' = feed
    BY <1>4 DEF Join, tape
  <2>2. CASE d = c
    <3>1. Heard(d)' = << >> /\ symbol'[d] \in Instruments
      BY <1>1, <1>4, <2>2 DEF Heard, TypeOK, Join
    <3>2. feed'[symbol'[d]] \in Seq(Rows)
      BY <1>1, <2>1, <3>1
    <3> QED  BY <3>1, <3>2, EmptyIsSuffix, Zenon
  <2>3. CASE d # c
    <3>1. /\ Heard(d)' = Heard(d) /\ symbol'[d] = symbol[d] /\ state'[d] = state[d]
          /\ overrun'[d] = overrun[d]
      BY <1>1, <1>4, <2>3 DEF Heard, TypeOK, Join
    <3> QED  BY <1>1, <2>1, <3>1 DEF NothingSkipped
  <2> QED  BY <2>2, <2>3
<1>5. ASSUME NEW c \in Connections, Open(c) PROVE NothingSkipped'
  <2>1. /\ UNCHANGED <<symbol, queue, updates, overrun, feed>>
        /\ \A d \in Connections : state'[d] # "closed" => state[d] # "closed"
    BY <1>1, <1>5 DEF Open, TypeOK, tape
  <2> QED  BY <1>1, <2>1, Unheard DEF NothingSkipped
<1>6. ASSUME NEW c \in Connections, QuoteUpdate(c) PROVE NothingSkipped'
  <2>1. UNCHANGED <<state, symbol, overrun, feed>>
    BY <1>6 DEF QuoteUpdate, tape
  <2> QED  BY <1>1, <1>6, <2>1, UpdateHeard DEF NothingSkipped
<1>7. ASSUME NEW c \in Connections, Close(c) PROVE NothingSkipped'
  <2>1. /\ UNCHANGED <<symbol, queue, updates, overrun, feed>>
        /\ \A d \in Connections : state'[d] # "closed" => state[d] # "closed"
    BY <1>1, <1>7 DEF Close, TypeOK, tape
  <2> QED  BY <1>1, <2>1, Unheard DEF NothingSkipped
<1> QED
  BY <1>2, <1>3, <1>4, <1>5, <1>6, <1>7, FeedSteps
  DEF Ingest, Tick, Store, Abandon, Remember, SetCache, clients, vars, tape

\* What covers a price that a connection does not hear.
Covered(c, p) ==
  \/ \E k, l \in DOMAIN written[symbol[c]] :
       k <= l /\ written[symbol[c]][k] = p /\ written[symbol[c]][l] = snapshot[c]
  \/ snapshot[c] = None /\ openedAt[c] >= p.ts + CacheTTL

LEMMA CoveredOnOpen ==
  ASSUME FeedInv, NEW c \in Connections, Open(c), NEW p \in Range(feed[symbol[c]])
  PROVE  Covered(c, p)'
<1> DEFINE i == symbol[c]
<1>1. /\ i \in Instruments /\ p \in Range(written[i]) /\ written[i] \in Seq(Rows)
      /\ TapeTypeOK /\ p \in Rows
  <2>1. TypeOK /\ TapeTypeOK /\ CacheTells /\ state[c] = "joined"
    BY DEF FeedInv, TypeOK, Open
  <2>2. i \in Instruments /\ written[i] \in Seq(Rows)
    BY <2>1 DEF TypeOK
  <2>3. p \in Range(written[i])
    BY <2>1, <2>2 DEF CacheTells
  <2>4. p \in Rows
    BY <2>2, <2>3 DEF Range
  <2> QED  BY <2>1, <2>2, <2>3, <2>4
<1>2. /\ snapshot'[c] = Cached(i) /\ openedAt'[c] = now
      /\ UNCHANGED <<symbol, written>>
  BY DEF FeedInv, TypeOK, Open
<1>3. PICK k \in DOMAIN written[i] : written[i][k] = p
  BY <1>1 DEF Range
<1>4. /\ DOMAIN written[i] = 1..Len(written[i]) /\ Len(written[i]) \in Nat
      /\ k \in 1..Len(written[i]) /\ Len(written[i]) \in 1..Len(written[i])
      /\ written[i] # << >>
  BY <1>1, <1>3
<1>5. /\ cache[i] # None /\ cache[i].price = Last(written[i])
      /\ cache[i].expires >= p.ts + CacheTTL
  BY <1>1, <1>4 DEF FeedInv, CacheTells
<1>6. CASE now < cache[i].expires
  <2>1. Cached(i) = written[i][Len(written[i])]
    BY <1>5, <1>6 DEF Cached, Last
  <2> QED  BY <1>2, <1>3, <1>4, <2>1 DEF Covered
<1>7. CASE ~(now < cache[i].expires)
  <2>1. Cached(i) = None
    BY <1>7 DEF Cached
  <2>2. now \in Nat /\ cache[i].expires \in Nat /\ p.ts + CacheTTL \in Nat
    BY <1>1, <1>5, ClockAssumption DEF TapeTypeOK, Rows
  <2>3. now >= p.ts + CacheTTL
    BY <1>5, <1>7, <2>2
  <2> QED  BY <1>2, <2>1, <2>3 DEF Covered
<1> QED  BY <1>6, <1>7

\* A snapshot goes on covering what it covers, for prices are only ever added.
LEMMA CoveredStays ==
  ASSUME TypeOK, UNCHANGED <<symbol, snapshot, openedAt>>,
         NEW c \in Connections, symbol[c] \in Instruments, NEW p, Covered(c, p),
         UNCHANGED written \/ \E q \in uncached : Remember(q)
  PROVE  Covered(c, p)'
<1>1. CASE UNCHANGED written
  BY <1>1 DEF Covered
<1>2. ASSUME NEW q \in uncached, Remember(q) PROVE Covered(c, p)'
  <2> DEFINE w == written[symbol[c]]
  <2>1. w \in Seq(Rows) /\ q \in Rows /\ q.inst \in Instruments
    BY DEF TypeOK, TapeTypeOK, Rows
  <2>2. written'[symbol[c]] = w \/ written'[symbol[c]] = Append(w, q)
    BY <1>2, <2>1 DEF Remember, TypeOK
  <2>3. \A k \in DOMAIN w :
          k \in DOMAIN written'[symbol[c]] /\ written'[symbol[c]][k] = w[k]
    <3>1. \A k \in DOMAIN w : k \in DOMAIN Append(w, q) /\ Append(w, q)[k] = w[k]
      BY <2>1
    <3> HIDE DEF w
    <3> QED  BY <2>2, <3>1
  <2>4. CASE \E k, l \in DOMAIN w : k <= l /\ w[k] = p /\ w[l] = snapshot[c]
    <3>1. PICK k \in DOMAIN w, l \in DOMAIN w : k <= l /\ w[k] = p /\ w[l] = snapshot[c]
      BY <2>4
    <3>2. \E m, n \in DOMAIN written'[symbol[c]] :
            m <= n /\ written'[symbol[c]][m] = p /\ written'[symbol[c]][n] = snapshot[c]
      BY <2>3, <3>1
    <3> QED  BY <3>2 DEF Covered
  <2>5. CASE snapshot[c] = None /\ openedAt[c] >= p.ts + CacheTTL
    BY <2>5 DEF Covered
  <2> QED  BY <2>4, <2>5 DEF Covered
<1> QED  BY <1>1, <1>2

\* Every broadcast price is heard or covered.
LEMMA SupersededKept ==
  ASSUME FeedInv, [Next]_vars
  PROVE  HeardOrSuperseded'
<1> USE DEF HeardOrSuperseded
<1> DEFINE Owed(c) == state[c] = "open" /\ ~overrun[c]
<1>1. /\ TypeOK /\ feed \in [Instruments -> Seq(Rows)]
      /\ \A c \in Connections : Owed(c) =>
           /\ symbol[c] \in Instruments
           /\ \A p \in Range(feed[symbol[c]]) : p \in Range(Heard(c)) \/ Covered(c, p)
  BY DEF FeedInv, TypeOK, TapeTypeOK, Covered
<1> SUFFICES ASSUME NEW c \in Connections, Owed(c)', NEW p \in Range(feed'[symbol'[c]])
             PROVE  p \in Range(Heard(c)') \/ Covered(c, p)'
  BY DEF Covered
<1>2. ASSUME Owed(c), feed'[symbol'[c]] = feed[symbol[c]], Heard(c)' = Heard(c),
             Covered(c, p) => Covered(c, p)'
      PROVE  p \in Range(Heard(c)') \/ Covered(c, p)'
  BY <1>1, <1>2
<1>3. CASE Ingest \/ UNCHANGED vars \/ \E q \in uncached : Remember(q)
  <2>1. /\ UNCHANGED <<state, symbol, overrun, queue, updates, snapshot, openedAt, feed>>
        /\ UNCHANGED written \/ \E q \in uncached : Remember(q)
    BY <1>3 DEF Ingest, Tick, Store, Abandon, Remember, SetCache, clients, vars, tape
  <2>2. Owed(c) /\ symbol[c] \in Instruments
    BY <1>1, <2>1
  <2>3. Covered(c, p) => Covered(c, p)'
    BY <1>1, <2>1, <2>2, CoveredStays
  <2> QED  BY <1>2, <2>1, <2>2, <2>3, Unheard
<1>4. ASSUME NEW q \in unsent, Announce(q)
      PROVE  p \in Range(Heard(c)') \/ Covered(c, p)'
  <2>1. UNCHANGED <<state, symbol, snapshot, openedAt, written>>
    BY <1>4 DEF Announce
  <2>2. /\ Heard(c) \in Seq(Rows) /\ feed[symbol[c]] \in Seq(Rows) /\ q \in Rows
        /\ Owed(c) /\ symbol'[c] = symbol[c]
        /\ \/ feed'[symbol[c]] = feed[symbol[c]] /\ Heard(c)' = Heard(c)
           \/ /\ feed'[symbol[c]] = Append(feed[symbol[c]], q)
              /\ Heard(c)' = Append(Heard(c), q)
    <3>1. state[c] # "closed" /\ ~overrun'[c]
      BY <2>1
    <3> QED  BY <1>1, <1>4, <2>1, <3>1, AnnounceHeard
  <2>3. Covered(c, p) => Covered(c, p)'
    BY <1>1, <2>1, <2>2, CoveredStays
  <2>4. /\ Range(Append(feed[symbol[c]], q)) = Range(feed[symbol[c]]) \cup {q}
        /\ Range(Append(Heard(c), q)) = Range(Heard(c)) \cup {q}
    BY <2>2, RangeGrows
  <2> QED  BY <1>1, <1>2, <2>2, <2>3, <2>4
<1>5. ASSUME NEW d \in Connections, Join(d) \/ Close(d)
      PROVE  p \in Range(Heard(c)') \/ Covered(c, p)'
  <2>1. c # d
    BY <1>1, <1>5 DEF Join, Close, TypeOK
  <2>2. /\ UNCHANGED <<feed, written, openedAt>>
        /\ state'[c] = state[c] /\ overrun'[c] = overrun[c] /\ symbol'[c] = symbol[c]
        /\ queue'[c] = queue[c] /\ updates'[c] = updates[c] /\ snapshot'[c] = snapshot[c]
    BY <1>1, <1>5, <2>1 DEF Join, Close, TypeOK, tape
  <2> QED  BY <1>2, <2>2 DEF Covered, Heard
<1>6. ASSUME NEW d \in Connections, Open(d)
      PROVE  p \in Range(Heard(c)') \/ Covered(c, p)'
  <2>1. UNCHANGED <<feed, written, symbol, overrun, queue, updates>>
    BY <1>6 DEF Open, tape
  <2>2. CASE c = d
    BY <1>6, <2>1, <2>2, CoveredOnOpen
  <2>3. CASE c # d
    <3>1. /\ state'[c] = state[c] /\ snapshot'[c] = snapshot[c]
          /\ openedAt'[c] = openedAt[c]
      BY <1>1, <1>6, <2>3 DEF Open, TypeOK
    <3> QED  BY <1>2, <2>1, <3>1 DEF Covered, Heard
  <2> QED  BY <2>2, <2>3
<1>7. ASSUME NEW d \in Connections, QuoteUpdate(d)
      PROVE  p \in Range(Heard(c)') \/ Covered(c, p)'
  <2>1. UNCHANGED <<state, symbol, overrun, feed, written, snapshot, openedAt>>
    BY <1>7 DEF QuoteUpdate, tape
  <2>2. Heard(c)' = Heard(c)
    BY <1>1, <1>7, UpdateHeard
  <2> QED  BY <1>2, <2>1, <2>2 DEF Covered
<1> QED
  BY <1>3, <1>4, <1>5, <1>6, <1>7, FeedSteps

LEMMA FeedStep == FeedInv /\ [Next]_vars => FeedInv'
  BY TypesKept, TapeStep, FeedImplementsTape, CacheTellsKept, NothingSkippedKept,
     SupersededKept DEF FeedInv

LEMMA FeedInvariant == Spec => []FeedInv
  BY FeedStart, FeedStep, PTL DEF Spec

-----------------------------------------------------------------------------
(* Theorems *)

\* The variables of the connections and of the rounds keep their types, and the
\* channel layer never holds more than its capacity for a connection.
THEOREM TypeCorrect == Spec => []TypeOK
<1>1. FeedInv => TypeOK  BY DEF FeedInv
<1> QED  BY <1>1, FeedInvariant, PTL

\* From its first update on, a connection that keeps up is sent every price that
\* group_send announces of its symbol, once and in order.
THEOREM NoUpdateSkipped == Spec => []NothingSkipped
<1>1. FeedInv => NothingSkipped  BY DEF FeedInv
<1> QED  BY <1>1, FeedInvariant, PTL

\* No announced price falls between the snapshot of connect() and the updates.
THEOREM NoGapAfterSnapshot == Spec => []HeardOrSuperseded
<1>1. FeedInv => HeardOrSuperseded  BY DEF FeedInv
<1> QED  BY <1>1, FeedInvariant, PTL

\* A connection with nothing to come has its last update from the end of the
\* group's history or, without any, the snapshot that covers that end.
LEMMA LatestShown == FeedInv => ShowsLatest
<1> SUFFICES ASSUME FeedInv, NEW c \in Connections,
                    state[c] = "open", ~overrun[c], queue[c] = << >>,
                    feed[symbol[c]] = written[symbol[c]], feed[symbol[c]] # << >>
             PROVE  LET i == symbol[c]
                    IN  \/ Shown(c) = Last(written[i])
                        \/ Shown(c) = None /\ openedAt[c] >= Last(written[i]).ts + CacheTTL
  BY DEF ShowsLatest
<1> DEFINE i == symbol[c]
           f == feed[i]
           n == Len(f)
<1>1. /\ i \in Instruments /\ f \in Seq(Rows) /\ updates[c] \in Seq(Rows)
      /\ TypeOK /\ NothingSkipped /\ HeardOrSuperseded /\ AnnouncedOnce
  BY DEF FeedInv, TapeInv, TypeOK, TapeTypeOK
<1>2. /\ DOMAIN f = 1..n /\ n \in Nat /\ n \in DOMAIN f /\ f[n] \in Range(f)
      /\ Last(written[i]) = f[n] /\ f = written[i]
  BY <1>1 DEF Range, Last
<1>3. Heard(c) = updates[c]
  BY <1>1, ConcatEmptySeq DEF Heard
<1>4. CASE updates[c] = << >>
  <2>1. Range(Heard(c)) = {}
    BY <1>3, <1>4 DEF Range
  <2>2. \/ \E k, l \in DOMAIN f : k <= l /\ f[k] = f[n] /\ f[l] = snapshot[c]
        \/ snapshot[c] = None /\ openedAt[c] >= f[n].ts + CacheTTL
    BY <1>1, <1>2, <2>1 DEF HeardOrSuperseded
  <2>3. Shown(c) = snapshot[c]
    BY <1>4 DEF Shown
  <2>4. ASSUME NEW k \in DOMAIN f, NEW l \in DOMAIN f, k <= l, f[k] = f[n],
               f[l] = snapshot[c]
        PROVE  snapshot[c] = f[n]
    <3>1. k = n
      BY <1>1, <1>2, <2>4 DEF AnnouncedOnce
    <3>2. l = n
      BY <1>2, <2>4, <3>1
    <3> QED  BY <2>4, <3>2
  <2> QED  BY <1>2, <2>2, <2>3, <2>4
<1>5. CASE updates[c] # << >>
  <2> DEFINE u == updates[c]
             m == Len(u)
  <2>1. m \in Nat /\ m \in 1..m /\ m + n - m = n
    BY <1>1, <1>2, <1>5
  <2>2. IsSuffix(u, f)
    BY <1>1, <1>3 DEF NothingSkipped
  <2>3. u[m] = f[m + n - m]
    <3>1. \A k \in 1..Len(u) : u[k] = f[k + Len(f) - Len(u)]
      BY <1>1, <2>2, SuffixByIndex, Zenon
    <3> QED  BY <2>1, <3>1
  <2> QED  BY <1>2, <1>5, <2>1, <2>3 DEF Shown, Last
<1> QED  BY <1>4, <1>5

\* An open connection with nothing to come shows the last cached price, as long as
\* prices are announced in the order they were cached.
THEOREM LatestIsShown == Spec => []ShowsLatest
  BY LatestShown, FeedInvariant, PTL
=============================================================================

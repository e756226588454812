--------------------------- MODULE RequestsProofs ---------------------------
(***************************************************************************)
(* Proofs about Requests.tla, for any number of rate symbols, days,        *)
(* windows, chunks, permits, attempts and retries, any throttle interval   *)
(* and any cache size.                                                     *)
(***************************************************************************)
EXTENDS Requests, BoundedCacheProofs

PC == Inside \union {"idle", "start", "queued", "done"}
InLine == {"line", "sleep"}
\* On the way to a request: the attempt in hand has not failed.
Trying == {"start", "queued", "slot", "line", "sleep", "asked"}
\* Past a look into the cache that found nothing.
Missed == Inside \union {"queued"}

(* A semaphore's queue lists fetches of its tier that wait, once each. *)
QueueInv ==
    \A t \in Tier :
        /\ Distinct(queue[t])
        /\ \A f \in Listed(queue[t]) :
               pc[f] = "queued" /\ TierOf(f) = t /\ Guarded(f)

(* The line lists who is in it, and a sleeper holds the lock. *)
LineInv ==
    /\ Distinct(line)
    /\ \A f \in Fetch : pc[f] \in InLine <=> f \in Listed(line)
    /\ \A f \in Fetch : pc[f] = "sleep" => line[1] = f

(* An attempt is made only if one is left. *)
TriesInv == \A f \in Fetch : pc[f] \in Trying => tries[f] < ClientTries

(* The next slot is due an interval after the last request, and whoever    *)
(* sleeps in the throttle wakes for it.                                    *)
ClockInv ==
    /\ stage # "closed" => since + due = Interval
    /\ \A f \in Fetch : pc[f] = "sleep" => wake[f] = due

(* What a fetch is about to set is not held. *)
CacheInv ==
    /\ \A c \in CacheName : SoundOver(cache[c], Key)
    /\ \A f \in Day : pc[f] \in Missed => f \notin cache["contracts"].held
    /\ pc["bars"] \in Missed => Windows[pos] \notin cache["ohlc"].held
    /\ stage = "rates" => Windows[pos] \notin cache["rates"].held

(* Nothing is asked for before the heartbeat, which is tried so often. *)
StageInv == stage = "heartbeat" => AllDone /\ beats < HeartbeatTries

IInv ==
    /\ TypeOK /\ QueueInv /\ LineInv /\ PermitsAccounted
    /\ TriesInv /\ ClockInv /\ CacheInv /\ StageInv

-----------------------------------------------------------------------------
LEMMA FetchFinite == IsFiniteSet(Fetch)
  <1>1. IsFiniteSet(Symbol \union Day)
    BY RequestsAssumption, FS_Union
  <1>2. IsFiniteSet(Plain)
    <2>1. Plain = ((({} \union {"expirations"}) \union {"bars"}) \union {"greeks"})
                    \union {"oi"}
      BY DEF Plain
    <2> QED
      BY <2>1, FS_EmptySet, FS_AddElement
  <1> QED
    BY <1>1, <1>2, FS_Union DEF Fetch

LEMMA FetchFacts ==
    /\ "bars" \in Fetch /\ "expirations" \in Fetch
    /\ Day \subseteq Fetch /\ Symbol \subseteq Fetch /\ "bars" \notin Day
    /\ \A f \in Fetch : TierOf(f) \in Tier /\ Guarded(f) \in BOOLEAN
    /\ \A t \in Tier : Limit[t] \in Nat \ {0}
    /\ "expirations" \notin Day
  BY RequestsAssumption DEF Fetch, Plain, TierOf, Guarded, Tier, Limit

LEMMA WindowFacts ==
    ASSUME NEW i \in DOMAIN Windows
    PROVE  Windows[i] \in Window /\ Windows[i] \in Key /\ i \in 1 .. Len(Windows)
  BY RequestsAssumption, LenProperties, ElementOfSeq DEF Key

LEMMA InitInv == Init => IInv
  <1> SUFFICES ASSUME Init PROVE IInv
    OBVIOUS
  <1>1. /\ stage = "heartbeat" /\ pos = 1 /\ beats = 0
        /\ pc = [f \in Fetch |-> "idle"]
        /\ tries = [f \in Fetch |-> 0] /\ attempts = [f \in Fetch |-> 0]
        /\ answer = [f \in Fetch |-> "none"]
        /\ free = Limit /\ queue = [t \in Tier |-> <<>>]
        /\ line = <<>> /\ due = 0 /\ wake = [f \in Fetch |-> 0]
        /\ cache = [c \in CacheName |-> Empty] /\ since = Interval
    BY DEF Init
  <1>2. <<>> \in Seq(Fetch) /\ Len(<<>>) = 0
    BY EmptySeq
  <1>3. \A c \in CacheName : SoundOver(cache[c], Key)
    BY <1>1, EmptySound
  <1>4. TypeOK
    <2>1. pos \in DOMAIN Windows
      BY <1>1, RequestsAssumption, LenProperties, EmptySeq
    <2>2. free \in [Tier -> Nat] /\ \A t \in Tier : free[t] <= Limit[t]
      BY <1>1, FetchFacts DEF Limit
    <2>3. cache \in [CacheName -> CacheType(Key)]
      BY <1>1, <1>3 DEF SoundOver
    <2>4. queue \in [Tier -> Seq(Fetch)] /\ line \in Seq(Fetch)
      BY <1>1, <1>2
    <2>5. /\ 0 \in 0 .. Interval /\ Interval \in 0 .. Interval
          /\ 0 \in 0 .. HeartbeatTries /\ 0 \in 0 .. ClientTries
          /\ 0 \in 0 .. MaxRetries
      BY RequestsAssumption
    <2> QED
      BY <1>1, <2>1, <2>2, <2>3, <2>4, <2>5 DEF TypeOK
  <1>5. QueueInv /\ LineInv
    BY <1>1, <1>2 DEF QueueInv, LineInv, Distinct, Listed, InLine
  <1>6. PermitsAccounted
    <2> SUFFICES ASSUME NEW t \in Tier
                 PROVE  /\ free[t] + Cardinality({f \in Fetch : Holds(f) /\ TierOf(f) = t}) = Limit[t]
                        /\ free[t] > 0 => queue[t] = <<>>
      BY DEF PermitsAccounted
    <2>1. {f \in Fetch : Holds(f) /\ TierOf(f) = t} = {}
      BY <1>1 DEF Holds, Inside
    <2>2. free[t] = Limit[t] /\ queue[t] = <<>> /\ Limit[t] \in Nat
      BY <1>1, FetchFacts
    <2>3. Cardinality({f \in Fetch : Holds(f) /\ TierOf(f) = t}) = 0
      BY <2>1, FS_EmptySet
    <2> QED
      BY <2>2, <2>3
  <1>7. TriesInv /\ ClockInv /\ StageInv
    BY <1>1, RequestsAssumption
    DEF TriesInv, Trying, ClockInv, StageInv, AllDone, Done
  <1>8. CacheInv
    BY <1>1, <1>3, FetchFacts DEF CacheInv, Missed, Inside
  <1> QED
    BY <1>4, <1>5, <1>6, <1>7, <1>8 DEF IInv
-----------------------------------------------------------------------------
(* Steps of one fetch: it goes to x, and the next in a queue may get its    *)
(* permit.                                                                 *)
Moved(f, x) ==
    /\ pc' \in [Fetch -> PC]
    /\ pc'[f] = x
    /\ \A g \in Fetch \ {f} :
           pc'[g] = pc[g] \/ (pc[g] = "queued" /\ pc'[g] = "slot")

HoldersOf(t) == {f \in Fetch : Holds(f) /\ TierOf(f) = t}

LEMMA HoldersFinite ==
    ASSUME NEW t
    PROVE  IsFiniteSet(HoldersOf(t)) /\ Cardinality(HoldersOf(t)) \in Nat
  <1>1. HoldersOf(t) \subseteq Fetch
    BY DEF HoldersOf
  <1> QED
    BY <1>1, FetchFinite, FS_Subset, FS_CardinalityType

LEMMA MovedAlone ==
    ASSUME TypeOK, NEW f \in Fetch, NEW x \in PC, pc' = [pc EXCEPT ![f] = x]
    PROVE  Moved(f, x)
  BY DEF TypeOK, Moved, PC

(* Who stays inside or outside keeps the permits as they are. *)
LEMMA PermitsMoved ==
    ASSUME IInv, NEW f \in Fetch, NEW x \in PC, pc' = [pc EXCEPT ![f] = x],
           x \in Inside <=> pc[f] \in Inside, pc[f] # "queued", UNCHANGED permits
    PROVE  PermitsAccounted' /\ QueueInv' /\ queue' \in [Tier -> Seq(Fetch)]
           /\ free' \in [Tier -> Nat] /\ \A t \in Tier : free'[t] <= Limit[t]
  <1>1. free' = free /\ queue' = queue
    BY DEF permits
  <1>2. \A g \in Fetch : Holds(g)' = Holds(g)
    BY DEF IInv, TypeOK, Holds
  <1>3. \A t \in Tier : {g \in Fetch : Holds(g) /\ TierOf(g) = t}'
                          = {g \in Fetch : Holds(g) /\ TierOf(g) = t}
    BY <1>2 DEF TierOf
  <1>4. PermitsAccounted'
    BY <1>1, <1>3 DEF IInv, PermitsAccounted
  <1>5. QueueInv'
    <2> SUFFICES ASSUME NEW t \in Tier
                 PROVE  /\ Distinct(queue'[t])
                        /\ \A g \in Listed(queue'[t]) :
                               pc'[g] = "queued" /\ TierOf(g) = t /\ Guarded(g)
      BY DEF QueueInv, Distinct, Listed, TierOf, Guarded
    <2>1. \A g \in Listed(queue[t]) : g \in Fetch
      BY ElementOfSeq DEF IInv, TypeOK, Listed
    <2> QED
      BY <1>1, <2>1 DEF IInv, TypeOK, QueueInv
  <1> QED
    BY <1>1, <1>4, <1>5 DEF IInv, TypeOK

(* The parts of the invariant that speak of permits and queues. *)
LEMMA QueueParts ==
    ASSUME IInv
    PROVE  /\ pc \in [Fetch -> PC]
           /\ queue \in [Tier -> Seq(Fetch)] /\ free \in [Tier -> Nat]
           /\ \A u \in Tier : Limit[u] \in Nat /\ free[u] \in Nat /\ free[u] <= Limit[u]
           /\ \A u \in Tier : Distinct(queue[u])
           /\ \A u \in Tier : \A g \in Listed(queue[u]) :
                 g \in Fetch /\ pc[g] = "queued" /\ TierOf(g) = u /\ Guarded(g)
  <1>1. /\ pc \in [Fetch -> PC]
        /\ queue \in [Tier -> Seq(Fetch)] /\ free \in [Tier -> Nat]
        /\ \A u \in Tier : free[u] <= Limit[u]
    BY DEF IInv, TypeOK, PC
  <1>2. \A u \in Tier : \A g \in Listed(queue[u]) : g \in Fetch
    BY <1>1, ElementOfSeq DEF Listed
  <1>3. \A u \in Tier : /\ Distinct(queue[u])
                        /\ \A g \in Listed(queue[u]) :
                              pc[g] = "queued" /\ TierOf(g) = u /\ Guarded(g)
    BY DEF IInv, QueueInv
  <1>4. \A u \in Tier : Limit[u] \in Nat /\ free[u] \in Nat
    BY <1>1, FetchFacts
  <1> QED
    BY <1>1, <1>2, <1>3, <1>4

(* A fetch that gives its permit back, or had none, keeps them accounted. *)
LEMMA ReturnKeeps ==
    ASSUME IInv, NEW f \in Fetch, pc[f] \in Inside,
           NEW x \in {"start", "done"}, Return(f, x)
    PROVE  /\ Moved(f, x)
           /\ PermitsAccounted' /\ QueueInv'
           /\ queue' \in [Tier -> Seq(Fetch)]
           /\ free' \in [Tier -> Nat] /\ \A t \in Tier : free'[t] <= Limit[t]
  <1> DEFINE t == TierOf(f)
             h == Head(queue[t])
  <1>0. /\ t \in Tier /\ pc \in [Fetch -> PC] /\ x \in PC /\ x \notin Inside /\ x # "queued"
        /\ queue \in [Tier -> Seq(Fetch)] /\ free \in [Tier -> Nat]
        /\ \A u \in Tier : Limit[u] \in Nat /\ free[u] \in Nat /\ free[u] <= Limit[u]
        /\ \A u \in Tier : \A g \in Listed(queue[u]) :
              g \in Fetch /\ pc[g] = "queued" /\ TierOf(g) = u /\ Guarded(g)
    BY QueueParts, FetchFacts DEF PC, Inside
  <1>1. CASE Guarded(f) /\ queue[t] # <<>>
    <2>1. /\ pc' = [pc EXCEPT ![f] = x, ![h] = "slot"]
          /\ queue' = [queue EXCEPT ![t] = Tail(@)]
          /\ free' = free
      BY <1>1 DEF Return
    <2>2. /\ Tail(queue[t]) \in Seq(Fetch) /\ Distinct(Tail(queue[t]))
          /\ Listed(Tail(queue[t])) = Listed(queue[t]) \ {h}
          /\ h \in Listed(queue[t])
      BY <1>0, <1>1, TailKeeps DEF IInv, QueueInv
    <2>3. h \in Fetch /\ pc[h] = "queued" /\ TierOf(h) = t /\ Guarded(h) /\ h # f
      BY <1>0, <2>2 DEF Inside
    <2> HIDE DEF h, t
    <2>4. pc' \in [Fetch -> PC] /\ pc'[f] = x /\ pc'[h] = "slot"
          /\ \A g \in Fetch \ {f, h} : pc'[g] = pc[g]
      BY <1>0, <2>1, <2>3 DEF PC, Inside
    <2>5. Moved(f, x)
      BY <2>3, <2>4 DEF Moved
    <2>6. queue' \in [Tier -> Seq(Fetch)] /\ queue'[t] = Tail(queue[t])
          /\ \A u \in Tier \ {t} : queue'[u] = queue[u]
      BY <1>0, <2>1, <2>2
    <2>7. QueueInv'
      <3> SUFFICES ASSUME NEW u \in Tier
                   PROVE  /\ Distinct(queue'[u])
                          /\ \A g \in Listed(queue'[u]) :
                                pc'[g] = "queued" /\ TierOf(g) = u /\ Guarded(g)
        BY DEF QueueInv, Distinct, Listed, TierOf, Guarded
      <3>1. CASE u = t
        BY <1>0, <2>2, <2>4, <2>6, <3>1 DEF Inside
      <3>2. CASE u # t
        BY <1>0, <2>3, <2>4, <2>6, <3>2 DEF IInv, QueueInv, Inside
      <3> QED
        BY <3>1, <3>2
    <2>8. PermitsAccounted'
      <3> SUFFICES ASSUME NEW u \in Tier
                   PROVE  /\ free'[u] + Cardinality(HoldersOf(u)') = Limit[u]
                          /\ free'[u] > 0 => queue'[u] = <<>>
        BY DEF PermitsAccounted, HoldersOf, TierOf
      <3>1. /\ free[u] + Cardinality(HoldersOf(u)) = Limit[u]
            /\ free[u] > 0 => queue[u] = <<>>
        BY DEF IInv, PermitsAccounted, HoldersOf
      <3>2. CASE u # t
        <4>1. HoldersOf(u)' = HoldersOf(u)
          BY <2>3, <2>4, <3>2 DEF HoldersOf, Holds, TierOf, t
        <4> QED
          BY <2>1, <2>6, <3>1, <3>2, <4>1
      <3>3. CASE u = t
        <4>1. HoldersOf(u)' = (HoldersOf(u) \ {f}) \union {h}
          BY <1>0, <2>3, <2>4, <3>3 DEF HoldersOf, Holds, Inside, TierOf
        <4>2. f \in HoldersOf(u) /\ h \notin HoldersOf(u) \ {f}
          BY <1>1, <2>3, <3>3 DEF HoldersOf, Holds, Inside, t
        <4>3. Cardinality(HoldersOf(u) \ {f}) = Cardinality(HoldersOf(u)) - 1
              /\ IsFiniteSet(HoldersOf(u) \ {f})
          BY <4>2, HoldersFinite, FS_RemoveElement
        <4>4. Cardinality(HoldersOf(u)') = Cardinality(HoldersOf(u)) - 1 + 1
          BY <4>1, <4>2, <4>3, FS_AddElement
        <4>5. Cardinality(HoldersOf(u)') = Cardinality(HoldersOf(u))
          BY <4>4, HoldersFinite
        <4>6. free'[u] = free[u] /\ ~(free[u] > 0)
          BY <1>1, <2>1, <3>1, <3>3
        <4> QED
          BY <3>1, <4>5, <4>6
      <3> QED
        BY <3>2, <3>3
    <2> QED
      BY <1>0, <2>1, <2>5, <2>6, <2>7, <2>8
  <1>2. CASE ~(Guarded(f) /\ queue[t] # <<>>)
    <2>1. /\ pc' = [pc EXCEPT ![f] = x]
          /\ free' = IF Guarded(f) THEN [free EXCEPT ![t] = @ + 1] ELSE free
          /\ queue' = queue
      BY <1>2 DEF Return
    <2> HIDE DEF t
    <2>2. Moved(f, x)
      BY <2>1, MovedAlone, <1>0 DEF IInv
    <2>3. QueueInv'
      <3> SUFFICES ASSUME NEW u \in Tier
                   PROVE  /\ Distinct(queue'[u])
                          /\ \A g \in Listed(queue'[u]) :
                                pc'[g] = "queued" /\ TierOf(g) = u /\ Guarded(g)
        BY DEF QueueInv, Distinct, Listed, TierOf, Guarded
      <3> QED
        BY <1>0, <2>1 DEF IInv, QueueInv, Inside
    <2>4. ASSUME NEW u \in Tier
          PROVE  /\ free'[u] + Cardinality(HoldersOf(u)') = Limit[u]
                 /\ free'[u] > 0 => queue'[u] = <<>>
                 /\ free'[u] \in Nat /\ free'[u] <= Limit[u]
      <3>1. /\ free[u] + Cardinality(HoldersOf(u)) = Limit[u]
            /\ free[u] > 0 => queue[u] = <<>>
        BY DEF IInv, PermitsAccounted, HoldersOf
      <3>2. CASE u # t \/ ~Guarded(f)
        <4>1. HoldersOf(u)' = HoldersOf(u)
          <5>1. ASSUME NEW g \in Fetch
                PROVE  Holds(g)' /\ TierOf(g) = u <=> Holds(g) /\ TierOf(g) = u
            <6>1. CASE g = f
              BY <1>0, <2>1, <3>2, <6>1 DEF Holds, Guarded, t
            <6>2. CASE g # f
              BY <1>0, <2>1, <6>2 DEF Holds, Guarded
            <6> QED
              BY <6>1, <6>2
          <5> QED
            BY <5>1 DEF HoldersOf, TierOf
        <4>2. free'[u] = free[u]
          BY <1>0, <2>1, <3>2
        <4> QED
          BY <1>0, <2>1, <3>1, <4>1, <4>2
      <3>3. CASE u = t /\ Guarded(f)
        <4>1. HoldersOf(u)' = HoldersOf(u) \ {f}
          BY <1>0, <2>1, <3>3 DEF HoldersOf, Holds, TierOf, Guarded
        <4>2. f \in HoldersOf(u)
          BY <3>3 DEF HoldersOf, Holds, t
        <4>3. Cardinality(HoldersOf(u)') = Cardinality(HoldersOf(u)) - 1
          BY <4>1, <4>2, HoldersFinite, FS_RemoveElement
        <4>4. free'[u] = free[u] + 1 /\ queue'[u] = <<>>
          BY <1>0, <1>2, <2>1, <3>3 DEF t
        <4>5. Cardinality(HoldersOf(u)') \in Nat
          <5>1. HoldersOf(u)' \subseteq HoldersOf(u)
            BY <4>1
          <5> QED
            BY <5>1, HoldersFinite, FS_Subset, FS_CardinalityType
        <4>6. Cardinality(HoldersOf(u)) \in Nat
          BY HoldersFinite
        <4>7. free[u] \in Nat /\ Limit[u] \in Nat
          BY <1>0
        <4> DEFINE c == Cardinality(HoldersOf(u))
                   d == Cardinality(HoldersOf(u)')
        <4> HIDE DEF c, d
        <4>8. /\ c \in Nat /\ d \in Nat /\ d = c - 1
              /\ free[u] + c = Limit[u]
          BY <3>1, <4>3, <4>5, <4>6 DEF c, d
        <4>9. free'[u] + d = Limit[u] /\ free'[u] \in Nat /\ free'[u] <= Limit[u]
          BY <4>4, <4>7, <4>8
        <4> QED
          BY <4>4, <4>9 DEF d
      <3> QED
        BY <3>2, <3>3
    <2>5. PermitsAccounted'
      BY <2>4 DEF PermitsAccounted, HoldersOf, TierOf
    <2>6. free' \in [Tier -> Nat] /\ \A u \in Tier : free'[u] <= Limit[u]
      BY <1>0, <2>1, <2>4
    <2> QED
      BY <1>0, <2>1, <2>2, <2>3, <2>5, <2>6
  <1> QED
    BY <1>1, <1>2

(* Who is at the line or not is not changed by a permit handed on. *)
LEMMA LineMoved ==
    ASSUME IInv, NEW f \in Fetch, NEW x \in PC \ InLine, Moved(f, x),
           \/ line' = RemoveFirst(line, f)
           \/ line' = line /\ pc[f] \notin InLine
    PROVE  LineInv' /\ line' \in Seq(Fetch)
  <1>1. /\ line \in Seq(Fetch) /\ Distinct(line)
        /\ \A g \in Fetch : pc[g] \in InLine <=> g \in Listed(line)
        /\ \A g \in Fetch : pc[g] = "sleep" => line[1] = g
    BY DEF IInv, TypeOK, LineInv
  <1>2. /\ line' \in Seq(Fetch) /\ Distinct(line')
        /\ Listed(line') = Listed(line) \ {f}
    <2>1. CASE line' = RemoveFirst(line, f)
      BY <1>1, <2>1, RemoveFirstKeeps
    <2>2. CASE line' = line /\ pc[f] \notin InLine
      BY <1>1, <2>2
    <2> QED
      BY <2>1, <2>2
  <1>3. \A g \in Fetch : pc'[g] \in InLine <=> g \in Listed(line')
    BY <1>1, <1>2 DEF Moved, InLine
  <1>4. ASSUME NEW g \in Fetch, pc'[g] = "sleep" PROVE line'[1] = g
    <2>1. pc[g] = "sleep" /\ g # f
      BY <1>4 DEF Moved, InLine
    <2>2. line[1] = g /\ g \in Listed(line)
      BY <1>1, <2>1 DEF InLine
    <2>3. line # <<>>
      BY <2>2, EmptySeq DEF Listed
    <2>4. CASE line' = RemoveFirst(line, f)
      BY <1>1, <2>1, <2>2, <2>3, <2>4, RemoveFirstHead
    <2> QED
      BY <2>2, <2>4
  <1> QED
    BY <1>2, <1>3, <1>4 DEF LineInv, Distinct, Listed

LEMMA TriesMoved ==
    ASSUME IInv, NEW f \in Fetch, NEW x \in PC, Moved(f, x),
           tries' \in [Fetch -> 0 .. ClientTries],
           \A g \in Fetch \ {f} : tries'[g] = tries[g],
           x \in Trying => tries'[f] < ClientTries
    PROVE  TriesInv'
  BY DEF IInv, TriesInv, Moved, Trying

LEMMA ClockMoved ==
    ASSUME IInv, NEW f \in Fetch, NEW x \in PC \ {"sleep"}, Moved(f, x),
           UNCHANGED <<stage, due, wake, since>>
    PROVE  ClockInv'
  BY DEF IInv, ClockInv, Moved

LEMMA CacheMoved ==
    ASSUME IInv, NEW f \in Fetch, NEW x \in PC, Moved(f, x),
           x \in Missed => pc[f] \in Missed,
           UNCHANGED <<runVars, cache>>
    PROVE  CacheInv'
  BY FetchFacts DEF IInv, CacheInv, Moved, Missed, Inside, runVars

LEMMA StageMoved ==
    ASSUME IInv, NEW f \in Fetch, ~Done(f), UNCHANGED stage
    PROVE  StageInv'
  BY DEF IInv, StageInv, AllDone

(* The part of the state that a step of a fetch seldom changes. *)
TypeRest ==
    /\ stage \in Over \union
         {"heartbeat", "expirations", "rates", "prefetch", "gather", "lists"}
    /\ pos \in DOMAIN Windows
    /\ beats \in 0 .. HeartbeatTries
    /\ tries \in [Fetch -> 0 .. ClientTries]
    /\ attempts \in [Fetch -> 0 .. MaxRetries]
    /\ answer \in [Fetch -> {"none", "rows", "empty", "cached", "raised"}]
    /\ due \in 0 .. Interval
    /\ wake \in [Fetch -> 0 .. Interval]
    /\ since \in 0 .. Interval

LEMMA TypeParts ==
    TypeOK <=> /\ TypeRest
               /\ pc \in [Fetch -> PC]
               /\ free \in [Tier -> Nat] /\ \A t \in Tier : free[t] <= Limit[t]
               /\ queue \in [Tier -> Seq(Fetch)]
               /\ line \in Seq(Fetch)
               /\ cache \in [CacheName -> CacheType(Key)]
  BY DEF TypeOK, TypeRest, PC

LEMMA EndType ==
    ASSUME TypeRest, NEW f \in Fetch, NEW a \in {"rows", "empty", "cached", "raised"},
           End(f, a)
    PROVE  /\ tries' \in [Fetch -> 0 .. ClientTries]
           /\ attempts' \in [Fetch -> 0 .. MaxRetries]
           /\ answer' \in [Fetch -> {"none", "rows", "empty", "cached", "raised"}]
           /\ \A g \in Fetch \ {f} : tries'[g] = tries[g]
  BY RequestsAssumption DEF TypeRest, End

(* What is left to show once the parts are. *)
LEMMA Assemble ==
    ASSUME TypeRest', pc' \in [Fetch -> PC],
           free' \in [Tier -> Nat], \A t \in Tier : free'[t] <= Limit[t],
           queue' \in [Tier -> Seq(Fetch)], line' \in Seq(Fetch),
           cache' \in [CacheName -> CacheType(Key)],
           QueueInv', LineInv', PermitsAccounted', TriesInv', ClockInv',
           CacheInv', StageInv'
    PROVE  IInv'
  <1>1. TypeOK'
    BY DEF TypeOK, TypeRest, PC
  <1> QED
    BY <1>1 DEF IInv

-----------------------------------------------------------------------------
(* The steps of a fetch, one lemma each. *)

LEMMA StoreFacts ==
    ASSUME IInv, NEW f \in Fetch
    PROVE  StoreOf(f) \in CacheName /\ (f \in Day \union {"bars"} => KeyOf(f) \in Key)
  BY WindowFacts DEF IInv, TypeOK, StoreOf, KeyOf, CacheName, Key

LEMMA LookUpInv ==
    ASSUME IInv, NEW f \in Fetch, LookUp(f)
    PROVE  IInv'
  <1> DEFINE c == StoreOf(f)
             k == KeyOf(f)
  <1>1. /\ pc[f] = "start" /\ k \in cache[c].held /\ c \in CacheName
        /\ pc' = [pc EXCEPT ![f] = "done"] /\ End(f, "cached")
        /\ cache' = [cache EXCEPT ![c] = Touch(cache[c], k)]
        /\ UNCHANGED <<runVars, permits, throttle>>
    BY StoreFacts DEF LookUp, InCache, Hit
  <1> HIDE DEF c, k
  <1>2. "done" \in PC /\ Moved(f, "done") /\ pc' \in [Fetch -> PC]
    BY <1>1, MovedAlone DEF PC, IInv, Moved
  <1>3. /\ PermitsAccounted' /\ QueueInv' /\ queue' \in [Tier -> Seq(Fetch)]
        /\ free' \in [Tier -> Nat] /\ \A t \in Tier : free'[t] <= Limit[t]
    BY <1>1, <1>2, PermitsMoved DEF Inside
  <1>4. LineInv' /\ line' \in Seq(Fetch)
    BY <1>1, <1>2, LineMoved DEF throttle, InLine
  <1>5. /\ TypeRest'
        /\ TriesInv'
    <2>1. TypeRest
      BY TypeParts DEF IInv
    <2>2. /\ tries' \in [Fetch -> 0 .. ClientTries]
          /\ attempts' \in [Fetch -> 0 .. MaxRetries]
          /\ answer' \in [Fetch -> {"none", "rows", "empty", "cached", "raised"}]
          /\ \A g \in Fetch \ {f} : tries'[g] = tries[g]
      BY <1>1, <2>1, EndType
    <2>3. TriesInv'
      BY <1>2, <2>2, TriesMoved DEF Trying
    <2> QED
      BY <1>1, <2>1, <2>2, <2>3 DEF TypeRest, runVars, throttle
  <1>6. ClockInv'
    BY <1>1, <1>2, ClockMoved DEF runVars, throttle
  <1>7. StageInv'
    BY <1>1, StageMoved DEF Done, runVars
  <1>8. CacheInv' /\ cache' \in [CacheName -> CacheType(Key)]
    <2>1. SoundOver(Touch(cache[c], k), Key) /\ Touch(cache[c], k).held = cache[c].held
      BY <1>1, TouchSound DEF IInv, CacheInv
    <2>2. /\ cache \in [CacheName -> CacheType(Key)]
          /\ \A d \in CacheName : SoundOver(cache[d], Key)
      BY DEF IInv, CacheInv, TypeOK
    <2>3. \A d \in CacheName : SoundOver(cache'[d], Key) /\ cache'[d].held = cache[d].held
      BY <1>1, <2>1, <2>2
    <2>4. CacheInv'
      BY <1>1, <1>2, <2>3, FetchFacts
      DEF IInv, CacheInv, CacheName, Moved, Missed, Inside, runVars
    <2>5. Touch(cache[c], k) \in CacheType(Key)
      BY <2>1 DEF SoundOver
    <2> QED
      BY <1>1, <2>2, <2>4, <2>5
  <1> QED
    BY <1>2, <1>3, <1>4, <1>5, <1>6, <1>7, <1>8, Assemble

LEMMA AcquireInv ==
    ASSUME IInv, NEW f \in Fetch, Acquire(f)
    PROVE  IInv'
  <1> DEFINE t == TierOf(f)
  <1>0. /\ t \in Tier /\ pc \in [Fetch -> PC] /\ pc[f] = "start"
        /\ queue \in [Tier -> Seq(Fetch)] /\ free \in [Tier -> Nat]
        /\ \A u \in Tier : Limit[u] \in Nat /\ free[u] \in Nat /\ free[u] <= Limit[u]
        /\ \A u \in Tier : \A g \in Listed(queue[u]) :
              g \in Fetch /\ pc[g] = "queued" /\ TierOf(g) = u /\ Guarded(g)
        /\ \A u \in Tier : Distinct(queue[u])
        /\ ~InCache(f)
        /\ UNCHANGED <<runVars, tries, attempts, answer, throttle, cache>>
    BY QueueParts, FetchFacts DEF Acquire
  <1>1. \A u \in Tier : /\ free[u] + Cardinality(HoldersOf(u)) = Limit[u]
                        /\ free[u] > 0 => queue[u] = <<>>
                        /\ Cardinality(HoldersOf(u)) \in Nat
    BY HoldersFinite DEF IInv, PermitsAccounted, HoldersOf
  <1>2. PICK x \in {"queued", "slot"} :
          /\ Moved(f, x)
          /\ PermitsAccounted' /\ QueueInv'
          /\ queue' \in [Tier -> Seq(Fetch)]
          /\ free' \in [Tier -> Nat] /\ \A u \in Tier : free'[u] <= Limit[u]
    <2>1. CASE Guarded(f) /\ free[t] = 0
      <3>1. /\ pc' = [pc EXCEPT ![f] = "queued"]
            /\ queue' = [queue EXCEPT ![t] = Append(queue[t], f)]
            /\ free' = free
        BY <2>1 DEF Acquire
      <3>2. f \notin Listed(queue[t])
        BY <1>0
      <3>3. /\ Append(queue[t], f) \in Seq(Fetch) /\ Distinct(Append(queue[t], f))
            /\ Listed(Append(queue[t], f)) = Listed(queue[t]) \union {f}
        BY <1>0, <3>2, AppendKeeps
      <3>4. Moved(f, "queued")
        BY <3>1, MovedAlone DEF PC, IInv
      <3> HIDE DEF t
      <3>5. QueueInv'
        <4> SUFFICES ASSUME NEW u \in Tier
                     PROVE  /\ Distinct(queue'[u])
                            /\ \A g \in Listed(queue'[u]) :
                                  pc'[g] = "queued" /\ TierOf(g) = u /\ Guarded(g)
          BY DEF QueueInv, Distinct, Listed, TierOf, Guarded
        <4>1. CASE u = t
          BY <1>0, <2>1, <3>1, <3>3, <4>1 DEF t
        <4>2. CASE u # t
          BY <1>0, <3>1, <4>2
        <4> QED
          BY <4>1, <4>2
      <3>6. PermitsAccounted'
        <4> SUFFICES ASSUME NEW u \in Tier
                     PROVE  /\ free'[u] + Cardinality(HoldersOf(u)') = Limit[u]
                            /\ free'[u] > 0 => queue'[u] = <<>>
          BY DEF PermitsAccounted, HoldersOf, TierOf
        <4>1. HoldersOf(u)' = HoldersOf(u)
          BY <1>0, <3>1 DEF HoldersOf, Holds, Inside, TierOf, Guarded
        <4>2. free'[u] > 0 => queue'[u] = <<>>
          BY <1>0, <1>1, <2>1, <3>1
        <4> QED
          BY <1>1, <3>1, <4>1, <4>2
      <3> QED
        BY <1>0, <3>1, <3>3, <3>4, <3>5, <3>6
    <2>2. CASE ~(Guarded(f) /\ free[t] = 0)
      <3>1. /\ pc' = [pc EXCEPT ![f] = "slot"]
            /\ free' = IF Guarded(f) THEN [free EXCEPT ![t] = @ - 1] ELSE free
            /\ queue' = queue
        BY <2>2 DEF Acquire
      <3>2. Moved(f, "slot")
        BY <3>1, MovedAlone DEF PC, Inside, IInv
      <3> HIDE DEF t
      <3>3. QueueInv'
        <4> SUFFICES ASSUME NEW u \in Tier
                     PROVE  /\ Distinct(queue'[u])
                            /\ \A g \in Listed(queue'[u]) :
                                  pc'[g] = "queued" /\ TierOf(g) = u /\ Guarded(g)
          BY DEF QueueInv, Distinct, Listed, TierOf, Guarded
        <4> QED
          BY <1>0, <3>1
      <3>4. ASSUME NEW u \in Tier
            PROVE  /\ free'[u] + Cardinality(HoldersOf(u)') = Limit[u]
                   /\ free'[u] > 0 => queue'[u] = <<>>
                   /\ free'[u] \in Nat /\ free'[u] <= Limit[u]
        <4>1. CASE u # t \/ ~Guarded(f)
          <5>1. ASSUME NEW g \in Fetch
                PROVE  Holds(g)' /\ TierOf(g) = u <=> Holds(g) /\ TierOf(g) = u
            <6>1. CASE g = f
              BY <1>0, <3>1, <4>1, <6>1 DEF Holds, Guarded, t
            <6>2. CASE g # f
              BY <1>0, <3>1, <6>2 DEF Holds, Guarded
            <6> QED
              BY <6>1, <6>2
          <5>2. HoldersOf(u)' = HoldersOf(u)
            BY <5>1 DEF HoldersOf, TierOf
          <5>3. free'[u] = free[u]
            BY <1>0, <3>1, <4>1
          <5> QED
            BY <1>0, <1>1, <3>1, <5>2, <5>3
        <4>2. CASE u = t /\ Guarded(f)
          <5>1. HoldersOf(u)' = HoldersOf(u) \union {f}
            BY <1>0, <3>1, <4>2 DEF HoldersOf, Holds, TierOf, Guarded, Inside, t
          <5>2. f \notin HoldersOf(u)
            BY <1>0 DEF HoldersOf, Holds, Inside
          <5>3. Cardinality(HoldersOf(u)') = Cardinality(HoldersOf(u)) + 1
            BY <5>1, <5>2, HoldersFinite, FS_AddElement
          <5>4. free'[u] = free[u] - 1 /\ free[u] > 0
            BY <1>0, <2>2, <3>1, <4>2
          <5> DEFINE c == Cardinality(HoldersOf(u))
                     d == Cardinality(HoldersOf(u)')
          <5> HIDE DEF c, d
          <5>5. c \in Nat /\ d = c + 1 /\ free[u] + c = Limit[u]
            BY <1>1, <5>3 DEF c, d
          <5>6. free'[u] + d = Limit[u] /\ free'[u] \in Nat /\ free'[u] <= Limit[u]
            BY <1>0, <5>4, <5>5
          <5>7. queue'[u] = <<>>
            BY <1>1, <3>1, <5>4
          <5> QED
            BY <5>6, <5>7 DEF d
        <4> QED
          BY <4>1, <4>2
      <3>5. PermitsAccounted'
        BY <3>4 DEF PermitsAccounted, HoldersOf, TierOf
      <3>6. free' \in [Tier -> Nat] /\ \A u \in Tier : free'[u] <= Limit[u]
        BY <1>0, <3>1, <3>4
      <3> QED
        BY <1>0, <3>1, <3>2, <3>3, <3>5, <3>6
    <2> QED
      BY <2>1, <2>2
  <1>3. x \in PC \ InLine /\ x \in PC \ {"sleep"} /\ pc' \in [Fetch -> PC]
    BY <1>2 DEF PC, Inside, InLine, Moved
  <1>4. LineInv' /\ line' \in Seq(Fetch)
    BY <1>0, <1>2, <1>3, LineMoved DEF throttle, InLine
  <1>5. TriesInv'
    BY <1>0, <1>2, <1>3, TriesMoved DEF IInv, TriesInv, Trying, TypeOK
  <1>6. ClockInv'
    BY <1>0, <1>2, <1>3, ClockMoved DEF runVars, throttle
  <1>7. StageInv'
    BY <1>0, StageMoved DEF Done, runVars
  <1>8. CacheInv'
    <2>1. /\ f \in Day => f \notin cache["contracts"].held
          /\ f = "bars" => Windows[pos] \notin cache["ohlc"].held
      BY <1>0, FetchFacts DEF InCache, Hit, StoreOf, KeyOf
    <2> QED
      BY <1>0, <1>2, <2>1, FetchFacts
      DEF IInv, CacheInv, Moved, Missed, Inside, runVars
  <1>9. TypeRest' /\ cache' \in [CacheName -> CacheType(Key)]
    BY <1>0, TypeParts DEF IInv, TypeRest, runVars, throttle
  <1> QED
    BY <1>2, <1>3, <1>4, <1>5, <1>6, <1>7, <1>8, <1>9, Assemble

(* A fetch joins the line, alone or behind others. *)
LEMMA LineJoined ==
    ASSUME IInv, NEW f \in Fetch, NEW x \in InLine, pc[f] = "slot",
           pc' = [pc EXCEPT ![f] = x], line' = Append(line, f),
           x = "sleep" => line = <<>>
    PROVE  LineInv' /\ line' \in Seq(Fetch)
  <1>1. /\ line \in Seq(Fetch) /\ Distinct(line) /\ pc \in [Fetch -> PC]
        /\ \A g \in Fetch : pc[g] \in InLine <=> g \in Listed(line)
        /\ \A g \in Fetch : pc[g] = "sleep" => line[1] = g
    BY DEF IInv, TypeOK, LineInv, PC
  <1>2. f \notin Listed(line)
    BY <1>1 DEF InLine
  <1>3. /\ line' \in Seq(Fetch) /\ Distinct(line')
        /\ Listed(line') = Listed(line) \union {f}
    BY <1>1, <1>2, AppendKeeps
  <1>4. /\ Len(line) \in Nat /\ Len(line') = Len(line) + 1
        /\ \A i \in 1 .. Len(line) : line'[i] = line[i]
        /\ line'[Len(line) + 1] = f
    BY <1>1, LenProperties, AppendProperties
  <1>5. \A g \in Fetch : pc'[g] \in InLine <=> g \in Listed(line')
    BY <1>1, <1>3
  <1>6. ASSUME NEW g \in Fetch, pc'[g] = "sleep" PROVE line'[1] = g
    <2>1. CASE g = f
      <3>1. Len(line) = 0
        BY <1>1, <1>6, <2>1, EmptySeq
      <3> QED
        BY <1>4, <2>1, <3>1
    <2>2. CASE g # f
      <3>1. line[1] = g /\ g \in Listed(line)
        BY <1>1, <1>6, <2>2 DEF InLine
      <3>2. 1 \in 1 .. Len(line)
        BY <1>4, <3>1 DEF Listed
      <3> QED
        BY <1>4, <3>1, <3>2
    <2> QED
      BY <2>1, <2>2
  <1> QED
    BY <1>3, <1>5, <1>6 DEF LineInv, Distinct, Listed

LEMMA JoinLineInv ==
    ASSUME IInv, NEW f \in Fetch, JoinLine(f)
    PROVE  IInv'
  <1>1. /\ pc[f] = "slot" /\ pc' = [pc EXCEPT ![f] = "line"]
        /\ line' = Append(line, f)
        /\ UNCHANGED <<runVars, tries, attempts, answer, permits, due, wake, since,
                      cache>>
    BY DEF JoinLine
  <1>2. "line" \in PC /\ Moved(f, "line") /\ pc' \in [Fetch -> PC]
    BY <1>1, MovedAlone DEF PC, Inside, IInv, Moved
  <1>3. /\ PermitsAccounted' /\ QueueInv' /\ queue' \in [Tier -> Seq(Fetch)]
        /\ free' \in [Tier -> Nat] /\ \A t \in Tier : free'[t] <= Limit[t]
    BY <1>1, <1>2, PermitsMoved DEF Inside
  <1>4. LineInv' /\ line' \in Seq(Fetch)
    BY <1>1, LineJoined DEF InLine
  <1>5. TriesInv'
    BY <1>1, <1>2, TriesMoved DEF IInv, TriesInv, Trying, TypeOK
  <1>6. ClockInv'
    BY <1>1, <1>2, ClockMoved DEF runVars
  <1>7. StageInv'
    BY <1>1, StageMoved DEF Done, runVars
  <1>8. CacheInv'
    BY <1>1, <1>2, CacheMoved DEF Missed, Inside
  <1>9. TypeRest' /\ cache' \in [CacheName -> CacheType(Key)]
    BY <1>1, TypeParts DEF IInv, TypeRest, runVars
  <1> QED
    BY <1>2, <1>3, <1>4, <1>5, <1>6, <1>7, <1>8, <1>9, Assemble

(* Whose turn it is: nobody sleeps in the throttle. *)
LEMMA TurnFacts ==
    ASSUME IInv, NEW f \in Fetch, Turn(f)
    PROVE  /\ \A g \in Fetch : pc[g] # "sleep"
           /\ pc[f] = "line" => line # <<>> /\ line[1] = f
           /\ pc[f] # "line" => pc[f] = "slot" /\ line = <<>>
  <1>1. /\ line \in Seq(Fetch)
        /\ \A g \in Fetch : pc[g] \in InLine <=> g \in Listed(line)
        /\ \A g \in Fetch : pc[g] = "sleep" => line[1] = g
    BY DEF IInv, TypeOK, LineInv
  <1>2. CASE pc[f] = "slot" /\ line = <<>>
    <2>1. Listed(line) = {}
      BY <1>2, EmptySeq DEF Listed
    <2> QED
      BY <1>1, <1>2, <2>1 DEF InLine
  <1>3. CASE pc[f] = "line" /\ Head(line) = f
    <2>1. line # <<>>
      BY <1>1, <1>3, EmptySeq DEF InLine, Listed
    <2>2. line[1] = f
      BY <1>1, <1>3, <2>1, TailKeeps DEF IInv, LineInv
    <2> QED
      BY <1>1, <1>3, <2>1, <2>2
  <1> QED
    BY <1>2, <1>3 DEF Turn

LEMMA SleepUntilDueInv ==
    ASSUME IInv, NEW f \in Fetch, SleepUntilDue(f)
    PROVE  IInv'
  <1>1. /\ Turn(f) /\ pc' = [pc EXCEPT ![f] = "sleep"]
        /\ wake' = [wake EXCEPT ![f] = due]
        /\ line' = IF pc[f] = "line" THEN line ELSE Append(line, f)
        /\ UNCHANGED <<runVars, tries, attempts, answer, permits, due, since, cache>>
    BY DEF SleepUntilDue
  <1>2. pc[f] \in {"slot", "line"} /\ \A g \in Fetch : pc[g] # "sleep"
    BY <1>1, TurnFacts
  <1>3. "sleep" \in PC /\ Moved(f, "sleep") /\ pc' \in [Fetch -> PC]
    BY <1>1, MovedAlone DEF PC, Inside, IInv, Moved
  <1>4. /\ PermitsAccounted' /\ QueueInv' /\ queue' \in [Tier -> Seq(Fetch)]
        /\ free' \in [Tier -> Nat] /\ \A t \in Tier : free'[t] <= Limit[t]
    BY <1>1, <1>2, <1>3, PermitsMoved DEF Inside
  <1>5. LineInv' /\ line' \in Seq(Fetch)
    <2>1. CASE pc[f] = "line"
      <3>1. line' = line /\ line[1] = f
        BY <1>1, <2>1, TurnFacts
      <3>2. /\ line \in Seq(Fetch) /\ Distinct(line) /\ pc \in [Fetch -> PC]
            /\ \A g \in Fetch : pc[g] \in InLine <=> g \in Listed(line)
        BY QueueParts DEF IInv, TypeOK, LineInv
      <3>3. /\ pc'[f] = "sleep"
            /\ \A g \in Fetch : g # f => pc'[g] = pc[g] /\ pc'[g] # "sleep"
        BY <1>1, <1>2, <3>2
      <3>4. Listed(line') = Listed(line) /\ Distinct(line') /\ line' \in Seq(Fetch)
        BY <3>1, <3>2
      <3>5. \A g \in Fetch : pc'[g] \in InLine <=> pc[g] \in InLine
        BY <2>1, <3>3 DEF InLine
      <3>6. \A g \in Fetch : pc'[g] \in InLine <=> g \in Listed(line')
        BY <3>2, <3>4, <3>5
      <3>7. \A g \in Fetch : pc'[g] = "sleep" => line'[1] = g
        BY <3>1, <3>3
      <3> QED
        BY <3>4, <3>6, <3>7 DEF LineInv
    <2>2. CASE pc[f] # "line"
      BY <1>1, <2>2, TurnFacts, LineJoined DEF InLine
    <2> QED
      BY <2>1, <2>2
  <1>6. TriesInv'
    BY <1>1, <1>2, <1>3, TriesMoved DEF IInv, TriesInv, Trying, TypeOK
  <1>7. ClockInv'
    BY <1>1, <1>2 DEF IInv, ClockInv, TypeOK, runVars
  <1>8. StageInv'
    BY <1>1, <1>2, StageMoved DEF Done, runVars
  <1>9. CacheInv'
    BY <1>1, <1>2, <1>3, CacheMoved DEF Missed, Inside
  <1>10. TypeRest' /\ cache' \in [CacheName -> CacheType(Key)]
    BY <1>1, TypeParts DEF IInv, TypeRest, runVars
  <1> QED
    BY <1>3, <1>4, <1>5, <1>6, <1>7, <1>8, <1>9, <1>10, Assemble

(* An exception leaves get, whatever the clocks do. *)
LEMMA RaiseInv ==
    ASSUME IInv, NEW f \in Fetch, pc[f] \in Inside, NEW retryable \in BOOLEAN,
           Raise(f, retryable),
           \/ line' = RemoveFirst(line, f)
           \/ line' = line /\ pc[f] \notin InLine,
           due' \in 0 .. Interval, UNCHANGED <<runVars, wake, since>>,
           \/ due' = due
           \/ stage = "closed" /\ \A g \in Fetch \ {f} : pc[g] # "sleep"
    PROVE  IInv'
  <1>0. TypeRest
    BY TypeParts DEF IInv
  <1>1. PICK x \in {"start", "done"} :
          /\ Return(f, x)
          /\ tries' \in [Fetch -> 0 .. ClientTries]
          /\ attempts' \in [Fetch -> 0 .. MaxRetries]
          /\ answer' \in [Fetch -> {"none", "rows", "empty", "cached", "raised"}]
          /\ \A g \in Fetch \ {f} : tries'[g] = tries[g]
          /\ x = "start" => tries'[f] = 0
    <2>1. CASE retryable /\ stage = "gather" /\ attempts[f] < MaxRetries
      <3>1. /\ Return(f, "start") /\ tries' = [tries EXCEPT ![f] = 0]
            /\ attempts' = [attempts EXCEPT ![f] = @ + 1] /\ answer' = answer
        BY <2>1 DEF Raise
      <3>2. attempts[f] + 1 \in 0 .. MaxRetries /\ 0 \in 0 .. ClientTries
        BY <1>0, <2>1, RequestsAssumption DEF TypeRest
      <3>3. /\ tries' \in [Fetch -> 0 .. ClientTries]
            /\ attempts' \in [Fetch -> 0 .. MaxRetries]
            /\ tries'[f] = 0 /\ \A g \in Fetch \ {f} : tries'[g] = tries[g]
        BY <1>0, <3>1, <3>2 DEF TypeRest
      <3> QED
        BY <1>0, <3>1, <3>3 DEF TypeRest
    <2>2. CASE ~(retryable /\ stage = "gather" /\ attempts[f] < MaxRetries)
      <3>1. Return(f, "done") /\ End(f, "raised")
        BY <2>2 DEF Raise
      <3>2. /\ tries' \in [Fetch -> 0 .. ClientTries]
            /\ attempts' \in [Fetch -> 0 .. MaxRetries]
            /\ answer' \in [Fetch -> {"none", "rows", "empty", "cached", "raised"}]
            /\ \A g \in Fetch \ {f} : tries'[g] = tries[g]
        BY <1>0, <3>1, EndType
      <3> QED
        BY <3>1, <3>2
    <2> QED
      BY <2>1, <2>2
  <1>2. /\ Moved(f, x) /\ PermitsAccounted' /\ QueueInv'
        /\ queue' \in [Tier -> Seq(Fetch)]
        /\ free' \in [Tier -> Nat] /\ \A t \in Tier : free'[t] <= Limit[t]
    BY <1>1, ReturnKeeps
  <1>3. x \in PC \ InLine /\ x \in PC \ {"sleep"} /\ pc' \in [Fetch -> PC] /\ x \notin Missed
    BY <1>2 DEF PC, InLine, Moved, Missed, Inside
  <1>4. LineInv' /\ line' \in Seq(Fetch)
    BY <1>2, <1>3, LineMoved
  <1>5. TriesInv'
    BY <1>1, <1>2, <1>3, TriesMoved, RequestsAssumption DEF Trying
  <1>6. ClockInv'
    <2>1. CASE due' = due
      BY <1>2, <1>3, <2>1, ClockMoved DEF runVars
    <2>2. CASE stage = "closed" /\ \A g \in Fetch \ {f} : pc[g] # "sleep"
      BY <1>1, <1>2, <2>2 DEF ClockInv, Moved, runVars
    <2> QED
      BY <2>1, <2>2
  <1>7. StageInv'
    BY StageMoved DEF Done, Inside, runVars
  <1>8. UNCHANGED cache
    BY DEF Raise
  <1>9. CacheInv'
    BY <1>2, <1>3, <1>8, CacheMoved
  <1>10. TypeRest' /\ cache' \in [CacheName -> CacheType(Key)]
    BY <1>0, <1>1, <1>8, TypeParts DEF IInv, TypeRest, runVars
  <1> QED
    BY <1>2, <1>3, <1>4, <1>5, <1>6, <1>7, <1>9, <1>10, Assemble

LEMMA SendInTurnInv ==
    ASSUME IInv, NEW f \in Fetch, SendInTurn(f)
    PROVE  IInv'
  <1>1. /\ \/ Turn(f) /\ due = 0
           \/ pc[f] = "sleep" /\ wake[f] = 0
        /\ due' = Interval /\ line' = RemoveFirst(line, f) /\ Send(f)
        /\ UNCHANGED <<runVars, wake>>
    BY DEF SendInTurn
  <1>2. /\ pc[f] \in {"slot", "line", "sleep"}
        /\ \A g \in Fetch \ {f} : pc[g] # "sleep"
        /\ Interval \in 0 .. Interval /\ Interval \in Nat
    <2>1. CASE Turn(f)
      BY <2>1, TurnFacts, RequestsAssumption
    <2>2. CASE pc[f] = "sleep"
      BY <2>2, RequestsAssumption DEF IInv, LineInv
    <2> QED
      BY <1>1, <2>1, <2>2
  <1>3. CASE stage = "closed"
    <2>1. Raise(f, FALSE) /\ UNCHANGED since
      BY <1>1, <1>3 DEF Send
    <2> QED
      BY <1>1, <1>2, <1>3, <2>1, RaiseInv DEF Inside
  <1>4. CASE stage # "closed"
    <2>1. /\ pc' = [pc EXCEPT ![f] = "asked"] /\ since' = 0
          /\ UNCHANGED <<tries, attempts, answer, permits, cache>>
      BY <1>1, <1>4 DEF Send
    <2>2. "asked" \in PC \ InLine /\ Moved(f, "asked") /\ pc' \in [Fetch -> PC]
      BY <2>1, MovedAlone DEF PC, Inside, InLine, IInv, Moved
    <2>3. /\ PermitsAccounted' /\ QueueInv' /\ queue' \in [Tier -> Seq(Fetch)]
          /\ free' \in [Tier -> Nat] /\ \A t \in Tier : free'[t] <= Limit[t]
      BY <1>2, <2>1, <2>2, PermitsMoved DEF Inside
    <2>4. LineInv' /\ line' \in Seq(Fetch)
      BY <1>1, <2>2, LineMoved
    <2>5. TriesInv'
      BY <1>2, <2>1, <2>2, TriesMoved DEF IInv, TriesInv, Trying, TypeOK
    <2>6. ClockInv'
      BY <1>1, <1>2, <2>1, <2>2 DEF ClockInv, Moved
    <2>7. StageInv'
      BY <1>1, <1>2, StageMoved DEF Done, runVars
    <2>8. CacheInv'
      BY <1>1, <1>2, <2>1, <2>2, CacheMoved DEF Missed, Inside
    <2>9. TypeRest' /\ cache' \in [CacheName -> CacheType(Key)]
      BY <1>1, <1>2, <2>1, TypeParts DEF IInv, TypeRest, runVars
    <2> QED
      BY <2>2, <2>3, <2>4, <2>5, <2>6, <2>7, <2>8, <2>9, Assemble
  <1> QED
    BY <1>3, <1>4

(* What an answer leaves in the caches. *)
LEMMA CachedKeeps ==
    ASSUME IInv, NEW f \in Fetch, pc[f] \in Missed, NEW a, Moved(f, "done"),
           cache' = Cached(f, a), UNCHANGED runVars
    PROVE  CacheInv' /\ cache' \in [CacheName -> CacheType(Key)]
  <1> DEFINE w == Windows[pos]
  <1>1. /\ cache \in [CacheName -> CacheType(Key)]
        /\ \A c \in CacheName : SoundOver(cache[c], Key)
        /\ w \in Key /\ UNCHANGED <<stage, pos>>
        /\ {"rates", "ohlc", "contracts"} \subseteq CacheName
    BY WindowFacts DEF IInv, CacheInv, TypeOK, runVars, CacheName
  <1>2. \A g \in Fetch : pc'[g] \in Missed => g # f /\ pc[g] \in Missed
    BY DEF Moved, Missed, Inside
  <1>3. CASE f \in Day
    <2> DEFINE d == Put(cache["contracts"], f)
    <2>1. f \notin cache["contracts"].held /\ f \in Key
      BY <1>3 DEF IInv, CacheInv, Key
    <2>2. SoundOver(d, Key) /\ d.held \subseteq cache["contracts"].held \union {f}
      BY <1>1, <2>1, PutSound
    <2>3. cache' = [cache EXCEPT !["contracts"] = d]
      BY <1>3 DEF Cached
    <2> HIDE DEF d, w
    <2>4. /\ cache'["contracts"] = d
          /\ \A c \in CacheName \ {"contracts"} : cache'[c] = cache[c]
          /\ d \in CacheType(Key)
      BY <1>1, <2>2, <2>3 DEF SoundOver
    <2>5. \A c \in CacheName : SoundOver(cache'[c], Key)
      BY <1>1, <2>2, <2>4
    <2>6. \A g \in Day : pc'[g] \in Missed => g \notin cache'["contracts"].held
      BY <1>2, <2>2, <2>4, FetchFacts DEF IInv, CacheInv
    <2>7. CacheInv'
      BY <1>1, <1>2, <2>4, <2>5, <2>6, FetchFacts DEF IInv, CacheInv, CacheName
    <2> QED
      BY <1>1, <2>3, <2>4, <2>7
  <1>4. CASE f = "bars" /\ a = "rows"
    <2> DEFINE e == Put(cache["ohlc"], w)
               d == Touch(e, w)
    <2>1. w \notin cache["ohlc"].held
      BY <1>4 DEF IInv, CacheInv
    <2>2. SoundOver(e, Key) /\ w \in e.held
      BY <1>1, <2>1, PutSound
    <2>3. SoundOver(d, Key)
      BY <2>2, TouchSound
    <2>4. cache' = [cache EXCEPT !["ohlc"] = d]
      BY <1>4, FetchFacts DEF Cached
    <2> HIDE DEF d, e, w
    <2>5. /\ cache'["ohlc"] = d
          /\ \A c \in CacheName \ {"ohlc"} : cache'[c] = cache[c]
          /\ d \in CacheType(Key)
      BY <1>1, <2>3, <2>4 DEF SoundOver
    <2>6. \A c \in CacheName : SoundOver(cache'[c], Key)
      BY <1>1, <2>3, <2>5
    <2>7. CacheInv'
      BY <1>1, <1>2, <1>4, <2>5, <2>6, FetchFacts DEF IInv, CacheInv, CacheName
    <2> QED
      BY <1>1, <2>4, <2>5, <2>7
  <1>5. CASE f \notin Day /\ ~(f = "bars" /\ a = "rows")
    <2>1. cache' = cache
      BY <1>5 DEF Cached
    <2> QED
      BY <1>1, <1>2, <2>1, FetchFacts DEF IInv, CacheInv
  <1> QED
    BY <1>3, <1>4, <1>5

LEMMA DeliverInv ==
    ASSUME IInv, NEW f \in Fetch, pc[f] \in {"asked", "pause"},
           NEW a \in {"rows", "empty"}, Deliver(f, a),
           UNCHANGED <<runVars, throttle>>
    PROVE  IInv'
  <1>0. TypeRest
    BY TypeParts DEF IInv
  <1>1. /\ Return(f, "done") /\ End(f, a) /\ cache' = Cached(f, a)
        /\ pc[f] \in Inside /\ pc[f] \in Missed /\ pc[f] \notin InLine
    BY DEF Deliver, Inside, Missed, InLine
  <1>2. /\ Moved(f, "done") /\ PermitsAccounted' /\ QueueInv'
        /\ queue' \in [Tier -> Seq(Fetch)]
        /\ free' \in [Tier -> Nat] /\ \A t \in Tier : free'[t] <= Limit[t]
    BY <1>1, ReturnKeeps
  <1>3. "done" \in PC \ InLine /\ pc' \in [Fetch -> PC]
    BY <1>2 DEF PC, InLine, Moved
  <1>4. LineInv' /\ line' \in Seq(Fetch)
    BY <1>1, <1>2, <1>3, LineMoved DEF throttle
  <1>5. /\ tries' \in [Fetch -> 0 .. ClientTries]
        /\ attempts' \in [Fetch -> 0 .. MaxRetries]
        /\ answer' \in [Fetch -> {"none", "rows", "empty", "cached", "raised"}]
        /\ \A g \in Fetch \ {f} : tries'[g] = tries[g]
    BY <1>0, <1>1, EndType
  <1>6. TriesInv'
    BY <1>2, <1>3, <1>5, TriesMoved DEF Trying
  <1>7. ClockInv'
    BY <1>2, <1>3, ClockMoved DEF runVars, throttle
  <1>8. StageInv'
    BY <1>1, StageMoved DEF Done, Inside, runVars
  <1>9. CacheInv' /\ cache' \in [CacheName -> CacheType(Key)]
    BY <1>1, <1>2, CachedKeeps
  <1>10. TypeRest'
    BY <1>0, <1>5 DEF TypeRest, runVars, throttle
  <1> QED
    BY <1>2, <1>3, <1>4, <1>6, <1>7, <1>8, <1>9, <1>10, Assemble

LEMMA RefusedInv ==
    ASSUME IInv, NEW f \in Fetch, Refused(f)
    PROVE  IInv'
  <1>1. /\ pc[f] = "asked" /\ pc' = [pc EXCEPT ![f] = "pause"]
        /\ tries' = [tries EXCEPT ![f] = tries[f] + 1]
        /\ UNCHANGED <<runVars, attempts, answer, permits, throttle, cache>>
    BY DEF Refused
  <1>2. "pause" \in PC \ InLine /\ Moved(f, "pause") /\ pc' \in [Fetch -> PC]
    BY <1>1, MovedAlone DEF PC, Inside, InLine, IInv, Moved
  <1>3. /\ PermitsAccounted' /\ QueueInv' /\ queue' \in [Tier -> Seq(Fetch)]
        /\ free' \in [Tier -> Nat] /\ \A t \in Tier : free'[t] <= Limit[t]
    BY <1>1, <1>2, PermitsMoved DEF Inside
  <1>4. LineInv' /\ line' \in Seq(Fetch)
    BY <1>1, <1>2, LineMoved DEF throttle, InLine
  <1>5. /\ tries' \in [Fetch -> 0 .. ClientTries]
        /\ \A g \in Fetch \ {f} : tries'[g] = tries[g]
    <2>1. tries[f] + 1 \in 0 .. ClientTries
      BY <1>1, RequestsAssumption DEF IInv, TypeOK, TriesInv, Trying
    <2> QED
      BY <1>1, <2>1 DEF IInv, TypeOK
  <1>6. TriesInv'
    BY <1>2, <1>5, TriesMoved DEF Trying
  <1>7. ClockInv'
    BY <1>1, <1>2, ClockMoved DEF runVars, throttle
  <1>8. StageInv'
    BY <1>1, StageMoved DEF Done, runVars
  <1>9. CacheInv'
    BY <1>1, <1>2, CacheMoved DEF Missed, Inside
  <1>10. TypeRest' /\ cache' \in [CacheName -> CacheType(Key)]
    BY <1>1, <1>5, TypeParts DEF IInv, TypeRest, runVars, throttle
  <1> QED
    BY <1>2, <1>3, <1>4, <1>6, <1>7, <1>8, <1>9, <1>10, Assemble

LEMMA TryAgainInv ==
    ASSUME IInv, NEW f \in Fetch, TryAgain(f)
    PROVE  IInv'
  <1>1. /\ pc[f] = "pause" /\ tries[f] < ClientTries
        /\ pc' = [pc EXCEPT ![f] = "slot"]
        /\ UNCHANGED <<runVars, tries, attempts, answer, permits, throttle, cache>>
    BY DEF TryAgain
  <1>2. "slot" \in PC \ InLine /\ Moved(f, "slot") /\ pc' \in [Fetch -> PC]
    BY <1>1, MovedAlone DEF PC, Inside, InLine, IInv, Moved
  <1>3. /\ PermitsAccounted' /\ QueueInv' /\ queue' \in [Tier -> Seq(Fetch)]
        /\ free' \in [Tier -> Nat] /\ \A t \in Tier : free'[t] <= Limit[t]
    BY <1>1, <1>2, PermitsMoved DEF Inside
  <1>4. LineInv' /\ line' \in Seq(Fetch)
    BY <1>1, <1>2, LineMoved DEF throttle, InLine
  <1>5. TriesInv'
    BY <1>1, <1>2, TriesMoved DEF IInv, TypeOK
  <1>6. ClockInv'
    BY <1>1, <1>2, ClockMoved DEF runVars, throttle
  <1>7. StageInv'
    BY <1>1, StageMoved DEF Done, runVars
  <1>8. CacheInv'
    BY <1>1, <1>2, CacheMoved DEF Missed, Inside
  <1>9. TypeRest' /\ cache' \in [CacheName -> CacheType(Key)]
    BY <1>1, TypeParts DEF IInv, TypeRest, runVars, throttle
  <1> QED
    BY <1>2, <1>3, <1>4, <1>5, <1>6, <1>7, <1>8, <1>9, Assemble

LEMMA CancelInv ==
    ASSUME IInv, NEW f \in Fetch, Cancel(f)
    PROVE  IInv'
  <1>0. /\ TypeRest /\ ~Done(f) /\ pc \in [Fetch -> PC]
        /\ line' = RemoveFirst(line, f) /\ End(f, "raised")
        /\ UNCHANGED <<runVars, due, wake, since, cache>>
    BY TypeParts DEF IInv, Cancel
  <1>1. /\ Moved(f, "done") /\ PermitsAccounted' /\ QueueInv'
        /\ queue' \in [Tier -> Seq(Fetch)]
        /\ free' \in [Tier -> Nat] /\ \A t \in Tier : free'[t] <= Limit[t]
    <2>1. CASE pc[f] \in Inside
      BY <2>1, ReturnKeeps DEF Cancel
    <2>2. CASE pc[f] \notin Inside
      <3> DEFINE t == TierOf(f)
      <3>1. /\ pc' = [pc EXCEPT ![f] = "done"] /\ free' = free
            /\ queue' = [queue EXCEPT ![t] = RemoveFirst(queue[t], f)]
        BY <2>2 DEF Cancel
      <3>2. /\ t \in Tier /\ queue \in [Tier -> Seq(Fetch)]
            /\ \A u \in Tier : Distinct(queue[u])
            /\ \A u \in Tier : \A g \in Listed(queue[u]) :
                  g \in Fetch /\ pc[g] = "queued" /\ TierOf(g) = u /\ Guarded(g)
        BY QueueParts, FetchFacts
      <3>3. /\ RemoveFirst(queue[t], f) \in Seq(Fetch)
            /\ Distinct(RemoveFirst(queue[t], f))
            /\ Listed(RemoveFirst(queue[t], f)) = Listed(queue[t]) \ {f}
        BY <3>2, RemoveFirstKeeps
      <3>4. Moved(f, "done")
        BY <3>1, MovedAlone DEF PC, IInv
      <3>5. QueueInv'
        <4> SUFFICES ASSUME NEW u \in Tier
                     PROVE  /\ Distinct(queue'[u])
                            /\ \A g \in Listed(queue'[u]) :
                                  pc'[g] = "queued" /\ TierOf(g) = u /\ Guarded(g)
          BY DEF QueueInv, Distinct, Listed, TierOf, Guarded
        <4> HIDE DEF t
        <4>1. CASE u = t
          BY <1>0, <3>1, <3>2, <3>3, <4>1
        <4>2. CASE u # t
          BY <1>0, <3>1, <3>2, <4>2 DEF t
        <4> QED
          BY <4>1, <4>2
      <3> HIDE DEF t
      <3>6. PermitsAccounted'
        <4> SUFFICES ASSUME NEW u \in Tier
                     PROVE  /\ free'[u] + Cardinality(HoldersOf(u)') = Limit[u]
                            /\ free'[u] > 0 => queue'[u] = <<>>
          BY DEF PermitsAccounted, HoldersOf, TierOf
        <4>1. /\ free[u] + Cardinality(HoldersOf(u)) = Limit[u]
              /\ free[u] > 0 => queue[u] = <<>>
          BY DEF IInv, PermitsAccounted, HoldersOf
        <4>2. HoldersOf(u)' = HoldersOf(u)
          BY <1>0, <2>2, <3>1 DEF HoldersOf, Holds, Inside, TierOf, Guarded
        <4>3. queue[u] = <<>> => queue'[u] = <<>>
          <5>1. ASSUME u = t, queue[u] = <<>> PROVE RemoveFirst(queue[t], f) = <<>>
            BY <3>3, <5>1, EmptySeq DEF Listed
          <5> QED
            BY <3>1, <3>2, <5>1
        <4> QED
          BY <3>1, <4>1, <4>2, <4>3
      <3> QED
        BY <3>1, <3>2, <3>3, <3>4, <3>5, <3>6 DEF IInv, TypeOK
    <2> QED
      BY <2>1, <2>2
  <1>2. "done" \in PC \ InLine /\ pc' \in [Fetch -> PC]
    BY <1>1 DEF PC, InLine, Moved
  <1>3. LineInv' /\ line' \in Seq(Fetch)
    BY <1>0, <1>1, <1>2, LineMoved
  <1>4. /\ tries' \in [Fetch -> 0 .. ClientTries]
        /\ attempts' \in [Fetch -> 0 .. MaxRetries]
        /\ answer' \in [Fetch -> {"none", "rows", "empty", "cached", "raised"}]
        /\ \A g \in Fetch \ {f} : tries'[g] = tries[g]
    BY <1>0, EndType
  <1>5. TriesInv'
    BY <1>1, <1>2, <1>4, TriesMoved DEF Trying
  <1>6. ClockInv'
    BY <1>0, <1>1, <1>2, ClockMoved DEF runVars
  <1>7. StageInv'
    BY <1>0, StageMoved DEF runVars
  <1>8. CacheInv'
    BY <1>0, <1>1, <1>2, CacheMoved DEF Missed, Inside
  <1>9. TypeRest' /\ cache' \in [CacheName -> CacheType(Key)]
    BY <1>0, <1>4, TypeParts DEF IInv, TypeRest, runVars
  <1> QED
    BY <1>1, <1>2, <1>3, <1>5, <1>6, <1>7, <1>8, <1>9, Assemble

LEMMA FetchStepInv ==
    ASSUME IInv, NEW f \in Fetch, FetchStep(f)
    PROVE  IInv'
  <1>1. CASE \E a \in {"rows", "empty"} : Respond(f, a)
    BY <1>1, DeliverInv DEF Respond
  <1>2. CASE GiveUp(f)
    BY <1>2, DeliverInv DEF GiveUp
  <1>3. CASE \E retryable \in BOOLEAN : Breaks(f, retryable)
    <2>1. PICK r \in BOOLEAN : Breaks(f, r)
      BY <1>3
    <2>2. /\ pc[f] = "asked" /\ Raise(f, r) /\ UNCHANGED <<runVars, throttle>>
          /\ pc[f] \in Inside /\ pc[f] \notin InLine
      BY <2>1 DEF Breaks, Inside, InLine
    <2>3. /\ UNCHANGED <<runVars, wake, since>> /\ line' = line
          /\ due' = due /\ due' \in 0 .. Interval
      BY <2>2 DEF throttle, IInv, TypeOK
    <2> QED
      BY <2>2, <2>3, RaiseInv
  <1> QED
    BY <1>1, <1>2, <1>3, LookUpInv, AcquireInv, JoinLineInv, SleepUntilDueInv,
       SendInTurnInv, RefusedInv, TryAgainInv DEF FetchStep

-----------------------------------------------------------------------------
(* The steps of the caches, the clock and the run. *)

(* Nobody moves. *)
LEMMA NobodyMoves ==
    ASSUME IInv, UNCHANGED <<pc, permits, tries, line>>
    PROVE  /\ QueueInv' /\ LineInv' /\ PermitsAccounted' /\ TriesInv'
           /\ pc' \in [Fetch -> PC] /\ line' \in Seq(Fetch)
           /\ queue' \in [Tier -> Seq(Fetch)]
           /\ free' \in [Tier -> Nat] /\ \A t \in Tier : free'[t] <= Limit[t]
  <1>1. /\ pc' = pc /\ free' = free /\ queue' = queue /\ tries' = tries /\ line' = line
    BY DEF permits
  <1>2. QueueInv' /\ PermitsAccounted'
    BY <1>1 DEF IInv, QueueInv, PermitsAccounted, Holds
  <1>3. LineInv' /\ TriesInv'
    BY <1>1 DEF IInv, LineInv, TriesInv
  <1> QED
    BY <1>1, <1>2, <1>3, TypeParts DEF IInv

LEMMA ExpireInv ==
    ASSUME IInv, NEW c \in CacheName, NEW k \in Key, Expire(c, k)
    PROVE  IInv'
  <1>1. /\ cache' = [cache EXCEPT ![c] = Evict(cache[c], k)]
        /\ UNCHANGED <<runVars, pc, tries, attempts, answer, permits, throttle>>
    BY DEF Expire
  <1>2. /\ QueueInv' /\ LineInv' /\ PermitsAccounted' /\ TriesInv'
        /\ pc' \in [Fetch -> PC] /\ line' \in Seq(Fetch)
        /\ queue' \in [Tier -> Seq(Fetch)]
        /\ free' \in [Tier -> Nat] /\ \A t \in Tier : free'[t] <= Limit[t]
    BY <1>1, NobodyMoves DEF throttle
  <1>3. ClockInv' /\ StageInv'
    BY <1>1 DEF IInv, ClockInv, StageInv, AllDone, Done, runVars, throttle
  <1>4. /\ SoundOver(Evict(cache[c], k), Key)
        /\ Evict(cache[c], k).held = cache[c].held \ {k}
    BY EvictSound DEF IInv, CacheInv
  <1> DEFINE e == Evict(cache[c], k)
  <1> HIDE DEF e
  <1>5. /\ cache \in [CacheName -> CacheType(Key)] /\ e \in CacheType(Key)
        /\ cache' = [cache EXCEPT ![c] = e]
        /\ e.held \subseteq cache[c].held
    BY <1>1, <1>4 DEF IInv, TypeOK, SoundOver, e
  <1>6. \A d \in CacheName : SoundOver(cache'[d], Key) /\ cache'[d].held \subseteq cache[d].held
    BY <1>4, <1>5 DEF IInv, CacheInv, e
  <1>7. CacheInv'
    BY <1>1, <1>6 DEF IInv, CacheInv, CacheName, runVars
  <1>8. TypeRest' /\ cache' \in [CacheName -> CacheType(Key)]
    BY <1>1, <1>5, TypeParts DEF IInv, TypeRest, runVars, throttle
  <1> QED
    BY <1>2, <1>3, <1>7, <1>8, Assemble

LEMMA TickInv ==
    ASSUME IInv, Tick
    PROVE  IInv'
  <1>1. /\ due' = (IF due > 0 THEN due - 1 ELSE 0)
        /\ since' = (IF since < Interval THEN since + 1 ELSE Interval)
        /\ wake' = [f \in Fetch |-> IF wake[f] > 0 THEN wake[f] - 1 ELSE 0]
        /\ UNCHANGED <<runVars, pc, tries, attempts, answer, permits, line, cache>>
    BY DEF Tick
  <1>2. /\ QueueInv' /\ LineInv' /\ PermitsAccounted' /\ TriesInv'
        /\ pc' \in [Fetch -> PC] /\ line' \in Seq(Fetch)
        /\ queue' \in [Tier -> Seq(Fetch)]
        /\ free' \in [Tier -> Nat] /\ \A t \in Tier : free'[t] <= Limit[t]
    BY <1>1, NobodyMoves
  <1>3. /\ due \in 0 .. Interval /\ since \in 0 .. Interval /\ Interval \in Nat
        /\ wake \in [Fetch -> 0 .. Interval]
    BY RequestsAssumption DEF IInv, TypeOK
  <1>4. due' \in 0 .. Interval /\ since' \in 0 .. Interval
        /\ wake' \in [Fetch -> 0 .. Interval]
    BY <1>1, <1>3
  <1>5. ClockInv'
    <2>1. stage' # "closed" => since' + due' = Interval
      BY <1>1, <1>3 DEF IInv, ClockInv, runVars
    <2>2. \A f \in Fetch : pc'[f] = "sleep" => wake'[f] = due'
      BY <1>1 DEF IInv, ClockInv
    <2> QED
      BY <2>1, <2>2 DEF ClockInv
  <1>6. CacheInv' /\ StageInv'
    BY <1>1 DEF IInv, CacheInv, StageInv, AllDone, Done, runVars
  <1>7. TypeRest' /\ cache' \in [CacheName -> CacheType(Key)]
    BY <1>1, <1>4, TypeParts DEF IInv, TypeRest, runVars
  <1> QED
    BY <1>2, <1>5, <1>6, <1>7, Assemble

(* The run leaves things as they are. *)
LEMMA LeaveInv ==
    ASSUME IInv, NEW s \in {"ended", "closed", "heartbeat"}, stage' = s,
           s = "heartbeat" => stage = s, s # "closed" => stage # "closed",
           UNCHANGED <<pos, pc, tries, attempts, answer, permits, throttle, cache>>,
           beats' \in 0 .. HeartbeatTries,
           s = "heartbeat" => beats' < HeartbeatTries
    PROVE  IInv'
  <1>1. /\ QueueInv' /\ LineInv' /\ PermitsAccounted' /\ TriesInv'
        /\ pc' \in [Fetch -> PC] /\ line' \in Seq(Fetch)
        /\ queue' \in [Tier -> Seq(Fetch)]
        /\ free' \in [Tier -> Nat] /\ \A t \in Tier : free'[t] <= Limit[t]
    BY NobodyMoves DEF throttle
  <1>2. ClockInv' /\ CacheInv' /\ StageInv'
    BY DEF IInv, ClockInv, CacheInv, StageInv, AllDone, Done, throttle
  <1>3. TypeRest' /\ cache' \in [CacheName -> CacheType(Key)]
    BY TypeParts DEF IInv, TypeRest, throttle, Over
  <1> QED
    BY <1>1, <1>2, <1>3, Assemble

(* A group is asked for when nothing is under way. *)
LEMMA AskKeeps ==
    ASSUME IInv, AllDone, NEW S \in SUBSET Fetch, Ask(S)
    PROVE  /\ QueueInv' /\ LineInv' /\ PermitsAccounted' /\ TriesInv'
           /\ pc' \in [Fetch -> PC] /\ line' \in Seq(Fetch)
           /\ queue' \in [Tier -> Seq(Fetch)]
           /\ free' \in [Tier -> Nat] /\ \A t \in Tier : free'[t] <= Limit[t]
           /\ \A f \in Fetch : pc'[f] \in {"idle", "start"}
           /\ tries' \in [Fetch -> 0 .. ClientTries]
           /\ attempts' \in [Fetch -> 0 .. MaxRetries]
           /\ answer' \in [Fetch -> {"none", "rows", "empty", "cached", "raised"}]
           /\ due' = due /\ since' = since /\ wake' = wake
  <1>1. /\ pc' = [f \in Fetch |-> IF f \in S THEN "start" ELSE "idle"]
        /\ tries' = [f \in Fetch |-> 0] /\ attempts' = [f \in Fetch |-> 0]
        /\ answer' = [f \in Fetch |-> "none"]
        /\ free' = free /\ queue' = queue /\ line' = line
        /\ due' = due /\ since' = since /\ wake' = wake
    BY DEF Ask, permits, throttle
  <1>2. \A f \in Fetch : /\ pc[f] \in {"idle", "done"}
                         /\ pc'[f] \in {"idle", "start"} /\ pc'[f] \in PC
    BY <1>1 DEF AllDone, Done, PC
  <1>3. /\ line \in Seq(Fetch) /\ queue \in [Tier -> Seq(Fetch)]
        /\ \A t \in Tier : Listed(queue[t]) \subseteq Fetch
        /\ Listed(line) \subseteq Fetch
    <2>1. line \in Seq(Fetch)
      BY DEF IInv, TypeOK
    <2>2. Listed(line) \subseteq Fetch
      BY <2>1, ElementOfSeq DEF Listed
    <2> QED
      BY <2>1, <2>2, QueueParts
  <1>4. \A t \in Tier : Listed(queue[t]) = {}
    BY <1>2, <1>3 DEF IInv, QueueInv
  <1>5. QueueInv'
    BY <1>1, <1>4 DEF IInv, QueueInv
  <1>6. LineInv'
    <2>1. Listed(line) = {}
      BY <1>2, <1>3 DEF IInv, LineInv, InLine
    <2>2. \A f \in Fetch : pc'[f] \notin InLine /\ pc'[f] # "sleep"
      BY <1>2 DEF InLine
    <2> QED
      BY <1>1, <2>1, <2>2 DEF IInv, LineInv
  <1>7. PermitsAccounted'
    <2>1. \A t \in Tier : /\ {f \in Fetch : Holds(f) /\ TierOf(f) = t} = {}
                          /\ {f \in Fetch : Holds(f) /\ TierOf(f) = t}' = {}
      BY <1>2 DEF Holds, Inside
    <2> QED
      BY <1>1, <2>1 DEF IInv, PermitsAccounted
  <1>8. TriesInv' /\ 0 \in 0 .. ClientTries /\ 0 \in 0 .. MaxRetries
    BY <1>1, RequestsAssumption DEF TriesInv
  <1> QED
    BY <1>1, <1>2, <1>3, <1>5, <1>6, <1>7, <1>8 DEF IInv, TypeOK

(* The chunk in hand gets to a stage that asks for a group. *)
LEMMA StageInvAsk ==
    ASSUME IInv, AllDone, stage \notin Over, NEW S \in SUBSET Fetch, Ask(S),
           stage' \in {"expirations", "rates", "prefetch", "gather", "lists"},
           pos' \in DOMAIN Windows, beats' = beats,
           cache' \in [CacheName -> CacheType(Key)],
           \A c \in CacheName : SoundOver(cache'[c], Key),
           stage' = "rates" => Windows[pos'] \notin cache'["rates"].held
    PROVE  IInv'
  <1>1. /\ QueueInv' /\ LineInv' /\ PermitsAccounted' /\ TriesInv'
        /\ pc' \in [Fetch -> PC] /\ line' \in Seq(Fetch)
        /\ queue' \in [Tier -> Seq(Fetch)]
        /\ free' \in [Tier -> Nat] /\ \A t \in Tier : free'[t] <= Limit[t]
        /\ \A f \in Fetch : pc'[f] \in {"idle", "start"}
        /\ tries' \in [Fetch -> 0 .. ClientTries]
        /\ attempts' \in [Fetch -> 0 .. MaxRetries]
        /\ answer' \in [Fetch -> {"none", "rows", "empty", "cached", "raised"}]
        /\ due' = due /\ since' = since /\ wake' = wake
    BY AskKeeps
  <1>2. ClockInv' /\ StageInv'
    BY <1>1 DEF IInv, ClockInv, StageInv, Over
  <1>3. CacheInv'
    <2>1. \A f \in Fetch : pc'[f] \notin Missed
      BY <1>1 DEF Missed, Inside
    <2> QED
      BY <2>1, FetchFacts DEF CacheInv
  <1>4. TypeRest'
    BY <1>1, TypeParts DEF IInv, TypeRest
  <1> QED
    BY <1>1, <1>2, <1>3, <1>4, Assemble

LEMMA BeginChunkInv ==
    ASSUME IInv, AllDone, stage \notin Over, NEW i \in DOMAIN Windows, BeginChunk(i)
    PROVE  IInv'
  <1> DEFINE w == Windows[i]
  <1>1. /\ pos' = i /\ beats' = beats
        /\ cache \in [CacheName -> CacheType(Key)]
        /\ \A c \in CacheName : SoundOver(cache[c], Key)
        /\ "rates" \in CacheName /\ {"bars"} \in SUBSET Fetch /\ Symbol \in SUBSET Fetch
    BY FetchFacts DEF BeginChunk, IInv, TypeOK, CacheInv, CacheName
  <1>2. CASE w \in cache["rates"].held
    <2> DEFINE d == Touch(cache["rates"], w)
    <2>1. /\ stage' = "prefetch" /\ Ask({"bars"})
          /\ cache' = [cache EXCEPT !["rates"] = d]
      BY <1>2 DEF BeginChunk, Hit
    <2>2. SoundOver(d, Key) /\ d \in CacheType(Key)
      BY <1>1, <1>2, TouchSound DEF SoundOver
    <2> HIDE DEF d
    <2>3. /\ cache' \in [CacheName -> CacheType(Key)]
          /\ \A c \in CacheName : SoundOver(cache'[c], Key)
      BY <1>1, <2>1, <2>2
    <2> QED
      BY <1>1, <2>1, <2>3, StageInvAsk
  <1>3. CASE w \notin cache["rates"].held
    <2>1. stage' = "rates" /\ Ask(Symbol) /\ cache' = cache
      BY <1>3 DEF BeginChunk, Hit
    <2> QED
      BY <1>1, <1>3, <2>1, StageInvAsk
  <1> QED
    BY <1>2, <1>3

LEMMA NextChunkInv ==
    ASSUME IInv, AllDone, stage \notin Over, NextChunk
    PROVE  IInv'
  <1>1. /\ pos \in 1 .. Len(Windows) /\ Len(Windows) \in Nat
        /\ DOMAIN Windows = 1 .. Len(Windows)
    BY RequestsAssumption, LenProperties DEF IInv, TypeOK
  <1>2. CASE pos < Len(Windows)
    <2>1. pos + 1 \in DOMAIN Windows
      BY <1>1, <1>2
    <2> QED
      BY <1>2, <2>1, BeginChunkInv DEF NextChunk
  <1>3. CASE ~(pos < Len(Windows))
    <2>1. Leave("ended") /\ beats' = beats
      BY <1>3 DEF NextChunk
    <2> QED
      BY <2>1, LeaveInv DEF Leave, IInv, TypeOK, Over
  <1> QED
    BY <1>2, <1>3

LEMMA RunStepInv ==
    ASSUME IInv, RunStep
    PROVE  IInv'
  <1>0. /\ TypeRest /\ cache \in [CacheName -> CacheType(Key)]
        /\ \A c \in CacheName : SoundOver(cache[c], Key)
        /\ pos \in DOMAIN Windows /\ beats \in 0 .. HeartbeatTries
    BY TypeParts DEF IInv, CacheInv, TypeOK
  <1>1. CASE HeartbeatOK
    <2>1. /\ stage = "heartbeat" /\ stage' = "expirations" /\ Ask({"expirations"})
          /\ UNCHANGED <<pos, beats, cache>>
      BY <1>1 DEF HeartbeatOK
    <2>2. AllDone /\ stage \notin Over /\ {"expirations"} \in SUBSET Fetch
      BY <2>1, FetchFacts DEF IInv, StageInv, Over
    <2> QED
      BY <1>0, <2>1, <2>2, StageInvAsk
  <1>2. CASE HeartbeatFails
    <2>1. /\ stage = "heartbeat" /\ beats' = beats + 1
          /\ \/ beats' < HeartbeatTries /\ stage' = "heartbeat"
             \/ stage' = "closed"
          /\ UNCHANGED <<pos, pc, tries, attempts, answer, permits, throttle, cache>>
      BY <1>2 DEF HeartbeatFails
    <2>2. beats' \in 0 .. HeartbeatTries
      BY <1>0, <2>1, RequestsAssumption DEF IInv, StageInv
    <2> QED
      BY <2>1, <2>2, LeaveInv
  <1>3. CASE ExpirationsIn
    <2>1. stage \notin Over /\ AllDone
      BY <1>3 DEF ExpirationsIn, Over
    <2>2. 1 \in DOMAIN Windows
      BY RequestsAssumption, LenProperties, EmptySeq
    <2>3. CASE BeginChunk(1)
      BY <2>1, <2>2, <2>3, BeginChunkInv
    <2>4. CASE (Leave("ended") \/ Leave("closed")) /\ UNCHANGED beats
      BY <1>0, <2>1, <2>4, LeaveInv DEF Leave, Over
    <2> QED
      BY <1>3, <2>3, <2>4 DEF ExpirationsIn
  <1>4. CASE RatesIn
    <2> DEFINE d == Put(cache["rates"], Windows[pos])
    <2>1. /\ stage = "rates" /\ AllDone /\ stage' = "prefetch" /\ Ask({"bars"})
          /\ cache' = [cache EXCEPT !["rates"] = d]
          /\ UNCHANGED <<pos, beats>>
      BY <1>4 DEF RatesIn
    <2>2. SoundOver(d, Key)
      BY <1>0, <2>1, WindowFacts, PutSound DEF IInv, CacheInv, CacheName
    <2>3. d \in CacheType(Key)
      BY <2>2 DEF SoundOver
    <2> HIDE DEF d
    <2>4. /\ cache' \in [CacheName -> CacheType(Key)]
          /\ \A c \in CacheName : SoundOver(cache'[c], Key)
      BY <1>0, <2>1, <2>2, <2>3
    <2> QED
      BY <1>0, <2>1, <2>4, FetchFacts, StageInvAsk DEF Over
  <1>5. CASE PrefetchIn
    <2>1. stage \notin Over /\ AllDone /\ beats' = beats /\ {"greeks", "oi", "bars"} \in SUBSET Fetch
      BY <1>5 DEF PrefetchIn, Over, Fetch, Plain
    <2>2. CASE Leave("closed")
      BY <1>0, <2>1, <2>2, LeaveInv DEF Leave
    <2>3. CASE stage' = "gather" /\ Ask({"greeks", "oi", "bars"}) /\ UNCHANGED <<pos, cache>>
      BY <1>0, <2>1, <2>3, StageInvAsk
    <2> QED
      BY <1>5, <2>2, <2>3 DEF PrefetchIn
  <1>6. CASE GatherIn
    <2>1. stage \notin Over /\ AllDone
      BY <1>6 DEF GatherIn, Over
    <2>2. CASE NextChunk
      BY <2>1, <2>2, NextChunkInv
    <2>3. CASE \E D \in DaysOf[Windows[pos]] :
                  stage' = "lists" /\ Ask(D) /\ UNCHANGED <<pos, beats, cache>>
      <3>1. PICK D \in DaysOf[Windows[pos]] :
                  stage' = "lists" /\ Ask(D) /\ UNCHANGED <<pos, beats, cache>>
        BY <2>3
      <3>2. D \in SUBSET Fetch
        <4>1. DaysOf[Windows[pos]] \in SUBSET ((SUBSET Day) \ {{}})
          BY <1>0, WindowFacts, RequestsAssumption
        <4> QED
          BY <4>1, FetchFacts
      <3> QED
        BY <1>0, <2>1, <3>1, <3>2, StageInvAsk
    <2> QED
      BY <1>6, <2>2, <2>3 DEF GatherIn
  <1>7. CASE ListsIn
    BY <1>7, NextChunkInv DEF ListsIn, Over
  <1>8. CASE ListRaises
    BY <1>0, <1>8, LeaveInv DEF ListRaises, Leave
  <1> QED
    BY <1>1, <1>2, <1>3, <1>4, <1>5, <1>6, <1>7, <1>8 DEF RunStep

LEMMA NextInv ==
    ASSUME IInv, [Next]_vars
    PROVE  IInv'
  <1>1. CASE UNCHANGED vars
    <2>1. /\ UNCHANGED <<pc, permits, tries, line>>
          /\ UNCHANGED <<stage, pos, beats, attempts, answer, due, wake, since, cache>>
      BY <1>1 DEF vars, permits, runVars, throttle
    <2>2. /\ QueueInv' /\ LineInv' /\ PermitsAccounted' /\ TriesInv'
          /\ pc' \in [Fetch -> PC] /\ line' \in Seq(Fetch)
          /\ queue' \in [Tier -> Seq(Fetch)]
          /\ free' \in [Tier -> Nat] /\ \A t \in Tier : free'[t] <= Limit[t]
      BY <2>1, NobodyMoves
    <2>3. ClockInv' /\ CacheInv' /\ StageInv'
      BY <2>1 DEF IInv, ClockInv, CacheInv, StageInv, AllDone, Done
    <2>4. TypeRest' /\ cache' \in [CacheName -> CacheType(Key)]
      BY <2>1, TypeParts DEF IInv, TypeRest
    <2> QED
      BY <2>2, <2>3, <2>4, Assemble
  <1>2. CASE Returned
    BY <1>1, <1>2 DEF Returned
  <1> QED
    BY <1>1, <1>2, FetchStepInv, CancelInv, ExpireInv, RunStepInv, TickInv DEF Next

(***************************************************************************)
(* The inductive invariant holds of every behaviour.                       *)
(***************************************************************************)
THEOREM Invariance == Spec => []IInv
  BY InitInv, NextInv, PTL DEF Spec

(***************************************************************************)
(* Every variable keeps its type: among others, no more attempts are made  *)
(* than the client and fetch_with_retry allow, and no semaphore is ever    *)
(* over its limit (theta_client.py:131, retry.py:86, orchestrator.py:85).  *)
(***************************************************************************)
THEOREM TypeCorrect == Spec => []TypeOK
  <1>1. IInv => TypeOK
    BY DEF IInv
  <1> QED
    BY <1>1, Invariance, PTL

(***************************************************************************)
(* No permit is lost or made up, and nobody waits for a free one           *)
(* (orchestrator.py:85-86).                                                *)
(***************************************************************************)
THEOREM PermitsCorrect == Spec => []PermitsAccounted
  <1>1. IInv => PermitsAccounted
    BY DEF IInv
  <1> QED
    BY <1>1, Invariance, PTL

(***************************************************************************)
(* The caches never hold a key they do not list once, nor more than fits,  *)
(* because a run never sets a key it has not just missed (cache.py:51-62). *)
(***************************************************************************)
THEOREM CachesCorrect == Spec => []CachesSound
  <1>1. IInv => CachesSound
    <2> SUFFICES ASSUME IInv, NEW c \in CacheName PROVE Sound(cache[c])
      BY DEF CachesSound
    <2>1. SoundOver(cache[c], Key) /\ cache[c] \in CacheType(Key)
      BY DEF IInv, CacheInv, SoundOver
    <2> QED
      BY <2>1, SoundIsSoundOver
  <1> QED
    BY <1>1, Invariance, PTL

-----------------------------------------------------------------------------
(* What the abstract specification sees of a step of a fetch. *)

Unanswered == {f \in Fetch : ~Done(f)}

\* f is answered by this step, or goes on.
Answered(f) ==
    /\ pc'[f] = "done"
    /\ \E a \in {"rows", "empty", "cached", "raised"} :
           answer' = [answer EXCEPT ![f] = a]
GoesOn(f) == pc'[f] \notin {"idle", "done"} /\ answer' = answer

LEMMA EndAnswers ==
    ASSUME NEW f \in Fetch, NEW a \in {"rows", "empty", "cached", "raised"},
           End(f, a), pc'[f] = "done"
    PROVE  Answered(f)
  BY DEF End, Answered

LEMMA RaiseMoves ==
    ASSUME IInv, NEW f \in Fetch, pc[f] \in Inside, NEW retryable \in BOOLEAN,
           Raise(f, retryable)
    PROVE  Moved(f, pc'[f]) /\ pc'[f] # "asked" /\ (Answered(f) \/ GoesOn(f))
  <1>1. CASE Return(f, "start") /\ answer' = answer
    <2>1. Moved(f, "start")
      BY <1>1, ReturnKeeps
    <2> QED
      BY <1>1, <2>1 DEF Moved, GoesOn
  <1>2. CASE Return(f, "done") /\ End(f, "raised")
    <2>1. Moved(f, "done")
      BY <1>2, ReturnKeeps
    <2> QED
      BY <1>2, <2>1, EndAnswers DEF Moved
  <1> QED
    BY <1>1, <1>2 DEF Raise

LEMMA SendMoves ==
    ASSUME IInv, NEW f \in Fetch, SendInTurn(f)
    PROVE  /\ Moved(f, pc'[f]) /\ (Answered(f) \/ GoesOn(f))
           /\ ~Done(f) /\ UNCHANGED stage
           /\ pc'[f] = "asked" => since = Interval
  <1>1. /\ \/ Turn(f) /\ due = 0
           \/ pc[f] = "sleep" /\ wake[f] = 0
        /\ Send(f) /\ stage' = stage
    BY DEF SendInTurn, runVars
  <1>2. pc[f] \in {"slot", "line", "sleep"}
    BY <1>1, TurnFacts
  <1>3. CASE stage = "closed"
    BY <1>1, <1>2, <1>3, RaiseMoves DEF Send, Inside, Done
  <1>4. CASE stage # "closed"
    <2>1. pc' = [pc EXCEPT ![f] = "asked"] /\ answer' = answer
      BY <1>1, <1>4 DEF Send
    <2>2. Moved(f, "asked") /\ pc'[f] = "asked"
      BY <2>1, MovedAlone DEF PC, Inside, IInv, Moved
    <2>3. due = 0
      BY <1>1 DEF IInv, ClockInv
    <2>4. since = Interval
      BY <1>4, <2>3, RequestsAssumption DEF IInv, ClockInv, TypeOK
    <2> QED
      BY <1>1, <1>2, <2>1, <2>2, <2>4 DEF GoesOn, Done
  <1> QED
    BY <1>3, <1>4

LEMMA DeliverMoves ==
    ASSUME IInv, NEW f \in Fetch, pc[f] \in {"asked", "pause"},
           NEW a \in {"rows", "empty"}, Deliver(f, a)
    PROVE  Moved(f, "done") /\ pc'[f] = "done" /\ Answered(f)
  <1>1. Moved(f, "done")
    BY ReturnKeeps DEF Deliver, Inside
  <1> QED
    BY <1>1, EndAnswers DEF Deliver, Moved

LEMMA FetchStepMoves ==
    ASSUME IInv, NEW f \in Fetch, FetchStep(f) \/ Cancel(f)
    PROVE  /\ Moved(f, pc'[f]) /\ (Answered(f) \/ GoesOn(f))
           /\ ~Done(f) /\ UNCHANGED stage
           /\ pc[f] # "asked" /\ pc'[f] = "asked" => since = Interval
  <1>0. pc \in [Fetch -> PC]
    BY TypeParts DEF IInv
  <1>1. CASE LookUp(f)
    <2>1. /\ pc' = [pc EXCEPT ![f] = "done"] /\ End(f, "cached")
          /\ pc[f] = "start" /\ stage' = stage
      BY <1>1 DEF LookUp, runVars
    <2>2. Moved(f, "done") /\ pc'[f] = "done"
      BY <2>1, MovedAlone DEF PC, IInv, Moved
    <2> QED
      BY <2>1, <2>2, EndAnswers DEF Done
  <1>2. CASE Acquire(f)
    <2>1. PICK x \in {"queued", "slot"} : pc' = [pc EXCEPT ![f] = x]
      BY <1>2 DEF Acquire
    <2>2. Moved(f, x) /\ pc'[f] = x
      BY <2>1, MovedAlone DEF PC, Inside, IInv, Moved
    <2> QED
      BY <1>2, <2>2 DEF Acquire, Done, GoesOn, runVars
  <1>3. CASE JoinLine(f)
    <2>1. Moved(f, "line") /\ pc'[f] = "line"
      BY <1>3, MovedAlone DEF PC, Inside, IInv, Moved, JoinLine
    <2> QED
      BY <1>3, <2>1 DEF JoinLine, Done, GoesOn, runVars
  <1>4. CASE SleepUntilDue(f)
    <2>1. Moved(f, "sleep") /\ pc'[f] = "sleep"
      BY <1>4, MovedAlone DEF PC, Inside, IInv, Moved, SleepUntilDue
    <2>2. pc[f] \in {"slot", "line"}
      BY <1>4 DEF SleepUntilDue, Turn
    <2> QED
      BY <1>4, <2>1, <2>2 DEF SleepUntilDue, Done, GoesOn, runVars
  <1>5. CASE SendInTurn(f)
    BY <1>5, SendMoves
  <1>6. CASE \E a \in {"rows", "empty"} : Respond(f, a)
    BY <1>6, DeliverMoves DEF Respond, Done, runVars
  <1>7. CASE Refused(f)
    <2>1. Moved(f, "pause") /\ pc'[f] = "pause"
      BY <1>7, MovedAlone DEF PC, Inside, IInv, Moved, Refused
    <2> QED
      BY <1>7, <2>1 DEF Refused, Done, GoesOn, runVars
  <1>8. CASE TryAgain(f)
    <2>1. Moved(f, "slot") /\ pc'[f] = "slot"
      BY <1>8, MovedAlone DEF PC, Inside, IInv, Moved, TryAgain
    <2> QED
      BY <1>8, <2>1 DEF TryAgain, Done, GoesOn, runVars
  <1>9. CASE GiveUp(f)
    BY <1>9, DeliverMoves DEF GiveUp, Done, runVars
  <1>10. CASE \E retryable \in BOOLEAN : Breaks(f, retryable)
    BY <1>10, RaiseMoves DEF Breaks, Done, Inside, runVars
  <1>11. CASE Cancel(f)
    <2>1. Moved(f, "done") /\ pc'[f] = "done"
      <3>1. CASE pc[f] \in Inside
        BY <1>11, <3>1, ReturnKeeps DEF Cancel, Moved
      <3>2. CASE pc[f] \notin Inside
        BY <1>11, <3>2, MovedAlone DEF Cancel, Moved, PC, IInv
      <3> QED
        BY <3>1, <3>2
    <2> QED
      BY <1>11, <2>1, EndAnswers DEF Cancel, runVars
  <1> QED
    BY <1>1, <1>2, <1>3, <1>4, <1>5, <1>6, <1>7, <1>8, <1>9, <1>10, <1>11
    DEF FetchStep

(* No other step sends a request. *)
LEMMA OthersSendNothing ==
    ASSUME IInv, \/ \E c \in CacheName, k \in Key : Expire(c, k)
                 \/ RunStep \/ Tick \/ Returned \/ UNCHANGED vars,
           NEW f \in Fetch, pc'[f] = "asked"
    PROVE  pc[f] = "asked"
  <1>1. CASE UNCHANGED pc
    BY <1>1
  <1>2. CASE \E S : pc' = [g \in Fetch |-> IF g \in S THEN "start" ELSE "idle"]
    BY <1>2
  <1>3. CASE RunStep
    <2>1. UNCHANGED pc \/ \E S : Ask(S)
      BY <1>3 DEF RunStep, HeartbeatOK, HeartbeatFails, ExpirationsIn, RatesIn,
                 PrefetchIn, GatherIn, ListsIn, ListRaises, NextChunk, BeginChunk,
                 Leave
    <2> QED
      BY <1>1, <1>2, <2>1 DEF Ask
  <1>4. CASE \E c \in CacheName, k \in Key : Expire(c, k)
    BY <1>1, <1>4 DEF Expire
  <1>5. CASE Tick \/ Returned \/ UNCHANGED vars
    BY <1>1, <1>5 DEF Tick, Returned, vars
  <1> QED
    BY <1>3, <1>4, <1>5

(***************************************************************************)
(* Requests leave Interval ticks apart, however many fetches are in the    *)
(* throttle (theta_client.py:96-106).                                      *)
(***************************************************************************)
THEOREM SpacedCorrect == Spec => SpacedRequests
  <1>1. ASSUME IInv, [Next]_vars, NEW f \in Fetch,
               pc[f] # "asked", pc'[f] = "asked"
        PROVE  since = Interval
    <2>1. CASE \E g \in Fetch : FetchStep(g) \/ Cancel(g)
      <3>1. PICK g \in Fetch : FetchStep(g) \/ Cancel(g)
        BY <2>1
      <3>2. /\ \A h \in Fetch \ {g} :
                   pc'[h] = pc[h] \/ (pc[h] = "queued" /\ pc'[h] = "slot")
            /\ pc[g] # "asked" /\ pc'[g] = "asked" => since = Interval
        BY <1>1, <3>1, FetchStepMoves DEF Moved
      <3>3. f = g
        BY <1>1, <3>2
      <3> QED
        BY <1>1, <3>2, <3>3
    <2> QED
      BY <1>1, <2>1, OthersSendNothing DEF Next
  <1>2. IInv /\ [Next]_vars =>
          [\A f \in Fetch : pc[f] # "asked" /\ pc'[f] = "asked" => since = Interval]_vars
    BY <1>1
  <1> QED
    BY <1>2, Invariance, PTL DEF Spec, SpacedRequests

-----------------------------------------------------------------------------
(* The abstract specification. *)

abstract == <<stage \notin Over, Unanswered, answer>>

LEMMA AskMaps ==
    ASSUME IInv, AllDone, stage \notin Over, stage' \notin Over,
           NEW S \in SUBSET Fetch, Ask(S)
    PROVE  G!Next
  <1>1. \A f \in Fetch : pc'[f] = IF f \in S THEN "start" ELSE "idle"
    BY DEF Ask
  <1>2. {f \in Fetch : ~Done(f)} = {} /\ {f \in Fetch : ~Done(f)}' = S
    BY <1>1 DEF AllDone, Done
  <1>3. G!Ask(S)
    BY <1>2 DEF G!Ask, Ask
  <1> QED
    BY <1>3 DEF G!Next

LEMMA LeaveMaps ==
    ASSUME stage \notin Over, stage' \in Over, UNCHANGED <<pc, answer>>
    PROVE  G!Next
  <1>1. G!Stop
    BY DEF G!Stop, Done
  <1> QED
    BY <1>1 DEF G!Next

LEMMA BeginChunkMaps ==
    ASSUME IInv, AllDone, stage \notin Over, NEW i, BeginChunk(i)
    PROVE  G!Next
  <1>1. PICK S \in {{"bars"}, Symbol} : Ask(S) /\ stage' \in {"prefetch", "rates"}
    BY DEF BeginChunk
  <1> QED
    BY <1>1, FetchFacts, AskMaps DEF Over

LEMMA NextChunkMaps ==
    ASSUME IInv, AllDone, stage \notin Over, NextChunk
    PROVE  G!Next
  <1>1. CASE BeginChunk(pos + 1)
    BY <1>1, BeginChunkMaps
  <1>2. CASE Leave("ended")
    BY <1>2, LeaveMaps DEF Leave, Over
  <1> QED
    BY <1>1, <1>2 DEF NextChunk

LEMMA RunStepMaps ==
    ASSUME IInv, RunStep
    PROVE  [G!Next]_abstract
  <1>1. CASE HeartbeatOK
    BY <1>1, FetchFacts, AskMaps DEF HeartbeatOK, IInv, StageInv, Over
  <1>2. CASE HeartbeatFails
    <2>1. CASE stage' = "closed"
      BY <1>2, <2>1, LeaveMaps DEF HeartbeatFails, Over
    <2>2. CASE UNCHANGED stage
      BY <1>2, <2>2 DEF HeartbeatFails, abstract, Unanswered, Done
    <2> QED
      BY <1>2, <2>1, <2>2 DEF HeartbeatFails
  <1>3. CASE ExpirationsIn
    <2>1. stage \notin Over /\ AllDone
      BY <1>3 DEF ExpirationsIn, Over
    <2>2. CASE BeginChunk(1)
      BY <2>1, <2>2, BeginChunkMaps
    <2>3. CASE Leave("ended") \/ Leave("closed")
      BY <2>1, <2>3, LeaveMaps DEF Leave, Over
    <2> QED
      BY <1>3, <2>2, <2>3 DEF ExpirationsIn
  <1>4. CASE RatesIn
    BY <1>4, FetchFacts, AskMaps DEF RatesIn, Over
  <1>5. CASE PrefetchIn
    <2>1. stage \notin Over /\ AllDone
      BY <1>5 DEF PrefetchIn, Over
    <2>2. CASE Leave("closed")
      BY <2>1, <2>2, LeaveMaps DEF Leave, Over
    <2>3. CASE stage' = "gather" /\ Ask({"greeks", "oi", "bars"})
      BY <2>1, <2>3, AskMaps DEF Over, Fetch, Plain
    <2> QED
      BY <1>5, <2>2, <2>3 DEF PrefetchIn
  <1>6. CASE GatherIn
    <2>1. stage \notin Over /\ AllDone
      BY <1>6 DEF GatherIn, Over
    <2>2. CASE NextChunk
      BY <2>1, <2>2, NextChunkMaps
    <2>3. CASE \E D \in DaysOf[Windows[pos]] : stage' = "lists" /\ Ask(D)
      <3>1. PICK D \in DaysOf[Windows[pos]] : stage' = "lists" /\ Ask(D)
        BY <2>3
      <3>2. D \in SUBSET Fetch
        <4>1. DaysOf[Windows[pos]] \in SUBSET ((SUBSET Day) \ {{}})
          BY WindowFacts, RequestsAssumption DEF IInv, TypeOK
        <4> QED
          BY <4>1, FetchFacts
      <3> QED
        BY <2>1, <3>1, <3>2, AskMaps DEF Over
    <2> QED
      BY <1>6, <2>2, <2>3 DEF GatherIn
  <1>7. CASE ListsIn
    BY <1>7, NextChunkMaps DEF ListsIn, Over
  <1>8. CASE ListRaises
    BY <1>8, LeaveMaps DEF ListRaises, Leave, Over
  <1> QED
    BY <1>1, <1>2, <1>3, <1>4, <1>5, <1>6, <1>7, <1>8 DEF RunStep

LEMMA FetchStepMaps ==
    ASSUME IInv, NEW f \in Fetch, FetchStep(f) \/ Cancel(f)
    PROVE  [G!Next]_abstract
  <1>1. /\ Moved(f, pc'[f]) /\ (Answered(f) \/ GoesOn(f)) /\ ~Done(f)
        /\ stage' = stage /\ pc \in [Fetch -> PC]
    BY FetchStepMoves, TypeParts DEF IInv
  <1>2. \A g \in Fetch \ {f} : Done(g)' <=> Done(g)
    BY <1>1 DEF Moved, Done
  <1>3. CASE Answered(f)
    <2>1. Unanswered' = Unanswered \ {f} /\ f \in Unanswered
      BY <1>1, <1>2, <1>3 DEF Unanswered, Answered, Done
    <2>2. PICK a \in {"rows", "empty", "cached", "raised"} :
              answer' = [answer EXCEPT ![f] = a]
      BY <1>3 DEF Answered
    <2>3. G!Deliver(f, a)
      BY <1>1, <2>1, <2>2 DEF G!Deliver, Unanswered
    <2> QED
      BY <2>2, <2>3 DEF G!Next, G!Answer
  <1>4. CASE GoesOn(f)
    <2>1. Unanswered' = Unanswered
      BY <1>1, <1>2, <1>4 DEF Unanswered, GoesOn, Done
    <2> QED
      BY <1>1, <1>4, <2>1 DEF GoesOn, abstract
  <1> QED
    BY <1>1, <1>3, <1>4

(***************************************************************************)
(* A group of fetches is asked for, and answered, as Gather.tla promises:  *)
(* every answer once, none late, none after the next group was asked for   *)
(* (orchestrator.py:373-374, 492-500).                                     *)
(***************************************************************************)
THEOREM RefinesGather == Spec => ImplementsGather
  <1>1. Init => G!Init
    BY DEF Init, G!Init, Done, Over
  <1>2. IInv /\ [Next]_vars => [G!Next]_abstract
    <2> SUFFICES ASSUME IInv, [Next]_vars PROVE [G!Next]_abstract
      OBVIOUS
    <2>1. CASE \E c \in CacheName, k \in Key : Expire(c, k)
      BY <2>1 DEF Expire, abstract, Unanswered, Done, runVars
    <2>2. CASE Tick
      BY <2>2 DEF Tick, abstract, Unanswered, Done, runVars
    <2>3. CASE Returned \/ UNCHANGED vars
      BY <2>3 DEF Returned, vars, abstract, Unanswered, Done, runVars
    <2> QED
      BY <2>1, <2>2, <2>3, FetchStepMaps, RunStepMaps DEF Next
  <1>3. [G!Next]_abstract => [G!Next]_<<stage \notin Over, {f \in Fetch : ~Done(f)}, answer>>
    BY DEF abstract, Unanswered
  <1> QED
    BY <1>1, <1>2, <1>3, Invariance, PTL DEF Spec, ImplementsGather, G!Spec
-----------------------------------------------------------------------------
(* No fetch is forgotten by a semaphore. *)

(* Whoever waits for a permit is listed, and a run starts at its first chunk. *)
WaitInv ==
    /\ \A f \in Fetch : pc[f] = "queued" => f \in Listed(queue[TierOf(f)])
    /\ stage \in {"heartbeat", "expirations"} => pos = 1

LEMMA SameWaits ==
    ASSUME WaitInv, UNCHANGED <<queue, stage, pos>>,
           \A g \in Fetch : pc'[g] = "queued" => pc[g] = "queued"
    PROVE  WaitInv'
  BY DEF WaitInv, Listed, TierOf

LEMMA ReturnWaits ==
    ASSUME IInv, WaitInv, NEW f \in Fetch, pc[f] \in Inside,
           NEW x \in {"start", "done"}, Return(f, x), UNCHANGED runVars
    PROVE  WaitInv'
  <1> DEFINE t == TierOf(f)
             h == Head(queue[t])
  <1>0. stage' = stage /\ pos' = pos /\ pc \in [Fetch -> PC] /\ t \in Tier
        /\ queue \in [Tier -> Seq(Fetch)]
    BY TypeParts, FetchFacts DEF IInv, runVars
  <1>1. CASE Guarded(f) /\ queue[t] # <<>>
    <2>1. /\ pc' = [pc EXCEPT ![f] = x, ![h] = "slot"]
          /\ queue' = [queue EXCEPT ![t] = Tail(@)]
      BY <1>1 DEF Return
    <2>2. /\ Listed(Tail(queue[t])) = Listed(queue[t]) \ {h}
          /\ h \in Listed(queue[t])
      BY <1>0, <1>1, TailKeeps DEF IInv, QueueInv
    <2>3. h \in Fetch
      BY <1>0, <2>2, ElementOfSeq DEF Listed
    <2> HIDE DEF h, t
    <2>4. ASSUME NEW g \in Fetch, pc'[g] = "queued"
          PROVE  g \in Listed(queue'[TierOf(g)])
      <3>1. g # f /\ g # h /\ pc[g] = "queued"
        BY <1>0, <2>1, <2>3, <2>4
      <3>2. g \in Listed(queue[TierOf(g)]) /\ TierOf(g) \in Tier
        BY <3>1, FetchFacts DEF WaitInv
      <3>3. CASE TierOf(g) = t
        <4>1. queue'[t] = Tail(queue[t])
          BY <1>0, <2>1
        <4> QED
          BY <2>2, <3>1, <3>2, <3>3, <4>1
      <3>4. CASE TierOf(g) # t
        BY <1>0, <2>1, <3>2, <3>4
      <3> QED
        BY <3>3, <3>4
    <2> QED
      BY <1>0, <2>4 DEF WaitInv, Listed, TierOf
  <1>2. CASE ~(Guarded(f) /\ queue[t] # <<>>)
    <2>1. pc' = [pc EXCEPT ![f] = x] /\ queue' = queue
      BY <1>2 DEF Return
    <2> QED
      BY <1>0, <2>1, SameWaits
  <1> QED
    BY <1>1, <1>2

LEMMA AcquireWaits ==
    ASSUME IInv, WaitInv, NEW f \in Fetch, Acquire(f)
    PROVE  WaitInv'
  <1> DEFINE t == TierOf(f)
  <1>0. /\ stage' = stage /\ pos' = pos /\ pc \in [Fetch -> PC] /\ t \in Tier
        /\ queue \in [Tier -> Seq(Fetch)]
        /\ \A u \in Tier : Distinct(queue[u])
        /\ pc[f] = "start"
        /\ f \notin Listed(queue[t])
    <2>1. pc[f] = "start"
      BY DEF Acquire
    <2> QED
      BY <2>1, TypeParts, FetchFacts DEF IInv, QueueInv, Acquire, runVars
  <1>1. CASE Guarded(f) /\ free[t] = 0
    <2>1. /\ pc' = [pc EXCEPT ![f] = "queued"]
          /\ queue' = [queue EXCEPT ![t] = Append(queue[t], f)]
      BY <1>1 DEF Acquire
    <2>2. Listed(Append(queue[t], f)) = Listed(queue[t]) \union {f}
      BY <1>0, AppendKeeps
    <2> HIDE DEF t
    <2>3. ASSUME NEW g \in Fetch, pc'[g] = "queued"
          PROVE  g \in Listed(queue'[TierOf(g)])
      <3>1. TierOf(g) \in Tier /\ queue'[t] = Append(queue[t], f)
        BY <1>0, <2>1, FetchFacts
      <3>2. CASE g = f
        BY <2>2, <3>1, <3>2 DEF t
      <3>3. CASE g # f
        <4>1. g \in Listed(queue[TierOf(g)])
          BY <1>0, <2>1, <2>3, <3>3 DEF WaitInv
        <4> QED
          BY <1>0, <2>1, <2>2, <3>1, <4>1
      <3> QED
        BY <3>2, <3>3
    <2> QED
      BY <1>0, <2>3 DEF WaitInv, Listed, TierOf
  <1>2. CASE ~(Guarded(f) /\ free[t] = 0)
    <2>1. pc' = [pc EXCEPT ![f] = "slot"] /\ queue' = queue
      BY <1>2 DEF Acquire
    <2> QED
      BY <1>0, <2>1, SameWaits
  <1> QED
    BY <1>1, <1>2

LEMMA CancelWaits ==
    ASSUME IInv, WaitInv, NEW f \in Fetch, Cancel(f)
    PROVE  WaitInv'
  <1> DEFINE t == TierOf(f)
  <1>1. CASE pc[f] \in Inside
    BY <1>1, ReturnWaits DEF Cancel
  <1>2. CASE pc[f] \notin Inside
    <2>1. /\ pc' = [pc EXCEPT ![f] = "done"]
          /\ queue' = [queue EXCEPT ![t] = RemoveFirst(queue[t], f)]
          /\ stage' = stage /\ pos' = pos
      BY <1>2 DEF Cancel, runVars
    <2>2. /\ t \in Tier /\ queue \in [Tier -> Seq(Fetch)] /\ pc \in [Fetch -> PC]
          /\ Distinct(queue[t])
      BY TypeParts, FetchFacts DEF IInv, QueueInv
    <2>3. Listed(RemoveFirst(queue[t], f)) = Listed(queue[t]) \ {f}
      BY <2>2, RemoveFirstKeeps
    <2> HIDE DEF t
    <2>4. ASSUME NEW g \in Fetch, pc'[g] = "queued"
          PROVE  g \in Listed(queue'[TierOf(g)])
      <3>1. g # f /\ pc[g] = "queued" /\ TierOf(g) \in Tier
        BY <2>1, <2>2, <2>4, FetchFacts
      <3>2. g \in Listed(queue[TierOf(g)])
        BY <3>1 DEF WaitInv
      <3>3. queue'[t] = RemoveFirst(queue[t], f)
        BY <2>1, <2>2
      <3> QED
        BY <2>1, <2>2, <2>3, <3>1, <3>2, <3>3
    <2> QED
      BY <2>1, <2>4 DEF WaitInv, Listed, TierOf
  <1> QED
    BY <1>1, <1>2

LEMMA RaiseWaits ==
    ASSUME IInv, WaitInv, NEW f \in Fetch, pc[f] \in Inside,
           NEW retryable \in BOOLEAN, Raise(f, retryable), UNCHANGED runVars
    PROVE  WaitInv'
  <1>1. PICK x \in {"start", "done"} : Return(f, x)
    BY DEF Raise
  <1> QED
    BY <1>1, ReturnWaits

LEMMA FetchStepWaits ==
    ASSUME IInv, WaitInv, NEW f \in Fetch, FetchStep(f)
    PROVE  WaitInv'
  <1>0. pc \in [Fetch -> PC]
    BY TypeParts DEF IInv
  <1>1. CASE \/ LookUp(f) \/ JoinLine(f) \/ SleepUntilDue(f) \/ Refused(f)
             \/ TryAgain(f)
    BY <1>0, <1>1, SameWaits
    DEF LookUp, JoinLine, SleepUntilDue, Refused, TryAgain, permits, runVars
  <1>2. CASE SendInTurn(f)
    <2>1. pc[f] \in Inside /\ Send(f) /\ UNCHANGED runVars
      BY <1>2 DEF SendInTurn, Turn, Inside
    <2>2. CASE stage = "closed"
      BY <2>1, <2>2, RaiseWaits DEF Send
    <2>3. CASE stage # "closed"
      BY <1>0, <2>1, <2>3, SameWaits DEF Send, permits, runVars
    <2> QED
      BY <2>2, <2>3
  <1>3. CASE (\E a \in {"rows", "empty"} : Respond(f, a)) \/ GiveUp(f)
    <2>1. pc[f] \in Inside /\ Return(f, "done") /\ UNCHANGED runVars
      BY <1>3 DEF Respond, GiveUp, Deliver, Inside
    <2> QED
      BY <2>1, ReturnWaits
  <1>4. CASE \E retryable \in BOOLEAN : Breaks(f, retryable)
    BY <1>4, RaiseWaits DEF Breaks, Inside
  <1> QED
    BY <1>1, <1>2, <1>3, <1>4, AcquireWaits DEF FetchStep

(* What the steps of the run leave: nobody waits when a group is asked for. *)
LEMMA RunStepWaits ==
    ASSUME IInv, WaitInv, RunStep
    PROVE  WaitInv'
  <1>1. CASE \/ HeartbeatOK \/ HeartbeatFails
    BY <1>1 DEF HeartbeatOK, HeartbeatFails, Ask, WaitInv, permits
  <1>2. CASE \/ ExpirationsIn \/ RatesIn \/ PrefetchIn \/ GatherIn \/ ListsIn
             \/ ListRaises
    <2>1. /\ stage' \notin {"heartbeat", "expirations"}
          /\ UNCHANGED <<pc, queue>> \/ \E S : Ask(S)
      BY <1>2
      DEF ExpirationsIn, RatesIn, PrefetchIn, GatherIn, ListsIn, ListRaises,
          NextChunk, BeginChunk, Leave, permits
    <2> QED
      BY <2>1 DEF Ask, WaitInv, Listed, TierOf
  <1> QED
    BY <1>1, <1>2 DEF RunStep

LEMMA WaitsInductive == IInv /\ WaitInv /\ [Next]_vars => WaitInv'
  <1> SUFFICES ASSUME IInv, WaitInv, [Next]_vars PROVE WaitInv'
    OBVIOUS
  <1>1. CASE \E c \in CacheName, k \in Key : Expire(c, k)
    BY <1>1, SameWaits DEF Expire, permits, runVars
  <1>2. CASE Tick \/ Returned \/ UNCHANGED vars
    BY <1>2, SameWaits DEF Tick, Returned, vars, permits, runVars
  <1> QED
    BY <1>1, <1>2, FetchStepWaits, CancelWaits, RunStepWaits DEF Next

THEOREM WaitersAreListed == Spec => []WaitInv
  <1>1. Init => WaitInv
    BY DEF Init, WaitInv
  <1> QED
    BY <1>1, WaitsInductive, Invariance, PTL DEF Spec

(* Whoever is inside goes on, or is in line behind one that does. *)
LEMMA InsideGoesOn ==
    ASSUME IInv, NEW f \in Fetch, pc[f] \in Inside
    PROVE  WaitsForLockAtMost(f)
  <1>1. CASE pc[f] # "line"
    BY <1>1 DEF WaitsForLockAtMost, CanGo, Inside
  <1>2. CASE pc[f] = "line"
    <2>1. /\ line \in Seq(Fetch) /\ f \in Listed(line) /\ Distinct(line)
          /\ \A g \in Fetch : pc[g] \in InLine <=> g \in Listed(line)
      BY <1>2 DEF IInv, TypeOK, LineInv, InLine
    <2>2. line # <<>>
      BY <2>1, EmptySeq DEF Listed
    <2>3. Head(line) \in Listed(line)
      BY <2>1, <2>2, TailKeeps
    <2>4. Head(line) \in Fetch
      BY <2>1, <2>3, ElementOfSeq DEF Listed
    <2>5. pc[Head(line)] \in InLine
      BY <2>1, <2>3, <2>4
    <2> QED
      BY <1>2, <2>2, <2>5 DEF WaitsForLockAtMost, CanGo, InLine
  <1> QED
    BY <1>1, <1>2

LEMMA NoFetchStuck == IInv /\ WaitInv => NobodyIsStuck
  <1> SUFFICES ASSUME IInv, WaitInv, NEW f \in Fetch, ~Done(f), pc[f] \notin Inside,
                      pc[f] # "start"
               PROVE  /\ pc[f] = "queued"
                      /\ \E i \in 1 .. Len(queue[TierOf(f)]) : queue[TierOf(f)][i] = f
                      /\ \E g \in Fetch : /\ Holds(g) /\ TierOf(g) = TierOf(f)
                                          /\ WaitsForLockAtMost(g)
    BY InsideGoesOn DEF NobodyIsStuck, WaitsForLockAtMost, CanGo
  <1> DEFINE t == TierOf(f)
  <1>1. pc[f] = "queued" /\ t \in Tier
    BY TypeParts, FetchFacts DEF IInv, PC, Done
  <1>2. f \in Listed(queue[t])
    BY <1>1 DEF WaitInv
  <1>3. queue[t] # <<>>
    BY <1>2, EmptySeq DEF Listed
  <1>4. free[t] = 0 /\ Limit[t] \in Nat \ {0}
    <2>1. free[t] \in Nat /\ (free[t] > 0 => queue[t] = <<>>)
      BY <1>1 DEF IInv, PermitsAccounted, TypeOK
    <2> HIDE DEF t
    <2> QED
      BY <1>1, <1>3, <2>1, FetchFacts
  <1>5. HoldersOf(t) # {}
    <2>1. 0 + Cardinality(HoldersOf(t)) = Limit[t]
      BY <1>1, <1>4 DEF IInv, PermitsAccounted, HoldersOf
    <2>2. Cardinality({}) = 0
      BY FS_EmptySet
    <2> HIDE DEF t
    <2> QED
      BY <1>4, <2>1, <2>2
  <1>6. PICK g \in Fetch : Holds(g) /\ TierOf(g) = t
    BY <1>5 DEF HoldersOf
  <1>7. WaitsForLockAtMost(g)
    BY <1>6, InsideGoesOn DEF Holds
  <1> QED
    BY <1>1, <1>2, <1>6, <1>7 DEF Listed

(***************************************************************************)
(* Permits held through the throttle, the answer and every sleep, and one  *)
(* lock inside them, never leave a fetch behind: whatever it waits for, at *)
(* the end of the chain is a fetch that can go on (orchestrator.py:85-86,  *)
(* theta_client.py:96-148).                                                *)
(***************************************************************************)
THEOREM NobodyStuck == Spec => []NobodyIsStuck
  BY NoFetchStuck, Invariance, WaitersAreListed, PTL
-----------------------------------------------------------------------------
(* The safety half of AllReturn: everything only goes forward. *)

CountersKept(f) ==
    \A g \in Fetch \ {f} : attempts'[g] = attempts[g] /\ tries'[g] = tries[g]

LEMMA EndCloser ==
    ASSUME IInv, NEW f \in Fetch, NEW a, End(f, a), pc'[f] = "done"
    PROVE  Closer(f) /\ CountersKept(f)
  BY TypeParts DEF IInv, TypeRest, End, Closer, CountersKept

LEMMA RaiseCloser ==
    ASSUME IInv, NEW f \in Fetch, pc[f] \in Inside, NEW retryable \in BOOLEAN,
           Raise(f, retryable)
    PROVE  Closer(f) /\ CountersKept(f)
  <1>0. attempts \in [Fetch -> 0 .. MaxRetries] /\ tries \in [Fetch -> 0 .. ClientTries]
    BY TypeParts DEF IInv, TypeRest
  <1>1. CASE retryable /\ stage = "gather" /\ attempts[f] < MaxRetries
    <2>1. /\ tries' = [tries EXCEPT ![f] = 0]
          /\ attempts' = [attempts EXCEPT ![f] = @ + 1]
      BY <1>1 DEF Raise
    <2> QED
      BY <1>0, <2>1 DEF Closer, CountersKept
  <1>2. CASE ~(retryable /\ stage = "gather" /\ attempts[f] < MaxRetries)
    <2>1. Return(f, "done") /\ End(f, "raised")
      BY <1>2 DEF Raise
    <2>2. pc'[f] = "done"
      BY <2>1, ReturnKeeps DEF Moved
    <2> QED
      BY <2>1, <2>2, EndCloser
  <1> QED
    BY <1>1, <1>2

(* A step forward within an attempt. *)
LEMMA ForwardCloser ==
    ASSUME IInv, NEW f \in Fetch, NEW x, pc' = [pc EXCEPT ![f] = x],
           Rank[x] < Rank[pc[f]], UNCHANGED <<tries, attempts>>
    PROVE  Closer(f) /\ CountersKept(f)
  <1>1. pc'[f] = x
    BY TypeParts DEF IInv
  <1> QED
    BY <1>1 DEF Closer, CountersKept

LEMMA FetchStepCloser ==
    ASSUME IInv, NEW f \in Fetch, FetchStep(f) \/ Cancel(f)
    PROVE  Closer(f) /\ CountersKept(f)
  <1>0. /\ pc \in [Fetch -> PC] /\ tries \in [Fetch -> 0 .. ClientTries]
        /\ attempts \in [Fetch -> 0 .. MaxRetries]
    BY TypeParts DEF IInv, TypeRest
  <1>1. CASE LookUp(f)
    BY <1>0, <1>1, EndCloser DEF LookUp
  <1>2. CASE Acquire(f) \/ TryAgain(f) \/ JoinLine(f)
    BY <1>2, ForwardCloser DEF Acquire, TryAgain, JoinLine, Rank
  <1>3. CASE SleepUntilDue(f)
    <2>1. /\ pc[f] \in {"slot", "line"} /\ pc' = [pc EXCEPT ![f] = "sleep"]
          /\ UNCHANGED <<tries, attempts>>
      BY <1>3 DEF SleepUntilDue, Turn
    <2>2. Rank["sleep"] < Rank[pc[f]]
      BY <2>1 DEF Rank
    <2> QED
      BY <2>1, <2>2, ForwardCloser
  <1>4. CASE SendInTurn(f)
    <2>1. pc[f] \in {"slot", "line", "sleep"} /\ Send(f)
      BY <1>4 DEF SendInTurn, Turn
    <2>2. CASE stage = "closed"
      BY <2>1, <2>2, RaiseCloser DEF Send, Inside
    <2>3. CASE stage # "closed"
      <3>1. pc' = [pc EXCEPT ![f] = "asked"] /\ UNCHANGED <<tries, attempts>>
        BY <2>1, <2>3 DEF Send
      <3>2. Rank["asked"] < Rank[pc[f]]
        BY <2>1 DEF Rank
      <3> QED
        BY <3>1, <3>2, ForwardCloser
    <2> QED
      BY <2>2, <2>3
  <1>5. CASE (\E a \in {"rows", "empty"} : Respond(f, a)) \/ GiveUp(f)
    <2>1. PICK a \in {"rows", "empty"} : Deliver(f, a)
      BY <1>5 DEF Respond, GiveUp
    <2>2. pc[f] \in {"asked", "pause"}
      BY <1>5 DEF Respond, GiveUp
    <2> QED
      BY <2>1, <2>2, DeliverMoves, EndCloser DEF Deliver
  <1>6. CASE Refused(f)
    BY <1>0, <1>6 DEF Refused, Closer, CountersKept
  <1>7. CASE \E retryable \in BOOLEAN : Breaks(f, retryable)
    BY <1>7, RaiseCloser DEF Breaks, Inside
  <1>8. CASE Cancel(f)
    <2>1. pc'[f] = "done" /\ End(f, "raised")
      <3>1. CASE pc[f] \in Inside
        BY <1>8, <3>1, ReturnKeeps DEF Cancel, Moved
      <3>2. CASE pc[f] \notin Inside
        BY <1>0, <1>8, <3>2 DEF Cancel
      <3> QED
        BY <1>8, <3>1, <3>2 DEF Cancel
    <2> QED
      BY <2>1, EndCloser
  <1> QED
    BY <1>1, <1>2, <1>3, <1>4, <1>5, <1>6, <1>7, <1>8 DEF FetchStep

(* The run takes a step only when nothing is under way that it would set back. *)
LEMMA RunStepKeepsFetches ==
    ASSUME IInv, RunStep
    PROVE  AllDone \/ UNCHANGED <<pc, attempts, tries>>
  BY DEF IInv, StageInv, RunStep, HeartbeatOK, HeartbeatFails, ExpirationsIn,
         RatesIn, PrefetchIn, GatherIn, ListsIn, ListRaises, Leave

LEMMA FetchAdvances ==
    ASSUME IInv, [Next]_vars, NEW f \in Fetch, ~Done(f)
    PROVE  \/ pc'[f] = pc[f] /\ attempts'[f] = attempts[f] /\ tries'[f] = tries[f]
           \/ Closer(f)
  <1>1. CASE \E g \in Fetch : FetchStep(g) \/ Cancel(g)
    <2>1. PICK g \in Fetch : FetchStep(g) \/ Cancel(g)
      BY <1>1
    <2>2. Closer(g) /\ CountersKept(g) /\ Moved(g, pc'[g])
      BY <2>1, FetchStepCloser, FetchStepMoves
    <2>3. CASE f # g
      <3>1. /\ attempts'[f] = attempts[f] /\ tries'[f] = tries[f]
            /\ pc'[f] = pc[f] \/ (pc[f] = "queued" /\ pc'[f] = "slot")
        BY <2>2, <2>3 DEF CountersKept, Moved
      <3>2. Rank["slot"] < Rank["queued"]
        BY DEF Rank
      <3> QED
        BY <3>1, <3>2 DEF Closer
    <2> QED
      BY <2>2, <2>3
  <1>2. CASE RunStep
    <2>1. ~AllDone
      BY DEF AllDone
    <2>2. UNCHANGED <<pc, attempts, tries>>
      BY <1>2, <2>1, RunStepKeepsFetches
    <2> QED
      BY <2>2
  <1>3. CASE \/ \E c \in CacheName, k \in Key : Expire(c, k)
             \/ Tick \/ Returned \/ UNCHANGED vars
    BY <1>3 DEF Expire, Tick, Returned, vars
  <1> QED
    BY <1>1, <1>2, <1>3 DEF Next

(***************************************************************************)
(* Every step of a fetch uses up something that is bounded: attempts of    *)
(* fetch_with_retry, attempts of get inside them, places on the way of one *)
(* attempt; and no step of another fetch, of the run or of the clock takes *)
(* a fetch back (theta_client.py:131-149, retry.py:86-116).                *)
(***************************************************************************)
THEOREM FetchesOnlyAdvance == Spec => FetchesAdvance
  <1>1. IInv /\ [Next]_vars =>
          [\A f \in Fetch : ~Done(f) =>
             \/ pc'[f] = pc[f] /\ attempts'[f] = attempts[f] /\ tries'[f] = tries[f]
             \/ Closer(f)]_vars
    BY FetchAdvances
  <1> QED
    BY <1>1, Invariance, PTL DEF Spec, FetchesAdvance

LEMMA BeginChunkCloser ==
    ASSUME IInv, NEW i, BeginChunk(i),
           i > pos \/ (i = pos /\ stage = "expirations")
    PROVE  RunCloser
  BY DEF BeginChunk, RunCloser, StageRank

LEMMA NextChunkCloser ==
    ASSUME IInv, NextChunk
    PROVE  RunCloser
  <1>1. pos \in Nat
    BY RequestsAssumption, LenProperties DEF IInv, TypeOK
  <1>2. CASE BeginChunk(pos + 1)
    BY <1>1, <1>2, BeginChunkCloser
  <1>3. CASE Leave("ended")
    BY <1>3 DEF Leave, RunCloser, Over
  <1> QED
    BY <1>2, <1>3 DEF NextChunk

LEMMA RunStepCloser ==
    ASSUME IInv, WaitInv, RunStep
    PROVE  stage \notin Over /\ RunCloser
  <1>0. beats \in Nat
    BY RequestsAssumption DEF IInv, TypeOK
  <1>1. CASE HeartbeatOK
    BY <1>1 DEF HeartbeatOK, RunCloser, StageRank, Over
  <1>2. CASE HeartbeatFails
    BY <1>0, <1>2 DEF HeartbeatFails, RunCloser, Over
  <1>3. CASE ExpirationsIn
    <2>1. stage = "expirations" /\ pos = 1
      BY <1>3 DEF ExpirationsIn, WaitInv
    <2>2. CASE BeginChunk(1)
      BY <2>1, <2>2, BeginChunkCloser DEF Over
    <2>3. CASE Leave("ended") \/ Leave("closed")
      BY <2>1, <2>3 DEF Leave, RunCloser, Over
    <2> QED
      BY <1>3, <2>2, <2>3 DEF ExpirationsIn
  <1>4. CASE RatesIn
    BY <1>4 DEF RatesIn, RunCloser, StageRank, Over
  <1>5. CASE PrefetchIn
    BY <1>5 DEF PrefetchIn, Leave, RunCloser, StageRank, Over
  <1>6. CASE GatherIn
    <2>1. CASE NextChunk
      BY <1>6, <2>1, NextChunkCloser DEF GatherIn, Over
    <2>2. CASE stage' = "lists" /\ pos' = pos
      BY <1>6, <2>2 DEF GatherIn, RunCloser, StageRank, Over
    <2> QED
      BY <1>6, <2>1, <2>2 DEF GatherIn
  <1>7. CASE ListsIn
    BY <1>7, NextChunkCloser DEF ListsIn, Over
  <1>8. CASE ListRaises
    BY <1>8 DEF ListRaises, Leave, RunCloser, Over
  <1> QED
    BY <1>1, <1>2, <1>3, <1>4, <1>5, <1>6, <1>7, <1>8 DEF RunStep

(***************************************************************************)
(* A run goes from stage to stage and from chunk to chunk, never back, and *)
(* nothing but its own steps moves it (orchestrator.py:641-800).           *)
(***************************************************************************)
THEOREM RunOnlyAdvances == Spec => RunAdvances
  <1>1. ASSUME IInv, WaitInv, [Next]_vars
        PROVE  UNCHANGED runVars \/ (stage \notin Over /\ RunCloser)
    <2>1. CASE RunStep
      BY <1>1, <2>1, RunStepCloser
    <2>2. CASE \E g \in Fetch : FetchStep(g) \/ Cancel(g)
      BY <2>2 DEF FetchStep, LookUp, Acquire, JoinLine, SleepUntilDue, SendInTurn,
                  Respond, Refused, TryAgain, GiveUp, Breaks, Cancel
    <2>3. CASE \/ \E c \in CacheName, k \in Key : Expire(c, k)
               \/ Tick \/ Returned \/ UNCHANGED vars
      BY <2>3 DEF Expire, Tick, Returned, vars
    <2> QED
      BY <1>1, <2>1, <2>2, <2>3 DEF Next
  <1>2. IInv /\ WaitInv /\ [Next]_vars =>
          [UNCHANGED runVars \/ (stage \notin Over /\ RunCloser)]_vars
    BY <1>1
  <1> QED
    BY <1>2, Invariance, WaitersAreListed, PTL DEF Spec, RunAdvances
=============================================================================

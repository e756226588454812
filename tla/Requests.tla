------------------------------ MODULE Requests ------------------------------
(***************************************************************************)
(* How a run of run_backfill gets its answers from Theta Terminal: the     *)
(* fetches of one event loop, the two semaphores they share, the attempts  *)
(* of AsyncThetaClient.get inside those of fetch_with_retry, the throttle, *)
(* and the caches in front of them.                                        *)
(*                                                                         *)
(* After the heartbeat and the list of expirations, a run asks for every   *)
(* chunk in groups: the rates of all symbols; stock bars; greeks, open     *)
(* interest and (the same) bars; the contract lists of the days.  The      *)
(* fetches of a group run concurrently, from one await to the next.        *)
(*                                                                         *)
(* Which rows come of the answers is the subject of FetchPipeline.tla.     *)
(***************************************************************************)
EXTENDS BoundedCache

CONSTANTS
    Symbol,         \* rate symbols
    Day,            \* bar dates
    Window,         \* (chunk_start, chunk_end)
    Windows,        \* the windows of the run's chunks, in order
    DaysOf,         \* the sets of bar dates that greeks of a window may have
    OptLimit,       \* OPT_SEM_LIMIT
    StkLimit,       \* STK_SEM_LIMIT
    ClientTries,    \* attempts of AsyncThetaClient.get, 3 in the code
    MaxRetries,     \* FETCH_MAX_RETRIES
    Interval,       \* ticks between requests, 0 without REQUESTS_PER_SECOND
    HeartbeatTries  \* HEARTBEAT_RETRIES

Plain == {"expirations", "bars", "greeks", "oi"}

ASSUME RequestsAssumption ==
    /\ Symbol \intersect Day = {}
    /\ (Symbol \union Day) \intersect Plain = {}
    /\ Window \intersect Day = {}
    /\ IsFiniteSet(Symbol) /\ IsFiniteSet(Day)
    /\ Windows \in Seq(Window) /\ Windows # <<>>
    /\ DaysOf \in [Window -> SUBSET ((SUBSET Day) \ {{}})]
    /\ OptLimit \in Nat \ {0} /\ StkLimit \in Nat \ {0}
    /\ ClientTries \in Nat \ {0} /\ MaxRetries \in Nat
    /\ Interval \in Nat /\ HeartbeatTries \in Nat \ {0}

Fetch == Symbol \union Day \union Plain
Tier == {"OPT", "STK"}
Limit == [t \in Tier |-> IF t = "OPT" THEN OptLimit ELSE StkLimit]
TierOf(f) == IF f \in Symbol \union {"bars"} THEN "STK" ELSE "OPT"
\* The list of expirations is fetched without a permit, before any other.
Guarded(f) == f # "expirations"

Key == Day \union Window
CacheName == {"rates", "ohlc", "contracts"}

VARIABLES
    stage,      \* what the run awaits
    pos,        \* the chunk in hand
    beats,      \* heartbeats that failed
    pc,         \* where each fetch is suspended
    tries,      \* attempts of its call of AsyncThetaClient.get
    attempts,   \* attempts of fetch_with_retry that failed
    answer,     \* what it returned to the group
    free,       \* the value of each semaphore
    queue,      \* who waits for it, first come first served
    line,       \* who waits for the client's lock; the first one holds it
    due,        \* ticks until _next_slot
    wake,       \* ticks until a sleeper of _throttle wakes
    cache,      \* the three caches of the run
    since       \* history: ticks since the last request, up to Interval

runVars == <<stage, pos, beats>>
permits == <<free, queue>>
throttle == <<line, due, wake, since>>
vars == <<runVars, pc, tries, attempts, answer, permits, throttle, cache>>

Over == {"ended", "closed"}
Done(f) == pc[f] \in {"idle", "done"}
\* Between "async with sem" and its end.
Inside == {"slot", "line", "sleep", "asked", "pause"}
Holds(f) == Guarded(f) /\ pc[f] \in Inside

TypeOK ==
    /\ stage \in Over \union
         {"heartbeat", "expirations", "rates", "prefetch", "gather", "lists"}
    /\ pos \in DOMAIN Windows
    /\ beats \in 0 .. HeartbeatTries
    /\ pc \in [Fetch -> Inside \union
                 {"idle", "start", "queued", "done"}]
    /\ tries \in [Fetch -> 0 .. ClientTries]
    /\ attempts \in [Fetch -> 0 .. MaxRetries]
    /\ answer \in [Fetch -> {"none", "rows", "empty", "cached", "raised"}]
    /\ free \in [Tier -> Nat] /\ \A t \in Tier : free[t] <= Limit[t]
    /\ queue \in [Tier -> Seq(Fetch)]
    /\ line \in Seq(Fetch)
    /\ due \in 0 .. Interval
    /\ wake \in [Fetch -> 0 .. Interval]
    /\ cache \in [CacheName -> CacheType(Key)]
    /\ since \in 0 .. Interval

Init ==
    /\ stage = "heartbeat" /\ pos = 1 /\ beats = 0
    /\ pc = [f \in Fetch |-> "idle"]
    /\ tries = [f \in Fetch |-> 0]
    /\ attempts = [f \in Fetch |-> 0]
    /\ answer = [f \in Fetch |-> "none"]
    /\ free = Limit /\ queue = [t \in Tier |-> <<>>]
    /\ line = <<>> /\ due = 0 /\ wake = [f \in Fetch |-> 0]
    /\ cache = [c \in CacheName |-> Empty]
    /\ since = Interval
-----------------------------------------------------------------------------
(* Permits *)

\* Mutant: the permit that is handed on is also counted as free.
ReturnTwice(f, next) ==
    LET t == TierOf(f)
    IN  /\ pc' = IF Guarded(f) /\ queue[t] # <<>>
                 THEN [pc EXCEPT ![f] = next, ![Head(queue[t])] = "slot"]
                 ELSE [pc EXCEPT ![f] = next]
        /\ queue' = IF Guarded(f) /\ queue[t] # <<>>
                    THEN [queue EXCEPT ![t] = Tail(@)] ELSE queue
        /\ free' = IF Guarded(f) THEN [free EXCEPT ![t] = @ + 1] ELSE free

\* Fetch f gives back what it holds and goes on at `next'; the permit goes to
\* the first in the queue.
Return(f, next) ==
    LET t == TierOf(f)
    IN  IF Guarded(f) /\ queue[t] # <<>>
        THEN /\ pc' = [pc EXCEPT ![f] = next, ![Head(queue[t])] = "slot"]
             /\ queue' = [queue EXCEPT ![t] = Tail(@)]
             /\ UNCHANGED free
        ELSE /\ pc' = [pc EXCEPT ![f] = next]
             /\ free' = IF Guarded(f) THEN [free EXCEPT ![t] = @ + 1] ELSE free
             /\ UNCHANGED queue
-----------------------------------------------------------------------------
(* Caches *)

StoreOf(f) == IF f \in Day THEN "contracts" ELSE "ohlc"
KeyOf(f) == IF f \in Day THEN f ELSE Windows[pos]

\* The coroutine of f ends with answer a, and its counters with it.
End(f, a) ==
    /\ answer' = [answer EXCEPT ![f] = a]
    /\ tries' = [tries EXCEPT ![f] = 0]
    /\ attempts' = [attempts EXCEPT ![f] = 0]

\* Mutant: the lists are asked for without a look at the cache.
BarsInCache(f) == f = "bars" /\ Hit(cache[StoreOf(f)], KeyOf(f))

\* Bars and lists are looked up first.
InCache(f) ==
    /\ f \in Day \union {"bars"}
    /\ Hit(cache[StoreOf(f)], KeyOf(f))

\* A call of f, the first or after fetch_with_retry has slept, is answered
\* from the cache,
LookUp(f) ==
    /\ pc[f] = "start" /\ InCache(f)
    /\ pc' = [pc EXCEPT ![f] = "done"]
    /\ End(f, "cached")
    /\ cache' = [cache EXCEPT ![StoreOf(f)] = Touch(@, KeyOf(f))]
    /\ UNCHANGED <<runVars, permits, throttle>>

\* or gets a permit, or waits for one.
Acquire(f) ==
    LET t == TierOf(f)
    IN  /\ pc[f] = "start" /\ ~InCache(f)
        /\ IF Guarded(f) /\ free[t] = 0
           THEN /\ pc' = [pc EXCEPT ![f] = "queued"]
                /\ queue' = [queue EXCEPT ![t] = Append(@, f)]
                /\ UNCHANGED free
           ELSE /\ pc' = [pc EXCEPT ![f] = "slot"]
                /\ free' = IF Guarded(f) THEN [free EXCEPT ![t] = @ - 1]
                           ELSE free
                /\ UNCHANGED queue
        /\ UNCHANGED <<runVars, tries, attempts, answer, throttle, cache>>

\* What f's answer a leaves in the caches: a list also if it is empty, bars
\* only if there are any, and then they are read back.
Cached(f, a) ==
    IF f \in Day THEN [cache EXCEPT !["contracts"] = Put(@, f)]
    ELSE IF f = "bars" /\ a = "rows"
         THEN [cache EXCEPT !["ohlc"] =
                  Touch(Put(@, Windows[pos]), Windows[pos])]
         ELSE cache

\* The time to live of an entry ends.
Expire(c, k) ==
    /\ Hit(cache[c], k)
    /\ cache' = [cache EXCEPT ![c] = Evict(@, k)]
    /\ UNCHANGED <<runVars, pc, tries, attempts, answer, permits, throttle>>
-----------------------------------------------------------------------------
(* AsyncThetaClient.get *)

\* get returns, and f with it: rows, or an empty frame for every failure.
Deliver(f, a) ==
    /\ Return(f, "done")
    /\ End(f, a)
    /\ cache' = Cached(f, a)

\* Mutant: the permit is given back by the answer only, not by an exception.
RaiseKeepsPermit(f, retryable) ==
    /\ IF retryable /\ stage = "gather" /\ attempts[f] < MaxRetries
       THEN /\ pc' = [pc EXCEPT ![f] = "start"]
            /\ tries' = [tries EXCEPT ![f] = 0]
            /\ attempts' = [attempts EXCEPT ![f] = @ + 1]
            /\ UNCHANGED answer
       ELSE pc' = [pc EXCEPT ![f] = "done"] /\ End(f, "raised")
    /\ UNCHANGED <<cache, permits>>

\* Mutant: fetch_with_retry does not count its attempts.
RaiseUncounted(f, retryable) ==
    /\ IF retryable /\ stage = "gather" /\ attempts[f] < MaxRetries
       THEN /\ Return(f, "start")
            /\ tries' = [tries EXCEPT ![f] = 0]
            /\ UNCHANGED <<attempts, answer>>
       ELSE Return(f, "done") /\ End(f, "raised")
    /\ UNCHANGED cache

\* get raises.  Only the three fetches of the gather run under
\* fetch_with_retry, and it retries only some exceptions: it sleeps, without
\* a permit, and calls again.
Raise(f, retryable) ==
    /\ IF retryable /\ stage = "gather" /\ attempts[f] < MaxRetries
       THEN /\ Return(f, "start")
            /\ tries' = [tries EXCEPT ![f] = 0]
            /\ attempts' = [attempts EXCEPT ![f] = @ + 1]
            /\ UNCHANGED answer
       ELSE Return(f, "done") /\ End(f, "raised")
    /\ UNCHANGED cache

\* The request leaves, or, once the run has closed the session, is refused.
Send(f) ==
    IF stage = "closed"
    THEN Raise(f, FALSE) /\ UNCHANGED since
    ELSE /\ pc' = [pc EXCEPT ![f] = "asked"]
         /\ since' = 0
         /\ UNCHANGED <<tries, attempts, answer, permits, cache>>

\* Another fetch holds the lock of the throttle.
JoinLine(f) ==
    /\ pc[f] = "slot" /\ line # <<>>
    /\ pc' = [pc EXCEPT ![f] = "line"]
    /\ line' = Append(line, f)
    /\ UNCHANGED <<runVars, tries, attempts, answer, permits, due, wake, since,
                   cache>>

\* Mutant: the throttle has no lock.
TurnOfAny(f) == pc[f] \in {"slot", "line"}

\* f gets the lock: nobody had it, or it is the first in line.
Turn(f) ==
    \/ pc[f] = "slot" /\ line = <<>>
    \/ pc[f] = "line" /\ Head(line) = f

\* The next slot is not due yet, and f sleeps with the lock held.
SleepUntilDue(f) ==
    /\ Turn(f) /\ due > 0
    /\ pc' = [pc EXCEPT ![f] = "sleep"]
    /\ wake' = [wake EXCEPT ![f] = due]
    /\ line' = IF pc[f] = "line" THEN line ELSE Append(line, f)
    /\ UNCHANGED <<runVars, tries, attempts, answer, permits, due, since, cache>>

\* Without an interval nobody ever waits here.
SendInTurn(f) ==
    /\ \/ Turn(f) /\ due = 0
       \/ pc[f] = "sleep" /\ wake[f] = 0
    /\ due' = Interval
    /\ line' = RemoveFirst(line, f)
    /\ Send(f)
    /\ UNCHANGED <<runVars, wake>>

\* A status below 300, or one that get does not retry.
Respond(f, a) ==
    /\ pc[f] = "asked"
    /\ Deliver(f, a)
    /\ UNCHANGED <<runVars, throttle>>

\* RETRY_STATUS, ClientError or a timeout: get sleeps where it is.
Refused(f) ==
    /\ pc[f] = "asked"
    /\ pc' = [pc EXCEPT ![f] = "pause"]
    /\ tries' = [tries EXCEPT ![f] = @ + 1]
    /\ UNCHANGED <<runVars, attempts, answer, permits, throttle, cache>>

\* Any other exception: of the socket (retryable), or of a body that is not
\* what the fetcher expects.
Breaks(f, retryable) ==
    /\ pc[f] = "asked"
    /\ Raise(f, retryable)
    /\ UNCHANGED <<runVars, throttle>>

\* After its sleep get tries again, and gives up with a status.
TryAgain(f) ==
    /\ pc[f] = "pause" /\ tries[f] < ClientTries
    /\ pc' = [pc EXCEPT ![f] = "slot"]
    /\ UNCHANGED <<runVars, tries, attempts, answer, permits, throttle, cache>>

GiveUp(f) ==
    /\ pc[f] = "pause" /\ tries[f] = ClientTries
    /\ Deliver(f, "empty")
    /\ UNCHANGED <<runVars, throttle>>

\* The event loop ends and cancels what an exception left behind.
Cancel(f) ==
    /\ stage = "closed" /\ ~Done(f)
    /\ IF pc[f] \in Inside THEN Return(f, "done")
       ELSE /\ pc' = [pc EXCEPT ![f] = "done"]
            /\ queue' = [queue EXCEPT ![TierOf(f)] = RemoveFirst(@, f)]
            /\ UNCHANGED free
    /\ line' = RemoveFirst(line, f)
    /\ End(f, "raised")
    /\ UNCHANGED <<runVars, due, wake, since, cache>>

FetchStep(f) ==
    \/ LookUp(f) \/ Acquire(f)
    \/ JoinLine(f) \/ SleepUntilDue(f) \/ SendInTurn(f)
    \/ \E a \in {"rows", "empty"} : Respond(f, a)
    \/ Refused(f) \/ TryAgain(f) \/ GiveUp(f)
    \/ \E retryable \in BOOLEAN : Breaks(f, retryable)

\* Time matters to the throttle only.
Tick ==
    /\ due > 0 \/ since < Interval \/ \E f \in Fetch : wake[f] > 0
    /\ due' = IF due > 0 THEN due - 1 ELSE 0
    /\ since' = IF since < Interval THEN since + 1 ELSE Interval
    /\ wake' = [f \in Fetch |-> IF wake[f] > 0 THEN wake[f] - 1 ELSE 0]
    /\ UNCHANGED <<runVars, pc, tries, attempts, answer, permits, line, cache>>
-----------------------------------------------------------------------------
(* The run *)

AllDone == \A f \in Fetch : Done(f)

Ask(S) ==
    /\ pc' = [f \in Fetch |-> IF f \in S THEN "start" ELSE "idle"]
    /\ tries' = [f \in Fetch |-> 0]
    /\ attempts' = [f \in Fetch |-> 0]
    /\ answer' = [f \in Fetch |-> "none"]
    /\ UNCHANGED <<permits, throttle>>

\* The run is over: it returns, or an exception closes the client's session.
Leave(s) ==
    /\ stage' = s
    /\ UNCHANGED <<pos, pc, tries, attempts, answer, permits, throttle, cache>>

HeartbeatOK ==
    /\ stage = "heartbeat"
    /\ stage' = "expirations"
    /\ Ask({"expirations"})
    /\ UNCHANGED <<pos, beats, cache>>

\* heartbeat() retries a terminal that is down, sleeps after every failure,
\* and raises after the last; other exceptions leave it at once.
HeartbeatFails ==
    /\ stage = "heartbeat"
    /\ beats' = beats + 1
    /\ \/ /\ beats' < HeartbeatTries
          /\ UNCHANGED stage
       \/ stage' = "closed"
    /\ UNCHANGED <<pos, pc, tries, attempts, answer, permits, throttle, cache>>

\* _get_rates of chunk i: one key for all symbols.
BeginChunk(i) ==
    /\ pos' = i
    /\ IF Hit(cache["rates"], Windows[i])
       THEN /\ stage' = "prefetch" /\ Ask({"bars"})
            /\ cache' = [cache EXCEPT !["rates"] = Touch(@, Windows[i])]
       ELSE stage' = "rates" /\ Ask(Symbol) /\ UNCHANGED cache
    /\ UNCHANGED beats

NextChunk ==
    IF pos < Len(Windows) THEN BeginChunk(pos + 1)
    ELSE Leave("ended") /\ UNCHANGED beats

\* An empty list of expirations, or one of which none is wanted, ends the run.
ExpirationsIn ==
    /\ stage = "expirations" /\ AllDone
    /\ \/ answer["expirations"] = "rows" /\ BeginChunk(1)
       \/ answer["expirations"] # "raised" /\ Leave("ended") /\ UNCHANGED beats
       \/ answer["expirations"] = "raised" /\ Leave("closed") /\ UNCHANGED beats

\* gather(return_exceptions=True): a symbol that raised is left out, and what
\* the others brought, if anything, is cached for the window.
RatesIn ==
    /\ stage = "rates" /\ AllDone
    /\ stage' = "prefetch" /\ Ask({"bars"})
    /\ cache' = [cache EXCEPT !["rates"] = Put(@, Windows[pos])]
    /\ UNCHANGED <<pos, beats>>

PrefetchIn ==
    /\ stage = "prefetch" /\ AllDone
    /\ IF answer["bars"] = "raised" THEN Leave("closed")
       ELSE stage' = "gather" /\ Ask({"greeks", "oi", "bars"})
            /\ UNCHANGED <<pos, cache>>
    /\ UNCHANGED beats

\* gather(return_exceptions=True): the chunk is left if one of the three
\* raised or there are no greeks.
GatherIn ==
    /\ stage = "gather" /\ AllDone
    /\ IF answer["greeks"] = "empty" \/ \E f \in Fetch : answer[f] = "raised"
       THEN NextChunk
       ELSE \E D \in DaysOf[Windows[pos]] :
                stage' = "lists" /\ Ask(D) /\ UNCHANGED <<pos, beats, cache>>

ListsIn ==
    /\ stage = "lists" /\ AllDone
    /\ \A f \in Fetch : answer[f] # "raised"
    /\ NextChunk

\* Mutant: the chunk is left, as for the gather, and the run goes on.
ListRaisesToNextChunk ==
    /\ stage = "lists"
    /\ \E f \in Fetch : answer[f] = "raised"
    /\ NextChunk

\* gather without return_exceptions: the first exception ends the run, while
\* the other lists are still being fetched.
ListRaises ==
    /\ stage = "lists"
    /\ \E f \in Fetch : answer[f] = "raised"
    /\ Leave("closed") /\ UNCHANGED beats

RunStep ==
    \/ HeartbeatOK \/ HeartbeatFails
    \/ ExpirationsIn \/ RatesIn \/ PrefetchIn \/ GatherIn \/ ListsIn
    \/ ListRaises

Returned ==
    /\ stage \in Over /\ AllDone
    /\ UNCHANGED vars

Next ==
    \/ \E f \in Fetch : FetchStep(f) \/ Cancel(f)
    \/ \E c \in CacheName, k \in Key : Expire(c, k)
    \/ RunStep \/ Tick \/ Returned

\* The event loop goes on with every fetch that can go on, and with the run;
\* a request ends by its timeout at the latest; time passes.  Nothing is
\* assumed of the terminal, of entries that expire, of cancellation.
Fairness ==
    /\ \A f \in Fetch : WF_vars(FetchStep(f))
    /\ WF_vars(RunStep)
    /\ WF_vars(Tick)

Spec == Init /\ [][Next]_vars /\ Fairness
-----------------------------------------------------------------------------
(* Properties *)

(***************************************************************************)
(* No permit is lost or made up, whatever raises, is retried, is left      *)
(* behind or cancelled: what a semaphore has not got is held by a fetch of *)
(* its tier, so at most Limit requests of a tier are outstanding; and      *)
(* nobody waits while a permit is free (orchestrator.py:85-86, retry.py:   *)
(* 85-116).                                                                *)
(***************************************************************************)
PermitsAccounted ==
    \A t \in Tier :
        /\ free[t] + Cardinality({f \in Fetch : Holds(f) /\ TierOf(f) = t})
             = Limit[t]
        /\ free[t] > 0 => queue[t] = <<>>

(***************************************************************************)
(* Each cache lists what it holds, once, and is never over its size, though*)
(* set takes no care of keys it already holds (cache.py:51-62): no two     *)
(* fetches of a run ever miss the same key and then both set it.           *)
(***************************************************************************)
CachesSound == \A c \in CacheName : Sound(cache[c])

(***************************************************************************)
(* Two requests are Interval ticks apart, also if several fetches reach    *)
(* the throttle while one sleeps in it (theta_client.py:96-106).           *)
(***************************************************************************)
SpacedRequests ==
    [][\A f \in Fetch :
          pc[f] # "asked" /\ pc'[f] = "asked" => since = Interval]_vars

(***************************************************************************)
(* The answers to a group are complete before the run goes on, come once,  *)
(* and never from another group (orchestrator.py:492-500, 373-374).        *)
(***************************************************************************)
G == INSTANCE Gather WITH
        running <- stage \notin Over,
        open    <- {f \in Fetch : ~Done(f)},
        answer  <- answer
ImplementsGather == G!Spec

\* A fetch that waits for nobody: it has something to do, or it sleeps or waits
\* for an answer and will be woken.
CanGo(f) ==
    \/ pc[f] \in {"start", "slot", "sleep", "asked", "pause"}
    \/ pc[f] = "line" /\ Head(line) = f

\* A fetch that waits for nobody, or only for the fetch with the client's lock.
WaitsForLockAtMost(f) ==
    CanGo(f) \/ (pc[f] = "line" /\ line # <<>> /\ CanGo(Head(line)))

(***************************************************************************)
(* No fetch is forgotten: one that is under way can go on, or is in line   *)
(* behind one that can, or is listed by a semaphore all permits of which   *)
(* are held, by a fetch that can go on or is in line behind one that can.  *)
(* So the waits for permits, held through the throttle and every sleep     *)
(* of get, never form a circle (orchestrator.py:85-86, theta_client.py:    *)
(* 96-148).                                                                *)
(***************************************************************************)
NobodyIsStuck ==
    \A f \in Fetch : ~Done(f) =>
        \/ WaitsForLockAtMost(f)
        \/ /\ pc[f] = "queued"
           /\ \E i \in 1 .. Len(queue[TierOf(f)]) : queue[TierOf(f)][i] = f
           /\ \E g \in Fetch :
                 Holds(g) /\ TierOf(g) = TierOf(f) /\ WaitsForLockAtMost(g)

\* The way of an attempt; a pause is entered with an attempt spent.
Rank == [start |-> 6, queued |-> 5, pause |-> 5, slot |-> 4, line |-> 3,
         sleep |-> 2, asked |-> 1]

\* f has come nearer to its answer: it has one, or has spent an attempt of
\* fetch_with_retry, or of get, or is further in the one it makes.
Closer(f) ==
    \/ pc'[f] = "done"
    \/ attempts'[f] > attempts[f]
    \/ attempts'[f] = attempts[f] /\ tries'[f] > tries[f]
    \/ /\ attempts'[f] = attempts[f] /\ tries'[f] = tries[f]
       /\ Rank[pc'[f]] < Rank[pc[f]]

(***************************************************************************)
(* Nothing sets a fetch back, neither its own failures nor the steps of    *)
(* others: attempts inside attempts are counted, and within one the fetch  *)
(* only goes forward (theta_client.py:131-149, retry.py:86-116).           *)
(***************************************************************************)
FetchesAdvance ==
    [][\A f \in Fetch : ~Done(f) =>
          \/ pc'[f] = pc[f] /\ attempts'[f] = attempts[f] /\ tries'[f] = tries[f]
          \/ Closer(f)]_vars

StageRank == [heartbeat |-> 6, expirations |-> 5, rates |-> 4, prefetch |-> 3,
              gather |-> 2, lists |-> 1]

\* The run is over, or at a later chunk or stage, or has spent a heartbeat.
RunCloser ==
    \/ stage' \in Over
    \/ pos' > pos
    \/ pos' = pos /\ StageRank[stage'] < StageRank[stage]
    \/ pos' = pos /\ stage' = stage /\ beats' > beats

(***************************************************************************)
(* A run asks for each group of a chunk at most once and never comes back  *)
(* to a chunk or a stage, and what is over stays over (orchestrator.py:    *)
(* 641-800).                                                               *)
(***************************************************************************)
RunAdvances ==
    [][UNCHANGED runVars \/ (stage \notin Over /\ RunCloser)]_vars

(***************************************************************************)
(* A run returns, or an exception leaves it, and nothing of it stays       *)
(* behind: the attempts inside attempts end, the queues are served, nobody *)
(* sleeps for ever (theta_client.py:131-149, retry.py:86-116).             *)
(***************************************************************************)
AllReturn == <>(stage \in Over /\ AllDone)
=============================================================================

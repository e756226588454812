--------------------------- MODULE FetchPipeline ---------------------------
(***************************************************************************)
(* How the answers of Theta Terminal become the clean and rejected rows of *)
(* a chunk, and what is remembered of requests that failed.                *)
(*                                                                         *)
(* For every chunk of its plan a run fetches rates and stock bars, then    *)
(* greeks, open interest and stock bars at the same time, then the listed  *)
(* contracts of each day.  Rates, bars and lists are kept in caches that   *)
(* outlive the chunk.  The rows are joined with what came back, sorted     *)
(* into clean and rejected ones, and stored with the chunk's watermark.    *)
(*                                                                         *)
(* What is joined to a row is chosen by less than its key: a contract list *)
(* has no expirations, and an answer about open interest is reduced to its *)
(* dates, so that a row gets the interest of every contract of its         *)
(* expiration, each in a copy of the row.  Copies have the key of the row; *)
(* the model keeps the set of their verdicts.                              *)
(*                                                                         *)
(* There is data behind every request, so an empty answer is a failed one: *)
(* AsyncThetaClient.get gives up with a status, never with an exception,   *)
(* and the fetchers turn every status but 200 into an empty frame.         *)
(*                                                                         *)
(* Backfill.tla models the transaction that is one step here; here the     *)
(* batch that is one step there is taken apart.  The checks on quotes are  *)
(* in ChainFilter.tla.                                                     *)
(***************************************************************************)
EXTENDS Naturals, Sequences

CONSTANTS
    Exp,        \* expirations
    Contract,   \* (strike, right)
    Session,    \* days with a session, as the schedule cache has them
    Listed,     \* the contracts of each expiration that are listed on a day
    Reported,   \* open interest reports: of a contract on a day
    Liquid,     \* those above MIN_OI
    Sound,      \* rows whose quotes pass every check, whatever the other rows; the
                \* others fail one that needs no spot
    Plan,       \* the chunks of a run, in order
    Frames,     \* greeks frames: {"placeholder"} as the fetcher builds them, with
                \* an empty spot_close column; "bare" as the tests of the joins do
    MaxRuns     \* bound: runs

ASSUME PipelineAssumption ==
    /\ Session \subseteq Nat
    /\ Listed \in [Session -> SUBSET (Exp \X Contract)]
    /\ Reported \subseteq [exp : Exp, day : Session, contract : Contract]
    /\ Liquid \subseteq Reported
    /\ Sound \subseteq [exp : Exp, day : Session, contract : Contract]
    /\ Plan \in Seq([exp : Exp, from : Nat, to : Nat])
    /\ Plan # <<>>
    /\ Frames \subseteq {"placeholder", "bare"}
    /\ MaxRuns \in Nat

Chunk == {Plan[i] : i \in DOMAIN Plan}
Window == {<<c.from, c.to>> : c \in Chunk}
Days(c) == {d \in Session : c.from <= d /\ d <= c.to}

\* The chunks of an expiration follow one another (NextChunk in Coverage.tla).
ASSUME ChunksAreApart ==
    \A c, d \in Chunk : c # d /\ c.exp = d.exp => Days(c) \intersect Days(d) = {}

Row == [exp : Exp, day : Session, contract : Contract]
Code == {"STRUCTURE", "SPOT_NA", "DELTA_BAND", "LOW_OI"}

VARIABLES
    runs,       \* runs started
    pc, pos,    \* the step of the chunk in hand, and its place in the plan
    \* caches of the run; a missing entry is not in the domain
    rates,      \* window -> there is a rate
    ohlc,       \* windows whose bars are cached
    lists,      \* day -> contracts
    \* the chunk in hand
    rate,       \* rates_df is not empty
    greeks, oi, bars,   \* answers of the gather
    listed,     \* day -> contracts, as far as they are known
    frame,      \* kind of the greeks frames, one and the same for ever
    \* what lasts
    entries,    \* completed chunks with their rows
    \* history
    got         \* requests of this run whose last answer carried data

caches == <<rates, ohlc, lists>>
hand == <<rate, greeks, oi, bars, listed>>
vars == <<runs, pc, pos, caches, hand, frame, entries, got>>

Answer == {"pending", "rows", "empty", "raised"}
\* What was answered with data: in a run, and for one chunk.
Got == [rates : SUBSET Window, bars : SUBSET Window, oi : SUBSET Chunk,
        lists : SUBSET Session]
Known == [rates : BOOLEAN, bars : BOOLEAN, oi : BOOLEAN, lists : SUBSET Session]
Entry == [chunk : Chunk, clean : SUBSET Row, quar : SUBSET (Row \X Code),
          known : Known]
NoDays == [d \in {} |-> {}]
NothingGot == [rates |-> {}, bars |-> {}, oi |-> {}, lists |-> {}]

IsCache(f, K, S) == DOMAIN f \subseteq K /\ f \in [DOMAIN f -> S]

TypeOK ==
    /\ runs \in 0 .. MaxRuns
    /\ pc \in {"idle", "rates", "bars", "gather", "lists"}
    /\ pos \in 1 .. Len(Plan)
    /\ IsCache(rates, Window, BOOLEAN)
    /\ ohlc \in SUBSET Window
    /\ IsCache(lists, Session, SUBSET Contract)
    /\ rate \in BOOLEAN
    /\ greeks \in Answer /\ oi \in Answer /\ bars \in Answer
    /\ frame \in Frames
    /\ IsCache(listed, Session, SUBSET Contract)
    /\ entries \in SUBSET Entry
    /\ got \in Got

Init ==
    /\ runs = 0
    /\ pc = "idle" /\ pos = 1
    /\ rates = [w \in {} |-> FALSE]
    /\ ohlc = {}
    /\ lists = NoDays
    /\ rate = FALSE
    /\ greeks = "pending" /\ oi = "pending" /\ bars = "pending"
    /\ frame \in Frames
    /\ listed = NoDays
    /\ entries = {}
    /\ got = NothingGot

TheChunk == Plan[pos]
WindowOf(c) == <<c.from, c.to>>
TheWindow == WindowOf(TheChunk)
RowsOf(c) == [exp : {c.exp}, day : Days(c), contract : Contract]

\* What this run knows of a chunk.
KnownOf(c) ==
    [rates |-> WindowOf(c) \in got.rates,
     bars  |-> WindowOf(c) \in got.bars,
     oi    |-> c \in got.oi,
     lists |-> got.lists \intersect Days(c)]

\* The set of keys with data after one more answer.
Noted(S, key, ok) == IF ok THEN S \union {key} ELSE S \ {key}
\* A cache after "set".
Put(f, key, value) ==
    [k \in DOMAIN f \union {key} |-> IF k = key THEN value ELSE f[k]]
-----------------------------------------------------------------------------
(* Leaving a chunk *)

\* Mutant: one turn of the loop too many.
LeavePastTheEnd ==
    /\ rate' = FALSE
    /\ greeks' = "pending" /\ oi' = "pending" /\ bars' = "pending"
    /\ listed' = NoDays
    /\ IF pos <= Len(Plan)
       THEN pos' = pos + 1 /\ pc' = "rates"
       ELSE pos' = 1 /\ pc' = "idle"
    /\ UNCHANGED <<runs, caches, frame, got>>

\* The locals of the chunk go, and the loop turns to the next one.
Leave ==
    /\ rate' = FALSE
    /\ greeks' = "pending" /\ oi' = "pending" /\ bars' = "pending"
    /\ listed' = NoDays
    /\ IF pos < Len(Plan)
       THEN pos' = pos + 1 /\ pc' = "rates"
       ELSE pos' = 1 /\ pc' = "idle"
    /\ UNCHANGED <<runs, caches, frame, got>>

\* Every run begins with fresh caches.
StartRun ==
    /\ pc = "idle"
    /\ runs < MaxRuns
    /\ runs' = runs + 1
    /\ pc' = "rates"
    /\ rates' = [w \in {} |-> FALSE]
    /\ ohlc' = {}
    /\ lists' = NoDays
    /\ got' = NothingGot
    /\ UNCHANGED <<pos, hand, frame, entries>>

\* An exception that _process_chunk does not catch, or the end of the process.
Abort ==
    /\ pc # "idle"
    /\ pc' = "idle" /\ pos' = 1
    /\ rate' = FALSE
    /\ greeks' = "pending" /\ oi' = "pending" /\ bars' = "pending"
    /\ listed' = NoDays
    /\ UNCHANGED <<runs, caches, frame, entries, got>>
-----------------------------------------------------------------------------
(* run_backfill, before _process_chunk *)

\* A hit, or a miss: the cache may have evicted any entry for its age or for room.
\* The symbols are asked for at the same time and failures swallowed one by one; an
\* empty result is cached like any other.
GetRates ==
    /\ pc = "rates"
    /\ \/ /\ TheWindow \in DOMAIN rates
          /\ rate' = rates[TheWindow]
          /\ UNCHANGED <<rates, got>>
       \/ /\ rate' \in BOOLEAN
          /\ rates' = Put(rates, TheWindow, rate')
          /\ got' = [got EXCEPT !.rates = Noted(@, TheWindow, rate')]
    /\ pc' = "bars"
    /\ UNCHANGED <<runs, pos, ohlc, lists, greeks, oi, bars, frame, listed, entries>>

\* Bars of the window: only a frame with rows is cached.
AskBars(answer) ==
    \/ /\ TheWindow \in ohlc
       /\ answer = "rows"
       /\ UNCHANGED <<ohlc, got>>
    \/ /\ ohlc' = Noted(ohlc, TheWindow, answer = "rows")
       /\ got' = [got EXCEPT !.bars = Noted(@, TheWindow, answer = "rows")]

\* For the dividends map, without a retry and before the gather.
PrefetchBars ==
    /\ pc = "bars"
    /\ \E answer \in {"rows", "empty"} : AskBars(answer)
    /\ pc' = "gather"
    /\ UNCHANGED <<runs, pos, rates, lists, hand, frame, entries>>
-----------------------------------------------------------------------------
(* _process_chunk: the gather *)

\* fetch_with_retry: what is left after its retries is an answer or an exception.
GreeksReturn ==
    /\ pc = "gather"
    /\ greeks = "pending"
    /\ greeks' \in {"rows", "empty", "raised"}
    /\ UNCHANGED <<runs, pc, pos, caches, rate, oi, bars, listed, frame, entries, got>>

OiReturn ==
    /\ pc = "gather"
    /\ oi = "pending"
    /\ oi' \in {"rows", "empty", "raised"}
    /\ got' = [got EXCEPT !.oi = Noted(@, TheChunk, oi' = "rows")]
    /\ UNCHANGED <<runs, pc, pos, caches, rate, greeks, bars, frame, listed, entries>>

BarsReturn ==
    /\ pc = "gather"
    /\ bars = "pending"
    /\ bars' \in {"rows", "empty", "raised"}
    /\ AskBars(bars')
    /\ UNCHANGED <<runs, pc, pos, rates, lists, rate, greeks, oi, frame, listed, entries>>

Gathered == pc = "gather" /\ "pending" \notin {greeks, oi, bars}
Raised == "raised" \in {greeks, oi, bars}

\* ChunkResult(fetch_error=True)
FetchError ==
    /\ Gathered
    /\ Raised
    /\ Leave
    /\ UNCHANGED entries

\* ChunkResult(skipped=True, "no_data")
NoData ==
    /\ Gathered
    /\ ~Raised
    /\ greeks = "empty"
    /\ Leave
    /\ UNCHANGED entries

BeginLists ==
    /\ Gathered
    /\ ~Raised
    /\ greeks = "rows"
    /\ pc' = "lists"
    /\ UNCHANGED <<runs, pos, caches, hand, frame, entries, got>>
-----------------------------------------------------------------------------
(* _process_chunk: survivorship, joins and cleaning *)

\* An answer is reduced to strikes and rights.
ListAnswer(d) == {x[2] : x \in Listed[d]}

\* Mutant: the cache key forgets the day.
ListOfAnyDay(d) ==
    /\ pc = "lists"
    /\ d \in Days(TheChunk) \ DOMAIN listed
    /\ \/ \E e \in DOMAIN lists :
            /\ listed' = Put(listed, d, lists[e])
            /\ UNCHANGED <<lists, got>>
       \/ /\ \E ok \in BOOLEAN :
               /\ listed' = Put(listed, d, IF ok THEN ListAnswer(d) ELSE {})
               /\ lists' = Put(lists, d, IF ok THEN ListAnswer(d) ELSE {})
               /\ got' = [got EXCEPT !.lists = Noted(@, d, ok)]
    /\ UNCHANGED <<runs, pc, pos, rates, ohlc, rate, greeks, oi, bars, frame, entries>>

\* The lists of the days are asked for at the same time and come in any order; a
\* failed one is an empty list, and is cached.
ListReturn(d) ==
    /\ pc = "lists"
    /\ d \in Days(TheChunk) \ DOMAIN listed
    /\ \/ /\ d \in DOMAIN lists
          /\ listed' = Put(listed, d, lists[d])
          /\ UNCHANGED <<lists, got>>
       \/ /\ \E ok \in BOOLEAN :
               /\ listed' = Put(listed, d, IF ok THEN ListAnswer(d) ELSE {})
               /\ lists' = Put(lists, d, IF ok THEN ListAnswer(d) ELSE {})
               /\ got' = [got EXCEPT !.lists = Noted(@, d, ok)]
    /\ UNCHANGED <<runs, pc, pos, rates, ohlc, rate, greeks, oi, bars, frame, entries>>

AllListed == pc = "lists" /\ Days(TheChunk) \subseteq DOMAIN listed

\* The rows whose strike and right were listed on their day, for any expiration.
Survivors == {row \in RowsOf(TheChunk) : row.contract \in listed[row.day]}

\* _join_spot: a spot_close column on both sides is split in two by the merge, and
\* a new one without values takes their place.
SpotJoined == bars = "rows" /\ frame = "bare"

\* The session before day d, if it is a day of the chunk.
Prior(c, d) == {p \in Days(c) : p < d /\ \A s \in Session : ~(p < s /\ s < d)}

\* The reports that meet a row of chunk c: those of its expiration, of any contract,
\* on the session before.  The fetch spans the days of the chunk.
ReportsFor(c, row) == {r \in Reported : r.exp = c.exp /\ r.day \in Prior(c, row.day)}

\* _join_oi in strict mode.
OpenInterest(row) == IF oi = "rows" THEN ReportsFor(TheChunk, row) ELSE {}

\* Mutant: an inner join, which drops the rows without a report.
VerdictsOfInnerJoin(row) ==
    IF row \notin Sound THEN {"STRUCTURE"}
    ELSE IF ~SpotJoined THEN {"SPOT_NA"}
    ELSE IF ~rate THEN {"DELTA_BAND"}
    ELSE {IF r \in Liquid THEN "CLEAN" ELSE "LOW_OI" : r \in OpenInterest(row)}

\* clean_option_chain, attach_rates_and_math and apply_post_join_filters on the
\* copies of a row, one for each report and at least one: without a rate there is no
\* forward and no delta.
Verdicts(row) ==
    IF row \notin Sound THEN {"STRUCTURE"}
    ELSE IF ~SpotJoined THEN {"SPOT_NA"}
    ELSE IF ~rate THEN {"DELTA_BAND"}
    ELSE IF OpenInterest(row) = {} THEN {"LOW_OI"}
    ELSE {IF r \in Liquid THEN "CLEAN" ELSE "LOW_OI" : r \in OpenInterest(row)}

\* The watermark holds the expiration and the last day.
Completed(c) == \E e \in entries : e.chunk.exp = c.exp /\ e.chunk.to = c.to

\* ChunkResult(skipped=True, "no_data_survivorship")
NoSurvivors ==
    /\ AllListed
    /\ Survivors = {}
    /\ Leave
    /\ UNCHANGED entries

\* The transaction: rows and watermark, unless the chunk has one.
StoreChunk ==
    /\ AllListed
    /\ Survivors # {}
    /\ entries' =
         IF Completed(TheChunk) THEN entries
         ELSE entries \union
              {[chunk |-> TheChunk,
                clean |-> {row \in Survivors : "CLEAN" \in Verdicts(row)},
                quar  |-> {filed \in Survivors \X Code : filed[2] \in Verdicts(filed[1])},
                known |-> KnownOf(TheChunk)]}
    /\ Leave

\* ChunkResult(db_error=True)
StoreFails ==
    /\ AllListed
    /\ Survivors # {}
    /\ Leave
    /\ UNCHANGED entries
-----------------------------------------------------------------------------
AllRunsDone ==
    /\ pc = "idle"
    /\ runs = MaxRuns
    /\ UNCHANGED vars

Next ==
    \/ StartRun \/ Abort
    \/ GetRates \/ PrefetchBars
    \/ GreeksReturn \/ OiReturn \/ BarsReturn
    \/ FetchError \/ NoData \/ BeginLists
    \/ \E d \in Session : ListReturn(d)
    \/ NoSurvivors \/ StoreChunk \/ StoreFails
    \/ AllRunsDone

Spec == Init /\ [][Next]_vars
-----------------------------------------------------------------------------
(* Properties *)

ListedThen(e, row) == row.day \in e.known.lists /\ row.contract \in ListAnswer(row.day)

\* All that a row of a chunk needs was answered with data in the run of its entry,
\* and among the interest joined to it there is some above MIN_OI.
Backed(e, row) ==
    /\ e.known.rates /\ e.known.bars /\ e.known.oi
    /\ ListedThen(e, row)
    /\ ReportsFor(e.chunk, row) \intersect Liquid # {}
    /\ frame = "bare"

\* A row is accepted exactly if it passed its checks, its strike and right were
\* listed on its day, and its rate, spot and prior open interest came from answers of
\* the same run.  No row rests on an empty answer, another key's cache entry or
\* another day's interest; and failures, evictions and earlier chunks spoil none that
\* has its answers.  As in the code, any expiration will do for the listing and any
\* contract of the expiration for the interest.
CleanRowsAreTheBackedOnes ==
    \A e \in entries :
        e.clean = {row \in RowsOf(e.chunk) : row \in Sound /\ Backed(e, row)}

\* dataingestion.md, section 13, "Quarantine, don't drop": of a completed chunk the
\* rows listed on a day whose list is known, and no others, are stored or filed.  A
\* row has one code, and is both stored and filed only where the open interest of
\* its expiration lies on both sides of MIN_OI.
CompletedChunkAccountsForRows ==
    \A e \in entries : \A row \in RowsOf(e.chunk) :
        LET codes == {code \in Code : <<row, code>> \in e.quar}
            reports == ReportsFor(e.chunk, row)
        IN  /\ ListedThen(e, row) <=> row \in e.clean \/ codes # {}
            /\ \A a, b \in codes : a = b
            /\ row \in e.clean /\ codes # {} =>
                 /\ codes = {"LOW_OI"}
                 /\ reports \intersect Liquid # {} /\ reports \ Liquid # {}

\* ChunkResult, "fetch_error: True if a fetch failed permanently": a chunk that is
\* completed had all its requests answered.
PermanentFailureIsReported ==
    \A e \in entries :
        /\ e.known.rates /\ e.known.bars /\ e.known.oi
        /\ Days(e.chunk) \subseteq e.known.lists

\* COLUMNS.md on spot_close, joined and not nullable: when the bars were fetched, no
\* row is rejected for want of a spot price.
SpotIsJoined ==
    \A e \in entries : \A row \in RowsOf(e.chunk) :
        e.known.bars => <<row, "SPOT_NA">> \notin e.quar

(***************************************************************************)
(* The entries of all runs together are the database of ChunkLedger: each  *)
(* chunk is completed once, whole, and never touched again, whatever the   *)
(* requests of this or another run answered before or afterwards.  A row   *)
(* belongs to one chunk, so that its copies can be counted by 0 and 1.     *)
(***************************************************************************)
PlannedRow == UNION {RowsOf(c) : c \in Chunk}

Ledger == INSTANCE ChunkLedger WITH
    Row        <- PlannedRow,
    ChunkOf    <- [row \in PlannedRow |-> CHOOSE c \in Chunk : row \in RowsOf(c)],
    RunId      <- {1},
    surface    <- [row \in PlannedRow |->
                     IF \E e \in entries : row \in e.clean THEN 1 ELSE 0],
    quarantine <- [row \in PlannedRow |->
                     IF \E e \in entries, code \in Code : <<row, code>> \in e.quar
                     THEN 1 ELSE 0],
    progress   <- {[chunk |-> e.chunk, run |-> 1, rows |-> e.clean] : e \in entries}

ImplementsLedger == Ledger!Spec
-----------------------------------------------------------------------------
(* The inductive invariant of the proofs (FetchPipelineProofs.tla) *)

\* A cache entry is the last answer of this run.
CacheInv ==
    /\ \A w \in DOMAIN rates : rates[w] <=> w \in got.rates
    /\ ohlc \subseteq got.bars
    /\ \A d \in DOMAIN lists :
         lists[d] = IF d \in got.lists THEN ListAnswer(d) ELSE {}

\* So is what the chunk in hand was given.
HandInv ==
    /\ pc \in {"bars", "gather", "lists"} => (rate <=> TheWindow \in got.rates)
    /\ pc \in {"gather", "lists"} /\ bars # "pending" =>
         (bars = "rows" <=> TheWindow \in got.bars)
    /\ pc \in {"gather", "lists"} /\ oi # "pending" =>
         (oi = "rows" <=> TheChunk \in got.oi)
    /\ pc = "lists" => bars # "pending" /\ oi # "pending"
    /\ \A d \in DOMAIN listed :
         listed[d] = IF d \in got.lists THEN ListAnswer(d) ELSE {}
    /\ pc \notin {"gather", "lists"} =>
         greeks = "pending" /\ oi = "pending" /\ bars = "pending" /\ listed = NoDays

\* An entry has verdicts on rows of its own chunk only.
EntryInv ==
    \A e \in entries : \A q \in e.quar : q[1] \in RowsOf(e.chunk)

IInv ==
    /\ TypeOK
    /\ CacheInv
    /\ HandInv
    /\ EntryInv
    /\ CleanRowsAreTheBackedOnes
    /\ CompletedChunkAccountsForRows
=============================================================================

------------------------------ MODULE Backfill ------------------------------
(***************************************************************************)
(* The backfill loop of dataingestion/orchestrator.py over the statements  *)
(* of dataingestion/db_writer.py.  Several operating-system processes may  *)
(* run it at the same time against one PostgreSQL database.  A process     *)
(* walks its chunks one after the other; for each it fetches and cleans a  *)
(* batch of rows, and then runs one READ COMMITTED transaction:            *)
(*                                                                         *)
(*   read the watermarks; COPY into the shared staging table;              *)
(*   INSERT ... SELECT staging ON CONFLICT DO NOTHING; TRUNCATE staging;   *)
(*   COPY into quarantine; INSERT the watermark; COMMIT.                   *)
(*                                                                         *)
(* Every statement is an action, so the statements of two processes        *)
(* interleave.  The server's locks are modelled where they bite: COPY      *)
(* takes ROW EXCLUSIVE on staging, TRUNCATE takes ACCESS EXCLUSIVE on it,  *)
(* an INSERT waits for a transaction that holds the same key uncommitted,  *)
(* and the deadlock detector aborts a transaction of a waiting cycle.      *)
(***************************************************************************)
EXTENDS Naturals, Sequences, FiniteSets

CONSTANTS
    Process,    \* operating-system processes that call run_backfill
    Chunk,      \* watermark keys: (expiration, chunk_end_date)
    Row,        \* row keys: (underlying, expiration, strike, type, ts)
    ChunkOf,    \* the chunk a row key is fetched with
    Plan,       \* the chunks a process walks, in order
    MaxRuns     \* bound: values drawn from ingest_run_id_seq

ASSUME BackfillAssumption ==
    /\ IsFiniteSet(Row)
    /\ ChunkOf \in [Row -> Chunk]
    /\ Plan \in [Process -> Seq(Chunk)]
    /\ "nobody" \notin Process
    /\ MaxRuns \in Nat

RunId == 1 .. MaxRuns
RowsOf(c) == {row \in Row : ChunkOf[row] = c}

VARIABLES
    \* what is committed in the database
    surface,    \* amd_surface_min: the run that stored a row key, 0 if absent
    staging,    \* amd_surface_min_staging
    quarantine, \* amd_surface_quarantine: how often a row key was filed
    progress,   \* ingest_progress
    lastRun,    \* ingest_run_id_seq
    \* what each process has in memory
    pc,         \* the statement it is about to run
    run,        \* its run_id
    pos,        \* position in its plan
    clean,      \* clean_df of the chunk in hand
    quar,       \* quar_df of the chunk in hand
    totalClean, \* total_clean of run_backfill
    errors,     \* total_errors of run_backfill
    \* what its open transaction wrote and nobody else sees
    staged,     \* rows copied into staging
    loaded,     \* rows inserted into amd_surface_min
    \* history
    owner       \* the process that drew a run id

dbVars   == <<surface, staging, quarantine, progress>>
runVars  == <<lastRun, run, owner>>
batchVars == <<clean, quar>>
statVars == <<totalClean, errors>>
txVars   == <<staged, loaded>>
vars == <<dbVars, runVars, batchVars, statVars, txVars, pc, pos>>

Entry == [chunk : Chunk, run : RunId, rows : SUBSET Row]

\* The statements of the transaction that follow the watermark check.
InTx == {"stage", "load", "truncate", "quarantine", "mark", "commit"}
Active == InTx \union {"fetch", "check"}

(***************************************************************************)
(* Only type facts: totalClean counts rows, so it is a natural number.     *)
(***************************************************************************)
TypeOK ==
    /\ surface \in [Row -> {0} \union RunId]
    /\ staging \in SUBSET Row
    /\ quarantine \in [Row -> Nat]
    /\ progress \in SUBSET Entry
    /\ lastRun \in 0 .. MaxRuns
    /\ pc \in [Process -> Active \union {"idle", "finished"}]
    /\ run \in [Process -> {0} \union RunId]
    /\ pos \in [Process -> Nat]
    /\ clean \in [Process -> SUBSET Row]
    /\ quar \in [Process -> SUBSET Row]
    /\ totalClean \in [Process -> Nat]
    /\ errors \in [Process -> Nat]
    /\ staged \in [Process -> SUBSET Row]
    /\ loaded \in [Process -> SUBSET Row]
    /\ owner \in [RunId -> Process \union {"nobody"}]

Init ==
    /\ surface = [row \in Row |-> 0]
    /\ staging = {}
    /\ quarantine = [row \in Row |-> 0]
    /\ progress = {}
    /\ lastRun = 0
    /\ pc = [p \in Process |-> "idle"]
    /\ run = [p \in Process |-> 0]
    /\ pos = [p \in Process |-> 1]
    /\ clean = [p \in Process |-> {}]
    /\ quar = [p \in Process |-> {}]
    /\ totalClean = [p \in Process |-> 0]
    /\ errors = [p \in Process |-> 0]
    /\ staged = [p \in Process |-> {}]
    /\ loaded = [p \in Process |-> {}]
    /\ owner = [r \in RunId |-> "nobody"]

ChunkAt(p) == Plan[p][pos[p]]
Completed(c) == \E e \in progress : e.chunk = c

-----------------------------------------------------------------------------
(* Locks held and waited for. *)

\* Staging is locked from the COPY to the end of the transaction, which ends
\* only by leaving InTx.
LocksStaging(p) ==
    \/ pc[p] \in {"load", "truncate"}
    \/ pc[p] \in {"quarantine", "mark", "commit"} /\ clean[p] # {}
Truncated(p) == pc[p] \in {"quarantine", "mark", "commit"} /\ clean[p] # {}

\* The rows the INSERT ... SELECT of p reads: committed ones and its own.
Visible(p) == staging \union staged[p]

WaitsFor(p, q) ==
    /\ p # q
    /\ \/ pc[p] = "stage" /\ Truncated(q)
       \/ pc[p] = "load" /\ loaded[q] \intersect Visible(p) # {}
       \/ pc[p] = "truncate" /\ LocksStaging(q)

Waiting(p) == \E q \in Process : WaitsFor(p, q)

\* p is in a set of processes each of which waits for one and is waited for
\* by one of the set.
Deadlocked(p) ==
    \E S \in SUBSET Process :
        /\ p \in S
        /\ \A x \in S : \E y, z \in S : WaitsFor(x, y) /\ WaitsFor(z, x)
-----------------------------------------------------------------------------
(* Leaving a chunk.  A result is added to the totals of the run and the    *)
(* next chunk of the plan is fetched; after the last one the run returns.  *)

\* Mutant: the loop comes back to the chunk it has just left.
NextChunkStays(p) ==
    /\ pc' = [pc EXCEPT ![p] = IF pos[p] < Len(Plan[p]) THEN "fetch" ELSE "finished"]
    /\ clean' = [clean EXCEPT ![p] = {}]
    /\ quar' = [quar EXCEPT ![p] = {}]
    /\ staged' = [staged EXCEPT ![p] = {}]
    /\ loaded' = [loaded EXCEPT ![p] = {}]
    /\ UNCHANGED pos

NextChunk(p) ==
    /\ pos' = [pos EXCEPT ![p] = @ + 1]
    /\ pc' = [pc EXCEPT ![p] = IF pos[p] < Len(Plan[p]) THEN "fetch" ELSE "finished"]
    /\ clean' = [clean EXCEPT ![p] = {}]
    /\ quar' = [quar EXCEPT ![p] = {}]
    /\ staged' = [staged EXCEPT ![p] = {}]
    /\ loaded' = [loaded EXCEPT ![p] = {}]

\* total_clean += clean_rows; total_errors += 1 if the result has an error.
\* Both ChunkResult(clean_len, ...) and its db_error form carry clean_len.
Tally(p, rows, failed) ==
    /\ totalClean' = [totalClean EXCEPT ![p] = @ + Cardinality(rows)]
    /\ errors' = [errors EXCEPT ![p] = IF failed THEN @ + 1 ELSE @]

\* The process is gone, or the exception leaves run_backfill: the server
\* rolls an open transaction back and the totals are lost.
Abandon(p) ==
    /\ pc' = [pc EXCEPT ![p] = "idle"]
    /\ clean' = [clean EXCEPT ![p] = {}]
    /\ quar' = [quar EXCEPT ![p] = {}]
    /\ staged' = [staged EXCEPT ![p] = {}]
    /\ loaded' = [loaded EXCEPT ![p] = {}]
    /\ UNCHANGED <<dbVars, runVars, statVars, pos>>
-----------------------------------------------------------------------------
(* run_backfill *)

\* nextval('ingest_run_id_seq'): a process that is not running starts a run.
StartRun(p) ==
    /\ pc[p] \in {"idle", "finished"}
    /\ lastRun < MaxRuns
    /\ lastRun' = lastRun + 1
    /\ run' = [run EXCEPT ![p] = lastRun']
    /\ owner' = [owner EXCEPT ![lastRun'] = p]
    /\ pos' = [pos EXCEPT ![p] = 1]
    /\ pc' = [pc EXCEPT ![p] = IF Plan[p] = <<>> THEN "finished" ELSE "fetch"]
    /\ totalClean' = [totalClean EXCEPT ![p] = 0]
    /\ errors' = [errors EXCEPT ![p] = 0]
    /\ UNCHANGED <<dbVars, batchVars, txVars>>

\* The fetches of the chunk in hand came back with rows; survivorship filter,
\* joins and cleaning split what is left into clean and rejected rows.  The join
\* with the open interest makes copies of a row, which may be judged apart, so
\* a key can be in both parts (FetchPipeline.tla); copies of a key in one part
\* count once.  The dte band drops rows without a trace: both may be empty.
FetchBatch(p) ==
    /\ pc[p] = "fetch"
    /\ \E good \in SUBSET RowsOf(ChunkAt(p)) :
        \E bad \in SUBSET RowsOf(ChunkAt(p)) :
            /\ clean' = [clean EXCEPT ![p] = good]
            /\ quar' = [quar EXCEPT ![p] = bad]
    /\ pc' = [pc EXCEPT ![p] = "check"]
    /\ UNCHANGED <<dbVars, runVars, statVars, txVars, pos>>

\* A fetch of the gather raised: ChunkResult(fetch_error=True).
FetchFails(p) ==
    /\ pc[p] = "fetch"
    /\ NextChunk(p)
    /\ Tally(p, {}, TRUE)
    /\ UNCHANGED <<dbVars, runVars>>

\* No greeks, or none left by the survivorship filter: the chunk is skipped,
\* leaves no watermark and is not an error.
FetchEmpty(p) ==
    /\ pc[p] = "fetch"
    /\ NextChunk(p)
    /\ UNCHANGED <<dbVars, runVars, statVars>>

\* An exception of the stock fetch of the dividends map or of the contract
\* lists is caught nowhere: run_backfill raises.
FetchRaises(p) ==
    /\ pc[p] = "fetch"
    /\ Abandon(p)
-----------------------------------------------------------------------------
(* The transaction of _process_chunk *)

\* "if not quar_df.empty": the first statement that does not touch staging.
AfterLoad(p) == IF quar[p] # {} THEN "quarantine" ELSE "mark"

\* Mutant: the watermark is not read again inside the transaction.
CheckNothing(p) ==
    /\ pc[p] = "check"
    /\ pc' = [pc EXCEPT ![p] = IF clean[p] # {} THEN "stage" ELSE AfterLoad(p)]
    /\ UNCHANGED <<dbVars, runVars, batchVars, statVars, txVars, pos>>

\* The SELECT of get_completed_chunks sees what is committed now.
CheckWatermark(p) ==
    /\ pc[p] = "check"
    /\ IF Completed(ChunkAt(p))
       THEN /\ NextChunk(p)
            /\ UNCHANGED <<dbVars, runVars, statVars>>
       ELSE /\ pc' = [pc EXCEPT ![p] = IF clean[p] # {} THEN "stage" ELSE AfterLoad(p)]
            /\ UNCHANGED <<dbVars, runVars, batchVars, statVars, txVars, pos>>

\* Mutant: the COPY is committed on its own.
WriteStagingCommits(p) ==
    /\ pc[p] = "stage"
    /\ ~Waiting(p)
    /\ staging' = staging \union clean[p]
    /\ pc' = [pc EXCEPT ![p] = "load"]
    /\ UNCHANGED <<surface, quarantine, progress, runVars, batchVars, statVars,
                   txVars, pos>>

WriteStaging(p) ==
    /\ pc[p] = "stage"
    /\ ~Waiting(p)
    /\ staged' = [staged EXCEPT ![p] = clean[p]]
    /\ pc' = [pc EXCEPT ![p] = "load"]
    /\ UNCHANGED <<dbVars, runVars, batchVars, statVars, loaded, pos>>

\* Mutant: keys that another transaction holds are skipped, not waited for.
LoadSkipsHeldKeys(p) ==
    /\ pc[p] = "load"
    /\ loaded' = [loaded EXCEPT ![p] =
                    {row \in Visible(p) : surface[row] = 0
                                         /\ \A q \in Process : row \notin loaded[q]}]
    /\ pc' = [pc EXCEPT ![p] = "truncate"]
    /\ UNCHANGED <<dbVars, runVars, batchVars, statVars, staged, pos>>

\* INSERT INTO amd_surface_min SELECT ... FROM staging ON CONFLICT DO NOTHING.
LoadFromStaging(p) ==
    /\ pc[p] = "load"
    /\ ~Waiting(p)
    /\ loaded' = [loaded EXCEPT ![p] = {row \in Visible(p) : surface[row] = 0}]
    /\ pc' = [pc EXCEPT ![p] = "truncate"]
    /\ UNCHANGED <<dbVars, runVars, batchVars, statVars, staged, pos>>

\* Mutant: staging is left as it is.
TruncateForgotten(p) ==
    /\ pc[p] = "truncate"
    /\ ~Waiting(p)
    /\ pc' = [pc EXCEPT ![p] = AfterLoad(p)]
    /\ UNCHANGED <<dbVars, runVars, batchVars, statVars, txVars, pos>>

TruncateStaging(p) ==
    /\ pc[p] = "truncate"
    /\ ~Waiting(p)
    /\ staged' = [staged EXCEPT ![p] = {}]
    /\ pc' = [pc EXCEPT ![p] = AfterLoad(p)]
    /\ UNCHANGED <<dbVars, runVars, batchVars, statVars, loaded, pos>>

\* Mutant: the quarantine COPY is committed on its own.
WriteQuarantineCommits(p) ==
    /\ pc[p] = "quarantine"
    /\ quarantine' = [row \in Row |->
                     IF row \in quar[p] THEN quarantine[row] + 1 ELSE quarantine[row]]
    /\ pc' = [pc EXCEPT ![p] = "mark"]
    /\ UNCHANGED <<surface, staging, progress, runVars, batchVars, statVars,
                   txVars, pos>>

WriteQuarantine(p) ==
    /\ pc[p] = "quarantine"
    /\ pc' = [pc EXCEPT ![p] = "mark"]
    /\ UNCHANGED <<dbVars, runVars, batchVars, statVars, txVars, pos>>

\* Mutant: the watermark is committed before the rows.
AdvanceWatermarkCommits(p) ==
    /\ pc[p] = "mark"
    /\ progress' = progress \union
                   {[chunk |-> ChunkAt(p), run |-> run[p], rows |-> clean[p]]}
    /\ pc' = [pc EXCEPT ![p] = "commit"]
    /\ UNCHANGED <<surface, staging, quarantine, runVars, batchVars, statVars,
                   txVars, pos>>

\* INSERT ... ON CONFLICT (underlying, expiration, chunk_end_date, run_id):
\* the key holds the run, so the rows of two runs never conflict or wait.
AdvanceWatermark(p) ==
    /\ pc[p] = "mark"
    /\ pc' = [pc EXCEPT ![p] = "commit"]
    /\ UNCHANGED <<dbVars, runVars, batchVars, statVars, txVars, pos>>

\* Mutant: the watermark row does not carry the run.
PublishWithoutRun(p) ==
    /\ surface' = [row \in Row |->
                     IF row \in loaded[p] THEN run[p] ELSE surface[row]]
    /\ progress' = progress \union
                   {[chunk |-> ChunkAt(p), run |-> 0, rows |-> clean[p]]}
    /\ UNCHANGED <<staging, quarantine>>

\* What the COMMIT of p makes visible.
Publish(p) ==
    /\ surface' = [row \in Row |->
                     IF row \in loaded[p] THEN run[p] ELSE surface[row]]
    /\ staging' = (IF Truncated(p) THEN {} ELSE staging) \union staged[p]
    /\ quarantine' = [row \in Row |->
                     IF row \in quar[p] THEN quarantine[row] + 1 ELSE quarantine[row]]
    /\ progress' = {e \in progress : ~(e.chunk = ChunkAt(p) /\ e.run = run[p])}
                   \union {[chunk |-> ChunkAt(p), run |-> run[p], rows |-> clean[p]]}

Commit(p) ==
    /\ pc[p] = "commit"
    /\ Publish(p)
    /\ NextChunk(p)
    /\ Tally(p, clean[p], FALSE)
    /\ UNCHANGED runVars

\* The server committed and the connection broke before it could say so: the
\* generic except clause reports db_error.
CommitUnacknowledged(p) ==
    /\ pc[p] = "commit"
    /\ Publish(p)
    /\ NextChunk(p)
    /\ Tally(p, clean[p], TRUE)
    /\ UNCHANGED runVars

RollBack(p) ==
    /\ NextChunk(p)
    /\ Tally(p, clean[p], TRUE)
    /\ UNCHANGED <<dbVars, runVars>>

\* Any statement, or taking the connection, raises: db_error, nothing stored.
StatementFails(p) ==
    /\ pc[p] \in InTx \union {"check"}
    /\ RollBack(p)

\* The deadlock detector of the server aborts p.
DeadlockVictim(p) ==
    /\ Deadlocked(p)
    /\ RollBack(p)

Crash(p) ==
    /\ pc[p] \in Active
    /\ Abandon(p)
-----------------------------------------------------------------------------
\* Every process has returned and no run id is left for another run.
AllFinished ==
    /\ lastRun = MaxRuns
    /\ \A p \in Process : pc[p] \notin Active
    /\ UNCHANGED vars

Statement(p) ==
    \/ CheckWatermark(p)
    \/ WriteStaging(p)
    \/ LoadFromStaging(p)
    \/ TruncateStaging(p)
    \/ WriteQuarantine(p)
    \/ AdvanceWatermark(p)
    \/ Commit(p)
    \/ DeadlockVictim(p)

Fetch(p) ==
    \/ FetchBatch(p)
    \/ FetchFails(p)
    \/ FetchEmpty(p)
    \/ FetchRaises(p)

Failure(p) ==
    \/ CommitUnacknowledged(p)
    \/ StatementFails(p)
    \/ Crash(p)

Next ==
    \/ \E p \in Process : StartRun(p) \/ Fetch(p) \/ Statement(p) \/ Failure(p)
    \/ AllFinished

Spec == Init /\ [][Next]_vars

(***************************************************************************)
(* A process that is not killed runs on: its event loop takes the next     *)
(* step of the only coroutine of the run, the server answers a statement   *)
(* that does not wait, and its detector breaks a waiting cycle.  Nothing   *)
(* is assumed of failures, of crashes or of anybody starting a run.        *)
(***************************************************************************)
Fairness == \A p \in Process : WF_vars(Fetch(p)) /\ WF_vars(Statement(p))

FairSpec == Spec /\ Fairness
-----------------------------------------------------------------------------
(* Properties *)

Ledger == INSTANCE ChunkLedger

\* The detailed transaction protocol is the ledger of whole chunks: what any
\* process commits is one atomic completion (orchestrator.py, _process_chunk:
\* "all inside a single database transaction").
ImplementsLedger == Ledger!Spec

\* Every row a watermark counts is in the surface table: a chunk that later
\* runs will skip has lost none of the rows its run found clean.
WatermarkImpliesLoaded ==
    \A e \in progress : \A row \in e.rows : surface[row] # 0

\* A row stamped with a run was clean in a chunk which that very run completed.
\* The staging table is shared and INSERT ... SELECT reads all of it, so this
\* is what keeps one run from storing, under its own id, rows of another.
StampedRowsHaveWatermark ==
    \A row \in Row : surface[row] # 0 =>
        \E e \in progress :
            /\ e.run = surface[row]
            /\ e.chunk = ChunkOf[row]
            /\ row \in e.rows

\* A stored row never disappears and never changes its run: the loser of a race
\* for a key leaves the winner's row alone (ON CONFLICT DO NOTHING).
RowsNeverRewritten ==
    [][\A row \in Row : surface[row] # 0 => surface'[row] = surface[row]]_vars

\* The staging table is empty between transactions, transactions that hold
\* uncommitted surface rows hold different ones, and a transaction that has
\* truncated staging shares it with nobody.
StagingIsolated ==
    /\ staging = {}
    /\ \A p, q \in Process : p # q =>
        /\ loaded[p] \intersect loaded[q] = {}
        /\ ~(Truncated(p) /\ LocksStaging(q))

\* Whatever the crashes, restarts and lost acknowledgements, the runs that one
\* process makes one after the other complete a chunk at most once, even while
\* other processes work on it (the watermark re-check of _process_chunk).
RestartIsIdempotent ==
    \A e, f \in progress :
        e.chunk = f.chunk /\ owner[e.run] = owner[f.run] => e = f

\* A rejected row was filed at most once per completion of its chunk: no copy
\* outlives a transaction that did not record its watermark.
QuarantineExplained ==
    \A row \in Row :
        quarantine[row] <= Cardinality({e \in progress : e.chunk = ChunkOf[row]})

StoredBy(r) == {row \in Row : surface[row] = r}
EntriesOf(r) == {e \in progress : e.run = r}
RowsCounted(r) == UNION {{e.chunk} \X e.rows : e \in EntriesOf(r)}

\* What total_clean_rows is good for.  It is not the number of rows the run stored,
\* as the docstring of _process_chunk says of clean_rows: a chunk that was rolled
\* back counts its rows, and so do rows that ON CONFLICT DO NOTHING left alone.  It
\* is an upper bound, also when the acknowledgement of a commit is lost, and, if the
\* run counted no error, the sum of rows_loaded over its watermarks.
ReportAccountsForRows ==
    \A p \in Process : run[p] # 0 /\ pc[p] # "idle" =>
        /\ totalClean[p] >= Cardinality(StoredBy(run[p]))
        /\ errors[p] = 0 =>
             totalClean[p] = Cardinality(RowsCounted(run[p]))

\* A run that is not killed returns: waits for locks and unique keys, and the
\* deadlock of two TRUNCATEs, never hold a process for ever.
RunsReturn ==
    \A p \in Process : pc[p] \in Active ~> pc[p] \notin Active

\* The statements p has left to run at most, if it is not killed: those of the
\* chunk in hand and eight for each chunk after it.
Rank == [fetch |-> 8, check |-> 7, stage |-> 6, load |-> 5, truncate |-> 4,
         quarantine |-> 3, mark |-> 2, commit |-> 1]
StepsLeft(p) ==
    IF pc[p] \in Active THEN 8 * (Len(Plan[p]) - pos[p]) + Rank[pc[p]] ELSE 0

\* Every step of a run brings its end nearer, whatever fails in it: no chunk of
\* the plan is taken up again and no statement repeated, and no step of another
\* process sets a run back.
RunsAdvance ==
    [][\A p \in Process : pc[p] \in Active =>
          \/ pc'[p] = pc[p] /\ pos'[p] = pos[p] /\ run'[p] = run[p]
          \/ StepsLeft(p)' < StepsLeft(p)]_vars

\* A process that need not wait, or that the deadlock detector may abort.
CanGo(p) == pc[p] \in Active /\ (~Waiting(p) \/ Deadlocked(p))

\* No chain of waits holds a run up for ever: a process at work can go on, or
\* waits for one that can.
NobodyIsStuck ==
    \A p \in Process : pc[p] \in Active =>
        CanGo(p) \/ \E q \in Process : WaitsFor(p, q) /\ CanGo(q)

\* What the code says of itself and two processes refute: a chunk is completed
\* once ("atomic exactly-once semantics"; a second completion is "Watermark race
\* detected -- chunk already completed by concurrent runner").
ChunkCompletedOnce ==
    \A e, f \in progress : e.chunk = f.chunk => e = f
-----------------------------------------------------------------------------
(* The inductive invariant of the proofs (BackfillProofs.tla) *)

\* What a process holds at each statement.
BatchInv ==
    \A p \in Process :
        /\ pc[p] \notin InTx \union {"check"} => clean[p] = {} /\ quar[p] = {}
        /\ pc[p] \in {"stage", "load", "truncate"} => clean[p] # {}
        /\ staged[p] = IF pc[p] \in {"load", "truncate"} THEN clean[p] ELSE {}
        /\ pc[p] \in {"fetch", "check", "stage", "load", "idle", "finished"} =>
             loaded[p] = {}

\* The position in the plan, the chunk and the run of a process at work.
RunInv ==
    \A p \in Process :
        /\ run[p] # 0 => owner[run[p]] = p
        /\ pc[p] \in Active =>
            /\ pos[p] \in 1 .. Len(Plan[p])
            /\ run[p] # 0
            /\ clean[p] \subseteq RowsOf(ChunkAt(p))
            /\ quar[p] \subseteq RowsOf(ChunkAt(p))

\* Run ids above the sequence are unused.
FreshInv ==
    /\ \A r \in RunId : r > lastRun => owner[r] = "nobody"
    /\ \A e \in progress : owner[e.run] # "nobody"

\* From its INSERT to its COMMIT a transaction holds exactly the clean rows
\* nobody has stored: whoever could store one of them is waiting.
HoldInv ==
    \A p \in Process : pc[p] \in {"truncate", "quarantine", "mark", "commit"} =>
        loaded[p] = {row \in clean[p] : surface[row] = 0}

\* Since the watermark re-check, no run of the same process completed the chunk.
CheckedInv ==
    \A p \in Process : pc[p] \in InTx =>
        \A e \in progress : e.chunk = ChunkAt(p) => owner[e.run] # p

IInv ==
    /\ TypeOK
    /\ BatchInv
    /\ RunInv
    /\ FreshInv
    /\ StagingIsolated
    /\ HoldInv
    /\ CheckedInv
    /\ RestartIsIdempotent
    /\ WatermarkImpliesLoaded
    /\ StampedRowsHaveWatermark

\* What the counts of the properties rest on: only finitely many watermarks
\* and counted rows exist at any time.
CountInv ==
    /\ IsFiniteSet(progress)
    /\ \A r \in RunId : IsFiniteSet(RowsCounted(r))
    /\ QuarantineExplained
    /\ ReportAccountsForRows
=============================================================================

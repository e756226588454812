---------------------------- MODULE ChunkLedger ----------------------------
(***************************************************************************)
(* What the ingestion database promises to whoever reads it, whatever the  *)
(* number of backfill processes that write it: chunks are completed one at *)
(* a time and whole.  One step records the watermark of a chunk for a run, *)
(* stores under that run every clean row nobody stored before, and files   *)
(* the rejected rows.  No other change is ever visible.                    *)
(*                                                                         *)
(* Two detailed specifications implement this one: Backfill.tla, the       *)
(* transactions of several processes, and FetchPipeline.tla, the requests  *)
(* from which a chunk's rows come.                                         *)
(***************************************************************************)
EXTENDS Naturals

CONSTANTS
    Chunk,      \* watermark keys: (expiration, chunk_end_date)
    Row,        \* row keys: (underlying, expiration, strike, type, ts)
    ChunkOf,    \* the chunk a row key is fetched with
    RunId       \* values of ingest_run_id_seq

VARIABLES
    surface,    \* amd_surface_min: the run that stored a row key, 0 if absent
    quarantine, \* amd_surface_quarantine: how often a row key was filed
    progress    \* ingest_progress: the completed (chunk, run) entries

ledgerVars == <<surface, quarantine, progress>>

RowsOf(c) == {row \in Row : ChunkOf[row] = c}

\* A watermark entry; "rows" are the rows that its rows_loaded counts.
Entry == [chunk : Chunk, run : RunId, rows : SUBSET Row]

Init ==
    /\ surface = [row \in Row |-> 0]
    /\ quarantine = [row \in Row |-> 0]
    /\ progress = {}

(***************************************************************************)
(* Run r completes chunk c with the given clean and rejected rows.  Rows   *)
(* stored by an earlier run keep its stamp; a run completes a chunk once.  *)
(* A key can be clean and rejected, as the joins make copies of a row;     *)
(* copies in one batch count once.                                         *)
(***************************************************************************)
Store(c, r, clean) ==
    /\ \A e \in progress : ~(e.chunk = c /\ e.run = r)
    /\ progress' = progress \union {[chunk |-> c, run |-> r, rows |-> clean]}
    /\ surface' = [row \in Row |->
                     IF row \in clean /\ surface[row] = 0 THEN r ELSE surface[row]]

File(quar) ==
    quarantine' = [row \in Row |->
                     IF row \in quar THEN quarantine[row] + 1 ELSE quarantine[row]]

Next ==
    \E c \in Chunk, r \in RunId :
        \E clean \in SUBSET RowsOf(c) :
            /\ Store(c, r, clean)
            /\ \E quar \in SUBSET RowsOf(c) : File(quar)

Spec == Init /\ [][Next]_ledgerVars
=============================================================================

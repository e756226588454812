--------------------------- MODULE BackfillProofs ---------------------------
(***************************************************************************)
(* Proofs about Backfill.tla, for any number of processes, chunks, rows    *)
(* and runs.  IInv is shown inductive; the safety properties follow.       *)
(***************************************************************************)
EXTENDS Backfill, FiniteSetTheorems, TLAPS

(* The batches of a process and the totals they add up to are finite. *)
LEMMA CountInNat ==
    ASSUME NEW rows \in SUBSET Row
    PROVE  Cardinality(rows) \in Nat
  BY BackfillAssumption, FS_Subset, FS_CardinalityType

(* A chunk position inside the plan names a chunk. *)
LEMMA ChunkAtType ==
    ASSUME NEW p \in Process, pos[p] \in 1 .. Len(Plan[p])
    PROVE  ChunkAt(p) \in Chunk
  BY BackfillAssumption DEF ChunkAt

LEMMA InitInv == Init => IInv
  <1> SUFFICES ASSUME Init PROVE IInv
    OBVIOUS
  <1> USE BackfillAssumption DEF Init
  <1>1. TypeOK
    BY DEF TypeOK, Entry, RunId, Active, InTx
  <1>2. BatchInv /\ RunInv /\ FreshInv
    BY DEF BatchInv, RunInv, FreshInv, InTx, Active, RunId
  <1>3. StagingIsolated /\ HoldInv /\ CheckedInv
    BY DEF StagingIsolated, HoldInv, CheckedInv, Truncated, LocksStaging, InTx
  <1>4. RestartIsIdempotent /\ WatermarkImpliesLoaded /\ StampedRowsHaveWatermark
    BY DEF RestartIsIdempotent, WatermarkImpliesLoaded, StampedRowsHaveWatermark
  <1> QED
    BY <1>1, <1>2, <1>3, <1>4 DEF IInv

-----------------------------------------------------------------------------
(* Steps that leave what is committed, and the runs, alone. *)

LEMMA CommittedUnchanged ==
    ASSUME IInv, UNCHANGED <<dbVars, runVars>>
    PROVE  /\ FreshInv'
           /\ RestartIsIdempotent'
           /\ WatermarkImpliesLoaded'
           /\ StampedRowsHaveWatermark'
  BY DEF IInv, dbVars, runVars, FreshInv, RestartIsIdempotent,
         WatermarkImpliesLoaded, StampedRowsHaveWatermark

(* What a process is left with once it is done with a chunk. *)
Left(p) ==
    /\ pc' = [pc EXCEPT ![p] = pc'[p]]
    /\ pc'[p] \in {"fetch", "finished", "idle"}
    /\ pos' = [pos EXCEPT ![p] = pos'[p]]
    /\ pos'[p] \in Nat
    /\ pc'[p] = "fetch" => pos'[p] \in 1 .. Len(Plan[p])
    /\ clean' = [clean EXCEPT ![p] = {}]
    /\ quar' = [quar EXCEPT ![p] = {}]
    /\ staged' = [staged EXCEPT ![p] = {}]
    /\ loaded' = [loaded EXCEPT ![p] = {}]

LEMMA NextChunkLeft ==
    ASSUME TypeOK, NEW p \in Process, NextChunk(p),
           pos[p] \in 1 .. Len(Plan[p])
    PROVE  Left(p)
  BY BackfillAssumption DEF TypeOK, NextChunk, Left

LEMMA AbandonLeft ==
    ASSUME TypeOK, NEW p \in Process, Abandon(p)
    PROVE  Left(p)
  BY DEF TypeOK, Abandon, Left

LEMMA TallyType ==
    ASSUME TypeOK, NEW p \in Process, NEW rows \in SUBSET Row,
           NEW failed \in BOOLEAN, Tally(p, rows, failed)
    PROVE  totalClean' \in [Process -> Nat] /\ errors' \in [Process -> Nat]
  BY CountInNat DEF TypeOK, Tally

(* What letting a chunk go leaves of the process, and of the others. *)
LEMMA LeftFacts ==
    ASSUME TypeOK, NEW p \in Process, Left(p)
    PROVE  /\ pc' \in [Process -> Active \union {"idle", "finished"}]
           /\ pos' \in [Process -> Nat]
           /\ clean' \in [Process -> SUBSET Row] /\ quar' \in [Process -> SUBSET Row]
           /\ staged' \in [Process -> SUBSET Row] /\ loaded' \in [Process -> SUBSET Row]
           /\ pc'[p] \in {"fetch", "finished", "idle"}
           /\ clean'[p] = {} /\ quar'[p] = {} /\ staged'[p] = {} /\ loaded'[p] = {}
           /\ \A q \in Process : q # p =>
                 /\ pc'[q] = pc[q] /\ pos'[q] = pos[q]
                 /\ clean'[q] = clean[q] /\ quar'[q] = quar[q]
                 /\ staged'[q] = staged[q] /\ loaded'[q] = loaded[q]
  <1>1. /\ pc' \in [Process -> Active \union {"idle", "finished"}]
        /\ pc'[p] \in {"fetch", "finished", "idle"}
        /\ \A q \in Process : q # p => pc'[q] = pc[q]
    <2>1. PICK x \in {"fetch", "finished", "idle"} : pc' = [pc EXCEPT ![p] = x]
      BY DEF Left
    <2>2. x \in Active \union {"idle", "finished"}
      BY DEF Active
    <2>3. pc \in [Process -> Active \union {"idle", "finished"}]
      BY DEF TypeOK
    <2> QED
      BY <2>1, <2>2, <2>3
  <1>2. pos' \in [Process -> Nat] /\ \A q \in Process : q # p => pos'[q] = pos[q]
    BY DEF TypeOK, Left
  <1>3. /\ clean' \in [Process -> SUBSET Row] /\ clean'[p] = {}
        /\ \A q \in Process : q # p => clean'[q] = clean[q]
    BY DEF TypeOK, Left
  <1>4. /\ quar' \in [Process -> SUBSET Row] /\ quar'[p] = {}
        /\ \A q \in Process : q # p => quar'[q] = quar[q]
    BY DEF TypeOK, Left
  <1>5. /\ staged' \in [Process -> SUBSET Row] /\ staged'[p] = {}
        /\ \A q \in Process : q # p => staged'[q] = staged[q]
    BY DEF TypeOK, Left
  <1>6. /\ loaded' \in [Process -> SUBSET Row] /\ loaded'[p] = {}
        /\ \A q \in Process : q # p => loaded'[q] = loaded[q]
    BY DEF TypeOK, Left
  <1> QED
    BY <1>1, <1>2, <1>3, <1>4, <1>5, <1>6

(* Letting a chunk go keeps what is said of the batches. *)
LEMMA LeftBatch ==
    ASSUME TypeOK, BatchInv, NEW p \in Process, Left(p)
    PROVE  BatchInv'
  <1> SUFFICES ASSUME NEW q \in Process
               PROVE  BatchInv!(q)'
    BY DEF BatchInv
  <1>1. CASE q = p
    BY <1>1, LeftFacts DEF InTx
  <1>2. CASE q # p
    BY <1>2, LeftFacts DEF BatchInv
  <1> QED
    BY <1>1, <1>2

(* Letting a chunk go without a commit keeps the invariant. *)
LEMMA LeftInv ==
    ASSUME IInv, NEW p \in Process, Left(p), UNCHANGED <<dbVars, runVars>>,
           totalClean' \in [Process -> Nat], errors' \in [Process -> Nat],
           pc'[p] = "fetch" => pc[p] \in Active
    PROVE  IInv'
  <1> USE DEF IInv
  <1>1. TypeOK'
    <2> HIDE DEF IInv
    <2>1. TypeOK
      BY DEF IInv
    <2> QED
      BY <2>1, LeftFacts DEF TypeOK, dbVars, runVars
  <1>2. BatchInv'
    BY LeftBatch
  <1>3. RunInv'
    <2> SUFFICES ASSUME NEW q \in Process
                 PROVE  RunInv!(q)'
      BY DEF RunInv
    <2> HIDE DEF IInv
    <2>0. /\ TypeOK /\ owner' = owner /\ run' = run
          /\ run[q] # 0 => owner[run[q]] = q
      BY DEF IInv, RunInv, runVars
    <2>1. CASE q = p
      <3>1. pc'[p] \in Active =>
              pc[p] \in Active /\ pos'[p] \in 1 .. Len(Plan[p]) /\ run[p] # 0
        BY LeftFacts, <2>0 DEF IInv, RunInv, Left, Active, InTx
      <3>2. clean'[p] = {} /\ quar'[p] = {}
        BY LeftFacts, <2>0
      <3> QED
        BY <2>0, <2>1, <3>1, <3>2
    <2>2. CASE q # p
      BY <2>0, <2>2, LeftFacts DEF IInv, RunInv, ChunkAt
    <2> QED
      BY <2>1, <2>2
  <1>4. StagingIsolated'
    <2> HIDE DEF IInv
    <2>1. TypeOK /\ StagingIsolated /\ staging' = staging
      BY DEF IInv, dbVars
    <2>2. \A q \in Process :
             /\ Truncated(q)' => Truncated(q)
             /\ LocksStaging(q)' => LocksStaging(q)
             /\ loaded'[q] \subseteq loaded[q]
      BY <2>1, LeftFacts DEF Truncated, LocksStaging
    <2> QED
      BY <2>1, <2>2 DEF StagingIsolated
  <1>5. HoldInv'
    BY DEF HoldInv, TypeOK, Left, dbVars
  <1>6. CheckedInv'
    BY DEF CheckedInv, TypeOK, Left, dbVars, runVars, InTx, ChunkAt
  <1> QED
    BY <1>1, <1>2, <1>3, <1>4, <1>5, <1>6, CommittedUnchanged
-----------------------------------------------------------------------------
(* The steps that keep a process on its chunk, one lemma each. *)

LEMMA StartRunInv ==
    ASSUME IInv, NEW p \in Process, StartRun(p)
    PROVE  IInv'
  <1> USE DEF IInv, StartRun
  <1>1. /\ lastRun' \in RunId
        /\ lastRun' > lastRun
        /\ owner[lastRun'] = "nobody"
        /\ "nobody" # p
    BY BackfillAssumption DEF TypeOK, RunId, FreshInv
  <1>2. TypeOK'
    BY <1>1 DEF TypeOK, dbVars, batchVars, txVars, Active, RunId
  <1>3. BatchInv'
    BY DEF BatchInv, TypeOK, batchVars, txVars, InTx
  <1>4. RunInv'
    BY <1>1, BackfillAssumption
    DEF RunInv, BatchInv, TypeOK, batchVars, Active, InTx, ChunkAt
  <1>5. FreshInv'
    BY <1>1 DEF FreshInv, TypeOK, dbVars, RunId, Entry
  <1>6. StagingIsolated'
    BY DEF StagingIsolated, TypeOK, dbVars, txVars, batchVars, Truncated, LocksStaging
  <1>7. HoldInv'
    BY DEF HoldInv, TypeOK, dbVars, txVars, batchVars
  <1>8. CheckedInv'
    BY <1>1 DEF CheckedInv, FreshInv, TypeOK, dbVars, InTx, ChunkAt, Entry
  <1>9. RestartIsIdempotent'
    BY <1>1 DEF RestartIsIdempotent, FreshInv, TypeOK, dbVars, Entry
  <1>10. WatermarkImpliesLoaded' /\ StampedRowsHaveWatermark'
    BY DEF WatermarkImpliesLoaded, StampedRowsHaveWatermark, dbVars
  <1> QED
    BY <1>2, <1>3, <1>4, <1>5, <1>6, <1>7, <1>8, <1>9, <1>10

LEMMA FetchBatchInv ==
    ASSUME IInv, NEW p \in Process, FetchBatch(p)
    PROVE  IInv'
  <1> USE DEF IInv, FetchBatch
  <1>1. TypeOK'
    BY DEF TypeOK, dbVars, runVars, statVars, txVars, Active, RowsOf
  <1>2. BatchInv'
    BY DEF BatchInv, TypeOK, txVars, InTx
  <1>3. RunInv'
    BY DEF RunInv, TypeOK, runVars, Active, ChunkAt
  <1>4. StagingIsolated'
    BY DEF StagingIsolated, TypeOK, dbVars, txVars, Truncated, LocksStaging
  <1>5. HoldInv' /\ CheckedInv'
    BY DEF HoldInv, CheckedInv, TypeOK, dbVars, runVars, txVars, InTx, ChunkAt
  <1> QED
    BY <1>1, <1>2, <1>3, <1>4, <1>5, CommittedUnchanged

(* The check passes: nobody, so no run of p either, completed the chunk. *)
LEMMA CheckWatermarkInv ==
    ASSUME IInv, NEW p \in Process, CheckWatermark(p), ~Completed(ChunkAt(p))
    PROVE  IInv'
  <1> USE DEF IInv, CheckWatermark, AfterLoad
  <1>1. TypeOK'
    BY DEF TypeOK, dbVars, runVars, statVars, txVars, batchVars, Active, InTx
  <1>2. BatchInv'
    BY DEF BatchInv, TypeOK, txVars, batchVars, InTx
  <1>3. RunInv'
    BY DEF RunInv, TypeOK, runVars, batchVars, Active, ChunkAt
  <1>4. StagingIsolated'
    BY DEF StagingIsolated, BatchInv, TypeOK, dbVars, txVars, batchVars,
           Truncated, LocksStaging
  <1>5. HoldInv'
    BY DEF HoldInv, BatchInv, TypeOK, dbVars, txVars, batchVars
  <1>6. CheckedInv'
    BY DEF CheckedInv, Completed, TypeOK, dbVars, runVars, InTx, ChunkAt
  <1> QED
    BY <1>1, <1>2, <1>3, <1>4, <1>5, <1>6, CommittedUnchanged

LEMMA WriteStagingInv ==
    ASSUME IInv, NEW p \in Process, WriteStaging(p)
    PROVE  IInv'
  <1> USE DEF IInv, WriteStaging
  <1>1. TypeOK'
    BY DEF TypeOK, dbVars, runVars, statVars, batchVars, Active, InTx
  <1>2. BatchInv'
    BY DEF BatchInv, TypeOK, batchVars, InTx
  <1>3. RunInv'
    BY DEF RunInv, TypeOK, runVars, batchVars, Active, InTx, ChunkAt
  <1>4. StagingIsolated'
    BY DEF StagingIsolated, TypeOK, dbVars, batchVars, Truncated, LocksStaging,
           Waiting, WaitsFor
  <1>5. HoldInv' /\ CheckedInv'
    BY DEF HoldInv, CheckedInv, TypeOK, dbVars, runVars, batchVars, InTx, ChunkAt
  <1> QED
    BY <1>1, <1>2, <1>3, <1>4, <1>5, CommittedUnchanged

(* The INSERT does not wait: nobody else holds a row it would store. *)
LEMMA LoadFromStagingInv ==
    ASSUME IInv, NEW p \in Process, LoadFromStaging(p)
    PROVE  IInv'
  <1> USE DEF IInv, LoadFromStaging
  <1>1. Visible(p) = clean[p]
    BY DEF Visible, StagingIsolated, BatchInv, TypeOK
  <1>2. \A q \in Process : q # p => loaded[q] \intersect clean[p] = {}
    BY <1>1 DEF Waiting, WaitsFor
  <1>3. TypeOK'
    BY <1>1 DEF TypeOK, dbVars, runVars, statVars, batchVars, Active, InTx
  <1>4. BatchInv'
    BY DEF BatchInv, TypeOK, batchVars, InTx
  <1>5. RunInv'
    BY DEF RunInv, TypeOK, runVars, batchVars, Active, InTx, ChunkAt
  <1>6. StagingIsolated'
    BY <1>1, <1>2 DEF StagingIsolated, TypeOK, dbVars, batchVars, Truncated, LocksStaging
  <1>7. HoldInv' /\ CheckedInv'
    BY <1>1 DEF HoldInv, CheckedInv, TypeOK, dbVars, runVars, batchVars, InTx, ChunkAt
  <1> QED
    BY <1>3, <1>4, <1>5, <1>6, <1>7, CommittedUnchanged

(* The TRUNCATE does not wait: nobody else has copied rows into staging. *)
LEMMA TruncateStagingInv ==
    ASSUME IInv, NEW p \in Process, TruncateStaging(p)
    PROVE  IInv'
  <1> USE DEF IInv, TruncateStaging, AfterLoad
  <1>1. \A q \in Process : q # p => ~LocksStaging(q)
    BY DEF Waiting, WaitsFor
  <1>2. TypeOK'
    BY DEF TypeOK, dbVars, runVars, statVars, batchVars, Active, InTx
  <1>3. BatchInv'
    BY DEF BatchInv, TypeOK, batchVars, InTx
  <1>4. RunInv'
    BY DEF RunInv, TypeOK, runVars, batchVars, Active, InTx, ChunkAt
  <1>5. StagingIsolated'
    BY <1>1 DEF StagingIsolated, TypeOK, dbVars, batchVars, Truncated, LocksStaging
  <1>6. HoldInv' /\ CheckedInv'
    BY DEF HoldInv, CheckedInv, TypeOK, dbVars, runVars, batchVars, InTx, ChunkAt
  <1> QED
    BY <1>2, <1>3, <1>4, <1>5, <1>6, CommittedUnchanged

LEMMA LateStatementInv ==
    ASSUME IInv, NEW p \in Process, WriteQuarantine(p) \/ AdvanceWatermark(p)
    PROVE  IInv'
  <1> USE DEF IInv, WriteQuarantine, AdvanceWatermark
  <1>1. /\ pc' \in [Process -> Active \union {"idle", "finished"}]
        /\ UNCHANGED <<dbVars, runVars, statVars, batchVars, txVars, pos>>
    BY DEF TypeOK, Active, InTx
  <1>2. TypeOK' /\ BatchInv'
    <2>1. TypeOK'
      BY <1>1 DEF TypeOK, dbVars, runVars, statVars, batchVars, txVars
    <2>2. BatchInv'
      BY <1>1 DEF BatchInv, TypeOK, batchVars, txVars, InTx
    <2> QED
      BY <2>1, <2>2
  <1>3. RunInv'
    BY DEF RunInv, TypeOK, runVars, batchVars, Active, InTx, ChunkAt
  <1>4. StagingIsolated'
    BY DEF StagingIsolated, TypeOK, dbVars, batchVars, txVars, Truncated, LocksStaging
  <1>5. HoldInv' /\ CheckedInv'
    BY DEF HoldInv, CheckedInv, TypeOK, dbVars, runVars, batchVars, txVars, InTx, ChunkAt
  <1> QED
    BY <1>1, <1>2, <1>3, <1>4, <1>5, CommittedUnchanged
-----------------------------------------------------------------------------
(* The COMMIT. *)

(* A process at its COMMIT completes a chunk no run of it has completed, and   *)
(* holds the clean rows nobody has stored.                                     *)
LEMMA AtCommit ==
    ASSUME IInv, NEW p \in Process, pc[p] = "commit"
    PROVE  /\ pos[p] \in 1 .. Len(Plan[p])
           /\ ChunkAt(p) \in Chunk
           /\ run[p] \in RunId
           /\ run[p] # 0
           /\ owner[run[p]] = p
           /\ clean[p] \in SUBSET RowsOf(ChunkAt(p))
           /\ quar[p] \in SUBSET RowsOf(ChunkAt(p))
           /\ loaded[p] = {row \in clean[p] : surface[row] = 0}
           /\ \A e \in progress : e.chunk = ChunkAt(p) => owner[e.run] # p
           /\ staged[p] = {}
  BY ChunkAtType DEF IInv, RunInv, HoldInv, CheckedInv, BatchInv, TypeOK, Active, InTx

(* A commit adds one watermark and changes no other. *)
LEMMA PublishAddsEntry ==
    ASSUME IInv, NEW p \in Process, pc[p] = "commit", Publish(p)
    PROVE  progress' = progress \union
             {[chunk |-> ChunkAt(p), run |-> run[p], rows |-> clean[p]]}
  <1>1. \A e \in progress : ~(e.chunk = ChunkAt(p) /\ e.run = run[p])
    BY AtCommit
  <1> QED
    BY <1>1 DEF Publish

LEMMA PublishInv ==
    ASSUME IInv, NEW p \in Process, pc[p] = "commit", Publish(p), NextChunk(p),
           NEW failed \in BOOLEAN, Tally(p, clean[p], failed), UNCHANGED runVars
    PROVE  IInv'
  <1> DEFINE new == [chunk |-> ChunkAt(p), run |-> run[p], rows |-> clean[p]]
  <1>1. /\ progress' = progress \union {new}
        /\ new \in Entry
        /\ new.chunk = ChunkAt(p) /\ new.run = run[p] /\ new.rows = clean[p]
    BY AtCommit, PublishAddsEntry DEF Entry, IInv, TypeOK
  <1>2. Left(p)
    BY AtCommit, NextChunkLeft DEF IInv
  <1>3. staging' = {}
    BY AtCommit DEF Publish, IInv, StagingIsolated
  <1>4. surface' = [row \in Row |-> IF row \in loaded[p] THEN run[p] ELSE surface[row]]
    BY DEF Publish
  <1> HIDE DEF new
  <1>5. TypeOK'
    <2>1. totalClean' \in [Process -> Nat] /\ errors' \in [Process -> Nat]
      BY TallyType DEF IInv, TypeOK
    <2>2. surface' \in [Row -> {0} \union RunId] /\ quarantine' \in [Row -> Nat]
      BY <1>4, AtCommit DEF Publish, IInv, TypeOK
    <2>3. progress' \in SUBSET Entry /\ staging' \in SUBSET Row
      BY <1>1, <1>3 DEF IInv, TypeOK
    <2> QED
      BY <1>2, <2>1, <2>2, <2>3, LeftFacts DEF IInv, TypeOK, runVars
  <1>6. BatchInv'
    BY <1>2, LeftBatch DEF IInv
  <1>7. RunInv'
    <2> SUFFICES ASSUME NEW q \in Process
                 PROVE  RunInv!(q)'
      BY DEF RunInv
    <2>1. CASE q = p
      BY <1>2, <2>1, AtCommit, LeftFacts DEF IInv, RunInv, Left, runVars, Active, InTx
    <2>2. CASE q # p
      BY <1>2, <2>2, LeftFacts DEF IInv, RunInv, runVars, ChunkAt
    <2> QED
      BY <2>1, <2>2
  <1>8. FreshInv'
    BY <1>1, AtCommit, BackfillAssumption DEF IInv, FreshInv, runVars
  <1>9. StagingIsolated'
    <2>1. \A q \in Process :
             /\ Truncated(q)' => Truncated(q)
             /\ LocksStaging(q)' => LocksStaging(q)
      BY <1>2 DEF IInv, TypeOK, Left, Truncated, LocksStaging
    <2>2. \A q \in Process : loaded'[q] \subseteq loaded[q]
      BY <1>2 DEF IInv, TypeOK, Left
    <2> QED
      BY <1>3, <2>1, <2>2 DEF IInv, StagingIsolated
  <1>10. HoldInv'
    <2> SUFFICES ASSUME NEW q \in Process,
                        pc'[q] \in {"truncate", "quarantine", "mark", "commit"}
                 PROVE  loaded'[q] = {row \in clean'[q] : surface'[row] = 0}
      BY DEF HoldInv
    <2>1. q # p /\ pc'[q] = pc[q] /\ loaded'[q] = loaded[q] /\ clean'[q] = clean[q]
      BY <1>2 DEF IInv, TypeOK, Left
    <2>2. loaded[q] = {row \in clean[q] : surface[row] = 0}
      BY <2>1 DEF IInv, HoldInv
    <2>3. loaded[p] \intersect loaded[q] = {}
      BY <2>1 DEF IInv, StagingIsolated
    <2>4. clean[q] \subseteq Row /\ run[p] # 0
      BY AtCommit DEF IInv, TypeOK
    <2> QED
      BY <1>4, <2>1, <2>2, <2>3, <2>4
  <1>11. CheckedInv'
    <2> SUFFICES ASSUME NEW q \in Process, pc'[q] \in InTx,
                        NEW e \in progress', e.chunk = ChunkAt(q)'
                 PROVE  owner'[e.run] # q
      BY DEF CheckedInv
    <2>1. q # p /\ pc'[q] = pc[q] /\ pos'[q] = pos[q] /\ owner' = owner
      BY <1>2 DEF IInv, TypeOK, Left, InTx, runVars
    <2>2. CASE e \in progress
      BY <2>1, <2>2 DEF IInv, CheckedInv, ChunkAt
    <2>3. CASE e = new
      BY <1>1, <2>1, <2>3, AtCommit
    <2> QED
      BY <1>1, <2>2, <2>3
  <1>12. RestartIsIdempotent'
    BY <1>1, AtCommit DEF IInv, RestartIsIdempotent, runVars
  <1>13. WatermarkImpliesLoaded'
    BY <1>1, <1>4, AtCommit DEF IInv, WatermarkImpliesLoaded, TypeOK, Entry
  <1>14. StampedRowsHaveWatermark'
    <2> SUFFICES ASSUME NEW row \in Row, surface'[row] # 0
                 PROVE  \E e \in progress' :
                          e.run = surface'[row] /\ e.chunk = ChunkOf[row] /\ row \in e.rows
      BY DEF StampedRowsHaveWatermark
    <2>1. CASE row \in loaded[p]
      <3>1. row \in clean[p] /\ ChunkOf[row] = ChunkAt(p)
        BY <2>1, AtCommit DEF RowsOf
      <3>2. surface'[row] = run[p]
        BY <1>4, <2>1
      <3> QED
        BY <1>1, <3>1, <3>2
    <2>2. CASE row \notin loaded[p]
      <3>1. surface'[row] = surface[row]
        BY <1>4, <2>2
      <3> QED
        BY <1>1, <3>1 DEF IInv, StampedRowsHaveWatermark
    <2> QED
      BY <2>1, <2>2
  <1> QED
    BY <1>5, <1>6, <1>7, <1>8, <1>9, <1>10, <1>11, <1>12, <1>13, <1>14 DEF IInv

-----------------------------------------------------------------------------
(* The invariant is inductive. *)

LEMMA FetchInv ==
    ASSUME IInv, NEW p \in Process, Fetch(p)
    PROVE  IInv'
  <1>1. CASE FetchBatch(p)
    BY <1>1, FetchBatchInv
  <1>2. CASE FetchFails(p)
    <2>1. pc[p] \in Active /\ pos[p] \in 1 .. Len(Plan[p])
      BY <1>2 DEF FetchFails, IInv, RunInv, Active
    <2>2. Left(p)
      BY <1>2, <2>1, NextChunkLeft DEF FetchFails, IInv
    <2>3. totalClean' \in [Process -> Nat] /\ errors' \in [Process -> Nat]
      BY <1>2, TallyType DEF FetchFails, IInv
    <2> QED
      BY <1>2, <2>1, <2>2, <2>3, LeftInv DEF FetchFails
  <1>3. CASE FetchEmpty(p)
    <2>1. pc[p] \in Active /\ pos[p] \in 1 .. Len(Plan[p])
      BY <1>3 DEF FetchEmpty, IInv, RunInv, Active
    <2>2. Left(p)
      BY <1>3, <2>1, NextChunkLeft DEF FetchEmpty, IInv
    <2> QED
      BY <1>3, <2>1, <2>2, LeftInv DEF FetchEmpty, statVars, IInv, TypeOK
  <1>4. CASE FetchRaises(p)
    <2>1. Left(p) /\ UNCHANGED <<dbVars, runVars, statVars>> /\ pc'[p] # "fetch"
      BY <1>4, AbandonLeft DEF FetchRaises, Abandon, IInv, TypeOK
    <2> QED
      BY <2>1, LeftInv DEF statVars, IInv, TypeOK
  <1> QED
    BY <1>1, <1>2, <1>3, <1>4 DEF Fetch

(* A transaction that is rolled back. *)
LEMMA RollBackInv ==
    ASSUME IInv, NEW p \in Process, pc[p] \in Active, RollBack(p)
    PROVE  IInv'
  <1>1. pos[p] \in 1 .. Len(Plan[p])
    BY DEF IInv, RunInv
  <1>2. Left(p)
    BY <1>1, NextChunkLeft DEF RollBack, IInv
  <1>3. totalClean' \in [Process -> Nat] /\ errors' \in [Process -> Nat]
    BY TallyType DEF RollBack, IInv, TypeOK
  <1> QED
    BY <1>2, <1>3, LeftInv DEF RollBack

LEMMA StatementInv ==
    ASSUME IInv, NEW p \in Process, Statement(p)
    PROVE  IInv'
  <1>1. CASE CheckWatermark(p)
    <2>1. CASE Completed(ChunkAt(p))
      <3>1. pc[p] \in Active /\ pos[p] \in 1 .. Len(Plan[p])
        BY <1>1 DEF CheckWatermark, IInv, RunInv, Active
      <3>2. NextChunk(p) /\ UNCHANGED <<dbVars, runVars, statVars>>
        BY <1>1, <2>1 DEF CheckWatermark
      <3>3. Left(p)
        BY <3>1, <3>2, NextChunkLeft DEF IInv
      <3> QED
        BY <3>1, <3>2, <3>3, LeftInv DEF statVars, IInv, TypeOK
    <2>2. CASE ~Completed(ChunkAt(p))
      BY <1>1, <2>2, CheckWatermarkInv
    <2> QED
      BY <2>1, <2>2
  <1>2. CASE WriteStaging(p)
    BY <1>2, WriteStagingInv
  <1>3. CASE LoadFromStaging(p)
    BY <1>3, LoadFromStagingInv
  <1>4. CASE TruncateStaging(p)
    BY <1>4, TruncateStagingInv
  <1>5. CASE WriteQuarantine(p) \/ AdvanceWatermark(p)
    BY <1>5, LateStatementInv
  <1>6. CASE Commit(p)
    BY <1>6, PublishInv DEF Commit
  <1>7. CASE DeadlockVictim(p)
    <2>1. pc[p] \in Active
      BY <1>7 DEF DeadlockVictim, Deadlocked, WaitsFor, Active, InTx
    <2> QED
      BY <1>7, <2>1, RollBackInv DEF DeadlockVictim
  <1> QED
    BY <1>1, <1>2, <1>3, <1>4, <1>5, <1>6, <1>7 DEF Statement

LEMMA FailureInv ==
    ASSUME IInv, NEW p \in Process, Failure(p)
    PROVE  IInv'
  <1>1. CASE CommitUnacknowledged(p)
    BY <1>1, PublishInv DEF CommitUnacknowledged
  <1>2. CASE StatementFails(p)
    BY <1>2, RollBackInv DEF StatementFails, Active
  <1>3. CASE Crash(p)
    <2>1. Left(p) /\ UNCHANGED <<dbVars, runVars, statVars>> /\ pc'[p] # "fetch"
      BY <1>3, AbandonLeft DEF Crash, Abandon, IInv, TypeOK
    <2> QED
      BY <2>1, LeftInv DEF statVars, IInv, TypeOK
  <1> QED
    BY <1>1, <1>2, <1>3 DEF Failure

LEMMA StutterInv == IInv /\ UNCHANGED vars => IInv'
  <1> SUFFICES ASSUME IInv, UNCHANGED vars PROVE IInv'
    OBVIOUS
  <1> USE DEF vars, dbVars, runVars, batchVars, statVars, txVars, IInv
  <1>1. TypeOK'
    BY DEF TypeOK
  <1>2. BatchInv' /\ RunInv'
    BY DEF BatchInv, RunInv, ChunkAt
  <1>3. StagingIsolated' /\ HoldInv' /\ CheckedInv'
    BY DEF StagingIsolated, HoldInv, CheckedInv, Truncated, LocksStaging, ChunkAt
  <1> QED
    BY <1>1, <1>2, <1>3, CommittedUnchanged

LEMMA Inductive == IInv /\ [Next]_vars => IInv'
  <1> SUFFICES ASSUME IInv, [Next]_vars PROVE IInv'
    OBVIOUS
  <1>1. ASSUME NEW p \in Process, StartRun(p) PROVE IInv'
    BY <1>1, StartRunInv
  <1>2. ASSUME NEW p \in Process, Fetch(p) PROVE IInv'
    BY <1>2, FetchInv
  <1>3. ASSUME NEW p \in Process, Statement(p) PROVE IInv'
    BY <1>3, StatementInv
  <1>4. ASSUME NEW p \in Process, Failure(p) PROVE IInv'
    BY <1>4, FailureInv
  <1>5. CASE AllFinished \/ UNCHANGED vars
    BY <1>5, StutterInv DEF AllFinished
  <1> QED
    BY <1>1, <1>2, <1>3, <1>4, <1>5 DEF Next

(* The inductive invariant holds in every reachable state of the backfill.     *)
THEOREM Invariance == Spec => []IInv
  BY InitInv, Inductive, PTL DEF Spec

(* Type correctness of the backfill.                                           *)
THEOREM TypeCorrect == Spec => []TypeOK
  <1>1. IInv => TypeOK
    BY DEF IInv
  <1> QED
    BY <1>1, Invariance, PTL

(* No chunk is recorded as completed while one of the rows its run found clean *)
(* is missing from the surface table: a skip by a later run loses nothing.     *)
THEOREM NoRowLost == Spec => []WatermarkImpliesLoaded
  <1>1. IInv => WatermarkImpliesLoaded
    BY DEF IInv
  <1> QED
    BY <1>1, Invariance, PTL

(* No row is stored under a run that did not itself complete, with that row,   *)
(* the chunk of the row: the shared staging table leaks nothing.               *)
THEOREM NoForeignRow == Spec => []StampedRowsHaveWatermark
  <1>1. IInv => StampedRowsHaveWatermark
    BY DEF IInv
  <1> QED
    BY <1>1, Invariance, PTL

(* The locks keep the staging table and the uncommitted rows of transactions   *)
(* apart.                                                                      *)
THEOREM StagingKeptApart == Spec => []StagingIsolated
  <1>1. IInv => StagingIsolated
    BY DEF IInv
  <1> QED
    BY <1>1, Invariance, PTL

(* The successive runs of one process complete a chunk at most once.           *)
THEOREM RestartsComplete == Spec => []RestartIsIdempotent
  <1>1. IInv => RestartIsIdempotent
    BY DEF IInv
  <1> QED
    BY <1>1, Invariance, PTL
-----------------------------------------------------------------------------
(* Refinement. *)

(* What a COMMIT publishes is one completion of the ledger: the rows held since *)
(* the INSERT are still exactly the clean rows nobody has stored.               *)
LEMMA PublishCompletes ==
    ASSUME IInv, NEW p \in Process, pc[p] = "commit", Publish(p)
    PROVE  Ledger!Next
  <1> DEFINE c == ChunkAt(p)
             r == run[p]
  <1>1. c \in Chunk /\ r \in RunId
    BY AtCommit
  <1>2. clean[p] \in SUBSET Ledger!RowsOf(c)
    BY AtCommit DEF RowsOf, Ledger!RowsOf
  <1>3. quar[p] \in SUBSET Ledger!RowsOf(c)
    BY AtCommit DEF RowsOf, Ledger!RowsOf
  <1>4. \A e \in progress : ~(e.chunk = c /\ e.run = r)
    BY AtCommit
  <1>5. surface' = [row \in Row |->
                      IF row \in clean[p] /\ surface[row] = 0 THEN r ELSE surface[row]]
    BY AtCommit DEF Publish
  <1>6. quarantine' = [row \in Row |->
                      IF row \in quar[p] THEN quarantine[row] + 1 ELSE quarantine[row]]
    BY DEF Publish
  <1>7. progress' = progress \union {[chunk |-> c, run |-> r, rows |-> clean[p]]}
    BY PublishAddsEntry
  <1> HIDE DEF c, r
  <1>8. Ledger!Store(c, r, clean[p]) /\ Ledger!File(quar[p])
    BY <1>4, <1>5, <1>6, <1>7 DEF Ledger!Store, Ledger!File
  <1> QED
    BY <1>1, <1>2, <1>3, <1>8 DEF Ledger!Next

LEMMA LedgerStep ==
    ASSUME IInv, [Next]_vars
    PROVE  [Ledger!Next]_<<surface, quarantine, progress>>
  <1>1. CASE \E p \in Process : pc[p] = "commit" /\ Publish(p)
    BY <1>1, PublishCompletes
  <1>2. CASE UNCHANGED dbVars
    BY <1>2 DEF dbVars
  <1>3. CASE UNCHANGED vars
    BY <1>3 DEF vars, dbVars
  <1>4. ASSUME NEW p \in Process, StartRun(p) \/ Fetch(p)
        PROVE  UNCHANGED dbVars
    BY <1>4 DEF StartRun, Fetch, FetchBatch, FetchFails, FetchEmpty, FetchRaises, Abandon
  <1>5. ASSUME NEW p \in Process, Statement(p)
        PROVE  UNCHANGED dbVars \/ (pc[p] = "commit" /\ Publish(p))
    BY <1>5 DEF Statement, CheckWatermark, WriteStaging, LoadFromStaging,
                TruncateStaging, WriteQuarantine, AdvanceWatermark, Commit,
                DeadlockVictim, RollBack
  <1>6. ASSUME NEW p \in Process, Failure(p)
        PROVE  UNCHANGED dbVars \/ (pc[p] = "commit" /\ Publish(p))
    BY <1>6 DEF Failure, CommitUnacknowledged, StatementFails, Crash, RollBack, Abandon
  <1> QED
    BY <1>1, <1>2, <1>3, <1>4, <1>5, <1>6 DEF Next, AllFinished

(* The statements of any number of interleaved transactions, with their locks, *)
(* failures and crashes, implement the ledger of whole chunks.                 *)
THEOREM LedgerImplemented == Spec => ImplementsLedger
  <1>1. Init => Ledger!Init
    BY DEF Init, Ledger!Init
  <1>2. IInv /\ [Next]_vars => [Ledger!Next]_(Ledger!ledgerVars)
    BY LedgerStep DEF Ledger!ledgerVars
  <1> QED
    BY <1>1, <1>2, Invariance, PTL DEF Spec, ImplementsLedger, Ledger!Spec

(* A row that is stored stays as it was stored.                                *)
LEMMA CompleteKeepsRows ==
    ASSUME [Ledger!Next]_<<surface, quarantine, progress>>
    PROVE  \A row \in Row : surface[row] # 0 => surface'[row] = surface[row]
  BY DEF Ledger!Next, Ledger!Store

(* No commit, of whatever process, changes or removes a stored row.            *)
THEOREM RowsKept == Spec => RowsNeverRewritten
  <1>1. IInv /\ [Next]_vars =>
          [\A row \in Row : surface[row] # 0 => surface'[row] = surface[row]]_vars
    BY LedgerStep, CompleteKeepsRows
  <1> QED
    BY <1>1, Invariance, PTL DEF Spec, RowsNeverRewritten
-----------------------------------------------------------------------------
(* Counting.  A COMMIT adds one watermark, with its rows, to those of its run; *)
(* every other step leaves tables and runs alone, or draws an unused run id.   *)

(* What a step that neither commits nor starts a run does to the totals.       *)
Quiet ==
    /\ UNCHANGED <<dbVars, runVars>>
    /\ \A q \in Process :
        /\ pc'[q] # "idle" => pc[q] # "idle"
        /\ totalClean'[q] >= totalClean[q]
        /\ errors'[q] = 0 => errors[q] = 0 /\ totalClean'[q] = totalClean[q]

CommitOf(p, failed) ==
    /\ pc[p] = "commit"
    /\ Publish(p)
    /\ NextChunk(p)
    /\ Tally(p, clean[p], failed)
    /\ UNCHANGED runVars

LEMMA QuietTally ==
    ASSUME IInv, NEW p \in Process, NEW rows \in SUBSET Row, Tally(p, rows, TRUE),
           NextChunk(p), pc[p] # "idle", UNCHANGED <<dbVars, runVars>>
    PROVE  Quiet
  <1>1. Cardinality(rows) \in Nat
    BY CountInNat
  <1>2. /\ totalClean'[p] = totalClean[p] + Cardinality(rows)
        /\ errors'[p] = errors[p] + 1
        /\ totalClean[p] \in Nat
        /\ errors[p] \in Nat
    BY DEF IInv, TypeOK, Tally
  <1>3. \A q \in Process : q # p => /\ totalClean'[q] = totalClean[q]
                                   /\ errors'[q] = errors[q]
                                   /\ pc'[q] = pc[q]
                                   /\ totalClean[q] \in Nat
    BY DEF IInv, TypeOK, Tally, NextChunk
  <1> QED
    BY <1>1, <1>2, <1>3 DEF Quiet

LEMMA QuietUncounted ==
    ASSUME IInv, NEW p \in Process, pc[p] # "idle",
           \A q \in Process : q # p => pc'[q] = pc[q],
           UNCHANGED <<dbVars, runVars, statVars>>
    PROVE  Quiet
  BY DEF IInv, TypeOK, Quiet, statVars

LEMMA FetchQuiet ==
    ASSUME IInv, NEW p \in Process, Fetch(p)
    PROVE  Quiet
  <1>1. CASE FetchFails(p)
    BY <1>1, QuietTally DEF FetchFails
  <1>2. CASE FetchBatch(p) \/ FetchEmpty(p) \/ FetchRaises(p)
    BY <1>2, QuietUncounted
    DEF FetchBatch, FetchEmpty, FetchRaises, NextChunk, Abandon, IInv, TypeOK
  <1> QED
    BY <1>1, <1>2 DEF Fetch

LEMMA RollBackQuiet ==
    ASSUME IInv, NEW p \in Process, pc[p] # "idle", RollBack(p)
    PROVE  Quiet
  BY QuietTally DEF RollBack, IInv, TypeOK

LEMMA StatementShape ==
    ASSUME IInv, NEW p \in Process, Statement(p)
    PROVE  Quiet \/ CommitOf(p, FALSE)
  <1>1. CASE CheckWatermark(p)
    BY <1>1, QuietUncounted DEF CheckWatermark, NextChunk, IInv, TypeOK
  <1>2. CASE WriteStaging(p) \/ LoadFromStaging(p) \/ TruncateStaging(p)
    BY <1>2, QuietUncounted
    DEF WriteStaging, LoadFromStaging, TruncateStaging, IInv, TypeOK
  <1>3. CASE WriteQuarantine(p) \/ AdvanceWatermark(p)
    BY <1>3, QuietUncounted DEF WriteQuarantine, AdvanceWatermark, IInv, TypeOK
  <1>4. CASE Commit(p)
    BY <1>4 DEF Commit, CommitOf
  <1>5. CASE DeadlockVictim(p)
    BY <1>5, RollBackQuiet DEF DeadlockVictim, Deadlocked, WaitsFor
  <1> QED
    BY <1>1, <1>2, <1>3, <1>4, <1>5 DEF Statement

LEMMA FailureShape ==
    ASSUME IInv, NEW p \in Process, Failure(p)
    PROVE  Quiet \/ CommitOf(p, TRUE)
  <1>1. CASE CommitUnacknowledged(p)
    BY <1>1 DEF CommitUnacknowledged, CommitOf
  <1>2. CASE StatementFails(p)
    BY <1>2, RollBackQuiet DEF StatementFails, InTx
  <1>3. CASE Crash(p)
    BY <1>3, QuietUncounted DEF Crash, Abandon, Active, InTx, IInv, TypeOK
  <1> QED
    BY <1>1, <1>2, <1>3 DEF Failure

(* No row and no watermark carries a run id that is still to be drawn.         *)
LEMMA NewRunIsEmpty ==
    ASSUME IInv, NEW r \in RunId, owner[r] = "nobody"
    PROVE  StoredBy(r) = {} /\ RowsCounted(r) = {}
  <1>1. \A e \in progress : e.run # r
    BY DEF IInv, FreshInv
  <1>2. RowsCounted(r) = {}
    BY <1>1 DEF RowsCounted, EntriesOf
  <1>3. r # 0
    BY DEF RunId
  <1>4. StoredBy(r) = {}
    BY <1>1, <1>3 DEF StoredBy, IInv, StampedRowsHaveWatermark
  <1> QED
    BY <1>2, <1>4

(* The counted rows of a run, before and after it completes a chunk.           *)
LEMMA CommitCounts ==
    ASSUME IInv, NEW p \in Process, NEW failed \in BOOLEAN, CommitOf(p, failed)
    PROVE  /\ RowsCounted(run[p])' = RowsCounted(run[p]) \union ({ChunkAt(p)} \X clean[p])
           /\ RowsCounted(run[p]) \intersect ({ChunkAt(p)} \X clean[p]) = {}
           /\ \A r \in RunId \ {run[p]} : RowsCounted(r)' = RowsCounted(r)
  <1> DEFINE new == [chunk |-> ChunkAt(p), run |-> run[p], rows |-> clean[p]]
  <1>1. /\ progress' = progress \union {new}
        /\ new.chunk = ChunkAt(p) /\ new.run = run[p] /\ new.rows = clean[p]
    BY PublishAddsEntry DEF CommitOf
  <1>2. run' = run
    BY DEF CommitOf, runVars
  <1>3. \A e \in progress : e.chunk = ChunkAt(p) => e.run # run[p]
    BY AtCommit DEF CommitOf
  <1> HIDE DEF new
  <1>4. EntriesOf(run[p])' = EntriesOf(run[p]) \union {new}
    BY <1>1, <1>2 DEF EntriesOf
  <1>5. RowsCounted(run[p])' = RowsCounted(run[p]) \union ({ChunkAt(p)} \X clean[p])
    BY <1>1, <1>4 DEF RowsCounted
  <1>6. \A e \in EntriesOf(run[p]) : e.chunk # ChunkAt(p)
    BY <1>3 DEF EntriesOf
  <1>7. RowsCounted(run[p]) \intersect ({ChunkAt(p)} \X clean[p]) = {}
    BY <1>6 DEF RowsCounted
  <1>8. \A r \in RunId \ {run[p]} : EntriesOf(r)' = EntriesOf(r)
    BY <1>1 DEF EntriesOf
  <1> QED
    BY <1>5, <1>7, <1>8 DEF RowsCounted

(* The rows stored by a run, before and after a commit.                        *)
LEMMA CommitStores ==
    ASSUME IInv, NEW p \in Process, NEW failed \in BOOLEAN, CommitOf(p, failed)
    PROVE  /\ StoredBy(run[p])' = StoredBy(run[p]) \union loaded[p]
           /\ \A r \in RunId \ {0, run[p]} : StoredBy(r)' = StoredBy(r)
  <1>1. surface' = [row \in Row |-> IF row \in loaded[p] THEN run[p] ELSE surface[row]]
    BY DEF CommitOf, Publish
  <1>2. \A row \in loaded[p] : row \in Row /\ surface[row] = 0
    BY AtCommit DEF CommitOf, IInv, TypeOK
  <1>3. run' = run
    BY DEF CommitOf, runVars
  <1> QED
    BY <1>1, <1>2, <1>3 DEF StoredBy

LEMMA SingletonProduct ==
    ASSUME NEW c, NEW rows \in SUBSET Row
    PROVE  IsFiniteSet({c} \X rows) /\ Cardinality({c} \X rows) = Cardinality(rows)
  <1>1. IsFiniteSet(rows) /\ Cardinality(rows) \in Nat
    BY BackfillAssumption, FS_Subset, FS_CardinalityType
  <1>2. IsFiniteSet({c}) /\ Cardinality({c}) = 1
    BY FS_Singleton
  <1> QED
    BY <1>1, <1>2, FS_Product

(* Every copy that a commit files is matched by the watermark it adds.         *)
LEMMA CommitExplains ==
    ASSUME IInv, CountInv, NEW p \in Process, NEW failed \in BOOLEAN,
           CommitOf(p, failed)
    PROVE  IsFiniteSet(progress)' /\ QuarantineExplained'
  <1> DEFINE new == [chunk |-> ChunkAt(p), run |-> run[p], rows |-> clean[p]]
             Of(row) == {e \in progress : e.chunk = ChunkOf[row]}
  <1>1. progress' = progress \union {new} /\ new \notin progress
    BY PublishAddsEntry, AtCommit DEF CommitOf
  <1>2. IsFiniteSet(progress)'
    BY <1>1, FS_AddElement DEF CountInv
  <1>3. ASSUME NEW row \in Row
        PROVE  quarantine'[row] <= Cardinality(Of(row)')
    <2>1. IsFiniteSet(Of(row)) /\ Cardinality(Of(row)) \in Nat
      BY FS_Subset, FS_CardinalityType DEF CountInv
    <2>2. quarantine[row] <= Cardinality(Of(row)) /\ quarantine[row] \in Nat
      BY DEF CountInv, QuarantineExplained, IInv, TypeOK
    <2>3. CASE row \in quar[p]
      <3>1. quarantine'[row] = quarantine[row] + 1
        BY <2>3 DEF CommitOf, Publish
      <3>2. new.chunk = ChunkOf[row]
        BY <2>3, AtCommit DEF CommitOf, RowsOf
      <3>3. Of(row)' = Of(row) \union {new} /\ new \notin Of(row)
        BY <1>1, <3>2
      <3>4. Cardinality(Of(row) \union {new}) = Cardinality(Of(row)) + 1
        <4> DEFINE W == Of(row)
                   n == new
        <4>1. IsFiniteSet(W) /\ n \notin W
          BY <2>1, <3>3
        <4> HIDE DEF W, n
        <4>2. Cardinality(W \union {n}) = Cardinality(W) + 1
          BY <4>1, FS_AddElement
        <4> QED
          BY <4>2 DEF W, n
      <3>5. Of(row)' = Of(row) \union {new}
        BY <3>3
      <3> HIDE DEF Of, new
      <3> QED
        BY <2>1, <2>2, <3>1, <3>4, <3>5
    <2>4. CASE row \notin quar[p]
      <3>1. quarantine'[row] = quarantine[row]
        BY <2>4 DEF CommitOf, Publish
      <3>2. Of(row) \in SUBSET (Of(row)') /\ IsFiniteSet(Of(row)')
        BY <1>1, <1>2, FS_Subset
      <3>3. /\ Cardinality(Of(row)) <= Cardinality(Of(row)')
            /\ Cardinality(Of(row)') \in Nat
        BY <3>2, FS_Subset, FS_CardinalityType
      <3> QED
        BY <2>1, <2>2, <3>1, <3>3
    <2> QED
      BY <2>3, <2>4
  <1> QED
    BY <1>2, <1>3 DEF QuarantineExplained

(* The totals of the run that commits grow by what its watermark records; no   *)
(* other run has a row or a watermark more.                                    *)
LEMMA CommitAccounts ==
    ASSUME IInv, CountInv, NEW p \in Process, NEW failed \in BOOLEAN,
           CommitOf(p, failed)
    PROVE  /\ (\A r \in RunId : IsFiniteSet(RowsCounted(r)))'
           /\ ReportAccountsForRows'
  <1>1. clean[p] \in SUBSET Row /\ loaded[p] \in SUBSET clean[p] /\ run[p] \in RunId
    BY AtCommit DEF CommitOf, IInv, TypeOK
  <1>2. /\ Cardinality(clean[p]) \in Nat /\ Cardinality(loaded[p]) \in Nat
        /\ Cardinality(loaded[p]) <= Cardinality(clean[p])
        /\ IsFiniteSet(loaded[p])
    BY <1>1, CountInNat, FS_Subset, BackfillAssumption
  <1>3. \A r \in RunId : IsFiniteSet(RowsCounted(r))'
    <2>1. IsFiniteSet(RowsCounted(run[p])')
      <3>1. RowsCounted(run[p])' = RowsCounted(run[p]) \union ({ChunkAt(p)} \X clean[p])
        BY CommitCounts
      <3>2. IsFiniteSet(RowsCounted(run[p])) /\ IsFiniteSet({ChunkAt(p)} \X clean[p])
        BY <1>1, SingletonProduct DEF CountInv
      <3>3. IsFiniteSet(RowsCounted(run[p]) \union ({ChunkAt(p)} \X clean[p]))
        BY <3>2, FS_Union
      <3> QED
        BY <3>1, <3>3
    <2> QED
      BY <2>1, CommitCounts DEF CountInv, CommitOf, runVars
  <1>4. ASSUME NEW q \in Process, (run[q] # 0 /\ pc[q] # "idle")'
        PROVE  /\ totalClean'[q] >= Cardinality(StoredBy(run[q]))'
               /\ errors'[q] = 0 => totalClean'[q] = Cardinality(RowsCounted(run[q]))'
    <2>1. run' = run /\ run[q] \in RunId /\ pc[q] # "idle"
      BY <1>4 DEF CommitOf, runVars, NextChunk, IInv, TypeOK
    <2>2. /\ totalClean[q] >= Cardinality(StoredBy(run[q]))
          /\ errors[q] = 0 => totalClean[q] = Cardinality(RowsCounted(run[q]))
          /\ totalClean[q] \in Nat
          /\ errors[q] \in Nat
      BY <1>4, <2>1 DEF CountInv, ReportAccountsForRows, IInv, TypeOK
    <2>3. CASE q = p
      <3>1. totalClean'[p] = totalClean[p] + Cardinality(clean[p])
        BY DEF CommitOf, Tally, IInv, TypeOK
      <3>2. errors'[p] = 0 => errors[p] = 0
        BY <2>2, <2>3 DEF CommitOf, Tally, IInv, TypeOK
      <3>3. IsFiniteSet(StoredBy(run[p]))
        BY BackfillAssumption, FS_Subset DEF StoredBy
      <3>4. StoredBy(run[p]) \intersect loaded[p] = {}
        BY AtCommit DEF StoredBy, CommitOf
      <3>5. Cardinality(StoredBy(run[p]))' = Cardinality(StoredBy(run[p])) + Cardinality(loaded[p])
        <4>1. /\ Cardinality(StoredBy(run[p]) \union loaded[p]) =
                   Cardinality(StoredBy(run[p])) + Cardinality(loaded[p])
                     - Cardinality(StoredBy(run[p]) \intersect loaded[p])
          BY <1>2, <3>3, FS_Union
        <4>2. Cardinality(StoredBy(run[p]) \intersect loaded[p]) = 0
          BY <3>4, FS_EmptySet
        <4>3. Cardinality(StoredBy(run[p])) \in Nat
          BY <3>3, FS_CardinalityType
        <4>4. StoredBy(run[p])' = StoredBy(run[p]) \union loaded[p]
          BY CommitStores
        <4> QED
          BY <1>2, <4>1, <4>2, <4>3, <4>4
      <3>6. /\ IsFiniteSet(RowsCounted(run[p]))
            /\ IsFiniteSet({ChunkAt(p)} \X clean[p])
            /\ Cardinality({ChunkAt(p)} \X clean[p]) = Cardinality(clean[p])
        BY <1>1, SingletonProduct DEF CountInv
      <3>7. Cardinality(RowsCounted(run[p]))' =
              Cardinality(RowsCounted(run[p])) + Cardinality(clean[p])
        <4>1. Cardinality(RowsCounted(run[p]) \union ({ChunkAt(p)} \X clean[p])) =
                Cardinality(RowsCounted(run[p])) + Cardinality({ChunkAt(p)} \X clean[p])
                  - Cardinality(RowsCounted(run[p]) \intersect ({ChunkAt(p)} \X clean[p]))
          BY <3>6, FS_Union
        <4>2. Cardinality(RowsCounted(run[p]) \intersect ({ChunkAt(p)} \X clean[p])) = 0
          BY CommitCounts, FS_EmptySet
        <4>3. Cardinality(RowsCounted(run[p])) \in Nat
          BY <3>6, FS_CardinalityType
        <4>4. RowsCounted(run[p])' = RowsCounted(run[p]) \union ({ChunkAt(p)} \X clean[p])
          BY CommitCounts
        <4> QED
          BY <1>2, <3>6, <4>1, <4>2, <4>3, <4>4
      <3>8. Cardinality(StoredBy(run[p])) \in Nat
        BY <3>3, FS_CardinalityType
      <3> QED
        BY <1>2, <2>2, <2>3, <3>1, <3>2, <3>5, <3>7, <3>8
    <2>4. CASE q # p
      <3>1. run[q] # run[p] /\ run[q] # 0
        BY <1>4, <2>1, <2>4, AtCommit DEF CommitOf, IInv, RunInv
      <3>2. totalClean'[q] = totalClean[q] /\ errors'[q] = errors[q]
        BY <2>4 DEF CommitOf, Tally, IInv, TypeOK
      <3>3. StoredBy(run[q])' = StoredBy(run[q]) /\ RowsCounted(run[q])' = RowsCounted(run[q])
        BY <2>1, <3>1, CommitStores, CommitCounts DEF StoredBy, RowsCounted, EntriesOf
      <3> QED
        BY <2>2, <3>2, <3>3
    <2> QED
      BY <2>3, <2>4
  <1> QED
    BY <1>3, <1>4 DEF ReportAccountsForRows

LEMMA StartRunCounts ==
    ASSUME IInv, CountInv, NEW p \in Process, StartRun(p)
    PROVE  CountInv'
  <1>1. UNCHANGED dbVars
    BY DEF StartRun
  <1>2. lastRun' \in RunId /\ owner[lastRun'] = "nobody"
    BY BackfillAssumption DEF StartRun, IInv, TypeOK, RunId, FreshInv
  <1>3. StoredBy(lastRun') = {} /\ RowsCounted(lastRun') = {}
    BY <1>2, NewRunIsEmpty
  <1>4. ReportAccountsForRows'
    <2> SUFFICES ASSUME NEW q \in Process, (run[q] # 0 /\ pc[q] # "idle")'
                 PROVE  /\ totalClean'[q] >= Cardinality(StoredBy(run[q]))'
                        /\ errors'[q] = 0 => totalClean'[q] = Cardinality(RowsCounted(run[q]))'
      BY DEF ReportAccountsForRows
    <2>1. CASE q = p
      <3>1. run'[p] = lastRun' /\ totalClean'[p] = 0
        BY DEF StartRun, IInv, TypeOK
      <3>2. StoredBy(run[p])' = {} /\ RowsCounted(run[p])' = {}
        BY <1>1, <1>3, <3>1 DEF dbVars, StoredBy, RowsCounted, EntriesOf
      <3> QED
        BY <2>1, <3>1, <3>2, FS_EmptySet
    <2>2. CASE q # p
      <3>1. /\ run'[q] = run[q] /\ pc'[q] = pc[q]
            /\ totalClean'[q] = totalClean[q] /\ errors'[q] = errors[q]
        BY <2>2 DEF StartRun, IInv, TypeOK
      <3>2. StoredBy(run[q])' = StoredBy(run[q]) /\ RowsCounted(run[q])' = RowsCounted(run[q])
        BY <1>1, <3>1 DEF dbVars, StoredBy, RowsCounted, EntriesOf
      <3> QED
        BY <3>1, <3>2 DEF CountInv, ReportAccountsForRows
    <2> QED
      BY <2>1, <2>2
  <1> QED
    BY <1>1, <1>4 DEF dbVars, CountInv, QuarantineExplained, RowsCounted, EntriesOf

LEMMA QuietCounts ==
    ASSUME IInv, IInv', CountInv, Quiet
    PROVE  CountInv'
  <1>1. UNCHANGED <<surface, quarantine, progress, run>>
    BY DEF Quiet, dbVars, runVars
  <1>2. ReportAccountsForRows'
    <2> SUFFICES ASSUME NEW q \in Process, (run[q] # 0 /\ pc[q] # "idle")'
                 PROVE  /\ totalClean'[q] >= Cardinality(StoredBy(run[q]))'
                        /\ errors'[q] = 0 => totalClean'[q] = Cardinality(RowsCounted(run[q]))'
      BY DEF ReportAccountsForRows
    <2>1. run[q] # 0 /\ pc[q] # "idle"
      BY <1>1 DEF Quiet
    <2>2. StoredBy(run[q])' = StoredBy(run[q]) /\ RowsCounted(run[q])' = RowsCounted(run[q])
      BY <1>1 DEF StoredBy, RowsCounted, EntriesOf
    <2>3. Cardinality(StoredBy(run[q])) \in Nat
      BY CountInNat DEF StoredBy
    <2> QED
      BY <2>1, <2>2, <2>3 DEF CountInv, ReportAccountsForRows, Quiet, IInv, TypeOK
  <1> QED
    BY <1>1, <1>2 DEF CountInv, QuarantineExplained, RowsCounted, EntriesOf

LEMMA CommitKeepsCounts ==
    ASSUME IInv, CountInv, NEW p \in Process, NEW failed \in BOOLEAN,
           CommitOf(p, failed)
    PROVE  CountInv'
  BY CommitExplains, CommitAccounts DEF CountInv

LEMMA CountsInductive == IInv /\ IInv' /\ CountInv /\ [Next]_vars => CountInv'
  <1> SUFFICES ASSUME IInv, IInv', CountInv, [Next]_vars PROVE CountInv'
    OBVIOUS
  <1>1. ASSUME NEW p \in Process, StartRun(p) PROVE CountInv'
    BY <1>1, StartRunCounts
  <1>2. ASSUME NEW p \in Process, Fetch(p) PROVE CountInv'
    BY <1>2, FetchQuiet, QuietCounts
  <1>3. ASSUME NEW p \in Process, Statement(p) PROVE CountInv'
    BY <1>3, StatementShape, QuietCounts, CommitKeepsCounts
  <1>4. ASSUME NEW p \in Process, Failure(p) PROVE CountInv'
    BY <1>4, FailureShape, QuietCounts, CommitKeepsCounts
  <1>5. CASE AllFinished \/ UNCHANGED vars
    <2>1. Quiet
      BY <1>5 DEF AllFinished, vars, dbVars, runVars, statVars, Quiet, IInv, TypeOK
    <2> QED
      BY <2>1, QuietCounts
  <1> QED
    BY <1>1, <1>2, <1>3, <1>4, <1>5 DEF Next

LEMMA InitCounts == Init => CountInv
  <1> SUFFICES ASSUME Init PROVE CountInv
    OBVIOUS
  <1>1. progress = {} /\ IsFiniteSet(progress)
    BY FS_EmptySet DEF Init
  <1>2. \A r \in RunId : RowsCounted(r) = {} /\ IsFiniteSet(RowsCounted(r))
    BY <1>1, FS_EmptySet DEF RowsCounted, EntriesOf
  <1>3. QuarantineExplained
    <2> SUFFICES ASSUME NEW row \in Row
                 PROVE  0 <= Cardinality({e \in progress :
                                e.chunk = ChunkOf[row]})
      BY DEF QuarantineExplained, Init
    <2>1. {e \in progress : e.chunk = ChunkOf[row]} = {}
      BY <1>1
    <2> QED
      BY <2>1, FS_EmptySet
  <1>4. ReportAccountsForRows
    BY DEF ReportAccountsForRows, Init
  <1> QED
    BY <1>1, <1>2, <1>3, <1>4 DEF CountInv

(* The counts hold in every reachable state.                                   *)
THEOREM CountsHold == Spec => []CountInv
  BY InitCounts, CountsInductive, Invariance, PTL DEF Spec

(* No copy of a rejected row is in quarantine that some completion of its chunk *)
(* does not account for: a transaction that fails leaves no copy behind.        *)
THEOREM QuarantineIsExplained == Spec => []QuarantineExplained
  <1>1. CountInv => QuarantineExplained
    BY DEF CountInv
  <1> QED
    BY <1>1, CountsHold, PTL

(* The total a run reports bounds the rows it stored, even if the answer to a   *)
(* commit was lost, and is the rows_loaded of its watermarks when it counts no  *)
(* error.  It may well be larger than what was stored.                          *)
THEOREM ReportsAccount == Spec => []ReportAccountsForRows
  <1>1. CountInv => ReportAccountsForRows
    BY DEF CountInv
  <1> QED
    BY <1>1, CountsHold, PTL
-----------------------------------------------------------------------------
(* Progress: the safety half of RunsReturn. *)

(* Two processes that wait for each other are a cycle the detector breaks.     *)
LEMMA MutualWaitIsDeadlock ==
    ASSUME NEW p \in Process, NEW q \in Process, WaitsFor(p, q), WaitsFor(q, p)
    PROVE  Deadlocked(p)
  <1> DEFINE S == {p, q}
  <1>1. S \in SUBSET Process /\ p \in S
    OBVIOUS
  <1>2. \A x \in S : \E y, z \in S : WaitsFor(x, y) /\ WaitsFor(z, x)
    OBVIOUS
  <1> QED
    BY <1>1, <1>2 DEF Deadlocked

(* Only the COPY, the INSERT and the TRUNCATE wait.                            *)
LEMMA OnlyStagingWaits ==
    ASSUME NEW p \in Process, pc[p] \in Active \ {"stage", "load", "truncate"}
    PROVE  CanGo(p)
  BY DEF CanGo, Waiting, WaitsFor

LEMMA NoStuckState == IInv => NobodyIsStuck
  <1> SUFFICES ASSUME IInv, NEW p \in Process, pc[p] \in Active, ~CanGo(p)
               PROVE  \E q \in Process : WaitsFor(p, q) /\ CanGo(q)
    BY DEF NobodyIsStuck
  <1>1. PICK q \in Process : WaitsFor(p, q)
    BY DEF CanGo, Waiting
  <1>2. pc[p] \in {"stage", "load", "truncate"} /\ p # q
    BY <1>1 DEF WaitsFor
  <1>3. ~WaitsFor(q, p)
    BY <1>1, MutualWaitIsDeadlock DEF CanGo
  <1>4. CASE pc[q] \in {"quarantine", "mark", "commit"}
    BY <1>1, <1>4, OnlyStagingWaits DEF Active, InTx
  \* The INSERT of p waits for rows that the INSERT of q stored: q is about to
  \* truncate staging, which p has locked too.
  <1>5. CASE pc[p] = "load" /\ pc[q] \notin {"quarantine", "mark", "commit"}
    <2>1. loaded[q] # {}
      BY <1>1, <1>5 DEF WaitsFor
    <2>2. pc[q] = "truncate"
      BY <1>5, <2>1 DEF IInv, BatchInv, TypeOK, Active, InTx
    <2>3. WaitsFor(q, p)
      BY <1>2, <1>5, <2>2 DEF WaitsFor, LocksStaging
    <2> QED
      BY <1>3, <2>3
  \* The COPY waits only for a transaction that has truncated staging.
  <1>6. CASE pc[p] = "stage" /\ pc[q] \notin {"quarantine", "mark", "commit"}
    BY <1>1, <1>6 DEF WaitsFor, Truncated
  \* The TRUNCATE of p waits for the lock of q, which is in its INSERT; nobody
  \* that holds rows q would store is past its own TRUNCATE, because p has
  \* staging locked, and two that want to truncate it wait for each other.
  <1>7. CASE pc[p] = "truncate" /\ pc[q] \notin {"quarantine", "mark", "commit"}
    <2>1. pc[q] \in {"load", "truncate"}
      BY <1>1, <1>7 DEF WaitsFor, LocksStaging
    <2>2. pc[q] = "load"
      BY <1>2, <1>3, <1>7, <2>1 DEF WaitsFor, LocksStaging
    <2>3. ASSUME NEW r \in Process, WaitsFor(q, r)
          PROVE  FALSE
      <3>1. loaded[r] # {} /\ r # q
        BY <2>2, <2>3 DEF WaitsFor
      <3>2. pc[r] \in {"truncate", "quarantine", "mark", "commit"} /\ clean[r] # {}
        BY <3>1 DEF IInv, BatchInv, HoldInv, TypeOK, Active, InTx
      <3>3. r # p
        BY <1>3, <2>3
      <3>4. pc[r] = "truncate"
        BY <1>7, <3>2, <3>3 DEF IInv, StagingIsolated, Truncated, LocksStaging
      <3>5. WaitsFor(p, r) /\ WaitsFor(r, p)
        BY <1>7, <3>3, <3>4 DEF WaitsFor, LocksStaging
      <3> QED
        BY <3>5, MutualWaitIsDeadlock DEF CanGo
    <2>4. CanGo(q)
      BY <2>2, <2>3 DEF CanGo, Waiting, Active, InTx
    <2> QED
      BY <1>1, <2>4
  <1> QED
    BY <1>2, <1>4, <1>5, <1>6, <1>7

(* However many processes share the staging table and the row keys, one that   *)
(* waits waits for one that can go on: the locks of the database and its       *)
(* deadlock detector leave no run behind.                                      *)
THEOREM NobodyStuck == Spec => []NobodyIsStuck
  BY Invariance, NoStuckState, PTL

(* What a step of p leaves the other processes.                                *)
OthersKeep(p) ==
    \A q \in Process : q # p => pc'[q] = pc[q] /\ pos'[q] = pos[q] /\ run'[q] = run[q]

LEMMA PositionType ==
    ASSUME IInv, NEW p \in Process, pc[p] \in Active
    PROVE  /\ pos[p] \in Nat
           /\ Len(Plan[p]) \in Nat
           /\ pos[p] <= Len(Plan[p])
           /\ Rank[pc[p]] \in 1 .. 8
           /\ StepsLeft(p) = 8 * (Len(Plan[p]) - pos[p]) + Rank[pc[p]]
  <1>1. pos[p] \in 1 .. Len(Plan[p]) /\ Plan[p] \in Seq(Chunk)
    BY BackfillAssumption DEF IInv, RunInv
  <1>2. Rank[pc[p]] \in 1 .. 8
    BY DEF Rank, Active, InTx
  <1> QED
    BY <1>1, <1>2 DEF StepsLeft

(* The arithmetic of StepsLeft, for a plan of n chunks at chunk i. *)
LEMMA StepsArithmetic ==
    ASSUME NEW n \in Nat, NEW i \in Nat, i <= n, NEW k \in 1 .. 8
    PROVE  /\ 8 * (n - i) + k \in Nat
           /\ 8 * (n - i) + k > 0
           /\ i >= 1 => 8 * (n - i) + k <= 8 * n
           /\ 8 * (n - (i + 1)) + 8 < 8 * (n - i) + k
           /\ \A j \in 1 .. 8 : j < k => 8 * (n - i) + j < 8 * (n - i) + k
  OBVIOUS

(* A run has at most eight statements for each chunk of its plan.              *)
LEMMA StepsAreBounded ==
    ASSUME IInv, NEW p \in Process
    PROVE  StepsLeft(p) \in Nat /\ StepsLeft(p) <= 8 * Len(Plan[p])
  <1>1. CASE pc[p] \in Active
    <2>1. pos[p] >= 1
      BY <1>1 DEF IInv, RunInv
    <2>2. /\ pos[p] \in Nat /\ Len(Plan[p]) \in Nat
          /\ pos[p] <= Len(Plan[p]) /\ Rank[pc[p]] \in 1 .. 8
          /\ StepsLeft(p) = 8 * (Len(Plan[p]) - pos[p]) + Rank[pc[p]]
      BY <1>1, PositionType
    <2> QED
      BY <2>1, <2>2, StepsArithmetic
  <1>2. CASE pc[p] \notin Active
    <2>1. Plan[p] \in Seq(Chunk) /\ Len(Plan[p]) \in Nat
      BY BackfillAssumption
    <2> QED
      BY <1>2, <2>1 DEF StepsLeft
  <1> QED
    BY <1>1, <1>2

(* Leaving a chunk, one way or the other. *)
LEMMA LeavingAdvances ==
    ASSUME IInv, NEW p \in Process, pc[p] \in Active, NextChunk(p) \/ Abandon(p)
    PROVE  StepsLeft(p)' < StepsLeft(p) /\ (run' = run => OthersKeep(p))
  <1>0. /\ pos[p] \in Nat /\ Len(Plan[p]) \in Nat
        /\ pos[p] <= Len(Plan[p]) /\ Rank[pc[p]] \in 1 .. 8
        /\ StepsLeft(p) = 8 * (Len(Plan[p]) - pos[p]) + Rank[pc[p]]
    BY PositionType
  <1>1. CASE NextChunk(p) /\ pos[p] < Len(Plan[p])
    <2>1. pc'[p] = "fetch" /\ pos'[p] = pos[p] + 1
      BY <1>1 DEF NextChunk, IInv, TypeOK
    <2>2. StepsLeft(p)' = 8 * (Len(Plan[p]) - (pos[p] + 1)) + 8
      BY <2>1 DEF StepsLeft, Active, Rank
    <2>3. StepsLeft(p)' < StepsLeft(p)
      BY <1>0, <2>2, StepsArithmetic
    <2>4. run' = run => OthersKeep(p)
      BY <1>1 DEF NextChunk, OthersKeep, IInv, TypeOK
    <2> QED
      BY <2>3, <2>4
  <1>2. CASE Abandon(p) \/ (NextChunk(p) /\ ~(pos[p] < Len(Plan[p])))
    <2>1. pc'[p] \in {"idle", "finished"}
      BY <1>2 DEF NextChunk, Abandon, IInv, TypeOK
    <2>2. StepsLeft(p)' = 0
      BY <2>1 DEF StepsLeft, Active, InTx
    <2>3. StepsLeft(p)' < StepsLeft(p)
      BY <1>0, <2>2, StepsArithmetic
    <2>4. run' = run => OthersKeep(p)
      BY <1>2 DEF NextChunk, Abandon, OthersKeep, IInv, TypeOK
    <2> QED
      BY <2>3, <2>4
  <1> QED
    BY <1>1, <1>2

(* A statement that keeps the chunk is followed by a later one. *)
LEMMA LaterStatementAdvances ==
    ASSUME IInv, NEW p \in Process, pc[p] \in Active, NEW s \in Active,
           pc' = [pc EXCEPT ![p] = s], Rank[s] < Rank[pc[p]],
           UNCHANGED <<pos, run>>
    PROVE  StepsLeft(p)' < StepsLeft(p) /\ OthersKeep(p)
  <1>1. pc'[p] = s
    BY DEF IInv, TypeOK
  <1>2. Rank[s] \in 1 .. 8
    BY DEF Rank, Active, InTx
  <1>3. StepsLeft(p)' = 8 * (Len(Plan[p]) - pos[p]) + Rank[s]
    BY <1>1 DEF StepsLeft
  <1>4. /\ pos[p] \in Nat /\ Len(Plan[p]) \in Nat
        /\ pos[p] <= Len(Plan[p]) /\ Rank[pc[p]] \in 1 .. 8
        /\ StepsLeft(p) = 8 * (Len(Plan[p]) - pos[p]) + Rank[pc[p]]
    BY PositionType
  <1>5. StepsLeft(p)' < StepsLeft(p)
    BY <1>2, <1>3, <1>4, StepsArithmetic
  <1>6. OthersKeep(p)
    BY DEF OthersKeep, IInv, TypeOK
  <1> QED
    BY <1>5, <1>6

LEMMA FetchAdvances ==
    ASSUME IInv, NEW p \in Process, Fetch(p)
    PROVE  StepsLeft(p)' < StepsLeft(p) /\ OthersKeep(p)
  <1>1. pc[p] = "fetch" /\ pc[p] \in Active /\ run' = run
    BY DEF Fetch, FetchBatch, FetchFails, FetchEmpty, FetchRaises, Abandon, runVars, Active
  <1>2. CASE FetchBatch(p)
    <2>1. pc' = [pc EXCEPT ![p] = "check"] /\ UNCHANGED <<pos, run>>
      BY <1>2 DEF FetchBatch, runVars
    <2>2. "check" \in Active /\ Rank["check"] < Rank[pc[p]]
      BY <1>1 DEF Rank, Active
    <2> QED
      BY <1>1, <2>1, <2>2, LaterStatementAdvances
  <1>3. CASE FetchFails(p) \/ FetchEmpty(p) \/ FetchRaises(p)
    BY <1>1, <1>3, LeavingAdvances DEF FetchFails, FetchEmpty, FetchRaises
  <1> QED
    BY <1>2, <1>3 DEF Fetch

LEMMA StatementAdvances ==
    ASSUME IInv, NEW p \in Process, Statement(p) \/ Failure(p)
    PROVE  StepsLeft(p)' < StepsLeft(p) /\ OthersKeep(p)
  <1>1. CASE CheckWatermark(p) /\ ~Completed(ChunkAt(p))
    BY <1>1, LaterStatementAdvances
    DEF CheckWatermark, AfterLoad, Rank, Active, InTx, runVars
  <1>2. CASE WriteStaging(p) \/ LoadFromStaging(p) \/ TruncateStaging(p)
    BY <1>2, LaterStatementAdvances
    DEF WriteStaging, LoadFromStaging, TruncateStaging, AfterLoad, Rank, Active, InTx, runVars
  <1>3. CASE WriteQuarantine(p) \/ AdvanceWatermark(p)
    BY <1>3, LaterStatementAdvances
    DEF WriteQuarantine, AdvanceWatermark, Rank, Active, InTx, runVars
  <1>4. CASE \/ CheckWatermark(p) /\ Completed(ChunkAt(p))
             \/ Commit(p) \/ CommitUnacknowledged(p)
             \/ DeadlockVictim(p) \/ StatementFails(p) \/ Crash(p)
    <2>1. pc[p] \in Active
      BY <1>4 DEF CheckWatermark, Commit, CommitUnacknowledged, DeadlockVictim,
                  Deadlocked, WaitsFor, StatementFails, Crash, Active, InTx
    <2>2. NextChunk(p) \/ Abandon(p)
      BY <1>4 DEF CheckWatermark, Commit, CommitUnacknowledged, DeadlockVictim,
                  StatementFails, RollBack, Crash
    <2>3. run' = run
      BY <1>4 DEF CheckWatermark, Commit, CommitUnacknowledged, DeadlockVictim,
                  StatementFails, RollBack, Crash, Abandon, runVars
    <2> QED
      BY <2>1, <2>2, <2>3, LeavingAdvances
  <1> QED
    BY <1>1, <1>2, <1>3, <1>4 DEF Statement, Failure

LEMMA StepAdvances ==
    ASSUME IInv, [Next]_vars, NEW q \in Process, pc[q] \in Active
    PROVE  \/ pc'[q] = pc[q] /\ pos'[q] = pos[q] /\ run'[q] = run[q]
           \/ StepsLeft(q)' < StepsLeft(q)
  <1>1. ASSUME NEW p \in Process, StartRun(p) \/ Fetch(p) \/ Statement(p) \/ Failure(p)
        PROVE  \/ pc'[q] = pc[q] /\ pos'[q] = pos[q] /\ run'[q] = run[q]
               \/ StepsLeft(q)' < StepsLeft(q)
    <2>1. CASE StartRun(p)
      <3>1. p # q
        BY <2>1 DEF StartRun, Active, InTx
      <3> QED
        BY <2>1, <3>1 DEF StartRun, IInv, TypeOK
    <2>2. CASE Fetch(p) \/ Statement(p) \/ Failure(p)
      BY <2>2, FetchAdvances, StatementAdvances DEF OthersKeep
    <2> QED
      BY <1>1, <2>1, <2>2
  <1>2. CASE AllFinished \/ UNCHANGED vars
    BY <1>2 DEF AllFinished, vars, runVars
  <1> QED
    BY <1>1, <1>2 DEF Next

(* A run never goes back: whatever succeeds or fails, its next step leaves it  *)
(* fewer statements to run, and nobody else's step gives it more.              *)
THEOREM RunsAlwaysAdvance == Spec => RunsAdvance
  <1>1. IInv /\ [Next]_vars =>
          [\A p \in Process : pc[p] \in Active =>
             \/ pc'[p] = pc[p] /\ pos'[p] = pos[p] /\ run'[p] = run[p]
             \/ StepsLeft(p)' < StepsLeft(p)]_vars
    BY StepAdvances
  <1> QED
    BY <1>1, Invariance, PTL DEF Spec, RunsAdvance

(* The number of those statements is a natural number, at most eight for each  *)
(* chunk of the plan, so that a run takes at most so many steps.               *)
THEOREM RunsAreBounded ==
    Spec => [](\A p \in Process : StepsLeft(p) \in 0 .. 8 * Len(Plan[p]))
  <1>1. IInv => \A p \in Process : StepsLeft(p) \in 0 .. 8 * Len(Plan[p])
    <2> SUFFICES ASSUME IInv, NEW p \in Process
                 PROVE  StepsLeft(p) \in 0 .. 8 * Len(Plan[p])
      OBVIOUS
    <2>1. Len(Plan[p]) \in Nat
      BY BackfillAssumption
    <2> QED
      BY <2>1, StepsAreBounded
  <1> QED
    BY <1>1, Invariance, PTL
=============================================================================

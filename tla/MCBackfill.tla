----------------------------- MODULE MCBackfill -----------------------------
(***************************************************************************)
(* Two processes and three runs, so one process restarts while the other   *)
(* may still be running.  Both walk chunk c1, whose two row keys they race *)
(* for; the first goes on to c2, so different chunks also meet in staging. *)
(***************************************************************************)
EXTENDS Backfill, TLC

CONSTANTS p1, p2, c1, c2, r1, r2, r3

MCProcess == {p1, p2}
MCChunk == {c1, c2}
MCRow == {r1, r2, r3}
MCChunkOf == [row \in MCRow |-> IF row = r3 THEN c2 ELSE c1]
MCPlan == [p \in MCProcess |-> IF p = p1 THEN <<c1, c2>> ELSE <<c1>>]

\* The two rows of c1 are interchangeable.
MCSymmetry == Permutations({r1, r2})
=============================================================================

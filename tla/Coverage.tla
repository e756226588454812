------------------------------ MODULE Coverage ------------------------------
(***************************************************************************)
(* Which days of one expiration a sequence of backfill runs loads.         *)
(*                                                                         *)
(* run_backfill (dataingestion/orchestrator.py) clips the days on which an *)
(* expiration is wanted to the window it was asked for, and _month_chunks  *)
(* (chunking.py) cuts what is left into pieces, starting at its first day. *)
(* A chunk is remembered in ingest_progress by its last day alone, and a   *)
(* chunk whose last day is remembered is skipped.                          *)
(*                                                                         *)
(* Backfill.tla takes chunks as given and models how one is stored; this   *)
(* module takes the storing as one step and models the calendar around it. *)
(* Expirations do not interact, so one is enough.                          *)
(***************************************************************************)
EXTENDS Integers

CONSTANTS
    First, Last,    \* _dte_window: the days on which the expiration is wanted
    MaxDays,        \* MAX_CHUNK_DAYS
    Trading,        \* days on which there are quotes
    Bars,           \* bound: bars of quotes in a day
    Starts,         \* the start_date of a run
    Lag,            \* end_date of a run is Lag days before today; default: 0
    MaxDay          \* bound: the last day of the calendar

ASSUME CoverageAssumption ==
    /\ First \in Nat /\ Last \in Nat
    /\ MaxDays \in Nat \ {0}
    /\ Trading \subseteq Nat
    /\ Bars \in Nat
    /\ Starts \subseteq Nat
    /\ Lag \in Nat
    /\ MaxDay \in Nat

VARIABLES
    today, bar,     \* the date, and the bars of it that have been quoted
    marks,          \* chunk_end_date of the completed rows of ingest_progress
    loaded,         \* bars whose rows were written or quarantined, as <<day, bar>>
    unlisted, late, \* history: bars of marked chunks that were not loaded, because
                    \* the contract list of their day failed or the day was not over
    pc,             \* "idle", "chunk" in the loop over chunks, "done"
    from, to, cur,  \* the window of the run, and where its next chunk begins
    due,            \* what was quoted in the window when the run began
    clear           \* every chunk of the run so far was stored or skipped

clock == <<today, bar>>
stored == <<marks, loaded, unlisted, late>>
run == <<pc, from, to, cur, due, clear>>
vars == <<clock, stored, run>>

Quotes == Trading \X (1 .. Bars)
Quoted == {q \in Quotes : q[1] < today \/ (q[1] = today /\ q[2] <= bar)}
Within(Q, a, b) == {q \in Q : a <= q[1] /\ q[1] <= b}

Later(a, b) == IF a >= b THEN a ELSE b
Earlier(a, b) == IF a <= b THEN a ELSE b

TypeOK ==
    /\ today \in 0 .. MaxDay /\ bar \in 0 .. Bars
    /\ marks \subseteq Nat
    /\ loaded \subseteq Quotes /\ unlisted \subseteq Quotes /\ late \subseteq Quotes
    /\ pc \in {"idle", "chunk", "done"}
    /\ from \in Nat /\ to \in Int /\ cur \in Nat
    /\ due \subseteq Quotes
    /\ clear \in BOOLEAN

Init ==
    /\ today = 0 /\ bar = 0
    /\ marks = {} /\ loaded = {} /\ unlisted = {} /\ late = {}
    /\ pc = "idle"
    /\ from = 0 /\ to = 0 /\ cur = 0
    /\ due = {}
    /\ clear = TRUE
-----------------------------------------------------------------------------
\* Time goes on between runs and during them.
NextBar ==
    /\ bar < Bars
    /\ bar' = bar + 1
    /\ UNCHANGED <<today, stored, run>>

NextDay ==
    /\ today < MaxDay
    /\ today' = today + 1
    /\ bar' = 0
    /\ UNCHANGED <<stored, run>>

\* A run whose window does not meet the days wanted leaves the expiration out.
StartRun(s) ==
    /\ pc \in {"idle", "done"}
    /\ from' = Later(First, s)
    /\ to' = Earlier(Last, today - Lag)
    /\ from' <= to'
    /\ cur' = from'
    /\ due' = Within(Quoted, from', to')
    /\ clear' = TRUE
    /\ pc' = "chunk"
    /\ UNCHANGED <<clock, stored>>

\* Mutant: the last chunk is not cut at the end of the window.
ChunkEndUncut == cur + MaxDays - 1

ChunkEnd == Earlier(cur + MaxDays - 1, to)

InLoop == pc = "chunk" /\ cur <= to

\* Mutant: the chunks are laid out as if their ends were exclusive.
NextChunkLeavesDay == cur' = ChunkEnd + 2

NextChunk == cur' = ChunkEnd + 1

\* The chunk's last day is found in ingest_progress.
SkipChunk ==
    /\ InLoop
    /\ ChunkEnd \in marks
    /\ NextChunk
    /\ UNCHANGED <<clock, stored, pc, from, to, due, clear>>

\* Mutant: a row is written for every day of the chunk, quoted or not.
StoreFillsCalendar(failed) ==
    /\ InLoop
    /\ ChunkEnd \notin marks
    /\ {q \in Within(Quoted, cur, ChunkEnd) : q[1] \notin failed} # {}
    /\ loaded' = loaded \union ((cur .. ChunkEnd) \X (1 .. Bars))
    /\ marks' = marks \union {ChunkEnd}
    /\ NextChunk
    /\ UNCHANGED <<clock, unlisted, late, pc, from, to, due, clear>>

\* What is quoted by now is fetched.  The rows of the days whose contract list was
\* answered with an error are dropped; if any are left they are stored, and the last
\* day is remembered for the whole chunk.  None left is FailChunk.
StoreChunk(failed) ==
    /\ InLoop
    /\ ChunkEnd \notin marks
    /\ LET rows == Within(Quoted, cur, ChunkEnd)
           kept == {q \in rows : q[1] \notin failed}
       IN  /\ kept # {}
           /\ loaded' = loaded \union kept
           /\ unlisted' = unlisted \union (rows \ kept)
           /\ late' = late \union (Within(Quotes, cur, ChunkEnd) \ rows)
    /\ marks' = marks \union {ChunkEnd}
    /\ NextChunk
    /\ UNCHANGED <<clock, pc, from, to, due, clear>>

\* The fetch is empty because there is nothing: "no_data", no watermark.
EmptyChunk ==
    /\ InLoop
    /\ Within(Quoted, cur, ChunkEnd) = {}
    /\ NextChunk
    /\ UNCHANGED <<clock, stored, pc, from, to, due, clear>>

\* Mutant: a chunk that failed is remembered like one that was stored.
FailIsRemembered ==
    /\ InLoop
    /\ clear' = FALSE
    /\ marks' = marks \union {ChunkEnd}
    /\ NextChunk
    /\ UNCHANGED <<clock, loaded, unlisted, late, pc, from, to, due>>

\* The fetch fails or comes back empty, no row is left by the contract lists, or the
\* transaction is rolled back: no watermark.  The fetch precedes the look at ingest_progress.
FailChunk ==
    /\ InLoop
    /\ clear' = FALSE
    /\ NextChunk
    /\ UNCHANGED <<clock, stored, pc, from, to, due>>

EndRun ==
    /\ pc = "chunk"
    /\ cur > to
    /\ pc' = "done"
    /\ UNCHANGED <<clock, stored, from, to, cur, due, clear>>

Crash ==
    /\ pc = "chunk"
    /\ pc' = "idle"
    /\ UNCHANGED <<clock, stored, from, to, cur, due, clear>>

Next ==
    \/ NextBar \/ NextDay
    \/ \E s \in Starts : StartRun(s)
    \/ \E failed \in SUBSET (cur .. ChunkEnd) : StoreChunk(failed)
    \/ SkipChunk \/ EmptyChunk \/ FailChunk
    \/ EndRun \/ Crash

Spec == Init /\ [][Next]_vars
-----------------------------------------------------------------------------
(* Properties *)

\* The bars that are in the database, or were missed by the very store that marked
\* their chunk.
Accounted == loaded \union unlisted \union late

\* A run in which every chunk was stored, skipped or empty leaves no other gap: all
\* that was quoted in its window when it began is loaded, except for what a marked
\* chunk missed - whatever was loaded, clipped, failed or interrupted before it
\* (dataingestion.md, section 13: "restarts resume exactly where they stopped -
\* no gaps, no overlaps").
ClearRunLeavesNoGap ==
    pc = "done" /\ clear => due \subseteq Accounted

\* Skipping a chunk for its last day alone loses nothing more: each bar that will
\* ever be quoted on its days is loaded or was missed by a store, never left to a
\* chunk of another run that ends on the same day and does not reach it.
SkippedChunkIsAccounted ==
    InLoop /\ ChunkEnd \in marks => Within(Quotes, cur, ChunkEnd) \subseteq Accounted

\* A chunk is remembered for a wanted day the runs have reached, and what it misses
\* for being early is of the day it is remembered for: the day was running then.
MarksAreReached ==
    /\ \A m \in marks : First <= m /\ m <= Last /\ m <= today - Lag
    /\ \A q \in late : q[1] \in marks
-----------------------------------------------------------------------------
(* The inductive invariant of the proofs (CoverageProofs.tla) *)

OnGrid(w, x) == \E k \in Nat : x = w + k * MaxDays

\* The clipped windows of all runs begin a whole number of chunks after w.
AlignedStarts(w) == w \in Nat /\ \A s \in Starts : OnGrid(w, Later(First, s))

\* The loop stays in its window, which lies among the days wanted.
WindowInv ==
    pc = "chunk" =>
        /\ First <= from /\ from <= cur
        /\ to <= Last /\ to <= today - Lag

\* A last day that is remembered stands for the chunk of the grid it falls in.
MarkInv(w) ==
    \A m \in marks : \E b \in Nat :
        /\ OnGrid(w, b)
        /\ b <= m /\ m < b + MaxDays
        /\ Within(Quotes, b, m) \subseteq Accounted

\* The loop is on the grid until it leaves the window, and has left no other gap.
LoopInv(w) ==
    pc = "chunk" =>
        /\ cur <= to => OnGrid(w, cur)
        /\ due \subseteq Within(Quoted, from, to)
        /\ clear => {q \in due : q[1] < cur} \subseteq Accounted

ReachInv == TypeOK /\ WindowInv /\ MarksAreReached
IInv(w) == ReachInv /\ MarkInv(w) /\ LoopInv(w) /\ ClearRunLeavesNoGap
=============================================================================

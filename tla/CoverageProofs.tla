--------------------------- MODULE CoverageProofs ---------------------------
(***************************************************************************)
(* Proofs about Coverage.tla: if the windows of all runs begin on one grid *)
(* of chunks, the last day of a chunk identifies it, and a run without     *)
(* failures leaves no gap but what the stores themselves missed - for      *)
(* every window, chunk size, trading calendar, end_date and history of     *)
(* failed and interrupted runs.  One start_date for all runs is the        *)
(* simplest case, and any start_dates up to the first wanted day another.  *)
(*                                                                         *)
(* The condition is needed: TLC finds the gap with two start dates that    *)
(* are not aligned (MCCoverage_starts.cfg).                                *)
(***************************************************************************)
EXTENDS Coverage, TLAPS

LEMMA Bounded ==
    ASSUME NEW a \in Int, NEW b \in Int
    PROVE  /\ Later(a, b) \in {a, b} /\ Later(a, b) >= a /\ Later(a, b) >= b
           /\ Earlier(a, b) \in {a, b} /\ Earlier(a, b) <= a /\ Earlier(a, b) <= b
BY DEF Later, Earlier

\* Chunks of one grid that share a day are the same chunk.
LEMMA GridChunksAreApart ==
    ASSUME NEW w \in Nat, NEW a \in Nat, NEW b \in Nat, NEW m \in Int,
           OnGrid(w, a), OnGrid(w, b),
           a <= m, m < a + MaxDays, b <= m, m < b + MaxDays
    PROVE  a = b
<1>1. MaxDays \in Nat /\ MaxDays > 0
    BY CoverageAssumption
<1>2. PICK j \in Nat : a = w + j * MaxDays
    BY DEF OnGrid
<1>3. PICK k \in Nat : b = w + k * MaxDays
    BY DEF OnGrid
<1>4. \A p, q \in Nat : p < q => p * MaxDays + MaxDays <= q * MaxDays
    <2> SUFFICES ASSUME NEW p \in Nat, NEW q \in Nat, p < q
                 PROVE  p * MaxDays + MaxDays <= q * MaxDays
        OBVIOUS
    <2>1. PICK n \in Nat : q = p + 1 + n
        <3>1. q - p - 1 \in Nat /\ q = p + 1 + (q - p - 1)
            OBVIOUS
        <3> QED BY <3>1
    <2>2. q * MaxDays = p * MaxDays + MaxDays + n * MaxDays
        BY <1>1, <2>1
    <2>3. p * MaxDays \in Nat /\ n * MaxDays \in Nat
        BY <1>1
    <2> QED
        BY <1>1, <2>2, <2>3
<1>5. j * MaxDays \in Nat /\ k * MaxDays \in Nat
    BY <1>1
<1>6. ~(j < k)
    BY <1>1, <1>2, <1>3, <1>4, <1>5
<1>7. ~(k < j)
    BY <1>1, <1>2, <1>3, <1>4, <1>5
<1>8. j = k
    BY <1>6, <1>7
<1> QED
    BY <1>2, <1>3, <1>8

\* The chunk after a full one is on the grid as well.
LEMMA NextIsOnGrid ==
    ASSUME NEW w \in Nat, NEW a \in Nat, OnGrid(w, a)
    PROVE  OnGrid(w, a + MaxDays)
<1>1. MaxDays \in Nat
    BY CoverageAssumption
<1>2. PICK k \in Nat : a = w + k * MaxDays
    BY DEF OnGrid
<1>3. a + MaxDays = w + (k + 1) * MaxDays
    BY <1>1, <1>2
<1> QED
    BY <1>3 DEF OnGrid

LEMMA FirstIsOnGrid ==
    ASSUME NEW w \in Nat
    PROVE  OnGrid(w, w)
<1>1. w = w + 0 * MaxDays
    BY CoverageAssumption
<1> QED
    BY <1>1 DEF OnGrid

-----------------------------------------------------------------------------
(* The loop *)

\* The chunk in hand lies in the window and is no longer than MAX_CHUNK_DAYS.
LEMMA ChunkIsInWindow ==
    ASSUME TypeOK, InLoop
    PROVE  /\ ChunkEnd \in Nat
           /\ cur <= ChunkEnd /\ ChunkEnd < cur + MaxDays /\ ChunkEnd <= to
           /\ ChunkEnd < to => ChunkEnd + 1 = cur + MaxDays
<1>1. cur \in Nat /\ to \in Int /\ MaxDays \in Nat /\ MaxDays >= 1 /\ cur <= to
    BY CoverageAssumption DEF TypeOK, InLoop
<1>2. ChunkEnd \in {cur + MaxDays - 1, to}
    BY <1>1, Bounded DEF ChunkEnd
<1> QED
    BY <1>1, <1>2, Bounded DEF ChunkEnd

\* The next chunk begins within the window, or the window is over.
LEMMA StepStaysInWindow ==
    ASSUME TypeOK, WindowInv, InLoop, NextChunk, UNCHANGED <<today, pc, from, to>>
    PROVE  WindowInv'
<1>1. ChunkEnd \in Nat /\ cur \in Nat /\ from \in Nat /\ cur <= ChunkEnd
    BY ChunkIsInWindow DEF TypeOK
<1>2. from <= cur'
    BY <1>1 DEF WindowInv, InLoop, NextChunk
<1> QED
    BY <1>2 DEF WindowInv, InLoop

\* A step over a chunk whose due quotes are all accounted for afterwards keeps the
\* loop free of gaps, and so does one that gives up the claim.
LEMMA StepKeepsLoop ==
    ASSUME NEW w \in Nat, TypeOK, LoopInv(w), InLoop, NextChunk,
           UNCHANGED <<today, bar, pc, from, to, due>>,
           Accounted \subseteq Accounted',
           clear' => clear /\ Within(due, cur, ChunkEnd) \subseteq Accounted'
    PROVE  LoopInv(w)'
<1> DEFINE e == ChunkEnd
<1>1. /\ e \in Nat /\ cur \in Nat /\ to \in Int /\ today \in Int
      /\ cur <= e /\ e <= to
      /\ e < to => e + 1 = cur + MaxDays
      /\ cur' = e + 1
    BY ChunkIsInWindow, CoverageAssumption DEF NextChunk, TypeOK
<1>2. /\ pc = "chunk" /\ OnGrid(w, cur)
      /\ due \subseteq Within(Quoted, from, to)
      /\ clear => {q \in due : q[1] < cur} \subseteq Accounted
    BY DEF LoopInv, InLoop
<1>3. cur' <= to' => OnGrid(w, cur')
    BY <1>1, <1>2, NextIsOnGrid
<1>4. ASSUME clear', NEW q \in due, q[1] < cur'
      PROVE  q \in Accounted'
    <2>1. q[1] \in Nat
        BY <1>2, CoverageAssumption DEF Within, Quoted, Quotes
    <2>2. CASE q[1] < cur
        BY <1>2, <1>4, <2>2
    <2>3. CASE ~(q[1] < cur)
        <3>1. cur <= q[1] /\ q[1] <= e
            BY <1>1, <1>4, <2>1, <2>3
        <3>2. q \in Within(due, cur, ChunkEnd)
            BY <3>1 DEF Within
        <3> QED BY <1>4, <3>2
    <2> QED
        BY <2>2, <2>3
<1>5. clear' => {q \in due' : q[1] < cur'} \subseteq Accounted'
    BY <1>4
<1> HIDE DEF e
<1>6. OnGrid(w, cur)' = OnGrid(w, cur')
    BY DEF OnGrid
<1>7. Within(Quoted, from, to)' = Within(Quoted, from, to)
    BY DEF Within, Quoted, Quotes
<1> QED
    BY <1>2, <1>3, <1>5, <1>6, <1>7 DEF LoopInv

\* A watermark that was true stays true as rows are added.
LEMMA MarksStayTrue ==
    ASSUME NEW w \in Nat, MarkInv(w), marks' = marks, Accounted \subseteq Accounted'
    PROVE  MarkInv(w)'
<1> SUFFICES ASSUME NEW m \in marks
             PROVE  \E b \in Nat :
                        /\ OnGrid(w, b)
                        /\ b <= m /\ m < b + MaxDays
                        /\ Within(Quotes, b, m) \subseteq Accounted'
    BY DEF MarkInv, OnGrid, Within, Quotes
<1> QED
    BY DEF MarkInv

\* A chunk that is skipped has been stored before.
LEMMA SkippedIsAccounted ==
    ASSUME NEW w \in Nat, TypeOK, MarkInv(w), LoopInv(w), InLoop, ChunkEnd \in marks
    PROVE  Within(Quotes, cur, ChunkEnd) \subseteq Accounted
<1>1. PICK b \in Nat : /\ OnGrid(w, b)
                       /\ b <= ChunkEnd /\ ChunkEnd < b + MaxDays
                       /\ Within(Quotes, b, ChunkEnd) \subseteq Accounted
    BY DEF MarkInv
<1>2. OnGrid(w, cur) /\ cur \in Nat
    BY DEF LoopInv, InLoop, TypeOK
<1>3. ChunkEnd \in Int /\ cur <= ChunkEnd /\ ChunkEnd < cur + MaxDays
    BY ChunkIsInWindow
<1>4. b = cur
    BY <1>1, <1>2, <1>3, GridChunksAreApart
<1> QED
    BY <1>1, <1>4

\* Every step keeps the types, whatever the conditions.
LEMMA TypesKept == TypeOK /\ [Next]_vars => TypeOK'
<1> SUFFICES ASSUME TypeOK, [Next]_vars PROVE TypeOK'
    OBVIOUS
<1> USE CoverageAssumption
<1>1. Quoted \subseteq Quotes
    BY DEF Quoted
<1>2. ASSUME InLoop, NextChunk PROVE cur' \in Nat /\ ChunkEnd \in Nat
    BY <1>2, ChunkIsInWindow DEF NextChunk, TypeOK
<1>3. CASE NextBar
    BY <1>3 DEF NextBar, TypeOK, run, stored, Quotes
<1>4. CASE NextDay
    BY <1>4 DEF NextDay, TypeOK, run, stored, Quotes
<1>5. ASSUME NEW s \in Starts, StartRun(s) PROVE TypeOK'
    <2>1. from' \in Nat /\ to' \in Int
        BY <1>5, Bounded DEF StartRun, TypeOK
    <2>2. due' \subseteq Quotes
        BY <1>1, <1>5 DEF StartRun, Within
    <2> QED
        BY <1>5, <2>1, <2>2 DEF StartRun, TypeOK, clock, stored, Quotes
<1>6. CASE SkipChunk
    BY <1>2, <1>6 DEF SkipChunk, TypeOK, clock, stored, Quotes
<1>7. ASSUME NEW failed, StoreChunk(failed) PROVE TypeOK'
    <2>1. /\ Within(Quoted, cur, ChunkEnd) \subseteq Quotes
          /\ Within(Quotes, cur, ChunkEnd) \subseteq Quotes
        BY <1>1 DEF Within
    <2>2. loaded' \subseteq Quotes /\ unlisted' \subseteq Quotes /\ late' \subseteq Quotes
        BY <2>1, <1>7 DEF StoreChunk, TypeOK
    <2> QED
        BY <1>2, <1>7, <2>2 DEF StoreChunk, TypeOK, clock, Quotes
<1>8. CASE EmptyChunk
    BY <1>2, <1>8 DEF EmptyChunk, TypeOK, clock, stored, Quotes
<1>9. CASE FailChunk
    BY <1>2, <1>9 DEF FailChunk, TypeOK, clock, stored, Quotes
<1>10. CASE EndRun
    BY <1>10 DEF EndRun, TypeOK, clock, stored, Quotes
<1>11. CASE Crash
    BY <1>11 DEF Crash, TypeOK, clock, stored, Quotes
<1>12. CASE UNCHANGED vars
    BY <1>12 DEF TypeOK, vars, clock, stored, run, Quotes
<1> QED
    BY <1>3, <1>4, <1>5, <1>6, <1>7, <1>8, <1>9, <1>10, <1>11, <1>12 DEF Next

-----------------------------------------------------------------------------
(* Runs wherever they begin *)

\* What is remembered has been reached, what is late is of a remembered day, and
\* the loop stays among the wanted days that have been reached.
LEMMA ReachKept ==
    ASSUME ReachInv, [Next]_vars
    PROVE  ReachInv'
<1> USE CoverageAssumption DEF ReachInv
<1>1. TypeOK'
    BY TypesKept
<1>2. today \in Nat /\ to \in Int /\ from \in Nat /\ cur \in Nat
    BY DEF TypeOK
<1>3. CASE NextBar \/ NextDay
    <2>1. /\ UNCHANGED <<marks, late, pc, from, to, cur>>
          /\ today' \in Nat /\ today <= today'
        BY <1>2, <1>3 DEF NextBar, NextDay, run, stored, TypeOK
    <2>2. \A x \in Int : x <= today - Lag => x <= today' - Lag
        <3>1. \A a, b, c, d \in Int : a <= b - d /\ b <= c => a <= c - d
            OBVIOUS
        <3>2. Lag \in Int /\ today \in Int /\ today' \in Int
            BY <1>2, <2>1
        <3> QED
            BY <2>1, <3>1, <3>2
    <2>3. WindowInv'
        BY <1>2, <2>1, <2>2 DEF WindowInv
    <2>4. MarksAreReached'
        <3>1. \A m \in marks : m \in Int
            BY DEF TypeOK
        <3> QED
            BY <2>1, <2>2, <3>1 DEF MarksAreReached
    <2> QED
        BY <1>1, <2>3, <2>4
<1>4. ASSUME NEW s \in Starts, StartRun(s) PROVE ReachInv'
    <2>1. /\ from' = Later(First, s) /\ to' = Earlier(Last, today - Lag)
          /\ cur' = from' /\ UNCHANGED <<today, marks, late>>
        BY <1>4 DEF StartRun, clock, stored
    <2>2. First <= from' /\ from' \in Nat
        BY <2>1, Bounded
    <2>3. to' <= Last /\ to' <= today' - Lag
        BY <1>2, <2>1, Bounded
    <2> QED
        BY <1>1, <2>1, <2>2, <2>3 DEF WindowInv, MarksAreReached
<1>5. CASE SkipChunk \/ EmptyChunk \/ FailChunk
    <2>1. /\ InLoop /\ NextChunk
          /\ UNCHANGED <<today, marks, late, pc, from, to>>
        BY <1>5 DEF SkipChunk, EmptyChunk, FailChunk, clock, stored
    <2>2. WindowInv'
        BY <2>1, StepStaysInWindow
    <2> QED
        BY <1>1, <2>1, <2>2 DEF MarksAreReached
<1>6. ASSUME NEW failed, StoreChunk(failed) PROVE ReachInv'
    <2>1. /\ InLoop /\ NextChunk /\ marks' = marks \union {ChunkEnd}
          /\ late' = late \union (Within(Quotes, cur, ChunkEnd) \ Within(Quoted, cur, ChunkEnd))
          /\ UNCHANGED <<today, pc, from, to>>
        BY <1>6 DEF StoreChunk, clock
    <2>2. WindowInv'
        BY <2>1, StepStaysInWindow
    <2>3. ChunkEnd \in Nat /\ cur <= ChunkEnd /\ ChunkEnd <= to
        BY <2>1, ChunkIsInWindow
    <2>4. First <= from /\ from <= cur /\ to <= Last /\ to <= today - Lag
        BY <2>1 DEF InLoop, WindowInv
    <2>5. First <= ChunkEnd /\ ChunkEnd <= Last /\ ChunkEnd <= today - Lag
        BY <1>2, <2>3, <2>4
    <2>6. ASSUME NEW q \in Within(Quotes, cur, ChunkEnd), q \notin Within(Quoted, cur, ChunkEnd)
          PROVE  q[1] = ChunkEnd
        <3>1. q \in Quotes /\ q[1] \in Nat /\ q[1] <= ChunkEnd
            BY <2>6 DEF Within, Quotes
        <3>2. ~(q[1] < today)
            BY <2>6, <3>1 DEF Within, Quoted
        <3> QED
            BY <1>2, <2>3, <2>5, <3>1, <3>2
    <2>7. MarksAreReached'
        BY <2>1, <2>5, <2>6 DEF MarksAreReached
    <2> QED
        BY <1>1, <2>2, <2>7
<1>7. CASE EndRun \/ Crash
    BY <1>1, <1>7 DEF EndRun, Crash, clock, stored, WindowInv, MarksAreReached
<1>8. CASE UNCHANGED vars
    BY <1>1, <1>8 DEF vars, clock, stored, run, WindowInv, MarksAreReached
<1> QED
    BY <1>3, <1>4, <1>5, <1>6, <1>7, <1>8 DEF Next

-----------------------------------------------------------------------------
(* Runs that begin on one grid *)

LEMMA InitHolds ==
    ASSUME NEW w \in Nat
    PROVE  Init => IInv(w)
<1> SUFFICES ASSUME Init PROVE IInv(w)
    OBVIOUS
<1>1. TypeOK
    BY CoverageAssumption DEF Init, TypeOK
<1> QED
    BY <1>1 DEF Init, IInv, ReachInv, WindowInv, MarksAreReached, MarkInv, LoopInv,
                ClearRunLeavesNoGap

\* Time only adds to what has been quoted.
LEMMA TimeKeeps ==
    ASSUME NEW w \in Nat, IInv(w), ReachInv', NextBar \/ NextDay
    PROVE  IInv(w)'
<1>1. UNCHANGED <<marks, loaded, unlisted, late, pc, from, to, cur, due, clear>>
    BY DEF NextBar, NextDay, run, stored
<1>2. Accounted' = Accounted
    BY <1>1 DEF Accounted
<1>3. MarkInv(w)'
    BY <1>1, <1>2, MarksStayTrue DEF IInv
<1>4. Quoted \subseteq Quoted'
    <2>1. /\ today \in Nat /\ today' \in Nat /\ bar \in Nat /\ bar' \in Nat
          /\ today' > today \/ (today' = today /\ bar' > bar)
        BY DEF NextBar, NextDay, IInv, ReachInv, TypeOK
    <2>2. \A q \in Quotes : q[1] \in Nat /\ q[2] \in Nat
        <3>1. Trading \subseteq Nat /\ 1 .. Bars \subseteq Nat
            BY CoverageAssumption
        <3> QED
            BY <3>1 DEF Quotes
    <2> QED
        BY <2>1, <2>2 DEF Quoted, Quotes
<1>5. LoopInv(w)'
    BY <1>1, <1>2, <1>4 DEF IInv, LoopInv, OnGrid, Within
<1> QED
    BY <1>1, <1>2, <1>3, <1>5 DEF IInv, ClearRunLeavesNoGap

\* A run begins on the grid.
LEMMA StartKeeps ==
    ASSUME NEW w, AlignedStarts(w), IInv(w), ReachInv', NEW s \in Starts, StartRun(s)
    PROVE  IInv(w)'
<1>1. /\ w \in Nat /\ OnGrid(w, Later(First, s))
      /\ pc' = "chunk" /\ from' = Later(First, s) /\ cur' = from'
      /\ due' = Within(Quoted, from', to')
      /\ UNCHANGED <<today, bar, marks>> /\ Accounted' = Accounted
    BY DEF StartRun, clock, stored, AlignedStarts, Accounted
<1>2. MarkInv(w)'
    BY <1>1, MarksStayTrue DEF IInv
<1>3. OnGrid(w, cur)'
    BY <1>1 DEF OnGrid
<1>4. due' \subseteq Within(Quoted, from, to)'
    BY <1>1 DEF Within, Quoted, Quotes
<1>5. \A q \in due' : ~(q[1] < cur')
    <2>1. \A q \in due' : q[1] \in Nat /\ from' <= q[1]
        BY <1>1, CoverageAssumption DEF Within, Quoted, Quotes
    <2>2. cur' \in Nat
        BY DEF ReachInv, TypeOK
    <2> QED
        BY <1>1, <2>1, <2>2
<1>6. LoopInv(w)'
    BY <1>3, <1>4, <1>5 DEF LoopInv
<1> QED
    BY <1>1, <1>2, <1>6 DEF IInv, ClearRunLeavesNoGap

\* A chunk that is skipped, empty or failed.
LEMMA PassKeeps ==
    ASSUME NEW w \in Nat, IInv(w), ReachInv',
           SkipChunk \/ EmptyChunk \/ FailChunk
    PROVE  IInv(w)'
<1>1. /\ InLoop /\ NextChunk /\ TypeOK
      /\ UNCHANGED <<today, bar, marks, pc, from, to, due>>
      /\ Accounted' = Accounted
    BY DEF SkipChunk, EmptyChunk, FailChunk, clock, stored, IInv, ReachInv, Accounted
<1>2. clear' => clear /\ Within(due, cur, ChunkEnd) \subseteq Accounted'
    <2>1. due \subseteq Quoted /\ due \subseteq Quotes
        BY <1>1 DEF IInv, LoopInv, InLoop, Within, Quoted
    <2>2. CASE SkipChunk
        <3>1. Within(Quotes, cur, ChunkEnd) \subseteq Accounted
            BY <1>1, <2>2, SkippedIsAccounted DEF SkipChunk, IInv
        <3> QED
            BY <1>1, <2>1, <2>2, <3>1 DEF SkipChunk, Within
    <2>3. CASE EmptyChunk
        BY <2>1, <2>3 DEF EmptyChunk, Within
    <2>4. CASE FailChunk
        BY <2>4 DEF FailChunk
    <2> QED
        BY <2>2, <2>3, <2>4
<1>3. MarkInv(w)'
    BY <1>1, MarksStayTrue DEF IInv
<1>4. LoopInv(w)'
    BY <1>1, <1>2, StepKeepsLoop DEF IInv
<1>5. ClearRunLeavesNoGap'
    BY <1>1 DEF InLoop, ClearRunLeavesNoGap
<1> QED
    BY <1>3, <1>4, <1>5 DEF IInv

\* What a store misses is noted, so nothing on its days is unaccounted for.
LEMMA StoreKeeps ==
    ASSUME NEW w \in Nat, IInv(w), ReachInv', NEW failed, StoreChunk(failed)
    PROVE  IInv(w)'
<1>1. /\ InLoop /\ NextChunk /\ TypeOK
      /\ marks' = marks \union {ChunkEnd}
      /\ UNCHANGED <<today, bar, pc, from, to, due, clear>>
    BY DEF StoreChunk, clock, IInv, ReachInv
<1>2. OnGrid(w, cur) /\ cur \in Nat
    BY <1>1 DEF IInv, LoopInv, InLoop, TypeOK
<1>3. /\ ChunkEnd \in Nat /\ cur <= ChunkEnd /\ ChunkEnd <= to
      /\ ChunkEnd < cur + MaxDays
    BY <1>1, ChunkIsInWindow
<1>4. /\ Accounted \subseteq Accounted'
      /\ Within(Quotes, cur, ChunkEnd) \subseteq Accounted'
    BY DEF StoreChunk, Accounted
<1>5. MarkInv(w)'
    <2> SUFFICES ASSUME NEW m \in marks'
                 PROVE  \E b \in Nat :
                            /\ OnGrid(w, b)
                            /\ b <= m /\ m < b + MaxDays
                            /\ Within(Quotes, b, m) \subseteq Accounted'
        BY DEF MarkInv, OnGrid, Within, Quotes
    <2>1. CASE m = ChunkEnd
        BY <1>2, <1>3, <1>4, <2>1
    <2>2. CASE m \in marks
        BY <1>4, <2>2 DEF IInv, MarkInv
    <2> QED
        BY <1>1, <2>1, <2>2
<1>6. LoopInv(w)'
    <2>1. due \subseteq Quotes
        BY <1>1 DEF IInv, LoopInv, InLoop, Within, Quoted
    <2>2. Within(due, cur, ChunkEnd) \subseteq Accounted'
        BY <1>4, <2>1 DEF Within
    <2> QED
        BY <1>1, <1>4, <2>2, StepKeepsLoop DEF IInv
<1>7. ClearRunLeavesNoGap'
    BY <1>1 DEF InLoop, ClearRunLeavesNoGap
<1> QED
    BY <1>5, <1>6, <1>7 DEF IInv

\* The loop has gone past its window: nothing of the window is left.
LEMMA EndKeeps ==
    ASSUME NEW w \in Nat, IInv(w), ReachInv', EndRun \/ Crash
    PROVE  IInv(w)'
<1>1. /\ pc = "chunk" /\ pc' \in {"idle", "done"}
      /\ UNCHANGED <<today, bar, marks, from, to, cur, due, clear>>
      /\ Accounted' = Accounted
      /\ pc' = "done" => cur > to
    BY DEF EndRun, Crash, clock, stored, Accounted
<1>2. MarkInv(w)'
    BY <1>1, MarksStayTrue DEF IInv
<1>3. LoopInv(w)'
    BY <1>1 DEF LoopInv
<1>4. ASSUME pc' = "done", clear', NEW q \in due PROVE q \in Accounted
    <2>1. q[1] \in Nat /\ q[1] <= to /\ cur > to /\ cur \in Nat /\ to \in Int
        BY <1>1, <1>4, CoverageAssumption
           DEF IInv, ReachInv, LoopInv, Within, Quoted, Quotes, TypeOK
    <2>2. q[1] < cur
        BY <2>1
    <2> QED
        BY <1>1, <1>4, <2>2 DEF IInv, LoopInv
<1> QED
    BY <1>1, <1>2, <1>3, <1>4 DEF IInv, ClearRunLeavesNoGap

-----------------------------------------------------------------------------
(* The theorems *)

\* Every variable keeps its type.
THEOREM TypeCorrect == Spec => []TypeOK
<1>1. Init => TypeOK
    BY CoverageAssumption DEF Init, TypeOK
<1> QED
    BY <1>1, TypesKept, PTL DEF Spec

\* No day is remembered before the runs reach it, and only bars of remembered days
\* are late, wherever and whenever the runs begin and end.
THEOREM Reached == Spec => []MarksAreReached
<1>1. Init => ReachInv
    BY CoverageAssumption DEF Init, ReachInv, TypeOK, WindowInv, MarksAreReached
<1>2. ReachInv => MarksAreReached
    BY DEF ReachInv
<1> QED
    BY <1>1, <1>2, ReachKept, PTL DEF Spec

\* If the windows begin on one grid, IInv holds in every reachable state.
THEOREM Invariance ==
    ASSUME NEW CONSTANT w, AlignedStarts(w)
    PROVE  Spec => []IInv(w)
<1>1. w \in Nat
    BY DEF AlignedStarts
<1>2. Init => IInv(w)
    BY <1>1, InitHolds
<1>3. IInv(w) /\ [Next]_vars => IInv(w)'
    <2> SUFFICES ASSUME IInv(w), [Next]_vars PROVE IInv(w)'
        OBVIOUS
    <2>1. ReachInv'
        BY ReachKept DEF IInv
    <2>2. CASE NextBar \/ NextDay
        BY <1>1, <2>1, <2>2, TimeKeeps
    <2>3. ASSUME NEW s \in Starts, StartRun(s) PROVE IInv(w)'
        BY <2>1, <2>3, StartKeeps
    <2>4. CASE SkipChunk \/ EmptyChunk \/ FailChunk
        BY <1>1, <2>1, <2>4, PassKeeps
    <2>5. CASE \E failed \in SUBSET (cur .. ChunkEnd) : StoreChunk(failed)
        BY <1>1, <2>1, <2>5, StoreKeeps
    <2>6. CASE EndRun \/ Crash
        BY <1>1, <2>1, <2>6, EndKeeps
    <2>7. CASE UNCHANGED vars
        <3>1. /\ UNCHANGED <<today, bar, marks, pc, from, to, cur, due, clear>>
              /\ Accounted' = Accounted
            BY <2>7 DEF vars, clock, stored, run, Accounted
        <3>2. MarkInv(w)'
            BY <1>1, <3>1, MarksStayTrue DEF IInv
        <3> QED
            BY <2>1, <3>1, <3>2 DEF IInv, LoopInv, ClearRunLeavesNoGap, OnGrid,
                              Within, Quoted, Quotes
    <2> QED
        BY <2>2, <2>3, <2>4, <2>5, <2>6, <2>7 DEF Next
<1> QED
    BY <1>2, <1>3, PTL DEF Spec

\* A run without failures leaves no gap but what the stores missed, whatever happened
\* before it.
THEOREM NoGap ==
    ASSUME NEW CONSTANT w, AlignedStarts(w)
    PROVE  Spec => []ClearRunLeavesNoGap
<1>1. IInv(w) => ClearRunLeavesNoGap
    BY DEF IInv
<1> QED
    BY Invariance, <1>1, PTL

\* A chunk is skipped for its last day alone, and nothing more is lost by it.
THEOREM SkipIsSafe ==
    ASSUME NEW CONSTANT w, AlignedStarts(w)
    PROVE  Spec => []SkippedChunkIsAccounted
<1>1. IInv(w) => SkippedChunkIsAccounted
    BY SkippedIsAccounted DEF AlignedStarts, IInv, ReachInv, SkippedChunkIsAccounted
<1> QED
    BY Invariance, <1>1, PTL

\* The condition is met by one start_date for all runs,
THEOREM OneStartIsAligned ==
    ASSUME NEW s, Starts = {s}
    PROVE  AlignedStarts(Later(First, s))
<1>1. Later(First, s) \in Nat
    BY CoverageAssumption, Bounded
<1> QED
    BY <1>1, FirstIsOnGrid DEF AlignedStarts

\* and by any that are not after the first wanted day.
THEOREM EarlyStartsAreAligned ==
    ASSUME \A s \in Starts : s <= First
    PROVE  AlignedStarts(First)
<1>1. \A s \in Starts : Later(First, s) = First
    BY CoverageAssumption DEF Later
<1> QED
    BY <1>1, CoverageAssumption, FirstIsOnGrid DEF AlignedStarts
=============================================================================

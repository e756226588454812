------------------------- MODULE ChainFilterProofs -------------------------
(***************************************************************************)
(* The checks of ChainFilter sort every frame as their specification says. *)
(* Between two checks the rows that are left are those that fail none of   *)
(* the checks so far (SplitInv); the rest follows from it step by step.    *)
(***************************************************************************)
EXTENDS ChainFilter, TLAPS

\* The checks, one by one.
LEMMA CheckAt ==
    /\ Len(Checks) = 12 /\ DOMAIN Checks = 1 .. 12 /\ Done = 13
    /\ Checks[1] = "DTE_BAND" /\ Checks[2] = "NO_QUOTE" /\ Checks[3] = "CROSSED"
    /\ Checks[4] = "SUBPENNY" /\ Checks[5] = "SPREAD_HARD" /\ Checks[6] = "BAD_MID"
    /\ Checks[7] = "ZERO_IV" /\ Checks[8] = "SPOT_NA" /\ Checks[9] = "INTRINSIC"
    /\ Checks[10] = "DELTA_BAND" /\ Checks[11] = "LOW_OI" /\ Checks[12] = "MONOTONICITY"
BY DEF Checks, Done

\* Every check has a code, and no two the same.
LEMMA CodeOf ==
    /\ \A i \in 1 .. 12 : Checks[i] \in Codes
    /\ \A i, j \in 1 .. 12 : Checks[i] = Checks[j] => i = j
<1>1. \A i \in 1 .. 12 : Checks[i] \in Codes
  BY CheckAt DEF Codes
<1>2. \A i, j \in 1 .. 12 : Checks[i] = Checks[j] => i = j
  <2>1. SUFFICES ASSUME NEW i \in 1 .. 12, NEW j \in 1 .. 12, i < j
                 PROVE  Checks[i] # Checks[j]
    OBVIOUS
  <2>2. i \in {1, 2, 3, 4, 5, 6, 7, 8, 9, 10, 11}
    BY <2>1
  <2>3. j \in {2, 3, 4, 5, 6, 7, 8, 9, 10, 11, 12}
    BY <2>1
  <2> QED  BY <2>1, <2>2, <2>3, CheckAt
<1> QED  BY <1>1, <1>2

\* Who reaches the next check: those that do not fail this one.
LEMMA ReachNext ==
    ASSUME NEW i \in 1 .. 12
    PROVE  Reaching(i + 1) = {r \in Reaching(i) : ~FailsAlone(r, Checks[i])}
<1>1. \A j \in DOMAIN Checks : j < i + 1 <=> j < i \/ j = i
  BY CheckAt
<1>2. i \in DOMAIN Checks
  BY CheckAt
<1> QED  BY <1>1, <1>2, CheckAt DEF Reaching

\* Later checks see fewer rows.
LEMMA ReachFewer ==
    ASSUME NEW i \in 1 .. 13, NEW j \in 1 .. i
    PROVE  Reaching(i) \subseteq Reaching(j)
BY CheckAt DEF Reaching

\* What filing some of the rows that are left keeps, whatever the check.
LEMMA FileStep ==
    ASSUME TypeOK, SplitInv, EveryRowHasOneFate, CodesNameTheFirstFailure,
           step \in 1 .. 12, frame' = frame,
           NEW rows, rows \subseteq result, Reject(rows, Checks[step]),
           \A r \in rows : Checks[step] # "MONOTONICITY" => FailsAlone(r, Checks[step])
    PROVE  /\ result' \subseteq frame' /\ quar' \subseteq frame' \X Codes
           /\ step' \in 0 .. Done /\ step' = step + 1
           /\ EveryRowHasOneFate' /\ CodesNameTheFirstFailure'
<1> DEFINE code == Checks[step]
<1>1. code \in Codes
  BY CodeOf
<1>2. /\ result' = result \ rows
      /\ quar' = quar \union {<<r, code>> : r \in rows}
      /\ step' = step + 1
  BY DEF Reject
<1>3. result = Reaching(step)
  BY CheckAt DEF SplitInv
<1>4. result' \subseteq frame' /\ quar' \subseteq frame' \X Codes /\ step' \in 0 .. Done
  <2>1. result' \subseteq frame' /\ step' \in 0 .. Done
    BY <1>2, CheckAt DEF TypeOK
  <2>2. {<<r, code>> : r \in rows} \subseteq frame \X Codes
    BY <1>1 DEF TypeOK
  <2> QED  BY <1>2, <2>1, <2>2 DEF TypeOK
<1>5. EveryRowHasOneFate'
  <2>1. SUFFICES ASSUME NEW r \in frame, "DTE_BAND" \notin r.fails
                 PROVE  \/ r \in result' /\ \A c \in Codes : <<r, c>> \notin quar'
                        \/ r \notin result' /\ \E c \in Codes :
                             \A other \in Codes : <<r, other>> \in quar' <=> other = c
    BY DEF EveryRowHasOneFate
  <2>2. CASE r \in rows
    <3>1. \A c \in Codes : <<r, c>> \notin quar
      BY <2>1, <2>2 DEF EveryRowHasOneFate
    <3>2. \A other \in Codes : <<r, other>> \in quar' <=> other = code
      BY <1>2, <2>2, <3>1
    <3> QED  BY <1>1, <1>2, <2>2, <3>2
  <2>3. CASE r \notin rows
    <3>1. \A c \in Codes : <<r, c>> \in quar' <=> <<r, c>> \in quar
      BY <1>2, <2>3
    <3>2. r \in result' <=> r \in result
      BY <1>2, <2>3
    <3> QED  BY <2>1, <3>1, <3>2 DEF EveryRowHasOneFate
  <2> QED  BY <2>2, <2>3
<1>6. CodesNameTheFirstFailure'
  <2>1. SUFFICES ASSUME NEW entry \in quar'
                 PROVE  /\ entry[2] \notin {"DTE_BAND", "BAD_MID"}
                        /\ entry[2] # "MONOTONICITY" =>
                             \E i \in DOMAIN Checks :
                                /\ Checks[i] = entry[2]
                                /\ entry[1] \in Reaching(i)
                                /\ FailsAlone(entry[1], entry[2])
    BY DEF CodesNameTheFirstFailure, Reaching
  <2>2. CASE entry \in quar
    BY <2>2 DEF CodesNameTheFirstFailure
  <2>3. ASSUME NEW r \in rows, entry = <<r, code>>
        PROVE  /\ entry[2] \notin {"DTE_BAND", "BAD_MID"}
               /\ entry[2] # "MONOTONICITY" =>
                    \E i \in DOMAIN Checks :
                       /\ Checks[i] = entry[2]
                       /\ entry[1] \in Reaching(i)
                       /\ FailsAlone(entry[1], entry[2])
    <3>1. r \in frame /\ r \in Row /\ r \in Reaching(step)
      BY <1>3 DEF TypeOK
    <3>2. "DTE_BAND" \notin r.fails
      BY <3>1 DEF Reaching
    <3>3. code # "DTE_BAND"
      BY <2>3, <3>2 DEF FailsAlone
    <3>4. code # "BAD_MID"
      <4>1. SUFFICES ASSUME code = "BAD_MID" PROVE FALSE
        OBVIOUS
      <4>2. step = 6
        BY <4>1, CodeOf, CheckAt
      <4>3. "BAD_MID" \in r.fails
        BY <2>3, <4>1 DEF FailsAlone
      <4>4. FailsAlone(r, Checks[2])
        BY <3>1, <4>3, CheckAt DEF FailsAlone, Row
      <4> QED  BY <3>1, <4>2, <4>4, CheckAt DEF Reaching
    <3> QED  BY <2>3, <3>1, <3>3, <3>4, CheckAt
  <2> QED  BY <1>2, <2>2, <2>3
<1> QED  BY <1>2, <1>4, <1>5, <1>6
-----------------------------------------------------------------------------
(* One lemma for each action *)

LEMMA InitStep == Init => IInv
<1> SUFFICES ASSUME Init PROVE IInv
  OBVIOUS
<1>1. TypeOK
  <2>1. frame \in SUBSET Row
    BY FrameAssumption DEF Init
  <2>2. step \in 0 .. Done
    BY CheckAt DEF Init
  <2> QED  BY <2>1, <2>2 DEF Init, TypeOK
<1> QED  BY <1>1, CheckAt DEF Init, IInv, SplitInv, EveryRowHasOneFate,
              CodesNameTheFirstFailure, CleanRowsAreSpecified

LEMMA PrefilterStep == ASSUME IInv, Prefilter PROVE IInv'
<1>1. step = 0 /\ step' = 1 /\ result = frame /\ quar = {} /\ frame' = frame
      /\ quar' = quar /\ belly' = belly /\ raised' = raised
      /\ result' = {r \in frame : "DTE_BAND" \notin r.fails}
  BY DEF IInv, SplitInv, Prefilter, Failing
<1>2. TypeOK'
  BY <1>1, CheckAt DEF IInv, TypeOK
<1>3. Reaching(1)' = {r \in frame : "DTE_BAND" \notin r.fails}
  BY <1>1, CheckAt DEF Reaching
<1>4. SplitInv'
  BY <1>1, <1>3, CheckAt DEF SplitInv
<1>5. EveryRowHasOneFate' /\ CodesNameTheFirstFailure' /\ CleanRowsAreSpecified'
  BY <1>1, CheckAt DEF EveryRowHasOneFate, CodesNameTheFirstFailure, CleanRowsAreSpecified
<1> QED  BY <1>2, <1>4, <1>5 DEF IInv

LEMMA RejectRowsStep == ASSUME IInv, RejectRows PROVE IInv'
<1>1. /\ TypeOK /\ SplitInv /\ step \in 1 .. 12 /\ frame' = frame
      /\ belly' = belly /\ raised' = raised /\ Reject(Failing(Checks[step]), Checks[step])
      /\ Checks[step] \notin {"SPREAD_HARD", "INTRINSIC", "MONOTONICITY"}
  BY CheckAt DEF IInv, RejectRows
<1>2. step # 5 /\ step # 9 /\ step # 12
  BY <1>1, CheckAt
<1>3. \A r : FailsAlone(r, Checks[step]) <=> Checks[step] \in r.fails
  BY <1>1 DEF FailsAlone
<1>4. /\ result' \subseteq frame' /\ quar' \subseteq frame' \X Codes
      /\ step' \in 0 .. Done /\ step' = step + 1
      /\ EveryRowHasOneFate' /\ CodesNameTheFirstFailure'
  <2>1. Failing(Checks[step]) \subseteq result
    BY DEF Failing
  <2>2. \A r \in Failing(Checks[step]) : FailsAlone(r, Checks[step])
    BY <1>3 DEF Failing
  <2> QED  BY <1>1, <2>1, <2>2, FileStep DEF IInv
<1>5. TypeOK'
  BY <1>1, <1>4 DEF TypeOK
<1>6. result' = Reaching(step + 1)
  BY <1>1, <1>3, ReachNext, CheckAt DEF Reject, Failing, SplitInv
<1>7. \A i : Reaching(i)' = Reaching(i)
  BY <1>1 DEF Reaching
<1>8. SplitInv'
  BY <1>1, <1>2, <1>4, <1>6, <1>7, CheckAt DEF SplitInv
<1>9. CleanRowsAreSpecified'
  BY <1>1, <1>2, <1>4, CheckAt DEF CleanRowsAreSpecified
<1> QED  BY <1>4, <1>5, <1>8, <1>9 DEF IInv

LEMMA RejectSpreadsStep == ASSUME IInv, RejectSpreads PROVE IInv'
<1>1. /\ TypeOK /\ SplitInv /\ step = 5 /\ frame' = frame /\ raised' = raised
      /\ Checks[step] = "SPREAD_HARD"
      /\ Reject(Failing("SPREAD_HARD"), "SPREAD_HARD")
      /\ belly' = {r \in result \ Failing("SPREAD_HARD") : r.wide}
  BY CodeOf, CheckAt DEF IInv, RejectSpreads
<1>2. \A r : FailsAlone(r, Checks[step]) <=> Checks[step] \in r.fails
  BY <1>1 DEF FailsAlone
<1>3. /\ result' \subseteq frame' /\ quar' \subseteq frame' \X Codes
      /\ step' \in 0 .. Done /\ step' = 6
      /\ EveryRowHasOneFate' /\ CodesNameTheFirstFailure'
  <2>1. Failing(Checks[step]) \subseteq result
    BY DEF Failing
  <2>2. \A r \in Failing(Checks[step]) : FailsAlone(r, Checks[step])
    BY <1>2 DEF Failing
  <2> QED  BY <1>1, <2>1, <2>2, FileStep DEF IInv
<1>4. result' = Reaching(6)
  <2>1. Reaching(6) = {r \in Reaching(5) : ~FailsAlone(r, Checks[5])}
    BY ReachNext
  <2>2. result = Reaching(5)
    BY <1>1, CheckAt DEF SplitInv
  <2> QED  BY <1>1, <1>2, <2>1, <2>2 DEF Reject, Failing
<1>5. belly' = {r \in Reaching(6) : r.wide}
  BY <1>1, <1>4 DEF Reject
<1>6. TypeOK'
  BY <1>1, <1>3, <1>5 DEF TypeOK, Reaching
<1>7. Reaching(6)' = Reaching(6)
  BY <1>1 DEF Reaching
<1>8. SplitInv' /\ CleanRowsAreSpecified'
  BY <1>3, <1>4, <1>5, <1>7, CheckAt DEF SplitInv, CleanRowsAreSpecified
<1> QED  BY <1>3, <1>6, <1>8 DEF IInv

LEMMA RejectIntrinsicStep == ASSUME IInv, RejectIntrinsic PROVE IInv'
<1>1. /\ TypeOK /\ SplitInv /\ step = 9 /\ frame' = frame /\ belly' = belly
      /\ Checks[step] = "INTRINSIC"
  BY CodeOf, CheckAt DEF IInv, RejectIntrinsic
<1> DEFINE failing == Failing("INTRINSIC") \ belly
<1>2. CASE /\ raised' = TRUE
           /\ UNCHANGED <<result, quar, step>>
  <2>1. TypeOK'
    BY <1>1, <1>2, CheckAt DEF TypeOK
  <2>2. \A i : Reaching(i)' = Reaching(i)
    BY <1>1 DEF Reaching
  <2>3. SplitInv'
    BY <1>1, <1>2, <2>2, CheckAt DEF SplitInv
  <2>4. EveryRowHasOneFate' /\ CodesNameTheFirstFailure' /\ CleanRowsAreSpecified'
    BY <1>1, <1>2, <2>2, CheckAt
       DEF IInv, EveryRowHasOneFate, CodesNameTheFirstFailure, CleanRowsAreSpecified
  <2> QED  BY <2>1, <2>3, <2>4 DEF IInv
<1>3. CASE Reject(failing, "INTRINSIC") /\ UNCHANGED raised
  <2>1. result = Reaching(9) /\ belly = {r \in Reaching(6) : r.wide}
    BY <1>1, CheckAt DEF SplitInv
  <2>2. \A r \in result : r \in belly <=> r.wide
    BY <2>1, ReachFewer
  <2>3. \A r \in result : r \in failing <=> FailsAlone(r, "INTRINSIC")
    BY <2>2 DEF Failing, FailsAlone
  <2>4. failing \subseteq result
    BY DEF Failing
  <2>5. /\ result' \subseteq frame' /\ quar' \subseteq frame' \X Codes
        /\ step' \in 0 .. Done /\ step' = 10
        /\ EveryRowHasOneFate' /\ CodesNameTheFirstFailure'
    <3> HIDE DEF failing
    <3>1. \A r \in failing : Checks[step] # "MONOTONICITY" => FailsAlone(r, Checks[step])
      BY <1>1, <2>3, <2>4
    <3>2. Reject(failing, Checks[step])
      BY <1>1, <1>3
    <3> QED  BY <1>1, <2>4, <3>1, <3>2, FileStep DEF IInv
  <2>6. TypeOK'
    BY <1>1, <1>3, <2>5 DEF TypeOK
  <2>7. result' = Reaching(10)
    <3>1. Reaching(10) = {r \in Reaching(9) : ~FailsAlone(r, Checks[9])}
      BY ReachNext
    <3> HIDE DEF failing
    <3> QED  BY <1>1, <1>3, <2>1, <2>3, <3>1 DEF Reject
  <2>8. \A i : Reaching(i)' = Reaching(i)
    BY <1>1 DEF Reaching
  <2>9. SplitInv' /\ CleanRowsAreSpecified'
    BY <1>1, <2>1, <2>5, <2>7, <2>8, CheckAt DEF SplitInv, CleanRowsAreSpecified
  <2> QED  BY <2>5, <2>6, <2>9 DEF IInv
<1> QED  BY <1>2, <1>3 DEF RejectIntrinsic

LEMMA RejectKinksStep == ASSUME IInv, RejectKinks PROVE IInv'
<1> DEFINE kinked == {r \in result : Kinked(r, result)}
<1>1. /\ TypeOK /\ SplitInv /\ step = 12 /\ frame' = frame /\ belly' = belly
      /\ raised' = raised /\ Reject(kinked, Checks[step])
      /\ Checks[step] = "MONOTONICITY"
  BY CodeOf, CheckAt DEF IInv, RejectKinks
<1>2. kinked \subseteq result
  OBVIOUS
<1>3. /\ result' \subseteq frame' /\ quar' \subseteq frame' \X Codes
      /\ step' \in 0 .. Done /\ step' = 13
      /\ EveryRowHasOneFate' /\ CodesNameTheFirstFailure'
  <2> HIDE DEF kinked
  <2> QED  BY <1>1, <1>2, FileStep DEF IInv
<1>4. TypeOK'
  BY <1>1, <1>3 DEF TypeOK
<1>5. result = Reaching(12)
  BY <1>1, CheckAt DEF SplitInv
<1>6. Reaching(13) = Reaching(12)
  <2>1. Reaching(13) = {r \in Reaching(12) : ~FailsAlone(r, Checks[12])}
    BY ReachNext
  <2>2. \A r \in frame : "MONOTONICITY" \notin r.fails
    BY <1>1 DEF TypeOK, Row
  <2>3. \A r \in Reaching(12) : ~FailsAlone(r, Checks[12])
    BY <2>2, CheckAt DEF FailsAlone, Reaching
  <2> QED  BY <2>1, <2>3
<1>7. result' = {r \in Reaching(13) : ~Kinked(r, Reaching(13))}
  BY <1>1, <1>5, <1>6 DEF Reject
<1>8. Reaching(13)' = Reaching(13)
  BY <1>1 DEF Reaching
<1>9. CleanRowsAreSpecified'
  BY <1>7, <1>8, CheckAt DEF CleanRowsAreSpecified, Kinked, Before
<1>10. SplitInv'
  BY <1>3, CheckAt DEF SplitInv
<1> QED  BY <1>3, <1>4, <1>9, <1>10 DEF IInv

LEMMA StutterStep == ASSUME IInv, UNCHANGED vars PROVE IInv'
<1>1. \A i : Reaching(i)' = Reaching(i)
  BY DEF vars, Reaching
<1> QED  BY <1>1 DEF vars, IInv, TypeOK, SplitInv, EveryRowHasOneFate,
              CodesNameTheFirstFailure, CleanRowsAreSpecified, Kinked, Before
-----------------------------------------------------------------------------
(* The theorems *)

\* The split of the frame is kept by every check.
THEOREM Invariance == Spec => []IInv
<1>1. IInv /\ [Next]_vars => IInv'
  BY PrefilterStep, RejectRowsStep, RejectSpreadsStep, RejectIntrinsicStep,
     RejectKinksStep, StutterStep DEF Next, Cleaned
<1> QED  BY <1>1, InitStep, PTL DEF Spec

\* The rows that are left and the flagged ones come from the frame, the filed ones
\* have a code.
THEOREM TypeCorrect == Spec => []TypeOK
BY Invariance, PTL DEF IInv

\* Quarantine, do not drop: no frame has a row inside the band that the filters lose
\* or file twice.
THEOREM OneFate == Spec => []EveryRowHasOneFate
BY Invariance, PTL DEF IInv

\* The chain of filters computes its specification on every frame.
THEOREM Specified == Spec => []CleanRowsAreSpecified
BY Invariance, PTL DEF IInv

\* The codes measure the filters: each rejected row is filed where it first fails.
THEOREM FirstFailure == Spec => []CodesNameTheFirstFailure
BY Invariance, PTL DEF IInv
=============================================================================

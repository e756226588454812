-------------------------- MODULE PersistenceProofs --------------------------
(***************************************************************************)
(* Proofs about Persistence.tla, for every set of expiries and surfaces    *)
(* and any number of minutes and calls.                                    *)
(*                                                                         *)
(* RowsInv is the inductive invariant: each row, as committed and as the   *)
(* connection sees it, is one that a call for its minute handed over, and  *)
(* the latest call for a minute has written what it got to.  No step makes *)
(* a row fall back to an older call: what fails leaves rows, it does not   *)
(* take any away that were committed.                                      *)
(***************************************************************************)
EXTENDS Persistence, WellFoundedInduction, TLAPS

-----------------------------------------------------------------------------
(* Numbers, calls and rows *)

\* A non-empty set of numbers has a least one.
LEMMA HasLeast ==
    ASSUME NEW S \in SUBSET Nat, S # {}
    PROVE  \E x \in S : \A y \in S : x <= y
<1> DEFINE R == {p \in Nat \X Nat : p[1] < p[2]}
<1>1. IsWellFoundedOn(R, Nat)
    BY NatLessThanWellFounded, Zenon DEF IsWellFoundedOn, OpToRel
<1>2. \E x \in S : \A y \in S : ~(<<y, x>> \in R)
    <2> HIDE DEF R
    <2> QED BY <1>1, WFMin, Zenon
<1>3. \A x, y \in Nat : ~(<<y, x>> \in R) => x <= y
    OBVIOUS
<1> QED
    <2> HIDE DEF R
    <2> QED BY <1>2, <1>3

\* The slice the loop takes next is the shortest left.
LEMMA LeastIsLeast ==
    ASSUME NEW S \in SUBSET Nat, S # {}
    PROVE  Least(S) \in S /\ \A y \in S : Least(S) <= y
BY HasLeast, Zenon DEF Least

\* A non-empty set of numbers with a bound has a greatest.
LEMMA GreatestIsGreatest ==
    ASSUME NEW k \in Nat, NEW S \in SUBSET (1 .. k), S # {}
    PROVE  Greatest(S) \in S /\ \A y \in S : y <= Greatest(S)
<1> DEFINE T == {z \in Nat : \E x \in S : z = k - x}
<1>1. T \in SUBSET Nat /\ T # {}
    <2>1. PICK x \in S : TRUE
        OBVIOUS
    <2>2. k - x \in Nat
        BY <2>1
    <2>3. k - x \in T
        BY <2>1, <2>2
    <2> QED BY <2>3
<1>2. PICK z \in T : \A y \in T : z <= y
    BY <1>1, HasLeast, Zenon
<1>3. PICK x \in S : z = k - x
    BY <1>2
<1>4. \A y \in S : y <= x
    <2> SUFFICES ASSUME NEW y \in S PROVE y <= x
        OBVIOUS
    <2>1. k - y \in T
        OBVIOUS
    <2> QED BY <2>1, <1>2, <1>3
<1>5. \E g \in S : \A y \in S : y <= g
    BY <1>4
<1> QED BY <1>5, Zenon DEF Greatest

\* A greatest element is the only one.
LEMMA GreatestIs ==
    ASSUME NEW k \in Nat, NEW S \in SUBSET (1 .. k), NEW x \in S,
           \A y \in S : y <= x
    PROVE  Greatest(S) = x
<1>1. Greatest(S) \in S /\ \A y \in S : y <= Greatest(S)
    BY GreatestIsGreatest
<1>2. Greatest(S) <= x /\ x <= Greatest(S)
    BY <1>1
<1>3. \A a, b \in 1 .. k : a <= b /\ b <= a => a = b
    OBVIOUS
<1>4. Greatest(S) \in 1 .. k /\ x \in 1 .. k
    BY <1>1, Zenon
<1> QED BY <1>2, <1>3, <1>4, Zenon

\* Calls as records.
LEMMA CallFacts ==
    ASSUME TypeOK
    PROVE  /\ Current \in Nat
           /\ \A c \in 1 .. Current :
                /\ calls[c] \in Call /\ calls[c].at \in Minute
                /\ calls[c].slices \in Handed
                /\ DOMAIN calls[c].slices \in SUBSET Dte
                /\ \A d \in DOMAIN calls[c].slices :
                    calls[c].slices[d] \in Kind /\ RowOf(c, d) \in Row
           /\ \A m : CallsOf(m) \in SUBSET (1 .. Current)
<1>1. Current \in Nat /\ \A c \in 1 .. Current : calls[c] \in Call
    BY DEF TypeOK, Current
<1>2. \A f \in Handed : DOMAIN f \in SUBSET Dte /\ \A d \in DOMAIN f : f[d] \in Kind
    BY DEF Handed
<1>3. \A m : CallsOf(m) \in SUBSET (1 .. Current)
    BY DEF CallsOf
<1> QED BY <1>1, <1>2, <1>3 DEF Call, Row, RowOf

\* The latest call for a minute that has one.
LEMMA LatestIs ==
    ASSUME TypeOK, NEW m, CallsOf(m) # {}
    PROVE  /\ LatestCall(m) \in CallsOf(m) /\ LatestCall(m) \in 1 .. Current
           /\ calls[LatestCall(m)].at = m
           /\ \A c \in CallsOf(m) : c <= LatestCall(m)
<1>1. /\ LatestCall(m) \in CallsOf(m)
      /\ \A c \in CallsOf(m) : c <= LatestCall(m)
    BY CallFacts, GreatestIsGreatest DEF LatestCall
<1> QED BY <1>1 DEF CallsOf

\* What the end of a call leaves as it is.
LEMMA EndCallKeeps ==
    ASSUME TypeOK, CallInv, InCall, NEW o \in {"returned", "raised"}, EndCall(o)
    PROVE  /\ calls' \in Seq(Call) /\ Current' = Current /\ ~InCall' /\ CallInv'
           /\ \A m : CallsOf(m)' = CallsOf(m) /\ LatestCall(m)' = LatestCall(m)
           /\ \A c \in 1 .. Current :
                /\ calls'[c].at = calls[c].at
                /\ calls'[c].slices = calls[c].slices
                /\ calls'[c].outcome = IF c = Current THEN o ELSE calls[c].outcome
                /\ \A d : RowOf(c, d)' = RowOf(c, d)
<1>1. Current \in Nat /\ Current \in 1 .. Current /\ calls \in Seq(Call)
    BY DEF TypeOK, InCall, Current
<1>2. /\ calls' \in Seq(Call) /\ Current' = Current
      /\ \A c \in 1 .. Current :
            calls'[c] = IF c = Current THEN [calls[c] EXCEPT !.outcome = o] ELSE calls[c]
    <2>1. calls' = [calls EXCEPT ![Current] = [calls[Current] EXCEPT !.outcome = o]]
        BY DEF EndCall
    <2>2. calls[Current] \in Call
        BY <1>1, CallFacts
    <2>3. [calls[Current] EXCEPT !.outcome = o] \in Call
        BY <2>2 DEF Call
    <2> QED BY <1>1, <2>1, <2>3 DEF Current
<1>3. \A c \in 1 .. Current :
        /\ calls'[c].at = calls[c].at
        /\ calls'[c].slices = calls[c].slices
        /\ calls'[c].outcome = IF c = Current THEN o ELSE calls[c].outcome
    <2>1. \A c \in 1 .. Current : calls[c] \in Call
        BY CallFacts
    <2> QED BY <1>2, <2>1 DEF Call
<1>7. \A c \in 1 .. Current : \A d : RowOf(c, d)' = RowOf(c, d)
    BY <1>3 DEF RowOf
<1>4. \A m : CallsOf(m)' = CallsOf(m)
    BY <1>2, <1>3 DEF CallsOf
<1>5. \A m : LatestCall(m)' = LatestCall(m)
    BY <1>4 DEF LatestCall
<1>6. ~InCall' /\ CallInv'
    BY <1>1, <1>2, <1>3 DEF InCall, CallInv
<1> QED BY <1>2, <1>3, <1>4, <1>5, <1>6, <1>7

\* What steps keep that do not touch the calls.
LEMMA OtherKeeps ==
    ASSUME TypeOK, UNCHANGED calls
    PROVE  /\ calls' \in Seq(Call) /\ Current' = Current /\ InCall' = InCall
           /\ \A m : CallsOf(m)' = CallsOf(m) /\ LatestCall(m)' = LatestCall(m)
           /\ \A c, d : RowOf(c, d)' = RowOf(c, d)
<1>1. calls' \in Seq(Call) /\ Current' = Current /\ InCall' = InCall
    BY DEF TypeOK, Current, InCall
<1>2. \A m : CallsOf(m)' = CallsOf(m)
    BY <1>1 DEF CallsOf
<1>3. \A m : LatestCall(m)' = LatestCall(m)
    BY <1>2 DEF LatestCall
<1>4. \A c, d : RowOf(c, d)' = RowOf(c, d)
    BY DEF RowOf
<1> QED BY <1>1, <1>2, <1>3, <1>4

\* A new call becomes the latest one of its minute and touches no other.
LEMMA BeginKeeps ==
    ASSUME TypeOK, CallInv, NEW m \in Minute, NEW slices \in Surfaces, Begin(m, slices)
    PROVE  /\ calls' \in Seq(Call) /\ Current' = Current + 1 /\ CallInv'
           /\ \A c \in 1 .. Current :
                /\ calls'[c] = calls[c]
                /\ \A d : RowOf(c, d)' = RowOf(c, d)
           /\ calls'[Current + 1] = [at |-> m, slices |-> slices, outcome |-> "open"]
           /\ CallsOf(m)' = CallsOf(m) \union {Current + 1}
           /\ LatestCall(m)' = Current + 1
           /\ \A other \in Minute \ {m} :
                CallsOf(other)' = CallsOf(other) /\ LatestCall(other)' = LatestCall(other)
<1> DEFINE new == [at |-> m, slices |-> slices, outcome |-> "open"]
<1>1. new \in Call
    BY PersistenceAssumption DEF Call
<1>2. /\ Current \in Nat /\ calls \in Seq(Call) /\ calls' = Append(calls, new)
      /\ todo' = DOMAIN slices /\ ~InCall
    BY DEF TypeOK, Current, Begin
<1>5. new.at = m /\ new.slices = slices /\ new.outcome = "open"
    OBVIOUS
<1> HIDE DEF new
<1>3. /\ calls' \in Seq(Call) /\ Current' = Current + 1
      /\ \A c \in 1 .. Current : calls'[c] = calls[c]
      /\ calls'[Current + 1] = new
    BY <1>1, <1>2 DEF Current
<1>4. \A c \in 1 .. Current : \A d : RowOf(c, d)' = RowOf(c, d)
    BY <1>3 DEF RowOf
<1>6. \A c \in 1 .. Current + 1 : c \in 1 .. Current \/ c = Current + 1
    BY <1>2
<1>12. \A other, c :
        c \in CallsOf(other)' <=>
            c \in CallsOf(other) \/ (c = Current + 1 /\ other = m)
    <2>1. \A other : CallsOf(other)' = {c \in 1 .. Current + 1 : calls'[c].at = other}
        BY <1>3 DEF CallsOf
    <2>2. \A other : CallsOf(other) = {c \in 1 .. Current : calls[c].at = other}
        BY DEF CallsOf
    <2>3. \A c : c \in 1 .. Current + 1 <=> c \in 1 .. Current \/ c = Current + 1
        BY <1>2
    <2>4. Current + 1 \notin 1 .. Current
        BY <1>2
    <2> QED BY <1>3, <1>5, <2>1, <2>2, <2>3, <2>4
<1>7. CallsOf(m)' = CallsOf(m) \union {Current + 1}
    BY <1>12
<1>8. \A other \in Minute \ {m} : CallsOf(other)' = CallsOf(other)
    BY <1>12
<1>9. LatestCall(m)' = Current + 1
    <2>1. /\ CallsOf(m)' \in SUBSET (1 .. Current + 1)
          /\ Current + 1 \in CallsOf(m)'
          /\ \A c \in CallsOf(m)' : c <= Current + 1
        BY <1>2, <1>7, CallFacts
    <2>2. \A k \in Nat : \A S \in SUBSET (1 .. k) :
            k \in S /\ (\A y \in S : y <= k) => Greatest(S) = k
        BY GreatestIs
    <2>3. Current + 1 \in Nat
        BY <1>2
    <2> QED BY <2>1, <2>2, <2>3, Zenon DEF LatestCall
<1>10. \A other \in Minute \ {m} : LatestCall(other)' = LatestCall(other)
    BY <1>8 DEF LatestCall
<1>11. CallInv'
    <2>1. \A c \in 1 .. Current : calls[c].outcome # "open"
        BY <1>2 DEF CallInv, InCall
    <2> QED BY <1>2, <1>3, <1>5, <1>6, <2>1 DEF CallInv, InCall
<1> QED BY <1>3, <1>4, <1>7, <1>8, <1>9, <1>10, <1>11 DEF new
-----------------------------------------------------------------------------
(* Type correctness *)

THEOREM InitTyped == Init => TypeOK
<1> SUFFICES ASSUME Init PROVE TypeOK
    OBVIOUS
<1>1. stored \in Table /\ view \in Table
    BY DEF Init, Table
<1>2. calls \in Seq(Call)
    BY DEF Init
<1> QED BY <1>1, <1>2 DEF Init, TypeOK

\* One step.
LEMMA StepTyped ==
    ASSUME TypeOK, CallInv, [Next]_vars
    PROVE  TypeOK'
<1>1. ASSUME NEW m \in Minute, NEW slices \in Surfaces, Begin(m, slices)
      PROVE  TypeOK'
    <2>1. DOMAIN slices \in SUBSET Dte
        BY PersistenceAssumption DEF Handed
    <2> QED BY <1>1, <2>1, BeginKeeps DEF Begin, TypeOK
<1>2. ASSUME NEW d \in Dte, PutSlice(d)
      PROVE  TypeOK'
    <2>1. InCall /\ Current \in 1 .. Current /\ d \in todo
        BY <1>2, LeastIsLeast, PersistenceAssumption, CallFacts
        DEF PutSlice, Reached, InCall, TypeOK
    <2>2. RowOf(Current, d) \in Row /\ calls[Current].at \in Minute
        BY <2>1, CallFacts DEF CallInv
    <2>3. view' \in Table
        BY <1>2, <2>2 DEF PutSlice, Upsert, TypeOK, Table
    <2> QED BY <1>2, <2>3 DEF PutSlice, TypeOK
<1>3. ASSUME NEW d \in Dte, PutRaises(d)
      PROVE  TypeOK'
    <2>1. calls' \in Seq(Call) /\ todo' = {}
        BY <1>3, EndCallKeeps DEF PutRaises, Reached, EndCall
    <2> QED BY <1>3, <2>1 DEF PutRaises, Fail, TypeOK
<1>4. CASE Commit
    <2>1. calls' \in Seq(Call) /\ todo' = {}
        BY <1>4, EndCallKeeps DEF Commit, AllPut, EndCall
    <2> QED BY <1>4, <2>1 DEF Commit, TypeOK
<1>5. CASE CommitRaises
    <2>1. calls' \in Seq(Call) /\ todo' = {}
        BY <1>5, EndCallKeeps DEF CommitRaises, AllPut, EndCall
    <2> QED BY <1>5, <2>1 DEF CommitRaises, Fail, TypeOK
<1>6. CASE CommitUnanswered
    <2>1. calls' \in Seq(Call) /\ todo' = {}
        BY <1>6, EndCallKeeps DEF CommitUnanswered, AllPut, EndCall
    <2> QED BY <1>6, <2>1 DEF CommitUnanswered, TypeOK
<1>7. CASE InsertAudit
    <2>1. Current \in Nat /\ audits' \in [Minute -> Nat]
        BY <1>7, CallFacts DEF InsertAudit, TypeOK
    <2> QED BY <1>7, <2>1 DEF InsertAudit, TypeOK
<1>8. CASE AuditRaises
    BY <1>8 DEF AuditRaises, Fail, TypeOK
<1>9. CASE InitSchema
    BY <1>9 DEF InitSchema, TypeOK
<1>10. CASE Reconnect
    <2>1. calls' \in Seq(Call) /\ todo' \in SUBSET Dte
        <3>1. CASE InCall
            BY <1>10, <3>1, EndCallKeeps DEF Reconnect, EndCall
        <3>2. CASE ~InCall
            BY <1>10, <3>2 DEF Reconnect, TypeOK
        <3> QED BY <3>1, <3>2
    <2> QED BY <1>10, <2>1 DEF Reconnect, TypeOK
<1>11. CASE UNCHANGED vars
    BY <1>11 DEF vars, TypeOK
<1> QED BY <1>1, <1>2, <1>3, <1>4, <1>5, <1>6, <1>7, <1>8, <1>9, <1>10, <1>11
        DEF Next
-----------------------------------------------------------------------------
(* Rows *)

\* Steps after which no call is open and that at most copy one table to the
\* other: rows stay justified, and a call that has returned has its rows in both.
LEMMA RowsKept ==
    ASSUME TypeOK, CallInv, RowsInv,
           stored' \in {stored, view}, view' \in {stored, view},
           \A m : CallsOf(m)' = CallsOf(m) /\ LatestCall(m)' = LatestCall(m),
           \A c \in 1 .. Current :
                /\ calls'[c].slices = calls[c].slices
                /\ \A d : RowOf(c, d)' = RowOf(c, d)
                /\ calls'[c].outcome # "open"
                /\ calls'[c].outcome = "returned" =>
                    \/ calls[c].outcome = "returned"
                    \/ /\ calls[c].outcome = "open" /\ todo = {}
                       /\ stored' = view /\ view' = view
    PROVE  RowsInv'
<1> SUFFICES ASSUME NEW m \in Minute, NEW d \in Dte
             PROVE  /\ Own(stored[m][d], m, d)'
                    /\ Own(view[m][d], m, d)'
                    /\ Written(stored[m][d], m, d, {"returned"})'
                    /\ Written(view[m][d], m, d, {"returned", "open"})'
    BY DEF RowsInv
<1>1. /\ Own(stored[m][d], m, d) /\ Own(view[m][d], m, d)
      /\ Written(stored[m][d], m, d, {"returned"})
      /\ Written(view[m][d], m, d, {"returned", "open"})
    BY DEF RowsInv
<1>2. CallsOf(m) \in SUBSET (1 .. Current)
    BY CallFacts
<1>3. Own(stored[m][d], m, d)' /\ Own(view[m][d], m, d)'
    <2>1. stored'[m][d] \in {stored[m][d], view[m][d]}
          /\ view'[m][d] \in {stored[m][d], view[m][d]}
        OBVIOUS
    <2> QED BY <1>1, <1>2, <2>1 DEF Own
<1>4. ASSUME CallsOf(m) # {}, d \in DOMAIN calls[LatestCall(m)].slices,
             calls'[LatestCall(m)].outcome = "returned"
      PROVE  /\ stored'[m][d] = RowOf(LatestCall(m), d)
             /\ view'[m][d] = RowOf(LatestCall(m), d)
    <2>1. LatestCall(m) \in 1 .. Current
        BY <1>4, LatestIs
    <2>2. CASE calls[LatestCall(m)].outcome = "returned"
        BY <1>1, <1>4, <2>2 DEF Written
    <2>3. CASE calls[LatestCall(m)].outcome = "open" /\ todo = {}
               /\ stored' = view /\ view' = view
        BY <1>1, <1>4, <2>3 DEF Written
    <2> QED BY <1>4, <2>1, <2>2, <2>3
<1>5. ASSUME CallsOf(m) # {}
      PROVE  /\ LatestCall(m) \in 1 .. Current
             /\ calls'[LatestCall(m)].slices = calls[LatestCall(m)].slices
             /\ RowOf(LatestCall(m), d)' = RowOf(LatestCall(m), d)
             /\ calls'[LatestCall(m)].outcome # "open"
    BY <1>5, LatestIs
<1>6. /\ Written(stored[m][d], m, d, {"returned"})'
      /\ Written(view[m][d], m, d, {"returned", "open"})'
    BY <1>4, <1>5 DEF Written
<1> QED BY <1>3, <1>6
\* The call in progress is the latest of its minute, and of no other.
LEMMA OpenIsLatest ==
    ASSUME TypeOK, CallInv, InCall
    PROVE  /\ Current \in 1 .. Current
           /\ calls[Current].at \in Minute
           /\ Current \in CallsOf(calls[Current].at)
           /\ LatestCall(calls[Current].at) = Current
           /\ \A m : CallsOf(m) # {} /\ m # calls[Current].at =>
                /\ LatestCall(m) # Current
                /\ calls[LatestCall(m)].outcome # "open"
<1>1. Current \in 1 .. Current /\ Current \in Nat
    BY CallFacts DEF InCall
<1>2. Current \in CallsOf(calls[Current].at) /\ calls[Current].at \in Minute
    BY <1>1, CallFacts DEF CallsOf
<1>3. LatestCall(calls[Current].at) = Current
    <2>1. /\ CallsOf(calls[Current].at) \in SUBSET (1 .. Current)
          /\ \A c \in CallsOf(calls[Current].at) : c <= Current
        BY <1>1, CallFacts
    <2> QED BY <1>1, <1>2, <2>1, GreatestIs DEF LatestCall
<1>4. ASSUME NEW m, CallsOf(m) # {}, m # calls[Current].at
      PROVE  LatestCall(m) # Current /\ calls[LatestCall(m)].outcome # "open"
    <2>1. calls[LatestCall(m)].at = m /\ LatestCall(m) \in 1 .. Current
        BY <1>4, LatestIs
    <2> QED BY <1>4, <2>1 DEF CallInv
<1> QED BY <1>1, <1>2, <1>3, <1>4

\* A new call has written nothing, and promises nothing yet.
LEMMA BeginRows ==
    ASSUME TypeOK, CallInv, RowsInv, NEW at \in Minute, NEW slices \in Surfaces,
           Begin(at, slices)
    PROVE  RowsInv'
<1> SUFFICES ASSUME NEW m \in Minute, NEW d \in Dte
             PROVE  /\ Own(stored[m][d], m, d)'
                    /\ Own(view[m][d], m, d)'
                    /\ Written(stored[m][d], m, d, {"returned"})'
                    /\ Written(view[m][d], m, d, {"returned", "open"})'
    BY DEF RowsInv
<1>1. /\ Own(stored[m][d], m, d) /\ Own(view[m][d], m, d)
      /\ Written(stored[m][d], m, d, {"returned"})
      /\ Written(view[m][d], m, d, {"returned", "open"})
    BY DEF RowsInv
<1>2. stored' = stored /\ view' = view /\ todo' = DOMAIN slices /\ ~InCall
    BY DEF Begin
<1>3. CallsOf(m) \in SUBSET (1 .. Current) /\ CallsOf(m) \subseteq CallsOf(m)'
    BY CallFacts, BeginKeeps
<1>4. \A c \in CallsOf(m) : calls'[c] = calls[c] /\ RowOf(c, d)' = RowOf(c, d)
    BY <1>3, BeginKeeps
<1>5. Own(stored[m][d], m, d)' /\ Own(view[m][d], m, d)'
    BY <1>1, <1>2, <1>3, <1>4 DEF Own
<1>6. CASE m = at
    <2>1. LatestCall(m)' = Current + 1
          /\ calls'[Current + 1] = [at |-> m, slices |-> slices, outcome |-> "open"]
        BY <1>6, BeginKeeps
    <2>2. calls'[LatestCall(m)'].outcome = "open" /\ calls'[LatestCall(m)'].slices = slices
        BY <2>1
    <2> QED BY <1>2, <1>5, <2>2 DEF Written
<1>7. CASE m # at
    <2>1. CallsOf(m)' = CallsOf(m) /\ LatestCall(m)' = LatestCall(m)
        BY <1>7, BeginKeeps
    <2>2. CallsOf(m) # {} =>
            /\ LatestCall(m) \in CallsOf(m)
            /\ calls[LatestCall(m)].outcome # "open"
        BY <1>2, LatestIs DEF CallInv, InCall
    <2> QED BY <1>1, <1>2, <1>4, <1>5, <2>1, <2>2 DEF Written
<1> QED BY <1>6, <1>7

\* The row that is upserted is the one the latest call promises.
LEMMA PutRows ==
    ASSUME TypeOK, CallInv, RowsInv, NEW e \in Dte, PutSlice(e)
    PROVE  RowsInv'
<1> DEFINE at == calls[Current].at
<1>1. InCall /\ e \in todo
    BY LeastIsLeast, PersistenceAssumption DEF PutSlice, Reached, TypeOK
<1>2. /\ stored' = stored /\ todo' = todo \ {e} /\ UNCHANGED calls
      /\ view' = [view EXCEPT ![at][e] = RowOf(Current, e)]
    BY DEF PutSlice, Upsert
<1>3. /\ Current \in 1 .. Current /\ at \in Minute /\ Current \in CallsOf(at)
      /\ LatestCall(at) = Current
      /\ \A m : CallsOf(m) # {} /\ m # at => calls[LatestCall(m)].outcome # "open"
    BY <1>1, OpenIsLatest
<1>4. e \in DOMAIN calls[Current].slices
    BY <1>1 DEF CallInv
<1>5. /\ \A m : CallsOf(m)' = CallsOf(m) /\ LatestCall(m)' = LatestCall(m)
      /\ \A c, d : RowOf(c, d)' = RowOf(c, d)
    BY <1>2, OtherKeeps
<1>6. view \in [Minute -> [Dte -> Row \union {NoRow}]]
    BY DEF TypeOK, Table
<1> HIDE DEF at
<1> SUFFICES ASSUME NEW m \in Minute, NEW d \in Dte
             PROVE  /\ Own(stored[m][d], m, d)'
                    /\ Own(view[m][d], m, d)'
                    /\ Written(stored[m][d], m, d, {"returned"})'
                    /\ Written(view[m][d], m, d, {"returned", "open"})'
    BY DEF RowsInv
<1>7. /\ Own(stored[m][d], m, d) /\ Own(view[m][d], m, d)
      /\ Written(stored[m][d], m, d, {"returned"})
      /\ Written(view[m][d], m, d, {"returned", "open"})
    BY DEF RowsInv
<1>8. Own(stored[m][d], m, d)'
    BY <1>2, <1>5, <1>7 DEF Own
<1>9. Written(stored[m][d], m, d, {"returned"})'
    BY <1>2, <1>5, <1>7 DEF Written
<1>10. CASE m = at /\ d = e
    <2>1. view'[m][d] = RowOf(Current, e)
        BY <1>2, <1>6, <1>10
    <2>2. view'[m][d].call = Current
        BY <2>1 DEF RowOf
    <2>3. Own(view[m][d], m, d)'
        BY <1>2, <1>3, <1>4, <1>5, <1>10, <2>1, <2>2 DEF Own
    <2>4. Written(view[m][d], m, d, {"returned", "open"})'
        BY <1>3, <1>5, <1>10, <2>1 DEF Written
    <2> QED BY <1>8, <1>9, <2>3, <2>4
<1>11. CASE ~(m = at /\ d = e)
    <2>1. view'[m][d] = view[m][d]
        BY <1>2, <1>6, <1>11
    <2>2. Own(view[m][d], m, d)'
        BY <1>2, <1>5, <1>7, <2>1 DEF Own
    <2>3. CallsOf(m) # {} /\ calls[LatestCall(m)].outcome = "open" =>
            (d \notin todo' <=> d \notin todo)
        BY <1>2, <1>3, <1>11
    <2>4. Written(view[m][d], m, d, {"returned", "open"})'
        BY <1>2, <1>5, <1>7, <2>1, <2>3 DEF Written
    <2> QED BY <1>8, <1>9, <2>2, <2>4
<1> QED BY <1>10, <1>11

\* The end of a call, with a commit or without.
LEMMA EndRows ==
    ASSUME TypeOK, CallInv, RowsInv, InCall,
           NEW o \in {"returned", "raised"}, EndCall(o),
           stored' \in {stored, view}, view' \in {stored, view},
           o = "returned" => todo = {} /\ stored' = view /\ view' = view
    PROVE  CallInv' /\ RowsInv'
<1>1. CallInv'
    BY EndCallKeeps
<1>2. \A c \in 1 .. Current : c # Current => calls[c].outcome # "open"
    BY DEF CallInv
<1>3. calls[Current].outcome = "open"
    BY DEF InCall
<1>4. RowsInv'
    BY <1>2, <1>3, EndCallKeeps, RowsKept
<1> QED BY <1>1, <1>4

\* A statement or a commit outside of any call.
LEMMA IdleRows ==
    ASSUME TypeOK, CallInv, RowsInv, ~InCall, UNCHANGED <<calls, todo>>,
           stored' \in {stored, view}, view' \in {stored, view}
    PROVE  CallInv' /\ RowsInv'
<1>1. \A c \in 1 .. Current : calls[c].outcome # "open"
    BY DEF CallInv, InCall
<1>2. CallInv'
    BY OtherKeeps DEF CallInv
<1>3. RowsInv'
    BY <1>1, OtherKeeps, RowsKept
<1> QED BY <1>2, <1>3

LEMMA StepRows ==
    ASSUME TypeOK, CallInv, RowsInv, [Next]_vars
    PROVE  CallInv' /\ RowsInv'
<1>1. ASSUME NEW m \in Minute, NEW slices \in Surfaces, Begin(m, slices)
      PROVE  CallInv' /\ RowsInv'
    BY <1>1, BeginKeeps, BeginRows
<1>2. ASSUME NEW d \in Dte, PutSlice(d)
      PROVE  CallInv' /\ RowsInv'
    <2>1. CallInv'
        BY <1>2, OtherKeeps DEF PutSlice, CallInv
    <2> QED BY <1>2, <2>1, PutRows
<1>3. ASSUME NEW d \in Dte, PutRaises(d)
      PROVE  CallInv' /\ RowsInv'
    BY <1>3, EndRows DEF PutRaises, Reached, Fail
<1>4. CASE Commit
    BY <1>4, EndRows DEF Commit, AllPut
<1>5. CASE CommitRaises
    BY <1>5, EndRows DEF CommitRaises, AllPut, Fail
<1>6. CASE CommitUnanswered
    BY <1>6, EndRows DEF CommitUnanswered, AllPut
<1>7. CASE InsertAudit
    BY <1>7, IdleRows DEF InsertAudit
<1>8. CASE AuditRaises
    BY <1>8, IdleRows DEF AuditRaises, Fail
<1>9. CASE InitSchema
    BY <1>9, IdleRows DEF InitSchema
<1>10. CASE Reconnect
    <2>1. CASE InCall
        BY <1>10, <2>1, EndRows DEF Reconnect
    <2>2. CASE ~InCall
        BY <1>10, <2>2, IdleRows DEF Reconnect
    <2> QED BY <2>1, <2>2
<1>11. CASE UNCHANGED vars
    <2>1. UNCHANGED <<calls, todo, stored, view>>
        BY <1>11 DEF vars
    <2>2. CallInv'
        BY <2>1, OtherKeeps DEF CallInv
    <2>3. RowsInv'
        BY <2>1, OtherKeeps DEF RowsInv, Own, Written
    <2> QED BY <2>2, <2>3
<1> QED BY <1>1, <1>2, <1>3, <1>4, <1>5, <1>6, <1>7, <1>8, <1>9, <1>10, <1>11
        DEF Next
-----------------------------------------------------------------------------
(* The theorems *)

LEMMA InitInv == Init => IInv
<1> SUFFICES ASSUME Init PROVE IInv
    OBVIOUS
<1>1. calls = <<>> /\ Current = 0
    BY DEF Init, Current
<1>2. CallInv
    BY <1>1 DEF CallInv, InCall
<1>3. \A m : CallsOf(m) = {}
    BY <1>1 DEF CallsOf
<1>4. \A m \in Minute, d \in Dte : stored[m][d] = NoRow /\ view[m][d] = NoRow
    BY DEF Init
<1>5. RowsInv
    BY <1>3, <1>4 DEF RowsInv, Own, Written
<1> QED BY <1>2, <1>5, InitTyped DEF IInv

THEOREM Invariance == Spec => []IInv
<1>1. Init => IInv
    BY InitInv
<1>2. IInv /\ [Next]_vars => IInv'
    BY StepTyped, StepRows DEF IInv
<1> QED BY <1>1, <1>2, PTL DEF Spec

\* The tables hold rows and nothing else, in either database and in every state
\* of the connection.
THEOREM TypeCorrect == Spec => []TypeOK
<1>1. IInv => TypeOK
    BY DEF IInv
<1> QED BY <1>1, Invariance, PTL

LEMMA ReturnedFromInv == IInv => ReturnedMinutesAreStored
<1> SUFFICES ASSUME IInv, NEW m \in Minute, CallsOf(m) # {},
                    calls[LatestCall(m)].outcome = "returned",
                    NEW d \in DOMAIN calls[LatestCall(m)].slices
             PROVE  stored[m][d] = RowOf(LatestCall(m), d)
    BY DEF ReturnedMinutesAreStored
<1>1. d \in Dte
    BY LatestIs, CallFacts DEF IInv
<1> QED BY <1>1 DEF IInv, RowsInv, Written

\* A minute for which insert_minute_params has returned stays stored until it is
\* calibrated again, whatever fails in between.
THEOREM ReturnedAreStored == Spec => []ReturnedMinutesAreStored
BY Invariance, ReturnedFromInv, PTL

\* A settled minute holds the rows of its latest call and no others, in both
\* tables.
LEMMA SettledFromInv ==
    ASSUME IInv, NEW m \in Minute, Settled(m), NEW d \in Dte
    PROVE  LET r == IF CallsOf(m) # {} /\ d \in DOMAIN calls[LatestCall(m)].slices
                    THEN RowOf(LatestCall(m), d) ELSE NoRow
           IN  stored[m][d] = r /\ view[m][d] = r
<1>1. /\ Own(stored[m][d], m, d) /\ Own(view[m][d], m, d)
      /\ Written(stored[m][d], m, d, {"returned"})
      /\ Written(view[m][d], m, d, {"returned", "open"})
    BY DEF IInv, RowsInv
<1>2. CASE CallsOf(m) = {}
    BY <1>1, <1>2 DEF Own
<1>3. CASE CallsOf(m) # {}
    <2>1. LatestCall(m) \in CallsOf(m) /\ \A c \in CallsOf(m) : c <= LatestCall(m)
        BY <1>3, LatestIs DEF IInv
    <2>2. calls[LatestCall(m)].outcome = "returned"
        BY <2>1 DEF Settled
    <2>3. CASE d \in DOMAIN calls[LatestCall(m)].slices
        BY <1>1, <1>3, <2>2, <2>3 DEF Written
    <2>4. CASE d \notin DOMAIN calls[LatestCall(m)].slices
        <3>1. \A c \in CallsOf(m) : c \in Nat
            BY CallFacts DEF IInv
        <3>2. \A c \in CallsOf(m) : c = LatestCall(m) \/ c < LatestCall(m)
            BY <2>1, <3>1
        <3>3. \A c \in CallsOf(m) : d \notin DOMAIN calls[c].slices
            BY <2>1, <2>4, <3>2 DEF Settled
        <3> QED BY <1>1, <2>4, <3>3 DEF Own
    <2> QED BY <2>3, <2>4
<1> QED BY <1>2, <1>3

\* A minute that was only ever calibrated with at least the expiries it had, and
\* without an exception, reads back as one calibration.
THEOREM SettledIsOne == Spec => []SettledMinuteIsOneCalibration
<1>1. IInv => SettledMinuteIsOneCalibration
    BY SettledFromInv DEF SettledMinuteIsOneCalibration
<1> QED BY <1>1, Invariance, PTL

\* Whether the row of a settled minute is valid is what its latest call said.
LEMMA ValidRow ==
    ASSUME IInv, NEW m \in Minute, Settled(m), NEW d \in Dte
    PROVE  view[m][d].kind = "valid" <=>
             /\ CallsOf(m) # {} /\ d \in DOMAIN calls[LatestCall(m)].slices
             /\ calls[LatestCall(m)].slices[d] = "valid"
<1>1. view[m][d] = IF CallsOf(m) # {} /\ d \in DOMAIN calls[LatestCall(m)].slices
                   THEN RowOf(LatestCall(m), d) ELSE NoRow
    BY SettledFromInv
<1>2. /\ NoRow.kind = "none"
      /\ RowOf(LatestCall(m), d).kind = calls[LatestCall(m)].slices[d]
    BY DEF RowOf, NoRow
<1> QED BY <1>1, <1>2

\* A warm start before which every minute is settled gets the latest valid one.
LEMMA PriorFromInv == IInv => PriorIsTheLatestValidMinute
<1> SUFFICES ASSUME IInv, NEW t \in 1 .. MaxMinute + 1,
                    \A m \in Minute : m < t => Settled(m)
             PROVE  IF ValidMinutes(t) = {} THEN LoadPrior(t) = None
                    ELSE LET m == Greatest(ValidMinutes(t)) IN
                         LET c == LatestCall(m) IN
                         LET valid == {d \in DOMAIN calls[c].slices :
                                        calls[c].slices[d] = "valid"} IN
                         LoadPrior(t) = [at |-> m,
                                         slices |-> [d \in valid |-> RowOf(c, d)]]
    BY DEF PriorIsTheLatestValidMinute
<1>1. ASSUME NEW m \in Minute, CallsOf(m) # {}
      PROVE  DOMAIN calls[LatestCall(m)].slices \in SUBSET Dte
    BY <1>1, LatestIs, CallFacts DEF IInv
<1>2. Timestamps(t) = ValidMinutes(t)
    <2>1. ASSUME NEW m \in Minute, m < t
          PROVE  (\E d \in Dte : view[m][d].kind = "valid") <=>
                    /\ CallsOf(m) # {}
                    /\ \E d \in DOMAIN calls[LatestCall(m)].slices :
                        calls[LatestCall(m)].slices[d] = "valid"
        BY <1>1, <2>1, ValidRow
    <2> QED BY <2>1 DEF Timestamps, ValidMinutes
<1>3. CASE ValidMinutes(t) = {}
    BY <1>2, <1>3 DEF LoadPrior
<1>4. CASE ValidMinutes(t) # {}
    <2> DEFINE m == Greatest(ValidMinutes(t))
               c == LatestCall(m)
               valid == {d \in DOMAIN calls[c].slices : calls[c].slices[d] = "valid"}
    <2>1. m \in ValidMinutes(t)
        <3>1. ValidMinutes(t) \in SUBSET (1 .. MaxMinute) /\ MaxMinute \in Nat
            BY PersistenceAssumption DEF ValidMinutes, Minute
        <3> QED BY <1>4, <3>1, GreatestIsGreatest
    <2>2. /\ m \in Minute /\ Settled(m) /\ CallsOf(m) # {}
          /\ \E d \in DOMAIN calls[c].slices : calls[c].slices[d] = "valid"
        BY <2>1 DEF ValidMinutes
    <2> HIDE DEF m
    <2>3. {d \in Dte : view[m][d].kind = "valid"} = valid
        BY <1>1, <2>2, ValidRow
    <2>4. \A d \in valid : view[m][d] = RowOf(c, d)
        BY <1>1, <2>2, SettledFromInv
    <2>5. ValidRows(m) = [d \in valid |-> RowOf(c, d)]
        BY <2>3, <2>4 DEF ValidRows
    <2>6. ValidRows(m) # None.slices
        <3>1. DOMAIN ValidRows(m) = valid /\ DOMAIN None.slices = {}
            BY <2>5 DEF None
        <3> QED BY <2>2, <3>1
    <2>7. LoadPrior(t) = [at |-> m, slices |-> ValidRows(m)]
        BY <1>2, <1>4, <2>6 DEF LoadPrior, m
    <2> QED BY <1>4, <2>5, <2>7 DEF m
<1> QED BY <1>3, <1>4

\* load_prior_minute_params answers with the latest valid minute, or raises.
THEOREM PriorIsLatest == Spec => []PriorIsTheLatestValidMinute
BY Invariance, PriorFromInv, PTL
-----------------------------------------------------------------------------
(* Rows only get newer *)

\* A row is known by its call.
LEMMA RowFacts ==
    ASSUME IInv, NEW m \in Minute, NEW d \in Dte, NEW r \in {stored[m][d], view[m][d]}
    PROVE  /\ r.call \in 0 .. Current
           /\ r = IF r.call = 0 THEN NoRow ELSE RowOf(r.call, d)
<1>1. Own(r, m, d)
    BY DEF IInv, RowsInv
<1>2. Current \in Nat /\ CallsOf(m) \in SUBSET (1 .. Current)
    BY CallFacts DEF IInv
<1>3. NoRow.call = 0
    BY DEF NoRow
<1> QED BY <1>1, <1>2, <1>3 DEF Own

LEMMA AheadStep ==
    ASSUME IInv, Ahead, [Next]_vars
    PROVE  Ahead' /\ (stored' = stored \/ stored' = view)
<1>1. CASE \E d \in Dte : PutSlice(d)
    <2>1. PICK e \in Dte : PutSlice(e)
        BY <1>1
    <2>2. /\ stored' = stored
          /\ view' = [view EXCEPT ![calls[Current].at][e] = RowOf(Current, e)]
        BY <2>1 DEF PutSlice, Upsert
    <2>3. view \in [Minute -> [Dte -> Row \union {NoRow}]]
        BY DEF IInv, TypeOK, Table
    <2>4. \A m \in Minute, d \in Dte :
            view'[m][d] = view[m][d] \/ view'[m][d] = RowOf(Current, e)
        BY <2>2, <2>3
    <2>5. RowOf(Current, e).call = Current
        BY DEF RowOf
    <2>6. \A m \in Minute, d \in Dte : stored[m][d].call <= Current
        BY RowFacts, CallFacts DEF IInv
    <2> QED BY <2>2, <2>4, <2>5, <2>6 DEF Ahead
<1>2. CASE \/ \E m \in Minute, slices \in Surfaces : Begin(m, slices)
           \/ UNCHANGED vars
    BY <1>2 DEF Begin, vars, Ahead
<1>3. CASE \/ \E d \in Dte : PutRaises(d)
           \/ CommitRaises \/ AuditRaises \/ Reconnect
    <2>1. stored' = stored /\ view' \in {stored, view}
        BY <1>3 DEF PutRaises, CommitRaises, AuditRaises, Reconnect, Fail
    <2>2. \A m \in Minute, d \in Dte : stored[m][d].call <= stored[m][d].call
        BY RowFacts
    <2> QED BY <2>1, <2>2 DEF Ahead
<1>4. CASE Commit \/ CommitUnanswered \/ InsertAudit \/ InitSchema
    <2>1. stored' = view /\ view' = view
        BY <1>4 DEF Commit, CommitUnanswered, InsertAudit, InitSchema
    <2>2. \A m \in Minute, d \in Dte : view[m][d].call <= view[m][d].call
        BY RowFacts
    <2> QED BY <2>1, <2>2 DEF Ahead
<1> QED BY <1>1, <1>2, <1>3, <1>4 DEF Next

\* A committed slice stays until a later call for its minute brings another, in
\* either database and whatever is left on a connection by calls that failed.
THEOREM OnlyNewer == Spec => RowsOnlyGetNewer
<1>1. Init => Ahead
    BY DEF Init, Ahead, NoRow
<1>2. IInv /\ Ahead /\ [Next]_vars => Ahead'
    BY AheadStep
<1>3. IInv /\ Ahead /\ [Next]_vars =>
        [\A m \in Minute, d \in Dte :
            stored'[m][d] = stored[m][d] \/ stored'[m][d].call > stored[m][d].call]_vars
    <2> SUFFICES ASSUME IInv, Ahead, stored' = view, NEW m \in Minute, NEW d \in Dte
                 PROVE  view[m][d] = stored[m][d] \/ view[m][d].call > stored[m][d].call
        BY AheadStep
    <2>1. stored[m][d].call <= view[m][d].call
        BY DEF Ahead
    <2>2. stored[m][d].call = view[m][d].call => view[m][d] = stored[m][d]
        BY RowFacts
    <2>3. stored[m][d].call \in Nat /\ view[m][d].call \in Nat
        BY RowFacts, CallFacts DEF IInv
    <2> QED BY <2>1, <2>2, <2>3
<1> QED BY <1>1, <1>2, <1>3, Invariance, PTL DEF Spec, RowsOnlyGetNewer
=============================================================================

------------------------ MODULE SurfaceRuntimeProofs ------------------------
(***************************************************************************)
(* Proofs about SurfaceRuntime.tla, for every set of expiries, every       *)
(* session clock and every patience that satisfy RuntimeAssumption and     *)
(* SessionAssumption.                                                      *)
(*                                                                         *)
(* The argument is one inductive invariant, IInv.  Its heart are LockInv   *)
(* (no accepted slice is above the locked one), HeldInv (what is held      *)
(* passed an audit) and ClockInv (the minute in hand is later than the     *)
(* last answer).                                                           *)
(***************************************************************************)
EXTENDS SurfaceRuntime, WellFoundedInduction, TLAPS

-----------------------------------------------------------------------------
(* Numbers and slices *)

\* A non-empty set of numbers has a least one.
LEMMA HasLeast ==
    ASSUME NEW S \in SUBSET Nat, S # {}
    PROVE  \E n \in S : \A m \in S : n <= m
<1> DEFINE R == {p \in Nat \X Nat : p[1] < p[2]}
<1>1. IsWellFoundedOn(R, Nat)
    BY NatLessThanWellFounded, Zenon DEF IsWellFoundedOn, OpToRel
<1>2. \E n \in S : \A m \in S : ~(<<m, n>> \in R)
    <2> HIDE DEF R
    <2> QED BY <1>1, WFMin, Zenon
<1>3. \A m, n \in Nat : ~(<<m, n>> \in R) => n <= m
    OBVIOUS
<1> QED
    <2> HIDE DEF R
    <2> QED BY <1>2, <1>3

\* The slice the loop of calibrate_one_minute takes next is the shortest left.
LEMMA LeastIsLeast ==
    ASSUME NEW S \in SUBSET Nat, S # {}
    PROVE  Least(S) \in S /\ \A e \in S : Least(S) <= e
BY HasLeast, Zenon DEF Least

\* The constants that the slices are built from.
LEMMA NoneTyped ==
    /\ NoSlice \in Slice
    /\ NoResults \in Slices /\ DOMAIN NoResults = {}
    /\ NoSurface \in Surface /\ NoSurface.at = 0
    /\ DOMAIN NoSurface.slices = {} /\ NoSurface.slices = NoResults
<1>1. NoSlice \in Slice
    BY RuntimeAssumption DEF NoSlice, Slice, NaN
<1>2. NoResults \in [{} -> Slice] /\ DOMAIN NoResults = {}
    BY <1>1 DEF NoResults
<1>3. NoResults \in Slices
    BY <1>2 DEF Slices
<1>4. NoSurface \in Surface
    BY <1>3 DEF NoSurface, Surface
<1> QED
    BY <1>1, <1>2, <1>3, <1>4 DEF NoSurface

\* A result is a function from some of the expiries to slices.
LEMMA SlicesAreFunctions ==
    ASSUME NEW f \in Slices
    PROVE  /\ DOMAIN f \in SUBSET Dte
           /\ \A d \in DOMAIN f : f[d] \in Slice
<1>1. PICK D \in SUBSET Dte : f \in [D -> Slice]
    BY DEF Slices
<1> QED
    BY <1>1

LEMMA SliceFields ==
    ASSUME NEW s \in Slice
    PROVE  /\ s.theta \in Nat /\ s.theta <= MaxTheta
           /\ s.valid \in BOOLEAN /\ s.sound \in BOOLEAN
           /\ s.fitted \in {0} \union Minute /\ s.fitted \in Nat
BY RuntimeAssumption DEF Slice, NaN, Minute

\* audit_monotonicity compares neighbours only; that orders every pair.
LEMMA NeighboursOrderAll ==
    ASSUME NEW f \in Slices, Monotone(f),
           NEW a \in DOMAIN f, NEW b \in DOMAIN f, a < b
    PROVE  f[a].theta # NaN /\ f[b].theta # NaN /\ f[a].theta <= f[b].theta
<1> DEFINE Good(d, e) ==
        f[d].theta # NaN /\ f[e].theta # NaN /\ f[d].theta <= f[e].theta
<1> DEFINE Gaps == {n \in Nat : \E d, e \in DOMAIN f : d < e /\ ~Good(d, e) /\ n = e - d}
<1>1. /\ DOMAIN f \subseteq Nat
      /\ \A d \in DOMAIN f : f[d].theta \in Nat
    BY SlicesAreFunctions, SliceFields, RuntimeAssumption
<1>2. \A d, x, e \in DOMAIN f : Good(d, x) /\ Good(x, e) => Good(d, e)
    BY <1>1
<1>3. \A d, e \in DOMAIN f : Adjacent(f, d, e) => Good(d, e)
    BY DEF Monotone
<1> HIDE DEF Good
<1>4. Gaps = {}
    <2>1. SUFFICES ASSUME Gaps # {} PROVE FALSE
        OBVIOUS
    <2>2. PICK n \in Gaps : \A m \in Gaps : n <= m
        <3> HIDE DEF Gaps
        <3> Gaps \in SUBSET Nat
            BY DEF Gaps
        <3> QED BY <2>1, HasLeast
    <2>3. PICK d \in DOMAIN f, e \in DOMAIN f : d < e /\ ~Good(d, e) /\ n = e - d
        BY <2>2
    <2>4. PICK x \in DOMAIN f : d < x /\ x < e
        BY <1>3, <2>3 DEF Adjacent
    <2>5. Good(d, x)
        <3>1. x - d \in Nat /\ x - d < n
            BY <1>1, <2>3, <2>4
        <3>2. x - d \notin Gaps
            BY <2>2, <3>1
        <3> QED BY <2>4, <3>1, <3>2
    <2>6. Good(x, e)
        <3>1. e - x \in Nat /\ e - x < n
            BY <1>1, <2>3, <2>4
        <3>2. e - x \notin Gaps
            BY <2>2, <3>1
        <3> QED BY <2>4, <3>1, <3>2
    <2> QED
        BY <1>2, <2>3, <2>5, <2>6
<1>5. b - a \in Nat
    BY <1>1
<1>6. Good(a, b)
    BY <1>4, <1>5
<1> QED
    BY <1>6 DEF Good

\* What one result added to the list changes.
LEMMA AppendAdds ==
    ASSUME NEW d \in Dte, NEW s \in Slice, results \in Slices, locked \in Slice,
           Append(d, s)
    PROVE  /\ results' \in Slices /\ locked' \in Slice
           /\ DOMAIN results' = DOMAIN results \union {d}
           /\ results'[d] = s
           /\ \A e \in DOMAIN results : e # d => results'[e] = results[e]
<1>1. DOMAIN results \in SUBSET Dte /\ \A e \in DOMAIN results : results[e] \in Slice
    BY SlicesAreFunctions
<1>2. results' = [e \in DOMAIN results \union {d} |-> IF e = d THEN s ELSE results[e]]
    BY DEF Append
<1>3. results' \in [DOMAIN results \union {d} -> Slice]
    BY <1>1, <1>2
<1>4. results' \in Slices
    BY <1>1, <1>3 DEF Slices
<1>5. locked' \in Slice
    BY DEF Append
<1> QED
    BY <1>2, <1>4, <1>5

\* Everything copy_prior_params can return is a slice that no solver accepted.
LEMMA CopiesAreRejected ==
    ASSUME IInv, NEW d \in Dte, NEW s \in Copies(d)
    PROVE  /\ s \in Slice /\ ~s.valid
           /\ s.fitted <= now
           /\ Prior.at = 0 => s.fitted \in {0, now}
<1> USE DEF IInv
<1>1. now \in Nat /\ locked \in Slice /\ params \in Surface
    BY RuntimeAssumption DEF TypeOK, Minute
<1>2. /\ Prior \in Surface
      /\ Prior.at = 0 => DOMAIN Prior.slices = {}
    BY <1>1, NoneTyped DEF Prior, HeldInv
<1>3. CASE d \in DOMAIN Prior.slices
    <2>1. Prior = params /\ Prior.at # 0
        BY <1>2, <1>3, NoneTyped DEF Prior
    <2>2. params.slices \in Slices
        BY <1>1 DEF Surface
    <2>3. params.slices[d] \in Slice
        BY <1>3, <2>1, <2>2, SlicesAreFunctions
    <2>4. s = [params.slices[d] EXCEPT !.valid = FALSE]
        BY <1>3, <2>1 DEF Copies
    <2>5. s \in Slice /\ ~s.valid /\ s.fitted = params.slices[d].fitted
        BY <2>3, <2>4 DEF Slice
    <2>6. params.slices[d].fitted <= params.at
        BY <1>3, <2>1 DEF ProvenanceOfSlices
    <2>7. params.at \in Nat /\ calTime \in Nat /\ params.at <= calTime /\ calTime <= now
        BY <1>1, <2>1, RuntimeAssumption DEF TypeOK, Surface, Minute, HeldInv
    <2>8. params.slices[d].fitted \in Nat
        BY <2>3, SliceFields
    <2> QED
        BY <1>1, <2>1, <2>5, <2>6, <2>7, <2>8
<1>4. CASE d \notin DOMAIN Prior.slices /\ HasLocked
    <2>1. PICK b \in BOOLEAN : s = [locked EXCEPT !.valid = FALSE, !.sound = b]
        BY <1>4 DEF Copies
    <2>2. s \in Slice /\ ~s.valid /\ s.fitted = locked.fitted
        BY <1>1, <2>1 DEF Slice
    <2>3. locked.fitted = now
        BY <1>4 DEF LockInv
    <2> QED
        BY <1>1, <2>2, <2>3
<1>5. CASE d \notin DOMAIN Prior.slices /\ ~HasLocked
    <2>1. s \in Slice /\ ~s.valid /\ s.fitted = 0
        BY <1>5 DEF Copies
    <2> QED
        BY <1>1, <2>1
<1> QED
    BY <1>3, <1>4, <1>5

\* Everything a solve can return is of this minute; what it accepts is at or
\* above the locked slice.
LEMMA SolvesAscend ==
    ASSUME IInv, NEW s \in Fits \union {Unsolved}
    PROVE  /\ s \in Slice /\ s.fitted = now
           /\ s.valid => s.theta # NaN /\ s.theta >= locked.theta
<1>1. CASE s \in Fits
    BY <1>1 DEF Fits, InCorridor
<1>2. CASE s = Unsolved
    BY <1>2, RuntimeAssumption DEF Unsolved, IInv, TypeOK, Slice, NaN
<1> QED
    BY <1>1, <1>2

-----------------------------------------------------------------------------
(* The steps of calibrate_one_minute *)

\* A result added at d keeps the facts about results: d comes after all results
\* so far unless it was deferred, and an accepted slice is at or above the lock.
LEMMA AppendKeeps ==
    ASSUME IInv, NEW d \in Dte, NEW s \in Slice, Append(d, s),
           d \notin DOMAIN results,
           d \notin deferred => \A e \in DOMAIN results \ deferred : e < d,
           d \notin deferred => deferred \intersect DOMAIN results = {},
           s.fitted <= now,
           s.valid => s.fitted = now /\ s.theta # NaN /\ s.theta >= locked.theta,
           Prior.at = 0 => s.fitted \in {0, now},
           UNCHANGED <<now, deferred, params, cold>>
    PROVE  LockInv' /\ FittedInv' /\ ProvenanceOfSlices'
<1> USE DEF IInv
<1>1. /\ results \in Slices /\ locked \in Slice /\ deferred \in SUBSET Dte
      /\ DOMAIN results \in SUBSET Dte
      /\ \A e \in DOMAIN results : results[e] \in Slice
      /\ Dte \subseteq Nat
      /\ now \in Nat
    BY SlicesAreFunctions, RuntimeAssumption DEF TypeOK, Minute
<1>2. /\ DOMAIN results' = DOMAIN results \union {d}
      /\ results'[d] = s
      /\ \A e \in DOMAIN results : results'[e] = results[e]
      /\ locked' = IF s.valid THEN s ELSE locked
    BY <1>1, AppendAdds DEF Append
<1>3. /\ s.theta \in Nat /\ locked.theta \in Nat
      /\ \A e \in DOMAIN results : results[e].theta \in Nat
    BY <1>1, SliceFields
<1>4. NoSlice.valid = FALSE
    BY DEF NoSlice
<1>5. HasLocked' => locked'.valid /\ locked'.theta # NaN /\ locked'.fitted = now'
    BY <1>2, <1>4 DEF LockInv, HasLocked
<1>6. \A e \in DOMAIN results' : results'[e].valid => results'[e].theta <= locked'.theta
    BY <1>2, <1>3 DEF LockInv
<1>7. AcceptedSlicesAscend'
    <2>1. SUFFICES ASSUME NEW x \in DOMAIN results' \ deferred,
                          NEW y \in DOMAIN results' \ deferred,
                          x < y, results'[x].valid, results'[y].valid
                   PROVE  results'[x].theta <= results'[y].theta
        BY DEF AcceptedSlicesAscend
    <2>2. CASE x # d /\ y # d
        BY <1>2, <2>1, <2>2 DEF LockInv, AcceptedSlicesAscend
    <2>3. CASE y = d /\ x # d
        BY <1>2, <1>3, <2>1, <2>3 DEF LockInv
    <2>4. CASE x = d
        <3>1. y \in DOMAIN results \ deferred /\ y < d
            BY <1>1, <1>2, <2>1, <2>4
        <3>2. d \in Nat /\ y \in Nat
            BY <1>1, <3>1
        <3> QED BY <2>1, <2>4, <3>1, <3>2
    <2> QED
        BY <2>2, <2>3, <2>4
<1>8. \A x \in deferred' \intersect DOMAIN results', y \in DOMAIN results' \ deferred' :
            results'[x].valid /\ results'[y].valid => results'[y].theta <= results'[x].theta
    <2>1. SUFFICES ASSUME NEW x \in deferred \intersect DOMAIN results',
                          NEW y \in DOMAIN results' \ deferred,
                          results'[x].valid, results'[y].valid
                   PROVE  results'[y].theta <= results'[x].theta
        OBVIOUS
    <2>2. CASE x # d /\ y # d
        BY <1>2, <2>1, <2>2 DEF LockInv
    <2>3. CASE x = d
        <3>1. y \in DOMAIN results /\ y # d
            BY <1>2, <2>1, <2>3
        <3> QED BY <1>2, <1>3, <2>1, <2>3, <3>1 DEF LockInv
    <2>4. CASE y = d /\ x # d
        BY <1>2, <2>1, <2>4
    <2> QED
        BY <2>2, <2>3, <2>4
<1>9. LockInv'
    BY <1>5, <1>6, <1>7, <1>8 DEF LockInv
<1>10. FittedInv'
    BY <1>2 DEF FittedInv
<1>11. ProvenanceOfSlices'
    <2>1. Prior' = Prior
        BY DEF Prior, UseColdStart
    <2> QED
        BY <1>2, <2>1 DEF ProvenanceOfSlices
<1> QED
    BY <1>9, <1>10, <1>11

\* A slice that is put off moves from the queue to the end.
LEMMA DeferSliceKeeps ==
    ASSUME IInv, NEW d \in Dte, DeferSlice(d)
    PROVE  IInv'
<1> USE DEF IInv
<1>1. /\ d \in todo /\ pc = "calibrating"
      /\ todo' = todo \ {d} /\ deferred' = deferred \union {d}
      /\ UNCHANGED <<params, calTime, passed, stale, cold, now, out, pc, thin, results, locked>>
    <2>1. todo \in SUBSET Nat
        BY RuntimeAssumption DEF TypeOK
    <2> QED
        BY <2>1, LeastIsLeast DEF DeferSlice, Reached, state
<1>2. d \notin DOMAIN results /\ deferred \intersect DOMAIN results = {}
    <2>1. d \in Nat
        BY RuntimeAssumption
    <2> QED BY <1>1, <2>1 DEF OrderInv
<1>3. TypeOK'
    BY <1>1 DEF TypeOK
<1>4. IdleInv' /\ HeldInv' /\ ClockInv' /\ FlagInv'
    BY <1>1 DEF IdleInv, HeldInv, ClockInv, FlagInv
<1>5. OrderInv'
    BY <1>1, <1>2 DEF OrderInv
<1>6. LockInv'
    BY <1>1, <1>2 DEF LockInv, AcceptedSlicesAscend, HasLocked
<1>7. FittedInv' /\ ProvenanceOfSlices'
    BY <1>1 DEF FittedInv, ProvenanceOfSlices, Prior, UseColdStart
<1> QED
    BY <1>3, <1>4, <1>5, <1>6, <1>7

\* A slice taken from the queue is solved or copied.
LEMMA ReachedKeeps ==
    ASSUME IInv, NEW d \in Dte, FitSlice(d) \/ CopySlice(d)
    PROVE  IInv'
<1> USE DEF IInv
<1>1. /\ pc = "calibrating" /\ todo # {} /\ d = Least(todo)
      /\ todo' = todo \ {d}
      /\ UNCHANGED <<params, calTime, passed, stale, cold, now, out, pc, thin, deferred>>
    BY DEF FitSlice, CopySlice, Reached, state
<1>2. /\ d \in Nat /\ todo \in SUBSET Nat
      /\ now \in Nat /\ results \in Slices /\ locked \in Slice
      /\ DOMAIN results \in SUBSET Nat
    <2>1. results \in Slices /\ locked \in Slice /\ todo \in SUBSET Dte
        BY DEF TypeOK
    <2>2. now \in Nat
        BY RuntimeAssumption DEF TypeOK, Minute
    <2>3. DOMAIN results \in SUBSET Dte
        BY <2>1, SlicesAreFunctions
    <2> QED
        BY <2>1, <2>2, <2>3, RuntimeAssumption
<1>3. d \in todo /\ \A e \in todo : d <= e
    BY <1>1, <1>2, LeastIsLeast
<1>4. d \notin deferred /\ deferred \intersect DOMAIN results = {}
    BY <1>1, <1>3 DEF OrderInv
<1>5. \A e \in DOMAIN results : e < d
    BY <1>3 DEF OrderInv
<1>6. PICK s \in Slice :
        /\ Append(d, s)
        /\ s.fitted <= now
        /\ s.valid => s.fitted = now /\ s.theta # NaN /\ s.theta >= locked.theta
        /\ Prior.at = 0 => s.fitted \in {0, now}
    <2>1. CASE FitSlice(d)
        <3>1. PICK s \in Fits : Append(d, s)
            BY <2>1 DEF FitSlice
        <3> QED BY <1>2, <3>1, SolvesAscend
    <2>2. CASE CopySlice(d)
        <3>1. PICK s \in Copies(d) : Append(d, s)
            BY <2>2 DEF CopySlice
        <3> QED BY <3>1, CopiesAreRejected
    <2> QED
        BY <2>1, <2>2
<1>7. /\ results' \in Slices /\ locked' \in Slice
      /\ DOMAIN results' = DOMAIN results \union {d}
    BY <1>2, <1>6, AppendAdds
<1>8. d \notin DOMAIN results
    BY <1>2, <1>5
<1>9. TypeOK'
    BY <1>1, <1>7 DEF TypeOK
<1>10. IdleInv' /\ HeldInv' /\ ClockInv' /\ FlagInv'
    BY <1>1 DEF IdleInv, HeldInv, ClockInv, FlagInv
<1>11. OrderInv'
    BY <1>1, <1>2, <1>3, <1>4, <1>7 DEF OrderInv
<1>12. LockInv' /\ FittedInv' /\ ProvenanceOfSlices'
    BY <1>1, <1>4, <1>5, <1>6, <1>8, AppendKeeps
<1> QED
    BY <1>9, <1>10, <1>11, <1>12

\* A deferred slice is solved or copied.
LEMMA ReachedLateKeeps ==
    ASSUME IInv, NEW d \in Dte, FitDeferred(d) \/ CopyDeferred(d)
    PROVE  IInv'
<1> USE DEF IInv
<1>1. /\ pc = "calibrating" /\ todo = {} /\ Late # {} /\ d = Least(Late)
      /\ UNCHANGED <<params, calTime, passed, stale, cold, now, out, pc, todo, thin, deferred>>
    BY DEF FitDeferred, CopyDeferred, ReachedLate, state
<1>2. /\ d \in Nat /\ Late \in SUBSET Nat
      /\ now \in Nat /\ results \in Slices /\ locked \in Slice
    <2>1. results \in Slices /\ locked \in Slice /\ deferred \in SUBSET Dte
        BY DEF TypeOK
    <2>2. now \in Nat
        BY RuntimeAssumption DEF TypeOK, Minute
    <2> QED
        BY <2>1, <2>2, RuntimeAssumption DEF Late
<1>3. d \in deferred /\ d \notin DOMAIN results
    BY <1>1, <1>2, LeastIsLeast DEF Late
<1>4. PICK s \in Slice :
        /\ Append(d, s)
        /\ s.fitted <= now
        /\ s.valid => s.fitted = now /\ s.theta # NaN /\ s.theta >= locked.theta
        /\ Prior.at = 0 => s.fitted \in {0, now}
    <2>1. CASE FitDeferred(d)
        <3>1. PICK s \in Fits \union {Unsolved} : Append(d, s)
            BY <2>1 DEF FitDeferred
        <3> QED BY <1>2, <3>1, SolvesAscend
    <2>2. CASE CopyDeferred(d)
        <3>1. PICK s \in Copies(d) : Append(d, s)
            BY <2>2 DEF CopyDeferred
        <3> QED BY <3>1, CopiesAreRejected
    <2> QED
        BY <2>1, <2>2
<1>5. results' \in Slices /\ locked' \in Slice
    BY <1>2, <1>4, AppendAdds
<1>6. TypeOK'
    BY <1>1, <1>5 DEF TypeOK
<1>7. IdleInv' /\ HeldInv' /\ ClockInv' /\ FlagInv'
    BY <1>1 DEF IdleInv, HeldInv, ClockInv, FlagInv
<1>8. OrderInv'
    BY <1>1 DEF OrderInv
<1>9. LockInv' /\ FittedInv' /\ ProvenanceOfSlices'
    BY <1>1, <1>3, <1>4, AppendKeeps
<1> QED
    BY <1>6, <1>7, <1>8, <1>9

-----------------------------------------------------------------------------
(* The steps of calibrate_minute *)

\* Leaving the minute, whatever the state becomes.
LEMMA LeftMinuteIsClean ==
    ASSUME LeaveMinute
    PROVE  /\ pc' = "idle" /\ DOMAIN results' = {}
           /\ todo' \in SUBSET Dte /\ thin' \in SUBSET Dte
           /\ deferred' \in SUBSET Dte
           /\ results' \in Slices /\ locked' \in Slice
           /\ IdleInv' /\ OrderInv' /\ LockInv' /\ FittedInv'
<1>1. /\ pc' = "idle"
      /\ todo' = {} /\ thin' = {} /\ deferred' = {}
      /\ results' = NoResults /\ DOMAIN results' = {}
      /\ locked' = NoSlice
    BY NoneTyped DEF LeaveMinute
<1> QED
    BY <1>1, NoneTyped DEF IdleInv, OrderInv, LockInv, FittedInv, HasLocked,
                           AcceptedSlicesAscend

\* A surface without slices passes any audit.
LEMMA EmptyPasses == AuditPasses(NoResults)
BY NoneTyped DEF AuditPasses, Monotone

\* The first state: no surface, no minute.
LEMMA InitKeeps == Init => IInv
<1> SUFFICES ASSUME Init PROVE IInv
    OBVIOUS
<1> USE DEF Init
<1>1. TypeOK
    BY NoneTyped DEF TypeOK, Answer
<1>2. IdleInv /\ FittedInv
    BY NoneTyped DEF IdleInv, FittedInv
<1>3. HeldInv
    BY NoneTyped, EmptyPasses DEF HeldInv
<1>4. ClockInv /\ FlagInv
    BY NoneTyped DEF ClockInv, FlagInv
<1>5. OrderInv /\ LockInv
    BY NoneTyped DEF OrderInv, LockInv, HasLocked, AcceptedSlicesAscend
<1>6. ProvenanceOfSlices
    BY NoneTyped DEF ProvenanceOfSlices
<1> QED
    BY <1>1, <1>2, <1>3, <1>4, <1>5, <1>6 DEF IInv

\* A minute that ends before calibrate_one_minute changes nothing but the clock.
LEMMA RefusalKeeps ==
    ASSUME IInv, NEW t \in Minute, SkipMinute(t) \/ LoadRaises(t) \/ TooFewSlices(t)
    PROVE  IInv'
<1> USE DEF IInv
<1>1. /\ pc = "idle" /\ t > now /\ now' = t
      /\ out' \in {"skipped", "raised", "too_few_slices"}
      /\ UNCHANGED <<params, calTime, passed, stale, cold, pc>>
      /\ UNCHANGED <<todo, thin, deferred, results, locked>>
    BY DEF SkipMinute, LoadRaises, TooFewSlices, Ask, state, locals
<1>2. now \in Nat /\ t \in Nat /\ calTime \in Nat
    BY RuntimeAssumption DEF TypeOK, Minute
<1>3. /\ todo = {} /\ deferred = {} /\ DOMAIN results = {} /\ locked = NoSlice
      /\ results = NoResults
    BY <1>1, NoneTyped DEF IdleInv
<1>4. TypeOK'
    BY <1>1 DEF TypeOK, Answer
<1>5. IdleInv' /\ FlagInv'
    BY <1>1 DEF IdleInv, FlagInv
<1>6. HeldInv' /\ ClockInv'
    BY <1>1, <1>2 DEF HeldInv, ClockInv
<1>7. OrderInv' /\ FittedInv' /\ ProvenanceOfSlices'
    BY <1>1, <1>3 DEF OrderInv, FittedInv, ProvenanceOfSlices
<1>8. LockInv'
    BY <1>1, <1>3 DEF LockInv, HasLocked, AcceptedSlicesAscend
<1> QED
    BY <1>4, <1>5, <1>6, <1>7, <1>8

\* calibrate_one_minute begins with nothing fitted and nothing locked.
LEMMA LoadMinuteKeeps ==
    ASSUME IInv, NEW t \in Minute, LoadMinute(t)
    PROVE  IInv'
<1> USE DEF IInv
<1>1. /\ t > now /\ now' = t /\ ShouldCalibrate(t)
      /\ todo' \in SUBSET Dte /\ thin' \in SUBSET Dte
      /\ deferred' = {} /\ results' = NoResults /\ locked' = NoSlice
      /\ pc' = "calibrating" /\ out' = "none"
      /\ UNCHANGED <<params, calTime, passed, stale, cold>>
    BY DEF LoadMinute, Ask, state
<1>2. now \in Nat /\ t \in Nat /\ calTime \in Nat
    BY RuntimeAssumption DEF TypeOK, Minute
<1>3. DOMAIN results' = {}
    BY <1>1, NoneTyped
<1>4. TypeOK'
    BY <1>1, NoneTyped DEF TypeOK, Answer
<1>5. IdleInv' /\ FlagInv'
    BY <1>1 DEF IdleInv, FlagInv
<1>6. HeldInv' /\ ClockInv'
    BY <1>1, <1>2 DEF HeldInv, ClockInv
<1>7. OrderInv' /\ FittedInv' /\ ProvenanceOfSlices'
    BY <1>1, <1>3 DEF OrderInv, FittedInv, ProvenanceOfSlices
<1>8. LockInv'
    BY <1>1, <1>3 DEF LockInv, HasLocked, AcceptedSlicesAscend
<1> QED
    BY <1>4, <1>5, <1>6, <1>7, <1>8

\* The exception ends the minute and leaves the RuntimeState as it was.
LEMMA SolverRaisesKeeps ==
    ASSUME IInv, NEW d \in Dte, SolverRaises(d)
    PROVE  IInv'
<1> USE DEF IInv
<1>1. /\ LeaveMinute /\ out' = "raised"
      /\ UNCHANGED <<params, calTime, passed, stale, cold, now>>
    BY DEF SolverRaises, state
<1>2. TypeOK'
    BY <1>1, LeftMinuteIsClean DEF TypeOK, Answer
<1>3. HeldInv' /\ FlagInv'
    BY <1>1 DEF HeldInv, FlagInv
<1>4. ClockInv' /\ ProvenanceOfSlices'
    BY <1>1, LeftMinuteIsClean DEF ClockInv, ProvenanceOfSlices
<1> QED
    BY <1>1, <1>2, <1>3, <1>4, LeftMinuteIsClean

\* A cold start is spent by the first minute that ends.
LEMMA ColdIsSpent ==
    ASSUME NEW answer, EndMinute(answer), cold \in BOOLEAN
    PROVE  cold' \in BOOLEAN /\ (cold' => ~ColdStartAtOpen)
BY DEF EndMinute, UseColdStart

\* A surface that passed its audit replaces the one held.
LEMMA PublishKeeps ==
    ASSUME IInv, PublishSurface
    PROVE  IInv'
<1> USE DEF IInv
<1>1. /\ pc = "calibrating" /\ AuditPasses(results)
      /\ params' = [at |-> now, slices |-> results, cold |-> ShouldColdStart]
      /\ calTime' = now /\ stale' = FALSE /\ passed' = TRUE
      /\ EndMinute("calibrated")
      /\ LeaveMinute /\ out' = "calibrated" /\ now' = now
    BY DEF PublishSurface, EndMinute, Audited
<1>2. params'.at = now /\ params'.slices = results
    BY <1>1
<1>3. /\ now \in {0} \union Minute /\ now \in Nat /\ calTime \in Nat
      /\ results \in Slices /\ calTime < now /\ ShouldCalibrate(now)
    BY <1>1, RuntimeAssumption DEF TypeOK, Minute, ClockInv
<1>4. now # 0
    BY <1>3
<1>5. ShouldColdStart \in BOOLEAN
    BY DEF ShouldColdStart
<1>6. params' \in Surface
    BY <1>1, <1>3, <1>5 DEF Surface
<1>7. cold' \in BOOLEAN /\ (cold' => ~ColdStartAtOpen)
    BY <1>1, ColdIsSpent DEF TypeOK
<1>8. TypeOK'
    BY <1>1, <1>3, <1>6, <1>7, LeftMinuteIsClean DEF TypeOK, Answer
<1>9. HeldInv'
    BY <1>1, <1>2, <1>3, <1>4 DEF HeldInv
<1>10. ClockInv' /\ FlagInv'
    BY <1>1, <1>2, <1>4, <1>7, LeftMinuteIsClean DEF ClockInv, FlagInv
<1>11. ProvenanceOfSlices'
    BY <1>1, <1>2, LeftMinuteIsClean DEF ProvenanceOfSlices, FittedInv
<1> QED
    BY <1>1, <1>8, <1>9, <1>10, <1>11, LeftMinuteIsClean

\* The surface held is repeated; the session cannot have changed meanwhile.
LEMMA ReuseKeeps ==
    ASSUME IInv, ReusePrior
    PROVE  IInv'
<1> USE DEF IInv
<1>1. /\ pc = "calibrating" /\ params.at # 0 /\ ~IsSurfaceStale(now)
      /\ calTime' = now /\ stale' = TRUE /\ passed' = FALSE /\ params' = params
      /\ EndMinute("reused_prior")
      /\ LeaveMinute /\ out' = "reused_prior" /\ now' = now
    BY DEF ReusePrior, EndMinute, Audited
<1>2. /\ now \in {0} \union Minute /\ now \in Nat /\ calTime \in {0} \union Minute
      /\ calTime \in Nat /\ calTime < now /\ ShouldCalibrate(now)
      /\ params.at \in Nat
    BY <1>1, RuntimeAssumption DEF TypeOK, Minute, ClockInv, Surface
<1>3. /\ calTime # 0 /\ now <= calTime + Patience
      /\ params.at <= calTime /\ ShouldCalibrate(calTime)
      /\ Day(params.at) = Day(calTime)
    BY <1>1, <1>2, RuntimeAssumption DEF IsSurfaceStale, HeldInv
<1>4. Day(calTime) = Day(now)
    <2>1. calTime \in Minute /\ now \in Minute /\ calTime <= now
        BY <1>2, <1>3
    <2> QED
        BY <1>2, <1>3, <2>1, SessionAssumption
<1>5. cold' \in BOOLEAN /\ (cold' => ~ColdStartAtOpen)
    BY <1>1, ColdIsSpent DEF TypeOK
<1>6. TypeOK'
    BY <1>1, <1>2, <1>5, LeftMinuteIsClean DEF TypeOK, Answer
<1>7. HeldInv'
    BY <1>1, <1>2, <1>3, <1>4 DEF HeldInv
<1>8. ClockInv' /\ FlagInv'
    BY <1>1, <1>2, <1>3, <1>5, LeftMinuteIsClean DEF ClockInv, FlagInv
<1>9. ProvenanceOfSlices'
    BY <1>1, LeftMinuteIsClean DEF ProvenanceOfSlices
<1> QED
    BY <1>1, <1>6, <1>7, <1>8, <1>9, LeftMinuteIsClean

\* A killed minute keeps what is held and when it was last given out.
LEMMA KillKeeps ==
    ASSUME IInv, KillMinute
    PROVE  IInv'
<1> USE DEF IInv
<1>1. /\ passed' = FALSE /\ UNCHANGED <<params, calTime, stale>>
      /\ EndMinute("kill_switch")
      /\ LeaveMinute /\ out' = "kill_switch" /\ now' = now
    BY DEF KillMinute, EndMinute
<1>2. cold' \in BOOLEAN /\ (cold' => ~ColdStartAtOpen)
    BY <1>1, ColdIsSpent DEF TypeOK
<1>3. TypeOK'
    BY <1>1, <1>2, LeftMinuteIsClean DEF TypeOK, Answer
<1>4. HeldInv'
    BY <1>1 DEF HeldInv
<1>5. ClockInv' /\ FlagInv'
    BY <1>1, <1>2, LeftMinuteIsClean DEF ClockInv, FlagInv
<1>6. ProvenanceOfSlices'
    BY <1>1, LeftMinuteIsClean DEF ProvenanceOfSlices
<1> QED
    BY <1>1, <1>3, <1>4, <1>5, <1>6, LeftMinuteIsClean

\* A new process holds nothing.
LEMMA RestartKeeps ==
    ASSUME IInv, Restart
    PROVE  IInv'
<1> USE DEF IInv
<1>1. /\ params' = NoSurface /\ calTime' = 0
      /\ passed' = TRUE /\ stale' = FALSE /\ cold' = TRUE
      /\ LeaveMinute /\ out' = "none" /\ now' = now
    BY DEF Restart
<1>2. now \in Nat
    BY RuntimeAssumption DEF TypeOK, Minute
<1>3. TypeOK'
    BY <1>1, NoneTyped, LeftMinuteIsClean DEF TypeOK, Answer
<1>4. HeldInv'
    BY <1>1, <1>2, NoneTyped, EmptyPasses DEF HeldInv
<1>5. ClockInv' /\ FlagInv'
    BY <1>1, NoneTyped, LeftMinuteIsClean DEF ClockInv, FlagInv
<1>6. ProvenanceOfSlices'
    BY <1>1, NoneTyped, LeftMinuteIsClean DEF ProvenanceOfSlices
<1> QED
    BY <1>1, <1>3, <1>4, <1>5, <1>6, LeftMinuteIsClean

\* Stuttering keeps everything.
LEMMA StutterKeeps ==
    ASSUME IInv, UNCHANGED vars
    PROVE  IInv'
<1>1. UNCHANGED <<params, calTime, passed, stale, cold, now, out, pc>>
    BY DEF vars, state
<1>2. UNCHANGED <<todo, thin, deferred, results, locked>>
    BY DEF vars, locals
<1> USE <1>1, <1>2 DEF IInv
<1>3. TypeOK' /\ IdleInv' /\ HeldInv' /\ ClockInv' /\ FlagInv'
    BY DEF TypeOK, IdleInv, HeldInv, ClockInv, FlagInv
<1>4. OrderInv' /\ FittedInv'
    BY DEF OrderInv, FittedInv
<1>5. LockInv'
    BY DEF LockInv, HasLocked, AcceptedSlicesAscend
<1>6. ProvenanceOfSlices'
    BY DEF ProvenanceOfSlices, Prior, UseColdStart
<1> QED
    BY <1>3, <1>4, <1>5, <1>6

-----------------------------------------------------------------------------
(* The theorems *)

\* IInv holds in every reachable state.
THEOREM Invariance == Spec => []IInv
<1>1. IInv /\ [Next]_vars => IInv'
    <2> SUFFICES ASSUME IInv, [Next]_vars PROVE IInv'
        OBVIOUS
    <2>1. ASSUME NEW t \in Minute, Driver(t) PROVE IInv'
        BY <2>1, RefusalKeeps, LoadMinuteKeeps DEF Driver
    <2>2. ASSUME NEW d \in Dte, Calibrate(d) PROVE IInv'
        BY <2>2, DeferSliceKeeps, ReachedKeeps, ReachedLateKeeps, SolverRaisesKeeps
           DEF Calibrate
    <2>3. CASE PublishSurface
        BY <2>3, PublishKeeps
    <2>4. CASE ReusePrior
        BY <2>4, ReuseKeeps
    <2>5. CASE KillMinute
        BY <2>5, KillKeeps
    <2>6. CASE Restart
        BY <2>6, RestartKeeps
    <2>7. CASE UNCHANGED vars
        BY <2>7, StutterKeeps
    <2> QED
        BY <2>1, <2>2, <2>3, <2>4, <2>5, <2>6, <2>7 DEF Next
<1> QED
    BY InitKeeps, <1>1, PTL DEF Spec

\* Every variable keeps its type.
THEOREM TypeCorrect == Spec => []TypeOK
<1>1. IInv => TypeOK
    BY DEF IInv
<1> QED
    BY Invariance, <1>1, PTL

\* A surface that is given out is ordered in total variance from any expiry to
\* any longer one, although the audit compares neighbours only and although
\* rejected, copied and deferred slices are among the results.
THEOREM OrderedSurfaces == Spec => []EmittedSurfaceIsOrdered
<1>1. IInv => EmittedSurfaceIsOrdered
    <2> SUFFICES ASSUME IInv, out \in {"calibrated", "reused_prior"}
                 PROVE  EmittedSurfaceIsOrdered
        BY DEF EmittedSurfaceIsOrdered
    <2>1. params.at # 0
        BY DEF IInv, ClockInv
    <2>2. params.slices \in Slices /\ Monotone(params.slices)
        BY DEF IInv, TypeOK, Surface, HeldInv, AuditPasses
    <2> QED
        BY <2>1, <2>2, NeighboursOrderAll DEF EmittedSurfaceIsOrdered
<1> QED
    BY Invariance, <1>1, PTL

\* The flags of the RuntimeState describe the surface that it holds.
THEOREM FlagsTellTheTruth == Spec => []FlagsMatchSurface
<1>1. IInv => FlagsMatchSurface
    BY DEF IInv, FlagInv, FlagsMatchSurface
<1> QED
    BY Invariance, <1>1, PTL

\* However long a chain of repetitions, it ends with the session: this needs
\* SessionAssumption, that the closed hours exceed Patience.
THEOREM ReuseEndsWithSession == Spec => []ReuseStaysInSession
<1>1. IInv /\ out = "reused_prior" => calTime = now /\ params.at # 0
    BY DEF IInv, ClockInv
<1>2. IInv => ReuseStaysInSession
    BY <1>1 DEF IInv, HeldInv, ReuseStaysInSession
<1> QED
    BY Invariance, <1>2, PTL

\* The lock keeps the accepted slices in order across rejected ones.
THEOREM AcceptedAscend == Spec => []AcceptedSlicesAscend
<1>1. IInv => AcceptedSlicesAscend
    BY DEF IInv, LockInv
<1> QED
    BY Invariance, <1>1, PTL

\* A deferred slice that is accepted and passes the audit is level with every
\* longer accepted slice.
THEOREM DeferredIsFlat == Spec => []AcceptedDeferredSliceIsFlat
<1>1. IInv => AcceptedDeferredSliceIsFlat
    <2> SUFFICES ASSUME IInv, AuditPasses(results),
                        NEW d \in deferred, NEW e \in DOMAIN results \ deferred,
                        Audited, d < e, results[d].valid, results[e].valid
                 PROVE  results[d].theta = results[e].theta
        BY DEF AcceptedDeferredSliceIsFlat
    <2>1. d \in DOMAIN results
        BY DEF Audited, Late
    <2>2. results[e].theta <= results[d].theta
        BY <2>1 DEF IInv, LockInv
    <2>3. results \in Slices /\ Monotone(results)
        BY DEF IInv, TypeOK, AuditPasses
    <2>4. results[d].theta <= results[e].theta
        BY <2>1, <2>3, NeighboursOrderAll
    <2>5. results[d].theta \in Nat /\ results[e].theta \in Nat
        BY <2>1, <2>3, SlicesAreFunctions, SliceFields
    <2> QED
        BY <2>2, <2>4, <2>5
<1> QED
    BY Invariance, <1>1, PTL

\* A slice marked valid comes from the quotes of its own minute, and nothing
\* from before a restart is used after it.
THEOREM ProvenanceKept == Spec => []ProvenanceOfSlices
<1>1. IInv => ProvenanceOfSlices
    BY DEF IInv
<1> QED
    BY Invariance, <1>1, PTL

\* The minute loop implements the feed its consumers see.
THEOREM ImplementsSurfaceFeed == Spec => ImplementsFeed
<1> USE DEF Feed!feedVars
<1>1. Init => Feed!Init
    BY NoneTyped DEF Init, Feed!Init
<1>2. ASSUME IInv, [Next]_vars
      PROVE  [Feed!Next]_(Feed!feedVars)
    <2>1. ASSUME NEW t \in Minute, Driver(t) PROVE UNCHANGED Feed!feedVars
        BY <2>1 DEF Driver, SkipMinute, LoadRaises, TooFewSlices, LoadMinute, Ask, state
    <2>2. ASSUME NEW d \in Dte, Calibrate(d) PROVE UNCHANGED Feed!feedVars
        BY <2>2 DEF Calibrate, DeferSlice, FitSlice, CopySlice, FitDeferred,
                    CopyDeferred, SolverRaises, state
    <2>3. CASE PublishSurface
        <3>1. now \in Minute /\ now > calTime
            BY <1>2, <2>3, RuntimeAssumption
               DEF PublishSurface, Audited, IInv, TypeOK, ClockInv, Minute
        <3>2. params'.at = now /\ calTime' = now /\ stale' = FALSE
            BY <2>3 DEF PublishSurface
        <3> QED
            BY <3>1, <3>2 DEF Feed!Next, Feed!Publish
    <2>4. CASE ReusePrior
        <3>1. now \in Minute /\ now > calTime /\ calTime \in Nat
            BY <1>2, <2>4, RuntimeAssumption
               DEF ReusePrior, Audited, IInv, TypeOK, ClockInv, Minute
        <3>2. now <= calTime + Patience
            BY <2>4, <3>1, RuntimeAssumption DEF ReusePrior, IsSurfaceStale, Minute
        <3>3. /\ params.at # 0 /\ params' = params
              /\ calTime' = now /\ stale' = TRUE
            BY <2>4 DEF ReusePrior
        <3> QED
            BY <3>1, <3>2, <3>3 DEF Feed!Next, Feed!Repeat
    <2>5. CASE KillMinute
        BY <2>5 DEF KillMinute
    <2>6. CASE Restart
        BY <2>6, NoneTyped DEF Restart, Feed!Next, Feed!Forget
    <2>7. CASE UNCHANGED vars
        BY <2>7 DEF vars, state
    <2> QED
        BY <1>2, <2>1, <2>2, <2>3, <2>4, <2>5, <2>6, <2>7 DEF Next
<1> QED
    BY Invariance, <1>1, <1>2, PTL DEF Spec, ImplementsFeed, Feed!Spec
-----------------------------------------------------------------------------
(* The way of a minute *)

\* The slice in hand is one of those that are left.
LEMMA ReachedIsLeft ==
    ASSUME IInv, NEW d
    PROVE  /\ Reached(d) => d \in todo /\ d \notin deferred /\ d \notin DOMAIN results
           /\ ReachedLate(d) => d \in Late /\ d \in deferred /\ d \notin DOMAIN results
<1>1. todo \in SUBSET Nat /\ Late \in SUBSET Nat /\ DOMAIN results \in SUBSET Nat
    <2>1. DOMAIN results \in SUBSET Dte
        BY SlicesAreFunctions DEF IInv, TypeOK
    <2> QED
        BY <2>1, RuntimeAssumption DEF IInv, TypeOK, Late
<1>2. ASSUME Reached(d)
      PROVE  d \in todo /\ d \notin deferred /\ d \notin DOMAIN results
    <2>1. d \in todo
        BY <1>1, <1>2, LeastIsLeast DEF Reached
    <2>2. d \notin deferred /\ \A e \in DOMAIN results : e < d
        BY <2>1 DEF IInv, OrderInv
    <2> QED
        BY <1>1, <2>1, <2>2
<1>3. ReachedLate(d) => d \in Late
    BY <1>1, LeastIsLeast DEF ReachedLate
<1> QED
    BY <1>2, <1>3 DEF Late

\* A result is added and none is changed.
LEMMA AppendSettles ==
    ASSUME IInv, NEW d \in Dte, d \notin DOMAIN results, NEW s, Append(d, s)
    PROVE  /\ DOMAIN results' = DOMAIN results \union {d}
           /\ \A e \in DOMAIN results : results'[e] = results[e]
BY DEF Append

LEMMA CalibrateSettles ==
    ASSUME IInv, NEW d \in Dte,
           DeferSlice(d) \/ FitSlice(d) \/ CopySlice(d) \/ FitDeferred(d) \/ CopyDeferred(d)
    PROVE  /\ Group' = Group
           /\ \A e \in DOMAIN results : e \in DOMAIN results' /\ results'[e] = results[e]
           /\ \/ todo' \subseteq todo /\ todo' # todo
              \/ todo' = todo /\ Late' \subseteq Late /\ Late' # Late
<1>1. CASE DeferSlice(d)
    BY <1>1, ReachedIsLeft DEF DeferSlice, Group
<1>2. CASE FitSlice(d) \/ CopySlice(d)
    <2>1. Reached(d) /\ todo' = todo \ {d} /\ deferred' = deferred /\ \E s : Append(d, s)
        BY <1>2 DEF FitSlice, CopySlice
    <2>2. /\ DOMAIN results' = DOMAIN results \union {d}
          /\ \A e \in DOMAIN results : results'[e] = results[e]
        BY <2>1, ReachedIsLeft, AppendSettles
    <2> QED
        BY <2>1, <2>2, ReachedIsLeft DEF Group
<1>3. CASE FitDeferred(d) \/ CopyDeferred(d)
    <2>1. ReachedLate(d) /\ UNCHANGED <<todo, deferred>> /\ \E s : Append(d, s)
        BY <1>3 DEF FitDeferred, CopyDeferred
    <2>2. /\ DOMAIN results' = DOMAIN results \union {d}
          /\ \A e \in DOMAIN results : results'[e] = results[e]
        BY <2>1, ReachedIsLeft, AppendSettles
    <2> QED
        BY <2>1, <2>2, ReachedIsLeft DEF Group, Late
<1> QED
    BY <1>1, <1>2, <1>3

\* No expiry of a minute is lost, solved twice or changed by another; each step
\* of the calibration leaves fewer to settle, so that a minute of n expiries is
\* over after 2n of them and the audit.
THEOREM SettledOnce == Spec => SlicesSettleOnce
<1>1. ASSUME IInv, [Next]_vars, vars' # vars, pc = "calibrating"
      PROVE  \/ pc' = "idle" /\ (out' = "calibrated" => DOMAIN params'.slices = Group)
             \/ /\ Group' = Group
                /\ \A d \in DOMAIN results :
                        d \in DOMAIN results' /\ results'[d] = results[d]
                /\ \/ todo' \subseteq todo /\ todo' # todo
                   \/ todo' = todo /\ Late' \subseteq Late /\ Late' # Late
    <2>1. ~\E t \in Minute : Driver(t)
        BY <1>1 DEF Driver, SkipMinute, LoadRaises, TooFewSlices, LoadMinute, Ask
    <2>2. CASE \E d \in Dte : SolverRaises(d)
        BY <2>2 DEF SolverRaises, LeaveMinute
    <2>3. CASE \E d \in Dte : Calibrate(d) /\ ~SolverRaises(d)
        BY <1>1, <2>3, CalibrateSettles DEF Calibrate
    <2>4. CASE PublishSurface
        <3>1. todo = {} /\ deferred \subseteq DOMAIN results
            BY <2>4 DEF PublishSurface, Audited, Late
        <3>2. pc' = "idle" /\ params'.slices = results
            BY <2>4 DEF PublishSurface, EndMinute, LeaveMinute
        <3> QED
            BY <3>1, <3>2 DEF Group
    <2>5. CASE ReusePrior \/ KillMinute \/ Restart
        BY <2>5 DEF ReusePrior, KillMinute, Restart, EndMinute, LeaveMinute
    <2> QED
        BY <1>1, <2>1, <2>2, <2>3, <2>4, <2>5 DEF Next
<1>2. IInv /\ [Next]_vars =>
        [pc = "calibrating" =>
          \/ pc' = "idle" /\ (out' = "calibrated" => DOMAIN params'.slices = Group)
          \/ /\ Group' = Group
             /\ \A d \in DOMAIN results : d \in DOMAIN results' /\ results'[d] = results[d]
             /\ \/ todo' \subseteq todo /\ todo' # todo
                \/ todo' = todo /\ Late' \subseteq Late /\ Late' # Late]_vars
    BY <1>1
<1> QED
    BY Invariance, <1>2, PTL DEF Spec, SlicesSettleOnce

\* There is always something to be copied, if only the defaults.
LEMMA CopyExists ==
    ASSUME NEW d \in Dte
    PROVE  Copies(d) # {}
<1> DEFINE default == [theta |-> 1, sound |-> TRUE, valid |-> FALSE, fitted |-> 0]
<1>1. default \in Slice /\ default.theta # NaN /\ ~default.valid /\ default.fitted = 0
    BY RuntimeAssumption DEF Slice, NaN
<1>2. {[locked EXCEPT !.valid = FALSE, !.sound = b] : b \in BOOLEAN} # {}
    OBVIOUS
<1> HIDE DEF default
<1> QED
    BY <1>1, <1>2 DEF Copies

\* The calibration of a minute never gets stuck between its slices.
THEOREM AlwaysGoesOn == Spec => []MinuteGoesOn
<1>1. IInv => MinuteGoesOn
    <2> SUFFICES ASSUME IInv, pc = "calibrating", ~Audited
                 PROVE  \/ \E d \in Dte : Reached(d) /\ (d \in thin \/ Copies(d) # {})
                        \/ \E d \in Dte : ReachedLate(d)
                                           /\ (HasLongerResult(d) \/ Copies(d) # {})
        BY DEF MinuteGoesOn
    <2>1. todo \in SUBSET Dte /\ Late \in SUBSET Dte /\ Dte \subseteq Nat
        BY RuntimeAssumption DEF IInv, TypeOK, Late
    <2>2. CASE todo # {}
        <3>1. Least(todo) \in Dte /\ Reached(Least(todo))
            BY <2>1, <2>2, LeastIsLeast DEF Reached
        <3> QED
            BY <3>1, CopyExists
    <2>3. CASE todo = {}
        <3>1. Late # {}
            BY <2>3 DEF Audited
        <3>2. Least(Late) \in Dte /\ ReachedLate(Least(Late))
            BY <2>1, <2>3, <3>1, LeastIsLeast DEF ReachedLate
        <3> QED
            BY <3>2, CopyExists
    <2> QED
        BY <2>2, <2>3
<1> QED
    BY <1>1, Invariance, PTL
=============================================================================

--------------------------- MODULE SurfaceRuntime ---------------------------
(***************************************************************************)
(* The minute loop of essvi/runtime.py over the sequential calibration of  *)
(* essvi/sequential.py and the audit of essvi/audit.py.                    *)
(*                                                                         *)
(* A minute is loaded, its slices are fitted one by one in ascending dte,  *)
(* each against the last valid ("locked") slice; short slices with too few *)
(* quotes are deferred to the end; then the whole surface is audited and   *)
(* the RuntimeState is updated.  The loop is one thread: nothing           *)
(* interleaves with it, but an exception may end a minute at any slice and *)
(* the process may be restarted at any step with a fresh RuntimeState.     *)
(*                                                                         *)
(* A slice is abstracted to its total variance level theta, to whether the *)
(* audit's butterfly, slope and Lee tests pass on it ("sound"), to the     *)
(* verdict of the solver's own kill_switch ("valid") and to the minute     *)
(* whose quotes it was fitted to.  The solver may return any of them that  *)
(* the corridor allows: theta is never below that of the locked slice.     *)
(* The audit compares levels up to THETA_MONOTONICITY_EPS, which is 0 here.*)
(*                                                                         *)
(* Assumed: minutes are asked for in ascending order, as calibrate_batch   *)
(* does; calibrate_minute itself takes any timestamp.  The frame is one    *)
(* that can be fitted: the columns dte and implied_vol, which the loader   *)
(* of the code as it stands drops, are there.                              *)
(***************************************************************************)
EXTENDS Naturals, FiniteSets

CONSTANTS
    Dte,                    \* days to expiry a slice may have
    Imminent,               \* EXPIRY_IMMINENT_DTE
    MinSlices,              \* MIN_STRIKES_PER_SLICE, which also counts slices
    Patience,               \* STALE_SLICE_MAX_MINUTES
    ColdStartAtOpen,        \* COLD_START_AT_SESSION_OPEN
    DayLength, Open, Close, \* the clock, in minutes of the day
    NoTradeOpen, NoTradeClose,
    PairCheck,              \* what the solver's calendar check against a locked
                            \* slice does: {"raises"} in the code as it stands
    MaxTheta,               \* bound: levels of total variance
    MaxMinute               \* bound: timestamps

ASSUME RuntimeAssumption ==
    /\ Dte \subseteq Nat
    /\ Imminent \in Nat
    /\ MinSlices \in Nat \ {0}
    /\ Patience \in Nat
    /\ ColdStartAtOpen \in BOOLEAN
    /\ DayLength \in Nat \ {0}
    /\ Open \in Nat /\ Close \in Nat
    /\ NoTradeOpen \in Nat /\ NoTradeClose \in Nat
    /\ PairCheck \subseteq {"raises", "returns"}
    /\ MaxTheta \in Nat \ {0}
    /\ MaxMinute \in Nat

VARIABLES
    \* RuntimeState, without the tallies that only get_runtime_summary reads
    params,     \* last_minute_params
    calTime,    \* last_calibration_time, 0 for None
    passed,     \* last_audit_passed
    stale,      \* stale_surface
    cold,       \* cold_start
    \* the driver
    now,        \* timestamp of the last minute asked for
    out,        \* what calibrate_minute returned for it
    \* the minute in hand
    pc,         \* "calibrating" inside calibrate_one_minute, else "idle"
    todo,       \* slices not reached yet
    thin,       \* short slices with too few strikes or belly quotes
    deferred,   \* slices put off
    results,    \* slice_results, by dte
    locked      \* prev_locked

state == <<params, calTime, passed, stale, cold>>
locals == <<todo, thin, deferred, results, locked>>
vars == <<state, now, out, pc, locals>>

Minute == 1 .. MaxMinute
NaN == 0
Slice == [theta : NaN .. MaxTheta, sound : BOOLEAN, valid : BOOLEAN,
          fitted : {0} \union Minute]
Slices == UNION {[D -> Slice] : D \in SUBSET Dte}
Surface == [at : {0} \union Minute, slices : Slices, cold : BOOLEAN]

\* None: no slice is locked, no result yet, no surface is held.
NoSlice == [theta |-> NaN, sound |-> FALSE, valid |-> FALSE, fitted |-> 0]
NoResults == [d \in {} |-> NoSlice]
NoSurface == [at |-> 0, slices |-> NoResults, cold |-> FALSE]

Answer == {"none", "skipped", "raised", "too_few_slices", "kill_switch",
           "reused_prior", "calibrated"}

TypeOK ==
    /\ params \in Surface
    /\ calTime \in {0} \union Minute
    /\ passed \in BOOLEAN /\ stale \in BOOLEAN /\ cold \in BOOLEAN
    /\ now \in {0} \union Minute
    /\ out \in Answer
    /\ pc \in {"idle", "calibrating"}
    /\ todo \in SUBSET Dte /\ thin \in SUBSET Dte /\ deferred \in SUBSET Dte
    /\ results \in Slices
    /\ locked \in Slice

Init ==
    /\ params = NoSurface
    /\ calTime = 0
    /\ passed = TRUE /\ stale = FALSE /\ cold = TRUE
    /\ now = 0
    /\ out = "none"
    /\ pc = "idle"
    /\ todo = {} /\ thin = {} /\ deferred = {}
    /\ results = NoResults
    /\ locked = NoSlice

-----------------------------------------------------------------------------
(* The session clock.  calibrate_minute passes no exchange calendar, so a   *)
(* half day is timed like any other.                                       *)

SessionPhase(t) ==
    LET m == t % DayLength IN
    IF m >= Close THEN "post_close"
    ELSE IF m < Open \/ m < Open + NoTradeOpen THEN "pre_open"
    ELSE IF Close < m + NoTradeClose THEN "no_trade_window"
    ELSE "rth"

ShouldCalibrate(t) == SessionPhase(t) = "rth"

Day(t) == t \div DayLength

\* The market is closed for longer than a surface may be repeated.
ASSUME SessionAssumption ==
    \A s, t \in Minute :
        ShouldCalibrate(s) /\ ShouldCalibrate(t) /\ s <= t /\ t <= s + Patience =>
            Day(s) = Day(t)

\* Mutant of IsSurfaceStale: one minute of patience too many.
StaleOneLater(t) == calTime = 0 \/ t > calTime + Patience + 1

\* is_surface_stale, and the test of _prior_not_too_stale negated.
IsSurfaceStale(t) == calTime = 0 \/ t > calTime + Patience
-----------------------------------------------------------------------------
(* calibrate_minute, up to the call of calibrate_one_minute *)

\* The next minute of a driver that goes forward in time.
Ask(t) ==
    /\ pc = "idle"
    /\ t > now
    /\ now' = t
    /\ UNCHANGED state

\* Mutant of SkipMinute: a skipped minute counts as an answer.
SkipRefreshesClock(t) ==
    /\ pc = "idle"
    /\ t > now
    /\ ~ShouldCalibrate(t)
    /\ now' = t
    /\ calTime' = IF calTime = 0 THEN 0 ELSE t
    /\ out' = "skipped"
    /\ UNCHANGED <<params, passed, stale, cold, pc, locals>>

SkipMinute(t) ==
    /\ Ask(t)
    /\ ~ShouldCalibrate(t)
    /\ out' = "skipped"
    /\ UNCHANGED <<pc, locals>>

\* No rows (DataNotFoundError), a missing column, a NaN: the loader raises.
LoadRaises(t) ==
    /\ Ask(t)
    /\ ShouldCalibrate(t)
    /\ out' = "raised"
    /\ UNCHANGED <<pc, locals>>

TooFewSlices(t) ==
    /\ Ask(t)
    /\ ShouldCalibrate(t)
    /\ out' = "too_few_slices"
    /\ UNCHANGED <<pc, locals>>

LoadMinute(t) ==
    /\ Ask(t)
    /\ ShouldCalibrate(t)
    /\ \E groups \in SUBSET Dte :
        /\ Cardinality(groups) >= MinSlices
        /\ todo' = groups
        /\ thin' \in SUBSET {d \in groups : d <= Imminent}
    /\ deferred' = {}
    /\ results' = NoResults
    /\ locked' = NoSlice
    /\ pc' = "calibrating"
    /\ out' = "none"

\* The parameters of the previous minute, unless this is a cold start.
UseColdStart == ColdStartAtOpen /\ cold
Prior == IF UseColdStart THEN NoSurface ELSE params

\* The loader never produces the phase "pre_open" that should_cold_start also
\* looks for.
ShouldColdStart == Prior.at = 0 \/ (ColdStartAtOpen /\ Prior.cold)
TemporalActive == ~ShouldColdStart
-----------------------------------------------------------------------------
(* calibrate_one_minute *)

Least(S) == CHOOSE d \in S : \A e \in S : d <= e
HasLocked == locked # NoSlice

\* build_corridor: the lower bounds on theta, of which that of the locked slice is
\* the one that carries over to another slice.
InCorridor(s) == s.theta # NaN /\ s.theta >= locked.theta

\* What solve_single_slice can return when some rho has a corridor: clamp_params
\* keeps theta in it, the verdict of kill_switch is free.
Fits ==
    {s \in Slice :
        /\ InCorridor(s)
        /\ s.fitted = now
        /\ HasLocked => "returns" \in PairCheck}

\* Mutant of Unsolved: a failed solve reports the level above the corridor.
UnsolvedAboveCorridor ==
    [theta |-> MaxTheta + 1, sound |-> TRUE, valid |-> FALSE, fitted |-> now]

\* What it returns when none has.
Unsolved == [theta |-> NaN, sound |-> TRUE, valid |-> FALSE, fitted |-> now]

\* Mutant of Copies: the copy keeps the verdict of the slice it copies.
CopiesKeepVerdict(d) ==
    IF d \in DOMAIN Prior.slices
    THEN {Prior.slices[d]}
    ELSE IF HasLocked
    THEN {[locked EXCEPT !.sound = b] : b \in BOOLEAN}
    ELSE {s \in Slice : s.theta # NaN /\ ~s.valid /\ s.fitted = 0}

\* copy_prior_params: the previous minute's slice of the same dte, else the
\* locked slice (whose slope bound differs at another dte), else defaults.
Copies(d) ==
    IF d \in DOMAIN Prior.slices
    THEN {[Prior.slices[d] EXCEPT !.valid = FALSE]}
    ELSE IF HasLocked
    THEN {[locked EXCEPT !.valid = FALSE, !.sound = b] : b \in BOOLEAN}
    ELSE {s \in Slice : s.theta # NaN /\ ~s.valid /\ s.fitted = 0}

\* Mutant of Append: every slice becomes the locked one.
AppendLocksAny(d, s) ==
    /\ results' = [e \in DOMAIN results \union {d} |-> IF e = d THEN s ELSE results[e]]
    /\ locked' = s

Append(d, s) ==
    /\ results' = [e \in DOMAIN results \union {d} |-> IF e = d THEN s ELSE results[e]]
    /\ locked' = IF s.valid THEN s ELSE locked

\* The locals go with the call.
LeaveMinute ==
    /\ pc' = "idle"
    /\ todo' = {} /\ thin' = {} /\ deferred' = {}
    /\ results' = NoResults
    /\ locked' = NoSlice

Reached(d) == pc = "calibrating" /\ todo # {} /\ d = Least(todo)

DeferSlice(d) ==
    /\ Reached(d)
    /\ d \in thin
    /\ todo' = todo \ {d}
    /\ deferred' = deferred \union {d}
    /\ UNCHANGED <<state, now, out, pc, thin, results, locked>>

\* The first solve, or the retry of handle_degenerate_slice with a fixed rho.
FitSlice(d) ==
    /\ Reached(d)
    /\ d \notin thin
    /\ \E s \in Fits : Append(d, s)
    /\ todo' = todo \ {d}
    /\ UNCHANGED <<state, now, out, pc, thin, deferred>>

\* Both solves found no corridor.
CopySlice(d) ==
    /\ Reached(d)
    /\ d \notin thin
    /\ \E s \in Copies(d) : Append(d, s)
    /\ todo' = todo \ {d}
    /\ UNCHANGED <<state, now, out, pc, thin, deferred>>

Late == deferred \ DOMAIN results
ReachedLate(d) == pc = "calibrating" /\ todo = {} /\ Late # {} /\ d = Least(Late)
HasLongerResult(d) == \E e \in DOMAIN results : e > d

\* Mutant of FitDeferred: the solver is called without the locked slice.
FitDeferredUnlocked(d) ==
    /\ ReachedLate(d)
    /\ HasLongerResult(d)
    /\ \E s \in Slice : s.theta # NaN /\ s.fitted = now /\ Append(d, s)
    /\ UNCHANGED <<state, now, out, pc, todo, thin, deferred>>

\* handle_short_maturity with the rho of the next longer slice: the solver still
\* gets prev_locked, and a failed solve is kept as it is.
FitDeferred(d) ==
    /\ ReachedLate(d)
    /\ HasLongerResult(d)
    /\ \E s \in Fits \union {Unsolved} : Append(d, s)
    /\ UNCHANGED <<state, now, out, pc, todo, thin, deferred>>

CopyDeferred(d) ==
    /\ ReachedLate(d)
    /\ ~HasLongerResult(d)
    /\ \E s \in Copies(d) : Append(d, s)
    /\ UNCHANGED <<state, now, out, pc, todo, thin, deferred>>

\* kill_switch calls check_calendar_pasquazzi, which takes six numbers, with the
\* locked slice and the new one: a TypeError that nobody catches.  An
\* exception anywhere else in the minute leaves the state as LoadRaises does.
SolverRaises(d) ==
    /\ \/ Reached(d) /\ d \notin thin
       \/ ReachedLate(d) /\ HasLongerResult(d)
    /\ HasLocked
    /\ "raises" \in PairCheck
    /\ out' = "raised"
    /\ LeaveMinute
    /\ UNCHANGED <<state, now>>
-----------------------------------------------------------------------------
(* run_full_audit and the end of calibrate_minute *)

Adjacent(f, d, e) ==
    /\ d < e
    /\ \A x \in DOMAIN f : ~(d < x /\ x < e)

\* Mutant of Monotone: "theta2 + tol < theta1" is the failure, false for NaN.
MonotoneLetsNaNPass(f) ==
    \A d, e \in DOMAIN f : Adjacent(f, d, e) =>
        ~(f[d].theta # NaN /\ f[e].theta # NaN /\ f[e].theta < f[d].theta)

\* audit_monotonicity, with audit_calendar at the money: "theta2 + tol >= theta1"
\* is false when either is NaN.
Monotone(f) ==
    \A d, e \in DOMAIN f : Adjacent(f, d, e) =>
        f[d].theta # NaN /\ f[e].theta # NaN /\ f[d].theta <= f[e].theta

AuditPasses(f) == Monotone(f) /\ \A d \in DOMAIN f : f[d].sound

Audited == pc = "calibrating" /\ todo = {} /\ Late = {}

EndMinute(answer) ==
    /\ cold' = (cold /\ ~UseColdStart)
    /\ out' = answer
    /\ LeaveMinute
    /\ UNCHANGED now

PublishSurface ==
    /\ Audited
    /\ AuditPasses(results)
    /\ params' = [at |-> now, slices |-> results, cold |-> ShouldColdStart]
    /\ calTime' = now
    /\ stale' = FALSE
    /\ passed' = TRUE
    /\ EndMinute("calibrated")

\* Mutant of ReusePrior: the verdict of the last audit is left as it was.
ReuseKeepsVerdict ==
    /\ Audited
    /\ ~AuditPasses(results)
    /\ params.at # 0 /\ ~IsSurfaceStale(now)
    /\ calTime' = now
    /\ stale' = TRUE
    /\ UNCHANGED <<params, passed>>
    /\ EndMinute("reused_prior")

ReusePrior ==
    /\ Audited
    /\ ~AuditPasses(results)
    /\ params.at # 0 /\ ~IsSurfaceStale(now)
    /\ calTime' = now
    /\ stale' = TRUE
    /\ passed' = FALSE
    /\ UNCHANGED params
    /\ EndMinute("reused_prior")

KillMinute ==
    /\ Audited
    /\ ~AuditPasses(results)
    /\ ~(params.at # 0 /\ ~IsSurfaceStale(now))
    /\ passed' = FALSE
    /\ UNCHANGED <<params, calTime, stale>>
    /\ EndMinute("kill_switch")

\* The state lives in memory only: a new process begins with a new one.
Restart ==
    /\ params' = NoSurface
    /\ calTime' = 0
    /\ passed' = TRUE /\ stale' = FALSE /\ cold' = TRUE
    /\ LeaveMinute
    /\ out' = "none"
    /\ UNCHANGED now
-----------------------------------------------------------------------------
Driver(t) ==
    \/ SkipMinute(t)
    \/ LoadRaises(t)
    \/ TooFewSlices(t)
    \/ LoadMinute(t)

Calibrate(d) ==
    \/ DeferSlice(d)
    \/ FitSlice(d)
    \/ CopySlice(d)
    \/ FitDeferred(d)
    \/ CopyDeferred(d)
    \/ SolverRaises(d)

Next ==
    \/ \E t \in Minute : Driver(t)
    \/ \E d \in Dte : Calibrate(d)
    \/ PublishSurface \/ ReusePrior \/ KillMinute
    \/ Restart

Spec == Init /\ [][Next]_vars
-----------------------------------------------------------------------------
(* Properties *)

Feed == INSTANCE SurfaceFeed
    WITH origin <- params.at, clock <- calTime, flagged <- stale

\* calibrate_minute keeps the promise of the feed: a fresh surface or a flagged
\* repetition of an audited one, never an unaudited surface and never a
\* repetition across a longer silence than STALE_SLICE_MAX_MINUTES.
ImplementsFeed == Feed!Spec

\* Whatever was fitted, copied, deferred or retried, the surface a consumer gets
\* ("calibrated" or "reused_prior") has finite slices whose total variance does
\* not decrease from any expiry to any longer one (README, section 7: "Never
\* emit an arbitrageable surface").
EmittedSurfaceIsOrdered ==
    out \in {"calibrated", "reused_prior"} =>
        /\ params.at # 0
        /\ \A d, e \in DOMAIN params.slices : d < e =>
            /\ params.slices[d].theta # NaN
            /\ params.slices[d].theta <= params.slices[e].theta

\* The flags agree with what is held: a passed audit means that the surface held
\* is that of the last emission; the stale flag means it is an older one whose
\* later minute was killed, and no cold start is pending.
FlagsMatchSurface ==
    /\ passed /\ params.at # 0 => params.at = calTime /\ ~stale
    /\ stale => ~passed /\ params.at # 0 /\ params.at < calTime
    /\ cold => params.at = 0 \/ ~ColdStartAtOpen

\* A surface is only repeated within the session it was calibrated in, however
\* long the chain of repetitions: the reuse clock cannot bridge the night.
ReuseStaysInSession ==
    out = "reused_prior" => Day(params.at) = Day(now)

\* Slices that the solver accepted are ordered among themselves even when slices
\* between them were rejected or copied: the lock skips those.
AcceptedSlicesAscend ==
    \A d, e \in DOMAIN results \ deferred :
        d < e /\ results[d].valid /\ results[e].valid =>
            results[d].theta <= results[e].theta

\* A deferred slice is solved against the longest locked slice, not against its
\* neighbours, so one that the solver accepts can pass the audit only if every
\* accepted longer slice has exactly its total variance.
AcceptedDeferredSliceIsFlat ==
    Audited /\ AuditPasses(results) =>
        \A d \in deferred, e \in DOMAIN results \ deferred :
            d < e /\ results[d].valid /\ results[e].valid =>
                results[d].theta = results[e].theta

\* A slice marked valid was fitted to quotes of the minute of its surface; with
\* no prior, a rejected one carries nothing from before the restart.
ProvenanceOfSlices ==
    /\ \A d \in DOMAIN params.slices :
        /\ params.slices[d].fitted <= params.at
        /\ params.slices[d].valid => params.slices[d].fitted = params.at
    /\ Prior.at = 0 => \A d \in DOMAIN results : results[d].fitted \in {0, now}

\* The expiries of the minute in hand.
Group == todo \union deferred \union DOMAIN results

\* Each expiry of a minute gets one result, deferred or not, that no later slice of
\* the minute changes: a step settles one or puts it off for good, and a surface is
\* published with all of them or not at all (sequential.py:494-584).
SlicesSettleOnce ==
    [][pc = "calibrating" =>
          \/ pc' = "idle" /\ (out' = "calibrated" => DOMAIN params'.slices = Group)
          \/ /\ Group' = Group
             /\ \A d \in DOMAIN results : d \in DOMAIN results' /\ results'[d] = results[d]
             /\ \/ todo' \subseteq todo /\ todo' # todo
                \/ todo' = todo /\ Late' \subseteq Late /\ Late' # Late]_vars

\* And the loop always knows how to go on: whatever was rejected or copied before,
\* the slice it has reached can be put off, copied or reported as unsolved.
MinuteGoesOn ==
    pc = "calibrating" =>
        \/ Audited
        \/ \E d \in Dte : Reached(d) /\ (d \in thin \/ Copies(d) # {})
        \/ \E d \in Dte : ReachedLate(d) /\ (HasLongerResult(d) \/ Copies(d) # {})
-----------------------------------------------------------------------------
(* The inductive invariant of the proofs (SurfaceRuntimeProofs.tla) *)

\* Between minutes there are no locals.
IdleInv ==
    pc = "idle" => todo = {} /\ deferred = {} /\ results = NoResults /\ locked = NoSlice

\* The surface held passed its audit and is no younger than the clock.
HeldInv ==
    /\ params.at = 0 => params = NoSurface /\ calTime = 0
    /\ params.at # 0 => params.at <= calTime /\ ShouldCalibrate(calTime)
    /\ params.at # 0 => Day(params.at) = Day(calTime)
    /\ calTime <= now
    /\ AuditPasses(params.slices)

\* The minute in hand is later than the last answer with a surface.
ClockInv ==
    /\ pc = "calibrating" => calTime < now /\ ShouldCalibrate(now) /\ out = "none"
    /\ out \in {"calibrated", "reused_prior"} => params.at # 0 /\ calTime = now

FlagInv ==
    /\ stale => ~passed /\ params.at # 0 /\ params.at < calTime
    /\ ~stale => params.at = calTime
    /\ cold => params.at = 0 \/ ~ColdStartAtOpen

\* Slices are reached in ascending order, deferred ones after all others.
OrderInv ==
    /\ todo \intersect deferred = {}
    /\ \A d \in DOMAIN results, e \in todo : d < e
    /\ todo # {} => deferred \intersect DOMAIN results = {}

\* Every accepted slice is at most as high as the locked one.
LockInv ==
    /\ HasLocked => locked.valid /\ locked.theta # NaN /\ locked.fitted = now
    /\ \A d \in DOMAIN results : results[d].valid => results[d].theta <= locked.theta
    /\ AcceptedSlicesAscend
    /\ \A d \in deferred \intersect DOMAIN results, e \in DOMAIN results \ deferred :
        results[d].valid /\ results[e].valid => results[e].theta <= results[d].theta

FittedInv ==
    \A d \in DOMAIN results :
        /\ results[d].fitted <= now
        /\ results[d].valid => results[d].fitted = now

IInv ==
    /\ TypeOK
    /\ IdleInv
    /\ HeldInv
    /\ ClockInv
    /\ FlagInv
    /\ OrderInv
    /\ LockInv
    /\ FittedInv
    /\ ProvenanceOfSlices
=============================================================================

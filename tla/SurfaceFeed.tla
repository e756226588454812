---------------------------- MODULE SurfaceFeed ----------------------------
(***************************************************************************)
(* What the consumer of the minute loop may rely on, whatever goes on      *)
(* inside a calibration.  A minute answers with a surface that passed its  *)
(* audit in that very minute, with an older audited surface that is        *)
(* flagged, or with none.  An older surface is repeated only while no gap  *)
(* between two answers exceeds Patience.                                   *)
(*                                                                         *)
(* SurfaceRuntime.tla is the detailed specification that implements this.  *)
(***************************************************************************)
EXTENDS Naturals

CONSTANTS
    Minute,     \* timestamps of the minutes that may be asked for
    Patience    \* STALE_SLICE_MAX_MINUTES

VARIABLES
    origin,     \* minute whose audited surface is held, 0 if none
    clock,      \* minute of the last answer that carried a surface
    flagged     \* that answer was a repetition

feedVars == <<origin, clock, flagged>>

Init == origin = 0 /\ clock = 0 /\ flagged = FALSE

Publish(t) ==
    /\ t > clock
    /\ origin' = t
    /\ clock' = t
    /\ flagged' = FALSE

Repeat(t) ==
    /\ origin # 0
    /\ t > clock
    /\ t <= clock + Patience
    /\ clock' = t
    /\ flagged' = TRUE
    /\ UNCHANGED origin

\* The process was restarted: nothing is held.
Forget ==
    /\ origin' = 0
    /\ clock' = 0
    /\ flagged' = FALSE

Next == Forget \/ \E t \in Minute : Publish(t) \/ Repeat(t)

Spec == Init /\ [][Next]_feedVars
=============================================================================

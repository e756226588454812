---------------------------- MODULE ChainFilter ----------------------------
(***************************************************************************)
(* The checks that sort the rows of a fetched chunk into clean and         *)
(* quarantined ones: the band that the orchestrator applies, then          *)
(* clean_option_chain, then apply_post_join_filters.                       *)
(*                                                                         *)
(* A check looks at the rows that are left, files those that fail it under *)
(* its code, and hands the others on.  All but two look at one row at a    *)
(* time, so a row carries the set of those it fails.  INTRINSIC spares     *)
(* rows that SPREAD_HARD flagged, and builds its message with the row      *)
(* labels of the fetched frame used as positions in the filtered one.      *)
(* MONOTONICITY compares a row with the one before it in the chain.        *)
(***************************************************************************)
EXTENDS Naturals, FiniteSets, Sequences

CONSTANTS
    Chain,      \* (expiration, minute)
    Frames      \* the frames to be cleaned, as sets of rows

Checks == <<"DTE_BAND", "NO_QUOTE", "CROSSED", "SUBPENNY", "SPREAD_HARD",
            "BAD_MID", "ZERO_IV", "SPOT_NA", "INTRINSIC",
            "DELTA_BAND", "LOW_OI", "MONOTONICITY">>
Codes == {Checks[i] : i \in DOMAIN Checks}

\* "wide" rows have a relative spread above MAX_REL_SPREAD_BELLY; mids are in order,
\* not in dollars.  Two positive quotes have a positive middle.
Row == {r \in [label : Nat, chain : Chain, right : {"C", "P"}, strike : Nat, mid : Nat,
                fails : SUBSET (Codes \ {"MONOTONICITY"}), wide : BOOLEAN] :
            "BAD_MID" \in r.fails => "NO_QUOTE" \in r.fails}

ASSUME FrameAssumption == Frames \subseteq SUBSET Row

VARIABLES
    frame,      \* what was fetched and joined
    step,       \* 0: the orchestrator's band; i: Checks[i] is next
    result,     \* rows that are left
    quar,       \* <<row, reject_code>>
    belly,      \* rows with the BELLY_SPREAD flag
    raised      \* an IndexError ended the run

vars == <<frame, step, result, quar, belly, raised>>

Done == Len(Checks) + 1

TypeOK ==
    /\ frame \subseteq Row
    /\ step \in 0 .. Done
    /\ result \subseteq frame
    /\ quar \subseteq frame \X Codes
    /\ belly \subseteq frame
    /\ raised \in BOOLEAN

Init ==
    /\ frame \in Frames
    /\ step = 0
    /\ result = frame
    /\ quar = {}
    /\ belly = {}
    /\ raised = FALSE

Failing(code) == {r \in result : code \in r.fails}

\* Mutant: rows are filed, and stay.
RejectInPlace(rows, code) ==
    /\ result' = result
    /\ quar' = quar \union {<<r, code>> : r \in rows}
    /\ step' = step + 1

\* The rows that fail a check leave and are filed under its code.
Reject(rows, code) ==
    /\ result' = result \ rows
    /\ quar' = quar \union {<<r, code>> : r \in rows}
    /\ step' = step + 1
-----------------------------------------------------------------------------
\* Mutant: the band of the orchestrator is off.
PrefilterNothing ==
    /\ step = 0
    /\ step' = 1
    /\ UNCHANGED <<frame, result, quar, belly, raised>>

\* _prefilter_band: rows outside the band leave without a trace.
Prefilter ==
    /\ step = 0
    /\ step' = 1
    /\ result' = result \ Failing("DTE_BAND")
    /\ UNCHANGED <<frame, quar, belly, raised>>

\* Mutant: one check more than there are.
RejectPastTheEnd ==
    /\ step \in DOMAIN Checks \union {Done}
    /\ step = Done \/ Checks[step] \notin {"SPREAD_HARD", "INTRINSIC", "MONOTONICITY"}
    /\ IF step = Done THEN Reject({}, "LOW_OI") ELSE Reject(Failing(Checks[step]), Checks[step])
    /\ UNCHANGED <<frame, belly, raised>>

\* A check of single rows.
RejectRows ==
    /\ step \in DOMAIN Checks
    /\ Checks[step] \notin {"SPREAD_HARD", "INTRINSIC", "MONOTONICITY"}
    /\ Reject(Failing(Checks[step]), Checks[step])
    /\ UNCHANGED <<frame, belly, raised>>

\* Two tiers: too wide is rejected, wide is flagged and stays.
RejectSpreads ==
    /\ step \in DOMAIN Checks
    /\ Checks[step] = "SPREAD_HARD"
    /\ Reject(Failing("SPREAD_HARD"), "SPREAD_HARD")
    /\ belly' = {r \in result \ Failing("SPREAD_HARD") : r.wide}
    /\ UNCHANGED <<frame, raised>>

\* Flagged rows are spared.  The message reads the array of intrinsic values, one
\* for each row that is left, at the labels of the rows that fail.
RejectIntrinsic ==
    /\ step \in DOMAIN Checks
    /\ Checks[step] = "INTRINSIC"
    /\ ~raised
    /\ LET failing == Failing("INTRINSIC") \ belly IN
       IF \A r \in failing : r.label < Cardinality(result)
       THEN /\ Reject(failing, "INTRINSIC")
            /\ UNCHANGED raised
       ELSE /\ raised' = TRUE
            /\ UNCHANGED <<result, quar, step>>
    /\ UNCHANGED <<frame, belly>>

\* The row before r among S: same minute, expiration and right, the strike below.
Before(p, r, S) ==
    /\ p \in S
    /\ p.chain = r.chain /\ p.right = r.right
    /\ p.strike < r.strike
    /\ \A s \in S : s.chain = r.chain /\ s.right = r.right =>
                        ~(p.strike < s.strike /\ s.strike < r.strike)
Kinked(r, S) ==
    \E p \in S : /\ Before(p, r, S)
                 /\ IF r.right = "C" THEN r.mid > p.mid ELSE r.mid < p.mid

\* Mutant: the row before it is taken from the frame that was fetched.
RejectKinksOfFrame ==
    /\ step \in DOMAIN Checks
    /\ Checks[step] = "MONOTONICITY"
    /\ Reject({r \in result : Kinked(r, frame)}, "MONOTONICITY")
    /\ UNCHANGED <<frame, belly, raised>>

\* One pass: the row before r counts even if it is kinked itself.
RejectKinks ==
    /\ step \in DOMAIN Checks
    /\ Checks[step] = "MONOTONICITY"
    /\ Reject({r \in result : Kinked(r, result)}, "MONOTONICITY")
    /\ UNCHANGED <<frame, belly, raised>>

Cleaned ==
    /\ step = Done \/ raised
    /\ UNCHANGED vars

Next ==
    \/ Prefilter \/ RejectRows \/ RejectSpreads
    \/ RejectIntrinsic \/ RejectKinks
    \/ Cleaned

Spec == Init /\ [][Next]_vars
-----------------------------------------------------------------------------
(* Properties *)

\* What a row does on its own: the intrinsic check spares wide rows.
FailsAlone(r, code) == code \in r.fails /\ ~(code = "INTRINSIC" /\ r.wide)
\* The rows that get as far as the i-th check.
Reaching(i) == {r \in frame : /\ "DTE_BAND" \notin r.fails
                              /\ \A j \in DOMAIN Checks : j < i => ~FailsAlone(r, Checks[j])}

\* dataingestion.md, section 13, "Quarantine, don't drop": at every point of the
\* cleaning a row inside the band is either still there or filed, under one code,
\* and never both, although thirteen steps move rows about.
EveryRowHasOneFate ==
    step > 0 => \A r \in frame : "DTE_BAND" \notin r.fails =>
        \/ r \in result /\ \A code \in Codes : <<r, code>> \notin quar
        \/ r \notin result /\ \E code \in Codes :
             \A other \in Codes : <<r, other>> \in quar <=> other = code

\* The order of the checks, the early band and the flags do not matter to what is
\* accepted: a row is clean exactly when it fails no check of its own and is not
\* kinked among the rows of its chain that fail none.
CleanRowsAreSpecified ==
    step = Done =>
        result = {r \in Reaching(Done) : ~Kinked(r, Reaching(Done))}

\* The code of a rejected row is the first check it fails, so the counts by code
\* measure each filter; the two safety nets never catch a row.
CodesNameTheFirstFailure ==
    \A entry \in quar :
        /\ entry[2] \notin {"DTE_BAND", "BAD_MID"}
        /\ entry[2] # "MONOTONICITY" =>
             \E i \in DOMAIN Checks :
                /\ Checks[i] = entry[2]
                /\ entry[1] \in Reaching(i)
                /\ FailsAlone(entry[1], entry[2])
-----------------------------------------------------------------------------
(* The inductive invariant of the proofs (ChainFilterProofs.tla) *)

\* Between two checks the frame is split by the checks so far.
SplitInv ==
    /\ step \in 1 .. Len(Checks) => result = Reaching(step)
    /\ step = 0 => result = frame /\ quar = {}
    /\ step \in 6 .. Len(Checks) => belly = {r \in Reaching(6) : r.wide}

IInv == TypeOK /\ SplitInv /\ EveryRowHasOneFate /\ CodesNameTheFirstFailure
             /\ CleanRowsAreSpecified
=============================================================================

----------------------------- MODULE Persistence -----------------------------
(***************************************************************************)
(* The tables of calibrated surfaces, essvi/persistence.py.                *)
(*                                                                         *)
(* A calibrated minute is handed to insert_minute_params, which upserts    *)
(* one row per slice and commits at the end; its audit report goes to      *)
(* insert_audit_report, a transaction of its own.  Nothing rolls back: a   *)
(* call that ends with an exception leaves its rows on the connection, to  *)
(* be committed by whatever commits next.  A minute may be calibrated and  *)
(* stored again, with other expiries than before.                          *)
(*                                                                         *)
(* The same code serves two databases.  SQLite takes a NaN for NULL, which *)
(* the columns refuse, and an error ends one statement; Postgres stores a  *)
(* NaN, and an error ends the transaction, so that the connection refuses  *)
(* every statement from then on.                                           *)
(*                                                                         *)
(* The parameters of a slice are abstracted to the call that brought them. *)
(***************************************************************************)
EXTENDS Naturals, Sequences

CONSTANTS
    Dte,            \* days to expiry
    Surfaces,       \* what a calibrated minute may be: a Kind for each of its dte
    MaxMinute,      \* bound: timestamps
    MaxCalls        \* bound: calls of insert_minute_params

Minute == 1 .. MaxMinute

\* The caller hands over valid slices, rejected ones, and deferred slices whose
\* solve failed, with NaN for parameters (sequential.py:564-584).  A call without
\* slices returns at once and does nothing.
Kind == {"valid", "invalid", "unsolved"}
Handed == UNION {[D -> Kind] : D \in (SUBSET Dte) \ {{}}}

ASSUME PersistenceAssumption ==
    /\ Dte \subseteq Nat
    /\ Surfaces \subseteq Handed
    /\ MaxMinute \in Nat
    /\ MaxCalls \in Nat

Call == [at : Minute, slices : Handed, outcome : {"open", "returned", "raised"}]

Row == [call : Nat \ {0}, kind : Kind]
NoRow == [call |-> 0, kind |-> "none"]

VARIABLES
    db,         \* which database the connection leads to
    calls,      \* history: the calls of insert_minute_params
    todo,       \* slices of the last call that are not upserted yet
    stored,     \* essvi_surface_params as committed: a row per minute and dte
    view,       \* the same as this connection sees it
    audits,     \* essvi_surface_audit as committed: the call reported, or 0
    wedged      \* the transaction is aborted and every statement refused

vars == <<db, calls, todo, stored, view, audits, wedged>>

Table == [Minute -> [Dte -> Row \union {NoRow}]]

TypeOK ==
    /\ db \in {"sqlite", "postgres"}
    /\ calls \in Seq(Call)
    /\ todo \in SUBSET Dte
    /\ stored \in Table /\ view \in Table
    /\ audits \in [Minute -> Nat]
    /\ wedged \in BOOLEAN

Init ==
    /\ db \in {"sqlite", "postgres"}
    /\ calls = <<>>
    /\ todo = {}
    /\ stored = [m \in Minute |-> [d \in Dte |-> NoRow]]
    /\ view = stored
    /\ audits = [m \in Minute |-> 0]
    /\ wedged = FALSE
-----------------------------------------------------------------------------
Current == Len(calls)
InCall == Current > 0 /\ calls[Current].outcome = "open"

Least(S) == CHOOSE d \in S : \A e \in S : d <= e
Reached(d) == InCall /\ todo # {} /\ d = Least(todo)

\* Mutant: a NaN is written as NULL.
RowWithNull(c, d) ==
    LET kind == calls[c].slices[d] IN
    [call |-> c, kind |-> IF kind = "unsolved" THEN "none" ELSE kind]

RowOf(c, d) == [call |-> c, kind |-> calls[c].slices[d]]

EndCall(outcome) ==
    /\ calls' = [calls EXCEPT ![Current].outcome = outcome]
    /\ todo' = {}

\* What an error does to the connection: nothing, or the end of its transaction.
\* No handler rolls back.
Fail ==
    /\ wedged' = (db = "postgres")
    /\ view' = IF db = "postgres" THEN stored ELSE view
-----------------------------------------------------------------------------
(* insert_minute_params *)

Begin(m, slices) ==
    /\ ~InCall
    /\ Current < MaxCalls
    /\ calls' = Append(calls, [at |-> m, slices |-> slices, outcome |-> "open"])
    /\ todo' = DOMAIN slices
    /\ UNCHANGED <<db, stored, view, audits, wedged>>

\* Mutant: ON CONFLICT DO NOTHING.
UpsertNothing(m, d) ==
    view' = [view EXCEPT ![m][d] = IF @ = NoRow THEN RowOf(Current, d) ELSE @]

\* ON CONFLICT (timestamp, dte) DO UPDATE: the row takes all it is given.
Upsert(m, d) == view' = [view EXCEPT ![m][d] = RowOf(Current, d)]

\* Mutant: the row that is in conflict is looked up by its dte alone.
PutSliceEverywhere(d) ==
    /\ Reached(d)
    /\ ~wedged
    /\ ~(db = "sqlite" /\ calls[Current].slices[d] = "unsolved")
    /\ view' = [m \in Minute |->
                    [view[m] EXCEPT ![d] = IF m = calls[Current].at \/ @ # NoRow
                                           THEN RowOf(Current, d) ELSE @]]
    /\ todo' = todo \ {d}
    /\ UNCHANGED <<db, calls, stored, audits, wedged>>

PutSlice(d) ==
    /\ Reached(d)
    /\ ~wedged
    /\ ~(db = "sqlite" /\ calls[Current].slices[d] = "unsolved")
    /\ Upsert(calls[Current].at, d)
    /\ todo' = todo \ {d}
    /\ UNCHANGED <<db, calls, stored, audits, wedged>>

\* The database refuses the row (always that of an unsolved slice on SQLite, and
\* any on a wedged connection), or fails.
PutRaises(d) ==
    /\ Reached(d)
    /\ EndCall("raised")
    /\ Fail
    /\ UNCHANGED <<db, stored, audits>>

AllPut == InCall /\ todo = {}

Commit ==
    /\ AllPut
    /\ EndCall("returned")
    /\ stored' = view
    /\ UNCHANGED <<db, view, audits, wedged>>

CommitRaises ==
    /\ AllPut
    /\ EndCall("raised")
    /\ Fail
    /\ UNCHANGED <<db, stored, audits>>

\* The commit takes effect and its answer is lost with the connection.
CommitUnanswered ==
    /\ AllPut
    /\ EndCall("raised")
    /\ stored' = view
    /\ UNCHANGED <<db, view, audits, wedged>>
-----------------------------------------------------------------------------
(* The other functions on the connection *)

\* insert_audit_report for the minute of the last call, whatever became of it.
\* Its commit takes along what a failed call has left.
InsertAudit ==
    /\ Current > 0 /\ ~InCall
    /\ ~wedged
    /\ audits' = [audits EXCEPT ![calls[Current].at] = Current]
    /\ stored' = view
    /\ UNCHANGED <<db, calls, todo, view, wedged>>

AuditRaises ==
    /\ Current > 0 /\ ~InCall
    /\ Fail
    /\ UNCHANGED <<db, calls, todo, stored, audits>>

\* init_schema: the tables are there, but it commits.
InitSchema ==
    /\ ~InCall
    /\ ~wedged
    /\ stored' = view
    /\ UNCHANGED <<db, calls, todo, view, audits, wedged>>

\* The process or the connection dies; the next connection starts from what is
\* committed.
Reconnect ==
    /\ IF InCall THEN EndCall("raised") ELSE UNCHANGED <<calls, todo>>
    /\ view' = stored
    /\ wedged' = FALSE
    /\ UNCHANGED <<db, stored, audits>>

\* load_prior_minute_params, which changes nothing.  Mutant: the timestamp is
\* looked for among all rows.
TimestampsOfAnyRow(t) ==
    {m \in Minute : m < t /\ \E d \in Dte : view[m][d] # NoRow}

\* The timestamps among which it takes the greatest.
Timestamps(t) ==
    {m \in Minute : m < t /\ \E d \in Dte : view[m][d].kind = "valid"}

Greatest(S) == CHOOSE x \in S : \A y \in S : y <= x

ValidRows(m) == [d \in {e \in Dte : view[m][e].kind = "valid"} |-> view[m][d]]

None == [at |-> 0, slices |-> [d \in {} |-> NoRow]]

LoadPrior(t) ==
    IF Timestamps(t) = {} THEN None
    ELSE LET m == Greatest(Timestamps(t)) IN
         IF ValidRows(m) = None.slices THEN None
         ELSE [at |-> m, slices |-> ValidRows(m)]

\* A refused statement; or _parse_ts, which gives pandas a tz next to a datetime
\* that has one already, as every TIMESTAMPTZ of Postgres does.
LoadPriorRaises(t) == wedged \/ (db = "postgres" /\ Timestamps(t) # {})

Next ==
    \/ \E m \in Minute, slices \in Surfaces : Begin(m, slices)
    \/ \E d \in Dte : PutSlice(d) \/ PutRaises(d)
    \/ Commit \/ CommitRaises \/ CommitUnanswered
    \/ InsertAudit \/ AuditRaises \/ InitSchema
    \/ Reconnect

Spec == Init /\ [][Next]_vars
-----------------------------------------------------------------------------
(* Properties *)

CallsOf(m) == {c \in 1 .. Current : calls[c].at = m}
LatestCall(m) == Greatest(CallsOf(m))

\* What insert_minute_params has returned for is stored, slice by slice, until
\* the minute is calibrated again, whatever fails, dies or commits on any
\* connection in between (persistence.py:333: "Insert all slices for one minute;
\* upsert on (timestamp, dte)").
ReturnedMinutesAreStored ==
    \A m \in Minute :
        CallsOf(m) # {} /\ calls[LatestCall(m)].outcome = "returned" =>
            \A d \in DOMAIN calls[LatestCall(m)].slices :
                stored[m][d] = RowOf(LatestCall(m), d)

\* A minute all of whose calls returned, each with the expiries of those before.
Settled(m) ==
    \A c \in CallsOf(m) :
        /\ calls[c].outcome = "returned"
        /\ \A e \in CallsOf(m) :
            c < e => DOMAIN calls[c].slices \subseteq DOMAIN calls[e].slices

\* A surface that is read back is one calibration, with nothing left over from
\* calls for other minutes that failed on the same connection.  Without the
\* condition it may mix two: expiries of an earlier calibration that a later one
\* no longer has, or the first slices of a call that failed.
SettledMinuteIsOneCalibration ==
    \A m \in Minute : Settled(m) =>
        \A d \in Dte :
            stored[m][d] =
                IF CallsOf(m) # {} /\ d \in DOMAIN calls[LatestCall(m)].slices
                THEN RowOf(LatestCall(m), d)
                ELSE NoRow

\* The minutes before t that have a valid slice.
ValidMinutes(t) ==
    {m \in Minute :
        /\ m < t /\ CallsOf(m) # {}
        /\ \E d \in DOMAIN calls[LatestCall(m)].slices :
            calls[LatestCall(m)].slices[d] = "valid"}

\* A warm start gets the valid slices of the latest valid minute before its own,
\* all of them and no others (persistence.py:548: "Most recent valid calibration
\* strictly before *timestamp*").
PriorIsTheLatestValidMinute ==
    \A t \in 1 .. MaxMinute + 1 :
        /\ \A m \in Minute : m < t => Settled(m)
        /\ ~LoadPriorRaises(t)
        => IF ValidMinutes(t) = {} THEN LoadPrior(t) = None
           ELSE LET m == Greatest(ValidMinutes(t)) IN
                LET c == LatestCall(m) IN
                LET valid == {d \in DOMAIN calls[c].slices : calls[c].slices[d] = "valid"} IN
                LoadPrior(t) = [at |-> m, slices |-> [d \in valid |-> RowOf(c, d)]]

\* What is committed is never lost and never gives way to an older calibration:
\* a row only changes into that of a later call, whatever transactions an earlier
\* one has left behind (persistence.py:381: "ON CONFLICT (timestamp, dte) DO UPDATE").
RowsOnlyGetNewer ==
    [][\A m \in Minute, d \in Dte :
          stored'[m][d] = stored[m][d] \/ stored'[m][d].call > stored[m][d].call]_vars
-----------------------------------------------------------------------------
(* The inductive invariant of the proofs (PersistenceProofs.tla) *)

\* The connection sees what is committed, or something newer.
Ahead == \A m \in Minute, d \in Dte : stored[m][d].call <= view[m][d].call

\* A row comes from a call for its minute.
Own(r, m, d) ==
    r # NoRow =>
        /\ r.call \in CallsOf(m)
        /\ d \in DOMAIN calls[r.call].slices
        /\ r = RowOf(r.call, d)

\* The latest call for a minute, while or once it has one of the outcomes, has
\* written what it got to.
Written(r, m, d, outcomes) ==
    /\ CallsOf(m) # {}
    /\ d \in DOMAIN calls[LatestCall(m)].slices
    /\ calls[LatestCall(m)].outcome \in outcomes
    /\ calls[LatestCall(m)].outcome = "open" => d \notin todo
    => r = RowOf(LatestCall(m), d)

RowsInv ==
    \A m \in Minute, d \in Dte :
        /\ Own(stored[m][d], m, d)
        /\ Own(view[m][d], m, d)
        /\ Written(stored[m][d], m, d, {"returned"})
        /\ Written(view[m][d], m, d, {"returned", "open"})

CallInv ==
    /\ \A c \in 1 .. Current : calls[c].outcome = "open" => c = Current
    /\ InCall => todo \subseteq DOMAIN calls[Current].slices

IInv == TypeOK /\ CallInv /\ RowsInv
=============================================================================

------------------------------- MODULE Gather -------------------------------
(***************************************************************************)
(* What run_backfill may rely on when it awaits a group of fetches: each   *)
(* is answered once, by rows, by nothing, from a cache or by an exception;  *)
(* the next group is asked for only when nothing of the last one is open,  *)
(* so that no late answer meets another chunk.  A run may stop and leave   *)
(* fetches behind, which end without anybody asking for more.              *)
(* Requests.tla implements this module, FetchPipeline.tla builds on it.    *)
(***************************************************************************)
CONSTANT Fetch

VARIABLES
    running,    \* the run goes on
    open,       \* fetches that have not been answered
    answer      \* the answers to the group asked for last

Answer == {"rows", "empty", "cached", "raised"}

Init ==
    /\ running = TRUE
    /\ open = {}
    /\ answer = [f \in Fetch |-> "none"]

Ask(S) ==
    /\ running /\ open = {}
    /\ running' = TRUE
    /\ open' = S
    /\ answer' = [f \in Fetch |-> "none"]

Deliver(f, a) ==
    /\ f \in open
    /\ open' = open \ {f}
    /\ answer' = [answer EXCEPT ![f] = a]
    /\ UNCHANGED running

\* The run returns, or an exception leaves it.
Stop ==
    /\ running
    /\ running' = FALSE
    /\ UNCHANGED <<open, answer>>

Next ==
    \/ \E S \in SUBSET Fetch : Ask(S)
    \/ \E f \in Fetch, a \in Answer : Deliver(f, a)
    \/ Stop

Spec == Init /\ [][Next]_<<running, open, answer>>
=============================================================================

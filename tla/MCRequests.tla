----------------------------- MODULE MCRequests -----------------------------
(***************************************************************************)
(* Two expirations whose chunks have one window, so that the second meets  *)
(* the caches of the first, with the same days or with one more than a     *)
(* cache holds; and one permit of each tier.                               *)
(***************************************************************************)
EXTENDS Requests

MCWindows == <<"w", "w">>
MCDaysOf == [w \in {"w"} |-> {{"d1", "d2"}, {"d3"}}]
=============================================================================

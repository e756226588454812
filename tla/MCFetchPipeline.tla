-------------------------- MODULE MCFetchPipeline --------------------------
(***************************************************************************)
(* Two expirations share a window, so what the first leaves in the caches  *)
(* meets the second; a third chunk has a window of its own.  There is a    *)
(* day without a session in the first window and a row with a bad quote.   *)
(*                                                                         *)
(* On day 3, k2 is listed for e2 alone; on day 4 it is delisted.  On day 1 *)
(* the interest of e1 lies on both sides of MIN_OI and that of e2 above    *)
(* it; on day 3 that of e2, in another chunk than day 4, is above it as    *)
(* well, and on day 4 it lies below.                                       *)
(***************************************************************************)
EXTENDS FetchPipeline

MCExp == {"e1", "e2"}
MCContract == {"k1", "k2"}
MCSession == {1, 3, 4, 5}
MCRow == [exp : MCExp, day : MCSession, contract : MCContract]
MCListed == [d \in MCSession |->
               CASE d = 1 -> MCExp \X MCContract
                 [] d = 3 -> (MCExp \X MCContract) \ {<<"e1", "k2">>}
                 [] OTHER -> MCExp \X {"k1"}]
MCReported == {r \in MCRow : r.exp = "e1" \/ r.contract = "k1"}
MCLiquid == {r \in MCReported : r.contract = "k1" /\ r.day \in {1, 3}}
MCSound == {r \in MCRow : ~(r.contract = "k2" /\ r.day = 1)}
MCPlan == <<[exp |-> "e1", from |-> 1, to |-> 3],
            [exp |-> "e2", from |-> 1, to |-> 3],
            [exp |-> "e2", from |-> 4, to |-> 5]>>
=============================================================================

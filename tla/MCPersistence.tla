---------------------------- MODULE MCPersistence ----------------------------
(* Two minutes of up to two slices, stored by up to three calls. *)
EXTENDS Persistence

Expiries == {7, 30}

\* Both expiries or one, of every kind in both places.
MCSurfaces ==
    {[d \in Expiries |-> IF d = 7 THEN k[1] ELSE k[2]] :
        k \in {<<"valid", "valid">>, <<"invalid", "valid">>, <<"invalid", "invalid">>,
               <<"unsolved", "valid">>, <<"valid", "unsolved">>}}
    \union {[d \in {e} |-> "valid"] : e \in Expiries}
=============================================================================

--------------------------- MODULE MCChainFilter ---------------------------
(***************************************************************************)
(* Three rows of one chain with labels in the order of their strikes, of   *)
(* every height, and a fourth of another chain; each fails at most one     *)
(* check of its own or two.  The fourth comes first, so losing it moves the *)
(* labels of the others out of place.                                      *)
(***************************************************************************)
EXTENDS ChainFilter

MCChain == {"m1", "m2"}
Faults == {{}, {"DTE_BAND"}, {"NO_QUOTE", "BAD_MID"}, {"SPREAD_HARD"},
           {"INTRINSIC", "LOW_OI"}, {"LOW_OI"}}
RowAt(label, right, mid, fault, wide) ==
    [label |-> label, chain |-> "m1", right |-> right, strike |-> label,
     mid |-> mid, fails |-> fault, wide |-> wide]
Other(fault) ==
    [label |-> 0, chain |-> "m2", right |-> "C", strike |-> 2, mid |-> 1,
     fails |-> fault, wide |-> FALSE]

MCFrames ==
    {{Other(fault)} \union {RowAt(i, right, mid[i], faults[i], wide[i]) : i \in 1 .. 3} :
        fault \in {{}, {"CROSSED"}}, right \in {"C", "P"},
        mid \in {m \in [1 .. 3 -> 0 .. 2] : m[2] > 0},
        faults \in [1 .. 3 -> Faults],
        wide \in {w \in [1 .. 3 -> BOOLEAN] : ~w[1]}}
=============================================================================

----------------------------- MODULE MCCoverage -----------------------------
(***************************************************************************)
(* Nine wanted days, 2 to 10, of which five have quotes, in chunks of      *)
(* three days.  Starts 3 and 6 lay out the same chunks; 2 and 4 do not.    *)
(***************************************************************************)
EXTENDS Coverage

MCTrading == {2, 3, 4, 7, 10}
MCAlignedStarts == {3, 6}
MCTwoStarts == {2, 4}
=============================================================================

---------------------------- MODULE MCNvdSync ----------------------------
(* NvdSync for TLC: three records on two or three pages, bulk windows of   *)
(* one instant, routine windows of two, and caps below what there is.      *)
EXTENDS NvdSync, TLC

MCCVE       == 1..3
MCMalformed == {2}
MCSymmetry  == Permutations(Proc)
==========================================================================

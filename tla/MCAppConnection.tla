-------------------------- MODULE MCAppConnection --------------------------
(* Two servers, the older one of which may be left by an earlier version,  *)
(* and two calls in flight.                                                *)
EXTENDS AppConnection, TLC
CONSTANTS c1, c2
MCSymmetry == Permutations(Call)
=============================================================================

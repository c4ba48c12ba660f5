--------------------------- MODULE MCSimulations ----------------------------
(***************************************************************************)
(* Simulations with two servers, one after the other.                      *)
(***************************************************************************)
EXTENDS Simulations

\* Simulations 1 and 2 were deleted; the next one gets the number nil.id.
FirstIds == 3 .. 5
=============================================================================

--------------------------- MODULE MCSimpleCheck ---------------------------
(* The small instances of DblVolume, with the check. *)
EXTENDS MCDblVolume, SimpleCheck
============================================================================

---------------------------- MODULE MCSessionLog ----------------------------
(* Model-checking instances of SessionLog. *)
EXTENDS SessionLog, TLC

\* Ids and names are only compared; a name is not confused with an id.
MCSymmetry == Permutations(Ids)
=============================================================================

---------------------------- MODULE MCAuthStorage ----------------------------
(* Model-checking instances of AuthStorage. *)
EXTENDS AuthStorage, TLC

Alike == Permutations(Processes)
=============================================================================

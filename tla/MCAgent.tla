------------------------------ MODULE MCAgent ------------------------------
(* Model-checking instances of Agent. *)
EXTENDS Agent

MCOneAtATime == {"one-at-a-time"}
MCAll == {"all"}
MCBothModes == {"one-at-a-time", "all"}
=============================================================================

--------------------------- MODULE MCLiveSessions ---------------------------
(* Model-checking instances of LiveSessions. *)
EXTENDS LiveSessions
=============================================================================

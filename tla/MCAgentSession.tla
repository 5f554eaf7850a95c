--------------------------- MODULE MCAgentSession ---------------------------
(* Model-checking instances of AgentSession. *)
EXTENDS AgentSession

\* The first two messages have the same text, a third one has another.
MCText == [n \in 1..MaxSent |-> IF n = 3 THEN "other" ELSE "again"]
=============================================================================

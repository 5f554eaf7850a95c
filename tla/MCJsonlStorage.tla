--------------------------- MODULE MCJsonlStorage ---------------------------
(* Model-checking instances of JsonlStorage. *)
EXTENDS JsonlStorage, TLC

CONSTANTS main, side, a, b

\* Requests that depend on each other: each is refused before some of the
\* others, or after them.
MCWrites ==
    {[op |-> "createLane", lane |-> side, ref |-> None],
     [op |-> "moveLane", lane |-> main, ref |-> a],
     [op |-> "appendEntry", id |-> a, lane |-> main, value |-> "message"],
     [op |-> "appendEntry", id |-> b, lane |-> side, value |-> "custom"],
     [op |-> "operation_started", id |-> a, lane |-> main, ref |-> None],
     [op |-> "operation_started", id |-> b, lane |-> main, ref |-> None],
     [op |-> "operation_finished", id |-> b, lane |-> main, ref |-> a],
     [op |-> "setLabel", ref |-> a, value |-> None]}

MCOneWrite == {[op |-> "setName", value |-> None]}
=============================================================================

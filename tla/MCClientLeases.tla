--------------------------- MODULE MCClientLeases ---------------------------
(* Model-checking instances of ClientLeases. *)
EXTENDS ClientLeases

MCLeases == 1..3

\* Three shared calls, one of each mode, and two that create beside one that
\* is exclusive.
MCModes ==
    {<<"shared", "shared", "shared">>, <<"shared", "exclusive", "create">>,
     <<"exclusive", "create", "create">>}

\* Calls of one mode are alike: one of the ways to name them will do.
Rank == [shared |-> 0, exclusive |-> 1, create |-> 2]
AllModes ==
    {mode \in [MCLeases -> DOMAIN Rank] :
       \A l, k \in MCLeases : l < k => Rank[mode[l]] <= Rank[mode[k]]}
=============================================================================

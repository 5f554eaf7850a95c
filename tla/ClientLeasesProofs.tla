------------------------- MODULE ClientLeasesProofs -------------------------
(***************************************************************************)
(* What a client promises to the parts of a program that share it, however *)
(* many they are: an exclusive lease is the only one, the count is that of *)
(* the tokens that are out, and nothing outlives a connection; requests are *)
(* sent one at a time, a detach is not sent while anybody uses the session *)
(* (save a lease given between the failure of a dispose and its mark), and *)
(* the client's copy is the server's.                                      *)
(***************************************************************************)
EXTENDS ClientLeases, FiniteSetTheorems, TLAPS

(* The inductive invariant *)

Kinds == {"detachment", "attachment", "reconciliation"}
Releasing == {"detaching", "disposing"}
Refusals == {"detachRefused", "disposeRefused"}
Busy == Kinds \cup Releasing \cup {"creating"}
Pcs == Busy \cup Refusals \cup {"idle", "active", "over"}
ModeNames == {"shared", "exclusive", "create"}
Commands == {"none", "attach", "detach", "create"}

Calls == [pc : Pcs, mode : ModeNames, generation : Nat,
          waits : Leases \cup {None}, outcome : Outcomes, early : BOOLEAN]
Books == [count : Nat, exclusive : Leases \cup {None}, cleanup : BOOLEAN,
          generation : Nat]
Connections == [state : {"disconnected", "connecting", "connected"},
                id : 0..MaxConnections]
Copies == [attached : BOOLEAN, snapshot : Snapshots \cup {None}]
Servers == [exists : BOOLEAN, attached : BOOLEAN, unsure : BOOLEAN,
            runtime : 1..MaxRuntimes, revision : 0..MaxRevision]

TypedWorld ==
    /\ connection \in Connections /\ known \in Copies /\ server \in Servers
    /\ disposed \in BOOLEAN /\ chunk \in BOOLEAN /\ late \in BOOLEAN
TypedCalls ==
    /\ book \in Books
    /\ promise \in [Kinds -> Promises \cup {None}]
    /\ pending \in [Leases -> Commands]
    /\ call \in [Leases -> Calls]
    /\ \A l \in Leases : call[l].generation <= book.generation

\* Who awaits a request awaits one that is to be answered.
Suspended ==
    \A l \in Leases :
      /\ call[l].waits # None <=> call[l].pc \in Busy
      /\ call[l].waits # None /\ call[l].outcome = "waiting"
           => pending[call[l].waits] # "none"

\* A shared promise is that of the call that made it, until this call runs.
Makers(kind) == IF kind = "detachment" THEN Releasing ELSE {kind}
PromisesKept ==
    \A kind \in Kinds : promise[kind] # None =>
      /\ call[promise[kind].by].pc \in Makers(kind)
      /\ call[promise[kind].by].waits = promise[kind].by
      /\ call[promise[kind].by].outcome = promise[kind].outcome

Chunks == chunk => Connected

\* Without a connection every acquisition fails.
Offline ==
    ~Connected =>
      /\ ~known.attached
      /\ \A l \in Leases :
           /\ pending[l] = "none" /\ ~Current(l)
           /\ call[l].pc \in {"attachment", "creating"}
                => call[l].outcome = "failed"

\* The tokens of the calls that fail meanwhile may be forgotten already.
Holders == {l \in Leases : Holds(l)}
Tokens ==
    IF Connected
    THEN /\ book.count = Cardinality(Holders)
         /\ {book.exclusive} \ {None} = {l \in Holders : Exclusively(l)}
         /\ \A l, k \in Holders : l # k => ~Exclusively(l)
    ELSE /\ book.count <= Cardinality(Holders)
         /\ book.exclusive \in Holders \cup {None}

\* A release keeps its token until it is over.
Releases ==
    Connected => \A l \in Leases :
      call[l].pc \in Releasing \cup Refusals => Current(l)

IInv ==
    /\ TypedWorld /\ TypedCalls /\ Suspended /\ PromisesKept /\ Chunks
    /\ Offline /\ Tokens /\ Releases
-----------------------------------------------------------------------------
(* How a step changes one call *)

\* Call l is now at pc; the other calls are where they were.
Changed(l, pc, w, o, g) ==
    /\ call' \in [Leases -> Calls]
    /\ \A k \in Leases : k # l => call'[k] = call[k]
    /\ call'[l].pc = pc /\ call'[l].waits = w /\ call'[l].outcome = o
    /\ call'[l].generation = g /\ call'[l].mode = call[l].mode
    /\ Leased(l) => call'[l].early = call[l].early

LEMMA CallTyped ==
    ASSUME TypedCalls, NEW l \in Leases
    PROVE  /\ call[l] \in Calls /\ call[l].pc \in Pcs
           /\ call[l].mode \in ModeNames /\ call[l].generation \in Nat
           /\ call[l].waits \in Leases \cup {None}
           /\ call[l].outcome \in Outcomes
           /\ call[l].generation <= book.generation
  <1>1. call[l] \in Calls /\ call[l].generation <= book.generation
    BY DEF TypedCalls
  <1> QED
    BY <1>1, SMT DEF Calls

LEMMA RecordChanged ==
    ASSUME NEW C, NEW M, NEW G, NEW W, NEW O, NEW B,
           NEW c \in [pc : C, mode : M, generation : G, waits : W,
                       outcome : O, early : B],
           NEW pc \in C, NEW w \in W, NEW o \in O, NEW g \in G, NEW b \in B
    PROVE  LET d == [c EXCEPT !.pc = pc, !.waits = w, !.outcome = o]
               e == [c EXCEPT !.pc = pc, !.waits = w, !.outcome = o,
                              !.generation = g, !.early = b]
           IN
           /\ d \in [pc : C, mode : M, generation : G, waits : W,
                      outcome : O, early : B]
           /\ d.pc = pc /\ d.waits = w /\ d.outcome = o
           /\ d.generation = c.generation /\ d.mode = c.mode
           /\ d.early = c.early
           /\ e \in [pc : C, mode : M, generation : G, waits : W,
                      outcome : O, early : B]
           /\ e.pc = pc /\ e.waits = w /\ e.outcome = o
           /\ e.generation = g /\ e.mode = c.mode /\ e.early = b
  OBVIOUS

LEMMA CallChanged ==
    ASSUME call \in [Leases -> Calls], NEW l \in Leases, NEW c \in Calls,
           call' = [call EXCEPT ![l] = c], c.mode = call[l].mode,
           Leased(l) => c.early = call[l].early
    PROVE  Changed(l, c.pc, c.waits, c.outcome, c.generation)
  BY DEF Changed

LEMMA AwaitChanges ==
    ASSUME TypedCalls, NEW l \in Leases, NEW pc \in Pcs, NEW p,
           p.by \in Leases, p.outcome \in Outcomes, Await(l, pc, p)
    PROVE  Changed(l, pc, p.by, p.outcome, call[l].generation)
  <1> DEFINE w == p.by
             o == p.outcome
             c == [call[l] EXCEPT !.pc = pc, !.waits = w, !.outcome = o]
  <1>1. w \in Leases \cup {None} /\ o \in Outcomes
    OBVIOUS
  <1>2. call' = [call EXCEPT ![l].pc = pc, ![l].waits = w, ![l].outcome = o]
    BY DEF Await
  <1> HIDE DEF w, o
  <1>3. call \in [Leases -> Calls] /\ call[l] \in Calls
    BY DEF TypedCalls
  <1>4. call' = [call EXCEPT ![l] = c]
    BY <1>2, <1>3
  <1>5. /\ c \in Calls /\ c.pc = pc /\ c.waits = w /\ c.outcome = o
        /\ c.generation = call[l].generation /\ c.mode = call[l].mode
        /\ c.early = call[l].early
    BY <1>1, <1>3, RecordChanged DEF Calls
  <1> HIDE DEF c
  <1> QED
    BY <1>3, <1>4, <1>5, CallChanged DEF w, o

LEMMA GoesChanges ==
    ASSUME TypedCalls, NEW l \in Leases, NEW pc \in Pcs, Goes(l, pc)
    PROVE  Changed(l, pc, None, "waiting", call[l].generation)
  <1> DEFINE c == [call[l] EXCEPT !.pc = pc, !.waits = None,
                                  !.outcome = "waiting"]
  <1>1. call \in [Leases -> Calls] /\ call[l] \in Calls
    BY DEF TypedCalls
  <1>2. call' = [call EXCEPT ![l] = c]
    BY <1>1 DEF Goes
  <1>3. None \in Leases \cup {None} /\ "waiting" \in Outcomes
    BY DEF Outcomes
  <1>4. /\ c \in Calls /\ c.pc = pc /\ c.waits = None
        /\ c.outcome = "waiting"
        /\ c.generation = call[l].generation /\ c.mode = call[l].mode
        /\ c.early = call[l].early
    BY <1>1, <1>3, RecordChanged DEF Calls
  <1> HIDE DEF c
  <1> QED
    BY <1>1, <1>2, <1>4, CallChanged

LEMMA LeaseChanges ==
    ASSUME TypedCalls, NEW l \in Leases, Lease(l), ~Leased(l)
    PROVE  /\ Changed(l, "active", None, "waiting", book.generation)
           /\ (\E k \in Leases : call[k].pc = "disposeRefused") =>
                call'[l].early
  <1> DEFINE g == book.generation
             b == \E k \in Leases : call[k].pc = "disposeRefused"
             c == [call[l] EXCEPT !.pc = "active", !.waits = None,
                                  !.outcome = "waiting", !.generation = g,
                                  !.early = b]
  <1>1. /\ call \in [Leases -> Calls] /\ call[l] \in Calls /\ g \in Nat
    BY DEF TypedCalls, Books
  <1>2. call' = [call EXCEPT ![l] = c]
    BY <1>1 DEF Lease
  <1>3. b \in BOOLEAN
    OBVIOUS
  <1> HIDE DEF g, b
  <1>4. /\ None \in Leases \cup {None} /\ "waiting" \in Outcomes
        /\ "active" \in Pcs
    BY DEF Outcomes, Pcs
  <1>5. /\ c \in Calls /\ c.pc = "active" /\ c.waits = None
        /\ c.outcome = "waiting" /\ c.early = b
        /\ c.generation = g /\ c.mode = call[l].mode
    BY <1>1, <1>3, <1>4, RecordChanged DEF Calls
  <1> HIDE DEF c
  <1>6. Changed(l, "active", None, "waiting", g)
    BY <1>1, <1>2, <1>5, CallChanged
  <1>7. call'[l].early = b
    BY <1>1, <1>2, <1>5
  <1> QED
    BY <1>6, <1>7 DEF g, b

\* What becomes of the shared promise of a kind when call l goes on.
Passed(l, kind) ==
    \/ promise'[kind] = None
    \/ /\ promise'[kind] = promise[kind]
       /\ promise[kind] # None => promise[kind].by # l
    \/ /\ promise'[kind].by = l
       /\ call'[l].pc \in Makers(kind) /\ call'[l].waits = l
       /\ call'[l].outcome = promise'[kind].outcome

\* Call l goes on to await a request that is under way, or nothing.
Moves(l, pc, w, o, g) ==
    /\ Changed(l, pc, w, o, g)
    /\ g = call[l].generation \/ g = book.generation
    /\ w # None <=> pc \in Busy
    /\ w # None /\ o = "waiting" => pending'[w] # "none"
    /\ pending' \in [Leases -> Commands]
    /\ \A k \in Leases : pending[k] # "none" => pending'[k] # "none"
    /\ promise' \in [Kinds -> Promises \cup {None}]
    /\ \A kind \in Kinds : Passed(l, kind)
    /\ ~Connected =>
         /\ pending' = pending
         /\ pc \in {"attachment", "creating"} => o = "failed"
         /\ pc \in {"active"} \cup Releasing \cup Refusals =>
              g < book.generation

LEMMA MovesKeepSuspended ==
    ASSUME TypedCalls, Suspended, NEW l \in Leases,
           NEW pc, NEW w, NEW o, NEW g, Moves(l, pc, w, o, g)
    PROVE  Suspended'
  <1> SUFFICES ASSUME NEW k \in Leases
               PROVE  /\ call'[k].waits # None <=> call'[k].pc \in Busy
                      /\ call'[k].waits # None /\ call'[k].outcome = "waiting"
                           => pending'[call'[k].waits] # "none"
    BY DEF Suspended
  <1>1. CASE k = l
    BY <1>1 DEF Moves, Changed
  <1>2. CASE k # l
    <2>1. call'[k] = call[k]
      BY <1>2 DEF Moves, Changed
    <2>2. call[k].waits \in Leases \cup {None}
      BY CallTyped
    <2> QED
      BY <2>1, <2>2 DEF Moves, Suspended
  <1> QED
    BY <1>1, <1>2

LEMMA PromiseTyped ==
    ASSUME TypedCalls, NEW kind \in Kinds, promise[kind] # None
    PROVE  /\ promise[kind] \in Promises /\ promise[kind].by \in Leases
           /\ promise[kind].outcome \in Outcomes
           /\ promise[kind].previous \in Snapshots \cup {None}
  <1>1. promise[kind] \in Promises
    BY DEF TypedCalls
  <1> QED
    BY <1>1 DEF Promises

LEMMA MovesKeepPromises ==
    ASSUME TypedCalls, PromisesKept, NEW l \in Leases,
           NEW pc, NEW w, NEW o, NEW g, Moves(l, pc, w, o, g)
    PROVE  PromisesKept'
  <1> SUFFICES ASSUME NEW kind \in Kinds, promise'[kind] # None
               PROVE  /\ call'[promise'[kind].by].pc \in Makers(kind)
                      /\ call'[promise'[kind].by].waits = promise'[kind].by
                      /\ call'[promise'[kind].by].outcome
                           = promise'[kind].outcome
    BY DEF PromisesKept
  <1>1. Passed(l, kind)
    BY DEF Moves
  <1>2. CASE promise'[kind] = promise[kind] /\ promise[kind].by # l
    <2>1. promise[kind].by \in Leases
      BY <1>2, PromiseTyped
    <2>2. call'[promise[kind].by] = call[promise[kind].by]
      BY <1>2, <2>1 DEF Moves, Changed
    <2> QED
      BY <1>2, <2>2 DEF PromisesKept
  <1> QED
    BY <1>1, <1>2 DEF Passed

LEMMA MovesKeepTyped ==
    ASSUME TypedCalls, NEW l \in Leases,
           NEW pc, NEW w, NEW o, NEW g, Moves(l, pc, w, o, g),
           book' \in Books, book'.generation = book.generation
    PROVE  TypedCalls'
  <1>1. ASSUME NEW k \in Leases
        PROVE  call'[k].generation <= book'.generation
    <2>1. book.generation \in Nat /\ call[k].generation <= book.generation
          /\ call[l].generation <= book.generation
      BY DEF TypedCalls, Books
    <2> QED
      BY <2>1 DEF Moves, Changed
  <1> QED
    BY <1>1 DEF TypedCalls, Moves, Changed

LEMMA MovesKeepOffline ==
    ASSUME TypedCalls, Offline, NEW l \in Leases,
           NEW pc, NEW w, NEW o, NEW g, Moves(l, pc, w, o, g),
           connection' = connection, book'.generation = book.generation,
           ~Connected => known'.attached = known.attached
    PROVE  Offline'
  <1> SUFFICES ASSUME ~Connected
               PROVE  /\ ~known'.attached
                      /\ \A k \in Leases :
                           /\ pending'[k] = "none" /\ ~Current(k)'
                           /\ call'[k].pc \in {"attachment", "creating"}
                                => call'[k].outcome = "failed"
    BY DEF Offline, Connected
  <1>1. ASSUME NEW k \in Leases
        PROVE  /\ pending'[k] = "none" /\ ~Current(k)'
               /\ call'[k].pc \in {"attachment", "creating"}
                    => call'[k].outcome = "failed"
    <2>1. pending'[k] = "none"
      BY DEF Offline, Moves
    <2>2. CASE k = l
      <3>1. g # book.generation \/ pc \notin {"active"} \cup Releasing
                                              \cup Refusals
        <4>1. book.generation \in Nat
          BY DEF TypedCalls, Books
        <4> QED
          BY <4>1 DEF Moves
      <3> QED
        BY <2>1, <2>2, <3>1
        DEF Moves, Changed, Current, Leased, Releasing, Refusals
    <2>3. CASE k # l
      <3>1. call'[k] = call[k]
        BY <2>3 DEF Moves, Changed
      <3> QED
        BY <2>1, <3>1 DEF Offline, Current, Leased
    <2> QED
      BY <2>2, <2>3
  <1> QED
    BY <1>1 DEF Offline

LEMMA HoldsElsewhere ==
    ASSUME NEW l \in Leases, NEW pc, NEW w, NEW o, NEW g,
           Changed(l, pc, w, o, g), book'.generation = book.generation
    PROVE  /\ \A k \in Leases : k # l => (Holds(k)' <=> Holds(k))
           /\ \A k \in Leases : k # l => (Current(k)' <=> Current(k))
           /\ \A k \in Leases : Exclusively(k)' <=> Exclusively(k)
  BY DEF Changed, Holds, Acquiring, Current, Leased, Exclusively

LEMMA HoldersFinite == IsFiniteSet(Holders) /\ Cardinality(Holders) \in Nat
  <1>1. Holders \subseteq Leases
    BY DEF Holders
  <1> QED
    BY <1>1, LeasesAssumption, FS_Subset, FS_CardinalityType
-----------------------------------------------------------------------------
(* The tokens *)

LEMMA TokensStay ==
    ASSUME Tokens, connection' = connection, NEW l \in Leases,
           NEW pc, NEW w, NEW o, NEW g, Changed(l, pc, w, o, g),
           book'.generation = book.generation,
           book'.count = book.count, book'.exclusive = book.exclusive,
           Holds(l)' <=> Holds(l)
    PROVE  Tokens'
  <1>1. /\ \A k \in Leases : Holds(k)' <=> Holds(k)
        /\ \A k \in Leases : Exclusively(k)' <=> Exclusively(k)
    BY HoldsElsewhere
  <1>2. Holders' = Holders
    BY <1>1 DEF Holders
  <1>3. {k \in Holders : Exclusively(k)}' = {k \in Holders : Exclusively(k)}
    BY <1>1, <1>2 DEF Holders
  <1>4. /\ Connected' <=> Connected
        /\ \A k \in Holders : k \in Leases
    BY DEF Connected, Holders
  <1>5. CASE Connected
    <2>1. \A j, k \in Holders' : j # k => ~Exclusively(j)'
      BY <1>1, <1>2, <1>4, <1>5 DEF Tokens
    <2>2. ({book.exclusive} \ {None})' = {k \in Holders : Exclusively(k)}'
      BY <1>3, <1>5 DEF Tokens
    <2>3. book'.count = Cardinality(Holders')
      BY <1>2, <1>5 DEF Tokens
    <2> QED
      BY <1>4, <1>5, <2>1, <2>2, <2>3 DEF Tokens
  <1>6. CASE ~Connected
    BY <1>2, <1>4, <1>6 DEF Tokens
  <1> QED
    BY <1>5, <1>6

\* A token is reserved when no exclusive one is out, and an exclusive one
\* when none is.
LEMMA TokensReserved ==
    ASSUME TypedCalls, Tokens, connection' = connection, NEW l \in Leases,
           NEW pc, NEW w, NEW o, NEW g, Changed(l, pc, w, o, g),
           book'.generation = book.generation,
           book'.count = book.count + 1,
           book'.exclusive = IF Exclusively(l) THEN l ELSE book.exclusive,
           Connected => Granted(l), ~Holds(l), Holds(l)'
    PROVE  Tokens'
  <1>1. /\ \A k \in Leases : k # l => (Holds(k)' <=> Holds(k))
        /\ \A k \in Leases : Exclusively(k)' <=> Exclusively(k)
    BY HoldsElsewhere
  <1>2. Holders' = Holders \cup {l} /\ l \notin Holders
    BY <1>1 DEF Holders
  <1>3. Cardinality(Holders') = Cardinality(Holders) + 1
    BY <1>2, HoldersFinite, FS_AddElement
  <1>4. /\ Connected' <=> Connected
        /\ \A k \in Holders : k \in Leases
    BY DEF Connected, Holders
  <1>5. CASE Connected
    <2>1. CASE Exclusively(l)
      <3>1. Holders = {}
        <4>1. Cardinality(Holders) = 0
          BY <1>5, <2>1 DEF Granted, Tokens
        <4> QED
          BY <4>1, HoldersFinite, FS_EmptySet
      <3>2. Holders' = {l}
        BY <1>2, <3>1
      <3>3. {k \in Holders : Exclusively(k)}' = {l}
        BY <1>1, <2>1, <3>2
      <3>4. ({book.exclusive} \ {None})' = {l}
        BY <2>1, LeasesAssumption
      <3> QED
        BY <1>3, <1>4, <1>5, <3>2, <3>3, <3>4 DEF Tokens
    <2>2. CASE ~Exclusively(l)
      <3>1. book.exclusive = None
        BY <1>5, <2>2 DEF Granted
      <3>2. \A k \in Holders : ~Exclusively(k)
        BY <1>5, <3>1 DEF Tokens
      <3>3. \A k \in Holders' : ~Exclusively(k)'
        BY <1>1, <1>2, <1>4, <2>2, <3>2
      <3>4. ({book.exclusive} \ {None})' = {k \in Holders : Exclusively(k)}'
        BY <2>2, <3>1, <3>3
      <3>5. book'.count = Cardinality(Holders')
        BY <1>3, <1>5 DEF Tokens
      <3> QED
        BY <1>4, <1>5, <3>3, <3>4, <3>5 DEF Tokens
    <2> QED
      BY <2>1, <2>2
  <1>6. CASE ~Connected
    <2>1. book.count \in Nat /\ Cardinality(Holders) \in Nat
      BY HoldersFinite DEF TypedCalls, Books
    <2>2. book'.count <= Cardinality(Holders')
      BY <1>3, <1>6, <2>1 DEF Tokens
    <2>3. book'.exclusive \in Holders' \cup {None}
      BY <1>2, <1>6 DEF Tokens
    <2> QED
      BY <1>4, <1>6, <2>2, <2>3 DEF Tokens
  <1> QED
    BY <1>5, <1>6

LEMMA TokensReleased ==
    ASSUME TypedCalls, Tokens, connection' = connection, NEW l \in Leases,
           NEW pc, NEW w, NEW o, NEW g, Changed(l, pc, w, o, g),
           book'.generation = book.generation,
           book'.count = IF book.count <= 1 THEN 0 ELSE book.count - 1,
           book'.exclusive = IF book.exclusive = l THEN None
                             ELSE book.exclusive,
           Connected => Holds(l), ~Holds(l)'
    PROVE  Tokens'
  <1>1. /\ \A k \in Leases : k # l => (Holds(k)' <=> Holds(k))
        /\ \A k \in Leases : Exclusively(k)' <=> Exclusively(k)
    BY HoldsElsewhere
  <1>2. /\ Holders' = Holders \ {l}
        /\ Holds(l) => l \in Holders
        /\ ~Holds(l) => Holders' = Holders
    BY <1>1 DEF Holders
  <1>3. ASSUME Holds(l)
        PROVE  /\ Cardinality(Holders') = Cardinality(Holders) - 1
               /\ Cardinality(Holders') \in Nat
    <2>1. Cardinality(Holders \ {l}) = Cardinality(Holders) - 1
      BY <1>2, <1>3, HoldersFinite, FS_RemoveElement
    <2>2. IsFiniteSet(Holders \ {l})
      BY HoldersFinite, FS_Subset
    <2>3. Cardinality(Holders \ {l}) \in Nat
      BY <2>2, FS_CardinalityType
    <2> QED
      BY <1>2, <2>1, <2>3
  <1>4. /\ Connected' <=> Connected
        /\ \A k \in Holders : k \in Leases
        /\ book.count \in Nat /\ Cardinality(Holders) \in Nat
    BY HoldersFinite DEF Connected, Holders, TypedCalls, Books
  <1>5. CASE Connected
    <2>1. book'.count = Cardinality(Holders')
      BY <1>3, <1>4, <1>5 DEF Tokens
    <2>2. \A j, k \in Holders' : j # k => ~Exclusively(j)'
      BY <1>1, <1>2, <1>4, <1>5 DEF Tokens
    <2>3. ({book.exclusive} \ {None})' = {k \in Holders : Exclusively(k)}'
      <3>1. {book.exclusive} \ {None} = {k \in Holders : Exclusively(k)}
        BY <1>5 DEF Tokens
      <3>2. {k \in Holders : Exclusively(k)}' =
              {k \in Holders : Exclusively(k)} \ {l}
        BY <1>1, <1>2, <1>4
      <3> QED
        BY <3>1, <3>2
    <2> QED
      BY <1>4, <1>5, <2>1, <2>2, <2>3 DEF Tokens
  <1>6. CASE ~Connected
    <2>1. book'.count <= Cardinality(Holders')
      <3>1. book.count <= Cardinality(Holders)
        BY <1>6 DEF Tokens
      <3>2. CASE Holds(l)
        BY <1>3, <1>4, <3>1, <3>2
      <3>3. CASE ~Holds(l)
        BY <1>2, <1>4, <3>1, <3>3
      <3> QED
        BY <3>2, <3>3
    <2>2. book'.exclusive \in Holders' \cup {None}
      BY <1>2, <1>6 DEF Tokens
    <2> QED
      BY <1>4, <1>6, <2>1, <2>2 DEF Tokens
  <1> QED
    BY <1>5, <1>6

LEMMA ReleasesKept ==
    ASSUME Releases, connection' = connection, NEW l \in Leases,
           NEW pc, NEW w, NEW o, NEW g, Changed(l, pc, w, o, g),
           book'.generation = book.generation,
           Connected => (pc \in Releasing \cup Refusals => Current(l)')
    PROVE  Releases'
  <1> SUFFICES ASSUME Connected, NEW k \in Leases,
                      call'[k].pc \in Releasing \cup Refusals
               PROVE  Current(k)'
    BY DEF Releases, Connected
  <1>1. CASE k = l
    BY <1>1 DEF Changed
  <1>2. CASE k # l
    <2>1. call'[k] = call[k]
      BY <1>2 DEF Changed
    <2> QED
      BY <1>2, <2>1, HoldsElsewhere DEF Releases
  <1> QED
    BY <1>1, <1>2
-----------------------------------------------------------------------------
(* Joining a request that is under way, or sending one *)

LEMMA MovesKeepInvariant ==
    ASSUME IInv, NEW l \in Leases,
           NEW pc, NEW w, NEW o, NEW g, Moves(l, pc, w, o, g),
           connection' = connection, TypedWorld', ~chunk',
           book' \in Books, book'.generation = book.generation,
           ~Connected => known'.attached = known.attached, Tokens',
           Connected => (pc \in Releasing \cup Refusals => Current(l)')
    PROVE  IInv'
  <1>1. Changed(l, pc, w, o, g)
    BY DEF Moves
  <1>2. TypedCalls' /\ Suspended' /\ PromisesKept'
    BY MovesKeepTyped, MovesKeepSuspended, MovesKeepPromises DEF IInv
  <1>3. Offline'
    BY MovesKeepOffline DEF IInv
  <1>4. Releases'
    BY <1>1, ReleasesKept DEF IInv
  <1> QED
    BY <1>2, <1>3, <1>4 DEF IInv, Chunks

LEMMA RequestedTyped ==
    ASSUME TypedWorld, NEW l \in Leases, NEW p,
           \/ p = Requested(l)
           \/ p = [Requested(l) EXCEPT !.previous = known.snapshot]
    PROVE  /\ p \in Promises /\ p.by = l
           /\ p.outcome = IF Connected THEN "waiting" ELSE "failed"
  <1>1. known.snapshot \in Snapshots \cup {None}
    BY DEF TypedWorld, Copies
  <1> QED
    BY <1>1 DEF Requested, Promises, Outcomes

LEMMA RequestSends ==
    ASSUME TypedCalls, NEW l \in Leases, NEW command \in Commands,
           command # "none", Request(l, command)
    PROVE  /\ pending' \in [Leases -> Commands]
           /\ \A k \in Leases : pending[k] # "none" => pending'[k] # "none"
           /\ Connected => pending'[l] # "none"
           /\ ~Connected => pending' = pending
  BY DEF TypedCalls, Request

\* What the promises are when call l goes on: its own are settled.
Before(l, P) ==
    /\ P \in [Kinds -> Promises \cup {None}]
    /\ \A kind \in Kinds : \/ P[kind] = None
                           \/ P[kind] = promise[kind] /\ P[kind].by # l

\* Whoever awaits a shared promise awaits what its maker awaits.
LEMMA PromiseAwaited ==
    ASSUME IInv, NEW kind \in Kinds, promise[kind] # None
    PROVE  LET p == promise[kind] IN
           /\ p.by # None
           /\ p.outcome = "waiting" => pending[p.by] # "none"
           /\ ~Connected /\ kind = "attachment" => p.outcome = "failed"
  <1>1. promise[kind].by \in Leases
    BY PromiseTyped DEF IInv
  <1>2. /\ call[promise[kind].by].pc \in Makers(kind)
        /\ call[promise[kind].by].waits = promise[kind].by
        /\ call[promise[kind].by].outcome = promise[kind].outcome
    BY DEF IInv, PromisesKept
  <1>3. promise[kind].outcome = "waiting"
          => pending[promise[kind].by] # "none"
    BY <1>1, <1>2, LeasesAssumption DEF IInv, Suspended
  <1>4. ASSUME ~Connected, kind = "attachment"
        PROVE  promise[kind].outcome = "failed"
    <2>1. call[promise[kind].by].pc = "attachment"
      BY <1>2, <1>4 DEF Makers
    <2> QED
      BY <1>1, <1>2, <1>4, <2>1 DEF IInv, Offline
  <1> QED
    BY <1>1, <1>3, <1>4, LeasesAssumption

LEMMA JoinMoves ==
    ASSUME IInv, NEW l \in Leases, NEW P, Before(l, P),
           NEW kind \in {"attachment", "reconciliation"},
           NEW command \in Commands, command # "none",
           NEW p,
           P[kind] # None => p = P[kind],
           P[kind] = None => \/ p = Requested(l)
                             \/ p = [Requested(l) EXCEPT
                                       !.previous = known.snapshot],
           Await(l, kind, p), promise' = [P EXCEPT ![kind] = p],
           IF P[kind] = None THEN Request(l, command)
           ELSE UNCHANGED pending
    PROVE  Moves(l, kind, p.by, p.outcome, call[l].generation)
  <1>1. /\ kind \in Kinds /\ kind \in Pcs /\ kind \in Busy
        /\ kind \notin {"active"} \cup Releasing \cup Refusals
    BY DEF Kinds, Pcs, Busy, Releasing, Refusals
  <1>2. p \in Promises /\ p.by \in Leases /\ p.outcome \in Outcomes
    <2>1. CASE P[kind] # None
      <3>1. p \in Promises
        BY <1>1, <2>1 DEF Before
      <3> QED
        BY <3>1 DEF Promises
    <2>2. CASE P[kind] = None
      <3>1. p \in Promises
        BY <2>2, RequestedTyped DEF IInv
      <3> QED
        BY <3>1 DEF Promises
    <2> QED
      BY <2>1, <2>2
  <1>3. Changed(l, kind, p.by, p.outcome, call[l].generation)
    BY <1>1, <1>2, AwaitChanges DEF IInv
  <1>4. p.by # None
    BY <1>2, LeasesAssumption
  <1>5. /\ pending' \in [Leases -> Commands]
        /\ \A k \in Leases : pending[k] # "none" => pending'[k] # "none"
        /\ ~Connected => pending' = pending
    <2>1. CASE P[kind] = None
      BY <2>1, RequestSends DEF IInv
    <2>2. CASE P[kind] # None
      BY <2>2 DEF IInv, TypedCalls
    <2> QED
      BY <2>1, <2>2
  <1>6. p.outcome = "waiting" => pending'[p.by] # "none"
    <2>1. CASE P[kind] = None
      BY <2>1, RequestSends, RequestedTyped DEF IInv
    <2>2. CASE P[kind] # None
      BY <1>1, <1>2, <1>5, <2>2, PromiseAwaited DEF Before
    <2> QED
      BY <2>1, <2>2
  <1>7. ~Connected /\ kind = "attachment" => p.outcome = "failed"
    <2>1. CASE P[kind] = None
      BY <2>1, RequestedTyped DEF IInv
    <2>2. CASE P[kind] # None
      BY <1>1, <2>2, PromiseAwaited DEF Before
    <2> QED
      BY <2>1, <2>2
  <1>8. promise' \in [Kinds -> Promises \cup {None}]
    BY <1>1, <1>2 DEF Before
  <1>9. ASSUME NEW q \in Kinds
        PROVE  Passed(l, q)
    <2>1. P \in [Kinds -> Promises \cup {None}]
      BY DEF Before
    <2>2. CASE q = kind /\ P[kind] = None
      <3>1. promise'[q] = p /\ p.by = l
        BY <1>1, <2>1, <2>2, RequestedTyped DEF IInv
      <3>2. call'[l].pc \in Makers(q)
        BY <1>3, <2>2 DEF Changed, Makers
      <3> QED
        BY <1>3, <3>1, <3>2 DEF Changed, Passed
    <2>3. CASE ~(q = kind /\ P[kind] = None)
      <3>1. promise'[q] = P[q]
        BY <1>1, <2>1, <2>3
      <3> QED
        BY <3>1 DEF Before, Passed
    <2> QED
      BY <2>2, <2>3
  <1>10. kind # "creating"
    OBVIOUS
  <1> QED
    BY <1>1, <1>3, <1>4, <1>5, <1>6, <1>7, <1>8, <1>9, <1>10 DEF Moves
-----------------------------------------------------------------------------
(* Acquiring a lease *)

\* Call l has, or waits for, a lease.
GoesOn(l, pc, w, o, g) ==
    /\ Moves(l, pc, w, o, g)
    /\ \/ pc \in Kinds
       \/ pc = "active" /\ g = book.generation

LEMMA JoinAttachmentMoves ==
    ASSUME IInv, NEW l \in Leases, NEW P, Before(l, P), JoinAttachment(l, P)
    PROVE  /\ \E pc, w, o, g : GoesOn(l, pc, w, o, g)
           /\ known' \in Copies /\ known'.attached = known.attached
  <1> DEFINE p == IF P.attachment # None THEN P.attachment
                  ELSE [Requested(l) EXCEPT !.previous = known.snapshot]
  <1>1. /\ Await(l, "attachment", p)
        /\ promise' = [P EXCEPT !["attachment"] = p]
        /\ IF P["attachment"] = None THEN Request(l, "attach")
           ELSE UNCHANGED pending
        /\ P["attachment"] # None => p = P["attachment"]
        /\ P["attachment"] = None =>
             p = [Requested(l) EXCEPT !.previous = known.snapshot]
    BY DEF JoinAttachment
  <1>2. known' \in Copies /\ known'.attached = known.attached
    <2>1. known \in Copies
      BY DEF IInv, TypedWorld
    <2>2. known' = [known EXCEPT !.snapshot = None] \/ known' = known
      BY DEF JoinAttachment
    <2> QED
      BY <2>1, <2>2 DEF Copies
  <1> HIDE DEF p
  <1>3. "attach" \in Commands /\ "attach" # "none"
    BY DEF Commands
  <1>4. Moves(l, "attachment", p.by, p.outcome, call[l].generation)
    BY <1>1, <1>3, JoinMoves
  <1>5. GoesOn(l, "attachment", p.by, p.outcome, call[l].generation)
    BY <1>4 DEF GoesOn, Kinds
  <1> QED
    BY <1>2, <1>5

LEMMA LeaseMoves ==
    ASSUME IInv, NEW l \in Leases, NEW P, Before(l, P), Connected,
           ~Leased(l), Lease(l), promise' = P, UNCHANGED pending
    PROVE  GoesOn(l, "active", None, "waiting", book.generation)
  <1>1. Changed(l, "active", None, "waiting", book.generation)
    BY LeaseChanges DEF IInv
  <1>2. "active" \notin Busy
    BY DEF Busy, Kinds, Releasing
  <1>3. \A kind \in Kinds : Passed(l, kind)
    BY DEF Before, Passed
  <1>4. /\ pending' \in [Leases -> Commands]
        /\ promise' \in [Kinds -> Promises \cup {None}]
    BY DEF Before, IInv, TypedCalls
  <1> QED
    BY <1>1, <1>2, <1>3, <1>4 DEF GoesOn, Moves

LEMMA ProceedMoves ==
    ASSUME IInv, NEW l \in Leases, NEW P, Before(l, P), NEW reconciled,
           ~Leased(l), Proceed(l, reconciled, P)
    PROVE  /\ \E pc, w, o, g : GoesOn(l, pc, w, o, g)
           /\ known' \in Copies /\ known'.attached = known.attached
  <1>1. CASE reconciled \/ ~known.attached
    <2>1. JoinAttachment(l, P)
      BY <1>1 DEF Proceed
    <2> QED
      BY <2>1, JoinAttachmentMoves
  <1>2. CASE ~(reconciled \/ ~known.attached)
    <2>1. Lease(l) /\ promise' = P /\ UNCHANGED <<pending, known>>
      BY <1>2 DEF Proceed
    <2>2. Connected
      BY <1>2 DEF IInv, Offline
    <2>3. GoesOn(l, "active", None, "waiting", book.generation)
      BY <2>1, <2>2, LeaseMoves
    <2>4. known' \in Copies
      BY <2>1 DEF IInv, TypedWorld
    <2> QED
      BY <2>1, <2>3, <2>4
  <1> QED
    BY <1>1, <1>2

LEMMA ReconcileMoves ==
    ASSUME IInv, NEW l \in Leases, ~Leased(l), Before(l, promise),
           Reconcile(l)
    PROVE  /\ \E pc, w, o, g : GoesOn(l, pc, w, o, g)
           /\ known' \in Copies /\ known'.attached = known.attached
  <1>1. CASE book.cleanup
    <2> DEFINE p == IF promise.reconciliation # None
                    THEN promise.reconciliation ELSE Requested(l)
    <2>1. /\ Await(l, "reconciliation", p)
          /\ promise' = [promise EXCEPT !["reconciliation"] = p]
          /\ IF promise["reconciliation"] = None THEN Request(l, "detach")
             ELSE UNCHANGED pending
          /\ promise["reconciliation"] # None =>
               p = promise["reconciliation"]
          /\ promise["reconciliation"] = None => p = Requested(l)
          /\ known' = known
      BY <1>1 DEF Reconcile
    <2> HIDE DEF p
    <2>2. "detach" \in Commands /\ "detach" # "none"
      BY DEF Commands
    <2>3. Moves(l, "reconciliation", p.by, p.outcome, call[l].generation)
      BY <2>1, <2>2, JoinMoves
    <2>4. GoesOn(l, "reconciliation", p.by, p.outcome, call[l].generation)
      BY <2>3 DEF GoesOn, Kinds
    <2>5. known' \in Copies
      BY <2>1 DEF IInv, TypedWorld
    <2> QED
      BY <2>1, <2>4, <2>5
  <1>2. CASE ~book.cleanup
    <2>1. Proceed(l, FALSE, promise)
      BY <1>2 DEF Reconcile
    <2> QED
      BY <2>1, ProceedMoves
  <1> QED
    BY <1>1, <1>2

\* A call that goes on holds its token, whichever way it goes.
LEMMA GoesOnHolds ==
    ASSUME NEW l \in Leases, NEW pc, NEW w, NEW o, NEW g,
           GoesOn(l, pc, w, o, g), book'.generation = book.generation
    PROVE  /\ Holds(l)' /\ pc \notin Releasing \cup Refusals
           /\ Changed(l, pc, w, o, g)
  BY DEF GoesOn, Moves, Changed, Holds, Acquiring, Current, Leased, Kinds,
         Releasing, Refusals

\* A promise of a call that is elsewhere is none of its own.
LEMMA BeforeElsewhere ==
    ASSUME IInv, NEW l \in Leases,
           \A kind \in Kinds : \/ call[l].pc \notin Makers(kind)
                               \/ call[l].waits # l
                               \/ promise[kind] = None
    PROVE  Before(l, promise)
  BY DEF Before, IInv, PromisesKept, TypedCalls

LEMMA ReservedBook ==
    ASSUME IInv, NEW l \in Leases, book' = Reserved(l)
    PROVE  /\ book' \in Books /\ book'.generation = book.generation
           /\ book'.count = book.count + 1
           /\ book'.exclusive = IF Exclusively(l) THEN l ELSE book.exclusive
  <1>1. book \in Books
    BY DEF IInv, TypedCalls
  <1>2. /\ book.count \in Nat /\ book.exclusive \in Leases \cup {None}
        /\ book.cleanup \in BOOLEAN /\ book.generation \in Nat
    BY <1>1 DEF Books
  <1>3. /\ (IF Exclusively(l) THEN l ELSE book.exclusive)
             \in Leases \cup {None}
        /\ book.count + 1 \in Nat
    BY <1>2
  <1> QED
    BY <1>1, <1>2, <1>3 DEF Books, Reserved

LEMMA ReleasedBook ==
    ASSUME IInv, NEW l \in Leases, NEW cleanup \in BOOLEAN,
           \/ book' = Released(book, l)
           \/ book' = Released([book EXCEPT !.cleanup = FALSE], l)
           \/ book' = [Released(book, l) EXCEPT !.cleanup = cleanup]
    PROVE  /\ book' \in Books /\ book'.generation = book.generation
           /\ book'.count = IF book.count <= 1 THEN 0 ELSE book.count - 1
           /\ book'.exclusive = IF book.exclusive = l THEN None
                                ELSE book.exclusive
  <1>1. book \in Books
    BY DEF IInv, TypedCalls
  <1>2. /\ book.count \in Nat /\ book.exclusive \in Leases \cup {None}
        /\ book.cleanup \in BOOLEAN /\ book.generation \in Nat
    BY <1>1 DEF Books
  <1>3. (IF book.count <= 1 THEN 0 ELSE book.count - 1) \in Nat
    BY <1>2
  <1> QED
    BY <1>1, <1>2, <1>3 DEF Books, Released
-----------------------------------------------------------------------------
(* The steps of an acquisition *)

LEMMA WorldKept ==
    ASSUME IInv, UNCHANGED <<connection, disposed, server, late>>,
           known' \in Copies, Turn
    PROVE  TypedWorld'
  BY DEF IInv, TypedWorld, Turn

LEMMA AcquireSessionKeeps ==
    ASSUME IInv, NEW l \in Leases, AcquireSession(l)
    PROVE  IInv'
  <1>1. /\ call[l].pc = "idle" /\ book' = Reserved(l) /\ Granted(l)
        /\ UNCHANGED <<connection, disposed, server, late>>
        /\ Turn /\ ~chunk'
    BY DEF AcquireSession, Turn
  <1>2. /\ book' \in Books /\ book'.generation = book.generation
        /\ book'.count = book.count + 1
        /\ book'.exclusive = IF Exclusively(l) THEN l ELSE book.exclusive
    BY <1>1, ReservedBook
  <1>3. Before(l, promise)
    <2>1. \A kind \in Kinds : call[l].pc \notin Makers(kind)
      BY <1>1 DEF Makers, Kinds, Releasing
    <2> QED
      BY <2>1, BeforeElsewhere
  <1>4. ~Holds(l) /\ ~Leased(l)
    BY <1>1 DEF Holds, Acquiring, Current, Leased
  <1>5. /\ \E pc, w, o, g : GoesOn(l, pc, w, o, g)
        /\ known' \in Copies /\ known'.attached = known.attached
    <2>1. CASE promise.detachment # None
      <3> DEFINE p == promise.detachment
      <3>1. /\ Await(l, "detachment", p)
            /\ UNCHANGED <<promise, pending, known>>
        BY <2>1 DEF AcquireSession
      <3>2. "detachment" \in Kinds /\ "detachment" \in Pcs
            /\ "detachment" \in Busy
            /\ "detachment" \notin {"active"} \cup Releasing \cup Refusals
        BY DEF Kinds, Pcs, Busy, Releasing, Refusals
      <3>3. p \in Promises /\ p.by \in Leases /\ p.outcome \in Outcomes
        BY <2>1, <3>2, PromiseTyped DEF IInv
      <3>4. /\ p.by # None
            /\ p.outcome = "waiting" => pending[p.by] # "none"
        BY <2>1, <3>2, PromiseAwaited
      <3> HIDE DEF p
      <3>5. Changed(l, "detachment", p.by, p.outcome, call[l].generation)
        BY <3>1, <3>2, <3>3, AwaitChanges DEF IInv
      <3>6. \A kind \in Kinds : Passed(l, kind)
        BY <1>3, <3>1 DEF Before, Passed
      <3>7. /\ pending' \in [Leases -> Commands]
            /\ promise' \in [Kinds -> Promises \cup {None}]
            /\ known' \in Copies
        BY <3>1 DEF IInv, TypedCalls, TypedWorld
      <3>8. Moves(l, "detachment", p.by, p.outcome, call[l].generation)
        BY <3>1, <3>2, <3>4, <3>5, <3>6, <3>7 DEF Moves
      <3>9. GoesOn(l, "detachment", p.by, p.outcome, call[l].generation)
        BY <3>2, <3>8 DEF GoesOn
      <3> QED
        BY <3>1, <3>7, <3>9
    <2>2. CASE promise.detachment = None
      <3>1. Reconcile(l)
        BY <2>2 DEF AcquireSession
      <3> QED
        BY <1>3, <1>4, <3>1, ReconcileMoves
    <2> QED
      BY <2>1, <2>2
  <1>6. PICK pc, w, o, g : GoesOn(l, pc, w, o, g)
    BY <1>5
  <1>7. /\ Holds(l)' /\ pc \notin Releasing \cup Refusals
        /\ Changed(l, pc, w, o, g)
    BY <1>2, <1>6, GoesOnHolds
  <1>8. Tokens'
    BY <1>1, <1>2, <1>4, <1>7, TokensReserved DEF IInv
  <1>9. Moves(l, pc, w, o, g)
    BY <1>6 DEF GoesOn
  <1>10. TypedWorld'
    BY <1>1, <1>5, WorldKept
  <1> QED
    BY <1>1, <1>2, <1>5, <1>7, <1>8, <1>9, <1>10, MovesKeepInvariant

\* An acquisition goes on with the token it holds.
LEMMA HolderGoesOn ==
    ASSUME IInv, NEW l \in Leases, Holds(l),
           \E pc, w, o, g : GoesOn(l, pc, w, o, g),
           known' \in Copies, known'.attached = known.attached,
           UNCHANGED <<connection, disposed, server, late>>, Turn,
           book' \in Books, book'.generation = book.generation,
           book'.count = book.count, book'.exclusive = book.exclusive
    PROVE  IInv'
  <1>1. PICK pc, w, o, g : GoesOn(l, pc, w, o, g)
    OBVIOUS
  <1>2. /\ Holds(l)' /\ pc \notin Releasing \cup Refusals
        /\ Changed(l, pc, w, o, g)
    BY <1>1, GoesOnHolds
  <1>3. Tokens'
    BY <1>2, TokensStay DEF IInv
  <1>4. Moves(l, pc, w, o, g)
    BY <1>1 DEF GoesOn
  <1>5. TypedWorld' /\ ~chunk'
    BY WorldKept DEF Turn
  <1> QED
    BY <1>2, <1>3, <1>4, <1>5, MovesKeepInvariant

LEMMA DetachmentOverKeeps ==
    ASSUME IInv, NEW l \in Leases, DetachmentOver(l)
    PROVE  IInv'
  <1>1. /\ call[l].pc = "detachment" /\ Reconcile(l) /\ book' = book
        /\ UNCHANGED <<connection, disposed, server, late>> /\ Turn
    BY DEF DetachmentOver
  <1>2. Before(l, promise)
    <2>1. \A kind \in Kinds : call[l].pc \notin Makers(kind)
      BY <1>1 DEF Makers, Kinds, Releasing
    <2> QED
      BY <2>1, BeforeElsewhere
  <1>3. /\ \E pc, w, o, g : GoesOn(l, pc, w, o, g)
        /\ known' \in Copies /\ known'.attached = known.attached
    BY <1>1, <1>2, ReconcileMoves DEF Leased
  <1>4. Holds(l)
    BY <1>1 DEF Holds, Acquiring
  <1>5. book' \in Books
    BY <1>1 DEF IInv, TypedCalls
  <1> QED
    BY <1>1, <1>3, <1>4, <1>5, HolderGoesOn

\* A call that ends, or whose lease is idle again, awaits nothing.
LEMMA GoesMoves ==
    ASSUME IInv, NEW l \in Leases, NEW P, Before(l, P),
           NEW pc \in Pcs \ Busy, Goes(l, pc), promise' = P,
           UNCHANGED pending,
           Connected \/ pc = "over" \/ call[l].generation < book.generation
    PROVE  Moves(l, pc, None, "waiting", call[l].generation)
  <1>1. Changed(l, pc, None, "waiting", call[l].generation)
    BY GoesChanges DEF IInv
  <1>2. pc \notin {"attachment", "creating"}
    BY DEF Busy, Kinds
  <1>3. \A kind \in Kinds : Passed(l, kind)
    BY DEF Before, Passed
  <1>4. /\ pending' \in [Leases -> Commands]
        /\ promise' \in [Kinds -> Promises \cup {None}]
    BY DEF Before, IInv, TypedCalls
  <1>5. ~Connected /\ pc \in {"active"} \cup Releasing \cup Refusals
          => call[l].generation < book.generation
    BY DEF Releasing, Refusals
  <1> QED
    BY <1>1, <1>2, <1>3, <1>4, <1>5 DEF Moves

\* A call that gives its token up.
LEMMA HolderLeaves ==
    ASSUME IInv, NEW l \in Leases, Connected => Holds(l),
           NEW P, Before(l, P), Goes(l, "over"), promise' = P,
           UNCHANGED pending,
           known' \in Copies, ~Connected => known'.attached = known.attached,
           UNCHANGED <<connection, disposed, server, late>>, Turn,
           book' \in Books, book'.generation = book.generation,
           book'.count = IF book.count <= 1 THEN 0 ELSE book.count - 1,
           book'.exclusive = IF book.exclusive = l THEN None
                             ELSE book.exclusive
    PROVE  IInv'
  <1>1. "over" \in Pcs \ Busy /\ "over" \notin Releasing \cup Refusals
    BY DEF Pcs, Busy, Kinds, Releasing, Refusals
  <1>2. Moves(l, "over", None, "waiting", call[l].generation)
    BY <1>1, GoesMoves
  <1>3. Changed(l, "over", None, "waiting", call[l].generation)
    BY <1>2 DEF Moves
  <1>4. ~Holds(l)'
    BY <1>3 DEF Changed, Holds, Acquiring, Current, Leased
  <1>5. Tokens'
    BY <1>3, <1>4, TokensReleased DEF IInv
  <1>6. TypedWorld' /\ ~chunk'
    BY WorldKept DEF Turn
  <1> QED
    BY <1>1, <1>2, <1>5, <1>6, MovesKeepInvariant

LEMMA ReconciliationOverKeeps ==
    ASSUME IInv, NEW l \in Leases, ReconciliationOver(l)
    PROVE  IInv'
  <1> DEFINE first == call[l].waits = l
             ok == call[l].outcome = "ok"
             P == IF first THEN [promise EXCEPT !.reconciliation = None]
                  ELSE promise
             b == IF first /\ ok THEN [book EXCEPT !.cleanup = FALSE]
                  ELSE book
  <1>1. /\ call[l].pc = "reconciliation"
        /\ UNCHANGED <<connection, disposed, server, late>> /\ Turn
        /\ IF ok THEN Proceed(l, TRUE, P) /\ book' = b
           ELSE Fail(l) /\ promise' = P /\ book' = Released(b, l)
    BY DEF ReconciliationOver
  <1>2. Before(l, P)
    <2>1. promise \in [Kinds -> Promises \cup {None}]
      BY DEF IInv, TypedCalls
    <2>2. "reconciliation" \in Kinds
      BY DEF Kinds
    <2>3. ASSUME NEW kind \in Kinds, promise[kind] # None,
                 promise[kind].by = l
          PROVE  kind = "reconciliation" /\ first
      BY <1>1, <2>3 DEF IInv, PromisesKept, Makers, Kinds, Releasing
    <2> QED
      BY <2>1, <2>2, <2>3 DEF Before
  <1>3. Holds(l)
    BY <1>1 DEF Holds, Acquiring
  <1>4. CASE ok
    <2>1. /\ \E pc, w, o, g : GoesOn(l, pc, w, o, g)
          /\ known' \in Copies /\ known'.attached = known.attached
      BY <1>1, <1>2, <1>4, ProceedMoves DEF Leased
    <2>2. /\ book' \in Books /\ book'.generation = book.generation
          /\ book'.count = book.count /\ book'.exclusive = book.exclusive
      BY <1>1, <1>4 DEF IInv, TypedCalls, Books
    <2> QED
      BY <1>1, <1>3, <2>1, <2>2, HolderGoesOn
  <1>5. CASE ~ok
    <2>1. /\ Goes(l, "over") /\ promise' = P /\ UNCHANGED <<pending, known>>
          /\ book' = Released(book, l)
      BY <1>1, <1>5 DEF Fail
    <2>2. known' \in Copies
      BY <2>1 DEF IInv, TypedWorld
    <2> HIDE DEF P
    <2> QED
      BY <1>1, <1>2, <1>3, <2>1, <2>2, ReleasedBook, HolderLeaves
  <1> QED
    BY <1>4, <1>5

LEMMA AttachmentOverKeeps ==
    ASSUME IInv, NEW l \in Leases, AttachmentOver(l)
    PROVE  IInv'
  <1> DEFINE p == promise.attachment
             mine == p # None /\ p.by = call[l].waits
             P == [promise EXCEPT !.attachment = IF mine THEN None ELSE @]
  <1>1. /\ call[l].pc = "attachment" /\ promise' = P /\ Turn
        /\ UNCHANGED <<connection, disposed, server, late>>
    BY DEF AttachmentOver
  <1>2. Before(l, P)
    <2>1. promise \in [Kinds -> Promises \cup {None}]
      BY DEF IInv, TypedCalls
    <2>2. "attachment" \in Kinds
      BY DEF Kinds
    <2>3. ASSUME NEW kind \in Kinds, promise[kind] # None,
                 promise[kind].by = l
          PROVE  kind = "attachment" /\ mine
      BY <1>1, <2>3 DEF IInv, PromisesKept, Makers, Kinds, Releasing
    <2> QED
      BY <2>1, <2>2, <2>3 DEF Before
  <1>3. Holds(l)
    BY <1>1 DEF Holds, Acquiring
  <1>4. CASE call[l].outcome = "ok"
    <2>1. Lease(l) /\ UNCHANGED <<pending, known, book>>
      BY <1>4 DEF AttachmentOver
    <2>2. Connected
      BY <1>1, <1>4 DEF IInv, Offline
    <2>3. GoesOn(l, "active", None, "waiting", book.generation)
      BY <1>1, <1>2, <2>1, <2>2, LeaseMoves DEF Leased
    <2>4. known' \in Copies /\ book' \in Books
      BY <2>1 DEF IInv, TypedWorld, TypedCalls
    <2> QED
      BY <1>1, <1>3, <2>1, <2>3, <2>4, HolderGoesOn
  <1>5. CASE call[l].outcome # "ok"
    <2>1. /\ Goes(l, "over") /\ UNCHANGED pending
          /\ book' = Released(book, l)
          /\ \/ known' = [known EXCEPT !.snapshot = p.previous] /\ mine
             \/ known' = known
      BY <1>5 DEF AttachmentOver
    <2>2. known' \in Copies /\ known'.attached = known.attached
      <3>1. known \in Copies
        BY DEF IInv, TypedWorld
      <3>2. mine => p.previous \in Snapshots \cup {None}
        BY PromiseTyped DEF IInv, Kinds
      <3> HIDE DEF mine, p
      <3> QED
        BY <2>1, <3>1, <3>2 DEF Copies
    <2> HIDE DEF P
    <2> QED
      BY <1>1, <1>2, <1>3, <2>1, <2>2, ReleasedBook, HolderLeaves
  <1> QED
    BY <1>4, <1>5

\* A call without a token that has none afterwards either.
LEMMA TokenlessMoves ==
    ASSUME IInv, NEW l \in Leases, ~Holds(l),
           NEW pc, NEW w, NEW o, NEW g, Moves(l, pc, w, o, g),
           pc \in {"over", "creating"},
           UNCHANGED <<connection, disposed, known, book, server, late>>, Turn
    PROVE  IInv'
  <1>1. Changed(l, pc, w, o, g) /\ pc \notin Releasing \cup Refusals
    BY DEF Moves, Releasing, Refusals
  <1>2. ~Holds(l)'
    BY <1>1 DEF Changed, Holds, Acquiring, Current, Leased
  <1>3. Tokens'
    BY <1>1, <1>2, TokensStay DEF IInv
  <1>4. known' \in Copies /\ book' \in Books
    BY DEF IInv, TypedWorld, TypedCalls
  <1>5. TypedWorld' /\ ~chunk'
    BY <1>4, WorldKept DEF Turn
  <1> QED
    BY <1>1, <1>3, <1>4, <1>5, MovesKeepInvariant

LEMMA CreateSessionKeeps ==
    ASSUME IInv, NEW l \in Leases, CreateSession(l)
    PROVE  IInv'
  <1> DEFINE p == Requested(l)
  <1>1. /\ call[l].pc = "idle" /\ Await(l, "creating", p)
        /\ Request(l, "create") /\ Turn
        /\ UNCHANGED <<connection, disposed, known, book, promise, server,
                       late>>
    BY DEF CreateSession
  <1>2. /\ p.by = l /\ p.outcome = IF Connected THEN "waiting" ELSE "failed"
        /\ p.outcome \in Outcomes
    BY RequestedTyped DEF IInv, Outcomes
  <1> HIDE DEF p
  <1>3. /\ "creating" \in Pcs /\ "creating" \in Busy
        /\ "creating" \notin {"active"} \cup Releasing \cup Refusals
    BY DEF Pcs, Busy, Releasing, Refusals
  <1>4. Changed(l, "creating", l, p.outcome, call[l].generation)
    BY <1>1, <1>2, <1>3, AwaitChanges DEF IInv
  <1>5. /\ pending' \in [Leases -> Commands]
        /\ \A k \in Leases : pending[k] # "none" => pending'[k] # "none"
        /\ Connected => pending'[l] # "none"
        /\ ~Connected => pending' = pending
    BY <1>1, RequestSends DEF IInv, Commands
  <1>6. Before(l, promise)
    <2>1. \A kind \in Kinds : call[l].pc \notin Makers(kind)
      BY <1>1 DEF Makers, Kinds, Releasing
    <2> QED
      BY <2>1, BeforeElsewhere
  <1>7. /\ \A kind \in Kinds : Passed(l, kind)
        /\ promise' \in [Kinds -> Promises \cup {None}]
    BY <1>1, <1>6 DEF Before, Passed
  <1>8. l # None
    BY LeasesAssumption
  <1>9. Moves(l, "creating", l, p.outcome, call[l].generation)
    BY <1>2, <1>3, <1>4, <1>5, <1>7, <1>8 DEF Moves
  <1>10. ~Holds(l)
    BY <1>1 DEF Holds, Acquiring, Current, Leased
  <1> QED
    BY <1>1, <1>9, <1>10, TokenlessMoves

LEMMA SessionCreatedKeeps ==
    ASSUME IInv, NEW l \in Leases, SessionCreated(l)
    PROVE  IInv'
  <1>1. /\ call[l].pc = "creating" /\ Turn
        /\ UNCHANGED <<connection, disposed, known, promise, pending, server,
                       late>>
    BY DEF SessionCreated
  <1>2. Before(l, promise)
    <2>1. \A kind \in Kinds : call[l].pc \notin Makers(kind)
      BY <1>1 DEF Makers, Kinds, Releasing
    <2> QED
      BY <2>1, BeforeElsewhere
  <1>3. ~Holds(l)
    BY <1>1 DEF Holds, Acquiring, Current, Leased
  <1>4. CASE call[l].outcome = "ok" /\ Granted(l)
    <2>1. Lease(l) /\ book' = Reserved(l)
      BY <1>4 DEF SessionCreated
    <2>2. Connected
      BY <1>1, <1>4 DEF IInv, Offline
    <2>3. GoesOn(l, "active", None, "waiting", book.generation)
      BY <1>1, <1>2, <2>1, <2>2, LeaseMoves DEF Leased
    <2>4. /\ book' \in Books /\ book'.generation = book.generation
          /\ book'.count = book.count + 1
          /\ book'.exclusive = IF Exclusively(l) THEN l ELSE book.exclusive
      BY <2>1, ReservedBook
    <2>5. /\ Holds(l)' /\ "active" \notin Releasing \cup Refusals
          /\ Changed(l, "active", None, "waiting", book.generation)
      BY <2>3, <2>4, GoesOnHolds
    <2>6. Tokens'
      BY <1>1, <1>3, <1>4, <2>4, <2>5, TokensReserved DEF IInv
    <2>7. Moves(l, "active", None, "waiting", book.generation)
      BY <2>3 DEF GoesOn
    <2>8. TypedWorld' /\ ~chunk'
      BY <1>1, WorldKept DEF Turn, IInv, TypedWorld
    <2> QED
      BY <1>1, <2>4, <2>5, <2>6, <2>7, <2>8, MovesKeepInvariant
  <1>5. CASE ~(call[l].outcome = "ok" /\ Granted(l))
    <2>1. Goes(l, "over") /\ UNCHANGED book
      BY <1>5 DEF SessionCreated
    <2>2. "over" \in Pcs \ Busy
      BY DEF Pcs, Busy, Kinds, Releasing
    <2>3. Moves(l, "over", None, "waiting", call[l].generation)
      BY <1>1, <1>2, <2>1, <2>2, GoesMoves
    <2> QED
      BY <1>1, <1>3, <2>1, <2>3, TokenlessMoves
  <1> QED
    BY <1>4, <1>5
-----------------------------------------------------------------------------
(* The steps of a release *)

LEMMA ReleaseKeeps ==
    ASSUME IInv, NEW l \in Leases, Release(l)
    PROVE  IInv'
  <1>1. /\ call[l].pc = "active" /\ Current(l) /\ Connected /\ Turn
        /\ UNCHANGED <<connection, disposed, known, server, late>>
    BY DEF Release
  <1>2. Before(l, promise)
    <2>1. \A kind \in Kinds : call[l].pc \notin Makers(kind)
      BY <1>1 DEF Makers, Kinds, Releasing
    <2> QED
      BY <2>1, BeforeElsewhere
  <1>3. Holds(l) /\ known' \in Copies
    BY <1>1 DEF Holds, IInv, TypedWorld
  <1>4. CASE book.count <= 1
    <2> DEFINE p == Requested(l)
    <2>1. PICK pc \in Releasing : Await(l, pc, p)
      BY <1>4 DEF Release, Releasing
    <2>2. /\ promise' = [promise EXCEPT !["detachment"] = p]
          /\ Request(l, "detach") /\ book' = book
      BY <1>4 DEF Release
    <2>3. p \in Promises /\ p.by = l /\ p.outcome \in Outcomes
      BY RequestedTyped DEF IInv, Outcomes
    <2> HIDE DEF p
    <2>4. pc \in Pcs /\ pc \in Busy /\ pc \notin {"attachment", "creating"}
      BY DEF Pcs, Busy, Releasing
    <2>5. Changed(l, pc, l, p.outcome, call[l].generation)
      BY <2>1, <2>3, <2>4, AwaitChanges DEF IInv
    <2>6. /\ pending' \in [Leases -> Commands]
          /\ \A k \in Leases : pending[k] # "none" => pending'[k] # "none"
          /\ pending'[l] # "none"
      BY <1>1, <2>2, RequestSends DEF IInv, Commands
    <2>7. promise \in [Kinds -> Promises \cup {None}]
          /\ "detachment" \in Kinds
      BY DEF IInv, TypedCalls, Kinds
    <2>8. ASSUME NEW kind \in Kinds
          PROVE  Passed(l, kind)
      <3>1. CASE kind = "detachment"
        BY <2>2, <2>3, <2>5, <2>7, <3>1 DEF Passed, Changed, Makers
      <3>2. CASE kind # "detachment"
        BY <1>2, <2>2, <2>7, <3>2 DEF Before, Passed
      <3> QED
        BY <3>1, <3>2
    <2>9. l # None
      BY LeasesAssumption
    <2>10. Moves(l, pc, l, p.outcome, call[l].generation)
      BY <1>1, <2>2, <2>3, <2>4, <2>5, <2>6, <2>7, <2>8, <2>9 DEF Moves
    <2>11. Current(l)' /\ Holds(l)'
      BY <1>1, <2>2, <2>5
      DEF Current, Leased, Holds, Changed, Releasing
    <2>12. Tokens'
      BY <1>1, <1>3, <2>2, <2>5, <2>11, TokensStay DEF IInv
    <2>13. TypedWorld' /\ ~chunk' /\ book' \in Books
      BY <1>1, <1>3, <2>2, WorldKept DEF Turn, IInv, TypedCalls
    <2> QED
      BY <1>1, <2>2, <2>10, <2>11, <2>12, <2>13, MovesKeepInvariant
  <1>5. CASE ~(book.count <= 1)
    <2>1. /\ Goes(l, "over") /\ book' = Released(book, l)
          /\ UNCHANGED <<promise, pending>>
      BY <1>5 DEF Release
    <2> QED
      BY <1>1, <1>2, <1>3, <2>1, ReleasedBook, HolderLeaves
  <1> QED
    BY <1>4, <1>5

LEMMA ReleaseInvalidatedKeeps ==
    ASSUME IInv, NEW l \in Leases, ReleaseInvalidated(l)
    PROVE  IInv'
  <1>1. /\ call[l].pc = "active" /\ ~Current(l) /\ Turn /\ Goes(l, "over")
        /\ UNCHANGED <<connection, disposed, known, book, promise, pending,
                       server, late>>
    BY DEF ReleaseInvalidated
  <1>2. Before(l, promise)
    <2>1. \A kind \in Kinds : call[l].pc \notin Makers(kind)
      BY <1>1 DEF Makers, Kinds, Releasing
    <2> QED
      BY <2>1, BeforeElsewhere
  <1>3. ~Holds(l) /\ "over" \in Pcs \ Busy
    BY <1>1 DEF Holds, Acquiring, Pcs, Busy, Kinds, Releasing
  <1>4. Moves(l, "over", None, "waiting", call[l].generation)
    BY <1>1, <1>2, <1>3, GoesMoves
  <1> QED
    BY <1>1, <1>3, <1>4, TokenlessMoves

\* A lease that keeps its token while it awaits nothing.
LEMMA HolderStays ==
    ASSUME IInv, NEW l \in Leases, Current(l), Connected,
           NEW P, Before(l, P), NEW pc \in Refusals \cup {"active"},
           Goes(l, pc), promise' = P, Turn,
           UNCHANGED <<connection, disposed, known, book, pending, server,
                       late>>
    PROVE  IInv'
  <1>1. pc \in Pcs \ Busy
    BY DEF Pcs, Busy, Kinds, Releasing, Refusals
  <1>2. Moves(l, pc, None, "waiting", call[l].generation)
    BY <1>1, GoesMoves
  <1>3. Changed(l, pc, None, "waiting", call[l].generation)
    BY <1>2 DEF Moves
  <1>4. Current(l)' /\ Holds(l) /\ Holds(l)'
    BY <1>3 DEF Changed, Current, Leased, Holds, Refusals
  <1>5. Tokens'
    BY <1>3, <1>4, TokensStay DEF IInv
  <1>6. known' \in Copies /\ book' \in Books
    BY DEF IInv, TypedWorld, TypedCalls
  <1>7. TypedWorld' /\ ~chunk'
    BY <1>6, WorldKept DEF Turn
  <1> QED
    BY <1>2, <1>4, <1>5, <1>6, <1>7, MovesKeepInvariant

LEMMA ReleaseSettlesKeeps ==
    ASSUME IInv, NEW l \in Leases, ReleaseSettles(l)
    PROVE  IInv'
  <1> DEFINE P == [promise EXCEPT !.detachment =
                     IF @ # None /\ @.by = l THEN None ELSE @]
  <1>1. /\ call[l].pc \in Releasing /\ promise' = P /\ Turn
        /\ UNCHANGED <<connection, disposed, known, pending, server, late>>
    BY DEF ReleaseSettles, Releasing
  <1>2. Before(l, P)
    <2>1. promise \in [Kinds -> Promises \cup {None}]
      BY DEF IInv, TypedCalls
    <2>2. "detachment" \in Kinds
      BY DEF Kinds
    <2>3. ASSUME NEW kind \in Kinds, promise[kind] # None,
                 promise[kind].by = l
          PROVE  kind = "detachment"
      BY <1>1, <2>3 DEF IInv, PromisesKept, Makers, Kinds, Releasing
    <2> QED
      BY <2>1, <2>2, <2>3 DEF Before
  <1> HIDE DEF P
  <1>3. Leased(l) /\ (Connected => Current(l))
    BY <1>1 DEF IInv, Releases, Leased, Releasing
  <1>4. known' \in Copies
    BY <1>1 DEF IInv, TypedWorld
  <1>5. CASE call[l].outcome = "ok"
    <2>1. Goes(l, "over") /\ book' = Released(book, l)
      BY <1>5 DEF ReleaseSettles
    <2>2. Connected => Holds(l)
      BY <1>3 DEF Holds
    <2> QED
      BY <1>1, <1>2, <1>4, <2>1, <2>2, ReleasedBook, HolderLeaves
  <1>6. CASE call[l].outcome # "ok"
    <2>1. PICK pc \in Refusals : Goes(l, pc) /\ book' = book
      BY <1>6 DEF ReleaseSettles, Refusals
    <2>2. CASE Connected
      BY <1>1, <1>2, <1>3, <2>1, <2>2, HolderStays
    <2>3. CASE ~Connected
      <3>1. call[l].generation < book.generation
        <4>1. /\ book.generation \in Nat /\ call[l].generation \in Nat
              /\ call[l].generation <= book.generation
          BY CallTyped DEF IInv, TypedCalls, Books
        <4>2. ~Current(l)
          BY <2>3 DEF IInv, Offline
        <4> QED
          BY <1>3, <4>1, <4>2 DEF Current
      <3>2. pc \in Pcs \ Busy
        BY DEF Pcs, Busy, Kinds, Releasing, Refusals
      <3>3. Moves(l, pc, None, "waiting", call[l].generation)
        BY <1>1, <1>2, <2>1, <3>1, <3>2, GoesMoves
      <3>4. Changed(l, pc, None, "waiting", call[l].generation)
        BY <3>3 DEF Moves
      <3>5. ~Holds(l)
        BY <1>1, <2>3 DEF Holds, Acquiring, Releasing, IInv, Offline
      <3>6. ~Holds(l)'
        <4>1. call'[l].generation # book'.generation
          BY <2>1, <2>3, <1>3, <3>4 DEF Changed, IInv, Offline, Current
        <4> QED
          BY <3>4, <4>1 DEF Changed, Holds, Acquiring, Current, Refusals
      <3>7. Tokens'
        BY <1>1, <2>1, <3>4, <3>5, <3>6, TokensStay DEF IInv
      <3>8. TypedWorld' /\ ~chunk' /\ book' \in Books
        BY <1>1, <1>4, <2>1, WorldKept DEF Turn, IInv, TypedCalls
      <3> QED
        BY <1>1, <2>1, <2>3, <3>3, <3>7, <3>8, MovesKeepInvariant
    <2> QED
      BY <2>2, <2>3
  <1> QED
    BY <1>5, <1>6

LEMMA ReleaseFailsKeeps ==
    ASSUME IInv, NEW l \in Leases, ReleaseFails(l)
    PROVE  IInv'
  <1> DEFINE relinquishes == call[l].pc = "disposeRefused" /\ Current(l)
  <1>1. /\ call[l].pc \in Refusals /\ Turn
        /\ Goes(l, IF call[l].pc = "disposeRefused" \/ ~Current(l)
                   THEN "over" ELSE "active")
        /\ book' = IF relinquishes THEN Relinquished(book, l) ELSE book
        /\ UNCHANGED <<connection, disposed, known, promise, pending, server,
                       late>>
    BY DEF ReleaseFails, Refused, Refusals
  <1>2. Before(l, promise)
    <2>1. \A kind \in Kinds : call[l].pc \notin Makers(kind)
      BY <1>1 DEF Makers, Kinds, Releasing, Refusals
    <2> QED
      BY <2>1, BeforeElsewhere
  <1>3. Connected => Current(l)
    BY <1>1 DEF IInv, Releases
  <1>4. known' \in Copies
    BY <1>1 DEF IInv, TypedWorld
  <1>5. CASE relinquishes
    <2>1. /\ Goes(l, "over")
          /\ book' = [Released(book, l) EXCEPT !.cleanup = TRUE]
      BY <1>1, <1>5 DEF Relinquished
    <2>2. Holds(l)
      BY <1>5 DEF Holds
    <2> QED
      BY <1>1, <1>2, <1>4, <2>1, <2>2, ReleasedBook, HolderLeaves
  <1>6. CASE ~Current(l)
    <2>1. Goes(l, "over") /\ book' = book
      BY <1>1, <1>6
    <2>2. ~Holds(l) /\ "over" \in Pcs \ Busy
      BY <1>1, <1>6
      DEF Holds, Acquiring, Refusals, Pcs, Busy, Kinds, Releasing
    <2>3. Moves(l, "over", None, "waiting", call[l].generation)
      BY <1>1, <1>2, <2>1, <2>2, GoesMoves
    <2> QED
      BY <1>1, <2>1, <2>2, <2>3, TokenlessMoves
  <1>7. CASE ~relinquishes /\ Current(l)
    <2>1. Goes(l, "active") /\ book' = book
      BY <1>1, <1>7
    <2>2. Connected
      BY <1>7 DEF IInv, Offline
    <2> QED
      BY <1>1, <1>2, <1>7, <2>1, <2>2, HolderStays
  <1> QED
    BY <1>5, <1>6, <1>7
-----------------------------------------------------------------------------
(* Answers, and the connection *)

\* What an answer, or the loss of the connection, does to the calls.
Answers(L, outcome) ==
    /\ \A k \in Leases :
         /\ call'[k].pc = call[k].pc /\ call'[k].waits = call[k].waits
         /\ call'[k].mode = call[k].mode /\ call'[k].early = call[k].early
         /\ call'[k].generation = call[k].generation
         /\ call'[k].outcome =
              IF call[k].waits \in L /\ call[k].outcome = "waiting"
              THEN outcome ELSE call[k].outcome
         /\ pending'[k] = IF k \in L THEN "none" ELSE pending[k]
    /\ \A kind \in Kinds :
         /\ promise'[kind] = None <=> promise[kind] = None
         /\ promise[kind] # None =>
              /\ promise'[kind].by = promise[kind].by
              /\ promise'[kind].outcome =
                   IF /\ promise[kind].by \in L
                      /\ promise[kind].outcome = "waiting"
                   THEN outcome ELSE promise[kind].outcome

LEMMA SettleAnswers ==
    ASSUME TypedCalls,
           NEW L \in SUBSET Leases, NEW outcome \in {"ok", "failed"},
           Settle(L, outcome)
    PROVE  /\ Answers(L, outcome)
           /\ call' \in [Leases -> Calls]
           /\ pending' \in [Leases -> Commands]
           /\ promise' \in [Kinds -> Promises \cup {None}]
  <1>1. ASSUME NEW k \in Leases
        PROVE  /\ call'[k] \in Calls
               /\ call'[k].pc = call[k].pc /\ call'[k].waits = call[k].waits
               /\ call'[k].mode = call[k].mode
               /\ call'[k].early = call[k].early
               /\ call'[k].generation = call[k].generation
               /\ call'[k].outcome =
                    IF call[k].waits \in L /\ call[k].outcome = "waiting"
                    THEN outcome ELSE call[k].outcome
    <2>1. call[k] \in Calls /\ outcome \in Outcomes
      BY DEF TypedCalls, Outcomes
    <2>2. call'[k] = IF call[k].waits \in L /\ call[k].outcome = "waiting"
                     THEN [call[k] EXCEPT !.outcome = outcome] ELSE call[k]
      BY DEF Settle
    <2> QED
      BY <2>1, <2>2 DEF Calls
  <1>2. ASSUME NEW kind \in Kinds
        PROVE  /\ promise'[kind] \in Promises \cup {None}
               /\ promise'[kind] = None <=> promise[kind] = None
               /\ promise[kind] # None =>
                    /\ promise'[kind].by = promise[kind].by
                    /\ promise'[kind].outcome =
                         IF /\ promise[kind].by \in L
                            /\ promise[kind].outcome = "waiting"
                         THEN outcome ELSE promise[kind].outcome
    <2>1. promise'[kind] = Settled(promise[kind], L, outcome)
      BY DEF Settle, TypedCalls
    <2>2. CASE promise[kind] = None
      BY <2>1, <2>2 DEF Settled
    <2>3. CASE promise[kind] # None
      <3>1. promise[kind] \in Promises /\ outcome \in Outcomes
        BY <2>3, PromiseTyped DEF Outcomes
      <3>2. LET p == [promise[kind] EXCEPT !.outcome = outcome] IN
            p \in Promises /\ p.by = promise[kind].by /\ p.outcome = outcome
        BY <3>1 DEF Promises
      <3>3. promise'[kind] =
              IF /\ promise[kind].by \in L
                 /\ promise[kind].outcome = "waiting"
              THEN [promise[kind] EXCEPT !.outcome = outcome]
              ELSE promise[kind]
        BY <2>1, <2>3 DEF Settled
      <3> QED
        BY <2>3, <3>1, <3>2, <3>3, NoneAssumption
    <2> QED
      BY <2>2, <2>3
  <1>3. /\ pending' \in [Leases -> Commands]
        /\ \A k \in Leases :
             pending'[k] = IF k \in L THEN "none" ELSE pending[k]
    BY DEF Settle, TypedCalls, Commands
  <1>4. call' \in [Leases -> Calls]
    BY <1>1 DEF Settle
  <1>5. promise' \in [Kinds -> Promises \cup {None}]
    BY <1>2 DEF Settle, TypedCalls
  <1> QED
    BY <1>1, <1>2, <1>3, <1>4, <1>5 DEF Answers

LEMMA AnswersKeepStructure ==
    ASSUME TypedCalls, Suspended, PromisesKept,
           NEW L \in SUBSET Leases, NEW outcome \in {"ok", "failed"},
           Answers(L, outcome)
    PROVE  Suspended' /\ PromisesKept'
  <1>1. Suspended'
    <2> SUFFICES ASSUME NEW k \in Leases
                 PROVE  /\ call'[k].waits # None <=> call'[k].pc \in Busy
                        /\ /\ call'[k].waits # None
                           /\ call'[k].outcome = "waiting"
                           => pending'[call'[k].waits] # "none"
      BY DEF Suspended
    <2>1. call[k].waits \in Leases \cup {None}
      BY CallTyped
    <2> QED
      BY <2>1 DEF Answers, Suspended
  <1>2. PromisesKept'
    <2> SUFFICES ASSUME NEW kind \in Kinds, promise'[kind] # None
                 PROVE  /\ call'[promise'[kind].by].pc \in Makers(kind)
                        /\ call'[promise'[kind].by].waits
                             = promise'[kind].by
                        /\ call'[promise'[kind].by].outcome
                             = promise'[kind].outcome
      BY DEF PromisesKept
    <2>1. promise[kind] # None /\ promise[kind].by \in Leases
      BY PromiseTyped DEF Answers
    <2> QED
      BY <2>1 DEF Answers, PromisesKept
  <1> QED
    BY <1>1, <1>2

\* Nothing moves and no token changes hands.
LEMMA TokensStand ==
    ASSUME Tokens, Releases, Connected' <=> Connected,
           book' = book,
           \A k \in Leases : /\ call'[k].pc = call[k].pc
                             /\ call'[k].mode = call[k].mode
                             /\ call'[k].generation = call[k].generation
    PROVE  Tokens' /\ Releases'
  <1>1. /\ \A k \in Leases : Holds(k)' <=> Holds(k)
        /\ \A k \in Leases : Current(k)' <=> Current(k)
        /\ \A k \in Leases : Exclusively(k)' <=> Exclusively(k)
    BY DEF Holds, Acquiring, Current, Leased, Exclusively
  <1>2. Holders' = Holders /\ \A k \in Holders : k \in Leases
    BY <1>1 DEF Holders
  <1>3. {k \in Holders : Exclusively(k)}' = {k \in Holders : Exclusively(k)}
    BY <1>1, <1>2 DEF Holders
  <1>4. Tokens'
    <2>1. CASE Connected
      <3>1. \A j, k \in Holders' : j # k => ~Exclusively(j)'
        BY <1>1, <1>2, <2>1 DEF Tokens
      <3>2. ({book.exclusive} \ {None})' = {k \in Holders : Exclusively(k)}'
        BY <1>3, <2>1 DEF Tokens
      <3>3. book'.count = Cardinality(Holders')
        BY <1>2, <2>1 DEF Tokens
      <3> QED
        BY <2>1, <3>1, <3>2, <3>3 DEF Tokens
    <2>2. CASE ~Connected
      BY <1>2, <2>2 DEF Tokens
    <2> QED
      BY <2>1, <2>2
  <1>5. Releases'
    BY <1>1 DEF Releases
  <1> QED
    BY <1>4, <1>5

LEMMA AnswerKeeps ==
    ASSUME IInv, NEW l \in Leases,
           NEW outcome \in {"ok", "failed"}, Settle({l}, outcome), Received,
           UNCHANGED <<connection, disposed, book, late>>,
           known' \in Copies, server' \in Servers
    PROVE  IInv'
  <1>1. {l} \in SUBSET Leases
    OBVIOUS
  <1>2. /\ Answers({l}, outcome)
        /\ call' \in [Leases -> Calls]
        /\ pending' \in [Leases -> Commands]
        /\ promise' \in [Kinds -> Promises \cup {None}]
    BY <1>1, SettleAnswers DEF IInv
  <1>3. Suspended' /\ PromisesKept'
    BY <1>1, <1>2, AnswersKeepStructure DEF IInv
  <1>4. Connected /\ Connected' /\ chunk' = TRUE
    BY DEF Received, Message, Connected
  <1>5. Tokens' /\ Releases'
    BY <1>2, <1>4, TokensStand DEF IInv, Answers
  <1>6. TypedCalls'
    BY <1>2 DEF IInv, TypedCalls, Answers
  <1>7. TypedWorld'
    BY <1>4 DEF IInv, TypedWorld
  <1>8. Offline' /\ Chunks'
    BY <1>4, SMTT(40) DEF Offline, Chunks
  <1> QED
    BY <1>3, <1>5, <1>6, <1>7, <1>8 DEF IInv

LEMMA AppliedTyped ==
    ASSUME NEW k \in Copies, NEW s \in Snapshots
    PROVE  Applied(k, s) \in Copies
  BY SMTT(40) DEF Copies, Applied

LEMMA ServerTyped ==
    ASSUME TypedWorld, NEW attached \in BOOLEAN, NEW unsure \in BOOLEAN
    PROVE  /\ AtServer(attached, unsure) \in Servers
           /\ \A r \in Revisions :
                /\ Sent(r) \in Snapshots /\ r \in 0..MaxRevision
                /\ [AtServer(attached, unsure)
                      EXCEPT !.revision = r, !.exists = TRUE] \in Servers
                /\ [server EXCEPT !.revision = r, !.attached = TRUE]
                     \in Servers
           /\ server.runtime < MaxRuntimes =>
                /\ [AtServer(attached, unsure)
                      EXCEPT !.runtime = @ + 1, !.revision = 0] \in Servers
                /\ [server EXCEPT !.runtime = @ + 1, !.revision = 0]
                     \in Servers
  <1>1. server \in Servers
    BY DEF TypedWorld
  <1>2. /\ server.exists \in BOOLEAN /\ server.attached \in BOOLEAN
        /\ server.unsure \in BOOLEAN /\ server.runtime \in 1..MaxRuntimes
        /\ server.revision \in 0..MaxRevision
    BY <1>1 DEF Servers
  <1>3. Revisions \subseteq 0..MaxRevision
    BY <1>2, BoundsAssumption DEF Revisions
  <1>4. server.runtime < MaxRuntimes => server.runtime + 1 \in 1..MaxRuntimes
    BY <1>2, BoundsAssumption
  <1>5. 0 \in 0..MaxRevision
    BY BoundsAssumption
  <1> QED
    BY <1>1, <1>2, <1>3, <1>4, <1>5 DEF Servers, AtServer, Sent, Snapshots

LEMMA AnsweredKeeps ==
    ASSUME IInv, NEW l \in Leases, Answered(l)
    PROVE  IInv'
  <1>1. known \in Copies /\ server \in Servers /\ TypedWorld
    BY DEF IInv, TypedWorld
  <1>2. CASE AttachAnswered(l)
    <2>1. PICK r \in Revisions :
            /\ server' = [AtServer(TRUE, FALSE) EXCEPT !.revision = r,
                                                       !.exists = TRUE]
            /\ known' = Applied(known, Sent(r))
      BY <1>2 DEF AttachAnswered
    <2>2. known' \in Copies /\ server' \in Servers
      BY <1>1, <2>1, ServerTyped, AppliedTyped
    <2>3. /\ Settle({l}, "ok") /\ Received
          /\ UNCHANGED <<connection, disposed, book, late>>
      BY <1>2 DEF AttachAnswered
    <2> QED
      BY <2>2, <2>3, AnswerKeeps
  <1>3. CASE DetachAnswered(l)
    <2>1. /\ server' = AtServer(FALSE, FALSE)
          /\ known' = [known EXCEPT !.attached = FALSE]
          /\ Settle({l}, "ok") /\ Received
          /\ UNCHANGED <<connection, disposed, book, late>>
      BY <1>3 DEF DetachAnswered
    <2>2. known' \in Copies /\ server' \in Servers
      BY <1>1, <2>1, ServerTyped DEF Copies
    <2> QED
      BY <2>1, <2>2, AnswerKeeps
  <1>4. CASE RequestRefused(l)
    <2>1. /\ \/ server' = server
             \/ server' = AtServer(pending[l] = "attach", TRUE)
          /\ known' = known
          /\ Settle({l}, "failed") /\ Received
          /\ UNCHANGED <<connection, disposed, book, late>>
      BY <1>4 DEF RequestRefused
    <2>2. (pending[l] = "attach") \in BOOLEAN
      OBVIOUS
    <2>3. known' \in Copies /\ server' \in Servers
      BY <1>1, <2>1, <2>2, ServerTyped
    <2> QED
      BY <2>1, <2>3, AnswerKeeps
  <1> QED
    BY <1>2, <1>3, <1>4 DEF Answered

\* A step that leaves the calls and the books alone.
LEMMA CallsStand ==
    ASSUME IInv, UNCHANGED <<book, promise, call, pending>>, TypedWorld',
           Chunks', Connected' <=> Connected,
           ~Connected => ~known'.attached
    PROVE  IInv'
  <1>1. Tokens' /\ Releases'
    BY TokensStand DEF IInv
  <1>2. TypedCalls' /\ Suspended' /\ PromisesKept'
    BY DEF IInv, TypedCalls, Suspended, PromisesKept
  <1>3. Offline'
    BY DEF IInv, Offline, Current, Leased
  <1> QED
    BY <1>1, <1>2, <1>3 DEF IInv

LEMMA SnapshotEventKeeps ==
    ASSUME IInv, SnapshotEvent
    PROVE  IInv'
  <1>1. /\ Connected /\ Connected' /\ chunk' = TRUE
        /\ UNCHANGED <<connection, disposed, book, promise, call, pending,
                       late>>
    BY DEF SnapshotEvent, Received, Message, Connected
  <1>2. known \in Copies /\ server \in Servers /\ TypedWorld
    BY DEF IInv, TypedWorld
  <1>3. known' \in Copies /\ server' \in Servers
    <2>1. CASE \E r \in Revisions :
                 /\ server' = [server EXCEPT !.revision = r, !.attached = TRUE]
                 /\ known' = Applied(known, Sent(r))
      BY <1>2, <2>1, ServerTyped, AppliedTyped
    <2>2. CASE /\ server.revision > 0
               /\ known' = Applied(known, Sent(server.revision - 1))
               /\ UNCHANGED server
      <3>1. /\ server.revision - 1 \in 0..MaxRevision
            /\ server.runtime \in 1..MaxRuntimes
        BY <1>2, <2>2, BoundsAssumption DEF Servers
      <3>2. Sent(server.revision - 1) \in Snapshots
        BY <3>1 DEF Sent, Snapshots
      <3> QED
        BY <1>2, <2>2, <3>2, AppliedTyped
    <2> QED
      BY <2>1, <2>2 DEF SnapshotEvent
  <1>4. TypedWorld' /\ Chunks'
    BY <1>1, <1>2, <1>3 DEF TypedWorld, Chunks
  <1> QED
    BY <1>1, <1>4, CallsStand

LEMMA RuntimeReplacedKeeps ==
    ASSUME IInv, RuntimeReplaced
    PROVE  IInv'
  <1>1. /\ chunk' = FALSE
        /\ UNCHANGED <<connection, disposed, known, book, promise, call,
                       pending, late>>
        /\ server' \in Servers
    BY ServerTyped DEF RuntimeReplaced, Turn, IInv
  <1>2. TypedWorld' /\ Chunks' /\ (Connected' <=> Connected)
    BY <1>1 DEF IInv, TypedWorld, Chunks, Connected
  <1> QED
    BY <1>1, <1>2, CallsStand DEF IInv, Offline

\* Books that are begun anew, when nobody waits, are those of no token.
LEMMA NobodyHolds ==
    ASSUME Connected', Holders' = {},
           book'.count = 0, book'.exclusive = None
    PROVE  Tokens'
  <1>1. book'.count = Cardinality(Holders')
    BY FS_EmptySet
  <1>2. {k \in Holders : Exclusively(k)}' = {}
    OBVIOUS
  <1>3. ({book.exclusive} \ {None})' = {}
    OBVIOUS
  <1> QED
    BY <1>1, <1>2, <1>3 DEF Tokens

LEMMA SessionRemovedKeeps ==
    ASSUME IInv, ~Overtaking, SessionRemoved
    PROVE  IInv'
  <1>1. /\ Connected /\ Connected' /\ chunk' = TRUE
        /\ UNCHANGED <<connection, disposed, promise, call, pending, late>>
        /\ book' = Invalidated(book)
        /\ known' = [attached |-> FALSE, snapshot |-> None]
        /\ \A l \in Leases : ~Waiting(l)
    BY DEF SessionRemoved, Received, Message, Connected
  <1>2. server' \in Servers /\ known' \in Copies
    <2>1. /\ server.runtime < MaxRuntimes
          /\ server' = [AtServer(FALSE, FALSE) EXCEPT !.runtime = @ + 1,
                                                      !.revision = 0]
      BY DEF SessionRemoved
    <2>2. server' \in Servers
      BY <2>1, ServerTyped DEF IInv
    <2> QED
      BY <1>1, <2>2 DEF Copies
  <1>3. /\ book' \in Books /\ book'.count = 0 /\ book'.exclusive = None
        /\ book'.generation = book.generation + 1 /\ book.generation \in Nat
    BY <1>1 DEF IInv, TypedCalls, Books, Invalidated
  <1>4. TypedWorld' /\ Chunks' /\ Offline'
    BY <1>1, <1>2 DEF IInv, TypedWorld, Chunks, Offline
  <1>5. ASSUME NEW l \in Leases
        PROVE  call'[l].generation < book'.generation /\ ~Current(l)'
    <2>1. call[l].generation \in Nat /\ call[l].generation <= book.generation
      BY CallTyped DEF IInv
    <2> QED
      BY <1>1, <1>3, <2>1 DEF Current
  <1>6. TypedCalls' /\ Suspended' /\ PromisesKept'
    <2>1. \A l \in Leases : call'[l].generation <= book'.generation
      <3>1. \A l \in Leases : call[l].generation \in Nat
        BY CallTyped DEF IInv
      <3> QED
        BY <1>1, <1>3, <1>5, <3>1
    <2>2. TypedCalls'
      BY <1>1, <1>3, <2>1 DEF IInv, TypedCalls
    <2> QED
      BY <1>1, <2>2 DEF IInv, Suspended, PromisesKept
  <1>7. Holders' = {}
    BY <1>1, <1>5 DEF Holders, Holds, Waiting, Acquiring
  <1>8. Tokens'
    BY <1>1, <1>3, <1>7, NobodyHolds
  <1>9. Releases'
    BY <1>1 DEF Releases, Waiting, Leased, Releasing, Refusals
  <1> QED
    BY <1>4, <1>6, <1>8, <1>9 DEF IInv

LEMMA ConnectKeeps ==
    ASSUME IInv, Connect
    PROVE  IInv'
  <1>1. /\ connection.state = "disconnected"
        /\ connection.id < MaxConnections
        /\ connection' = [state |-> "connecting", id |-> connection.id + 1]
        /\ known' = [attached |-> FALSE, snapshot |-> None]
        /\ chunk' = FALSE
        /\ UNCHANGED <<disposed, book, promise, call, pending, server, late>>
    BY DEF Connect, Turn
  <1>2. connection.id + 1 \in 0..MaxConnections
    BY <1>1, BoundsAssumption DEF IInv, TypedWorld, Connections
  <1>3. TypedWorld'
    BY <1>1, <1>2 DEF IInv, TypedWorld, Connections, Copies
  <1>4. ~Connected /\ ~Connected' /\ Chunks' /\ ~known'.attached
    BY <1>1 DEF Connected, Chunks
  <1> QED
    BY <1>1, <1>3, <1>4, CallsStand

\* When everything has run nobody waits, and offline nobody has a lease.
LEMMA OfflineNobodyHolds ==
    ASSUME IInv, ~Connected, Quiet
    PROVE  /\ \A l \in Leases : ~Holds(l) /\ call[l].pc \notin Busy
           /\ book.count = 0 /\ book.exclusive = None
  <1>1. ASSUME NEW l \in Leases, call[l].pc \in Busy
        PROVE  FALSE
    <2>1. call[l].waits \in Leases /\ call[l].outcome = "waiting"
      BY <1>1, CallTyped DEF IInv, Suspended, Quiet, Resumed
    <2>2. pending[call[l].waits] # "none"
      BY <2>1, LeasesAssumption DEF IInv, Suspended
    <2> QED
      BY <2>1, <2>2 DEF IInv, Offline
  <1>2. \A l \in Leases : ~Holds(l)
    BY <1>1 DEF IInv, Offline, Holds, Acquiring, Busy, Kinds
  <1>3. Holders = {}
    BY <1>2 DEF Holders
  <1>4. book.count <= 0 /\ book.exclusive = None
    BY <1>3, FS_EmptySet DEF IInv, Tokens
  <1>5. book.count \in Nat
    BY DEF IInv, TypedCalls, Books
  <1> QED
    BY <1>1, <1>2, <1>4, <1>5

LEMMA HelloKeeps ==
    ASSUME IInv, Hello
    PROVE  IInv'
  <1>1. /\ connection.state = "connecting" /\ (Quiet \/ chunk)
        /\ connection' = [connection EXCEPT !.state = "connected"]
        /\ chunk' = TRUE
        /\ UNCHANGED <<disposed, known, book, promise, call, pending, server,
                       late>>
    BY DEF Hello, Message
  <1>2. connection' \in Connections /\ Connected' /\ ~Connected
    BY <1>1 DEF IInv, TypedWorld, Connections, Connected
  <1>3. Quiet
    BY <1>1, <1>2 DEF IInv, Chunks
  <1>4. /\ \A l \in Leases : ~Holds(l) /\ call[l].pc \notin Busy
        /\ book.count = 0 /\ book.exclusive = None
    BY <1>2, <1>3, OfflineNobodyHolds
  <1>5. Holders' = {}
    BY <1>1, <1>4 DEF Holders, Holds, Acquiring, Current, Leased
  <1>6. Tokens'
    BY <1>1, <1>2, <1>4, <1>5, NobodyHolds
  <1>7. Releases'
    BY <1>1, <1>3, <1>4 DEF Releases, Busy, Refusals, Quiet, Refused
  <1>8. TypedWorld' /\ Chunks' /\ Offline'
    BY <1>1, <1>2 DEF IInv, TypedWorld, Chunks, Offline
  <1>9. TypedCalls' /\ Suspended' /\ PromisesKept'
    BY <1>1 DEF IInv, TypedCalls, Suspended, PromisesKept
  <1> QED
    BY <1>6, <1>7, <1>8, <1>9 DEF IInv

\* disconnect and dispose: every request fails, every lease is invalidated.
LEMMA ConnectionGone ==
    ASSUME IInv, \A l \in Leases : ~Granting(l),
           connection' = [connection EXCEPT !.state = "disconnected"],
           book' = AllInvalidated(book),
           Settle({l \in Leases : pending[l] # "none"}, "failed"),
           known' \in Copies, ~known'.attached, server' \in Servers, Turn,
           disposed' \in BOOLEAN, late' \in BOOLEAN
    PROVE  IInv'
  <1> DEFINE L == {l \in Leases : pending[l] # "none"}
  <1>1. L \in SUBSET Leases
    OBVIOUS
  <1>2. /\ Answers(L, "failed")
        /\ call' \in [Leases -> Calls]
        /\ pending' \in [Leases -> Commands]
        /\ promise' \in [Kinds -> Promises \cup {None}]
    BY <1>1, SettleAnswers DEF IInv
  <1>3. Suspended' /\ PromisesKept'
    <2> HIDE DEF L
    <2> QED
      BY <1>1, <1>2, AnswersKeepStructure DEF IInv
  <1>4. connection' \in Connections /\ ~Connected' /\ chunk' = FALSE
    BY DEF IInv, TypedWorld, Connections, Connected, Turn
  <1>5. /\ book' \in Books /\ book.count \in Nat /\ book.generation \in Nat
        /\ book'.count = 0
        /\ book.count > 0 => /\ book'.generation = book.generation + 1
                             /\ book'.exclusive = None
        /\ book.count = 0 => /\ book'.generation = book.generation
                             /\ book'.exclusive = book.exclusive
    <2>1. book \in Books
      BY DEF IInv, TypedCalls
    <2>2. /\ book.count \in Nat /\ book.exclusive \in Leases \cup {None}
          /\ book.cleanup \in BOOLEAN /\ book.generation \in Nat
      BY <2>1 DEF Books
    <2>3. CASE book.count > 0
      BY <2>2, <2>3 DEF Books, AllInvalidated, Invalidated
    <2>4. CASE book.count = 0
      <3>1. book' = [book EXCEPT !.cleanup = FALSE]
        BY <2>4 DEF AllInvalidated
      <3>2. /\ book' \in Books /\ book'.count = book.count
            /\ book'.generation = book.generation
            /\ book'.exclusive = book.exclusive
        BY <2>1, <3>1 DEF Books
      <3> QED
        BY <2>2, <2>4, <3>2
    <2> QED
      BY <2>2, <2>3, <2>4
  <1>6. ASSUME NEW l \in Leases
        PROVE  call[l].generation \in Nat
               /\ call[l].generation <= book.generation
    BY CallTyped DEF IInv
  <1>7. book.count = 0 => \A l \in Leases : ~Current(l)
    <2>1. CASE Connected /\ book.count = 0
      <3>1. Holders = {}
        BY <2>1, HoldersFinite, FS_EmptySet DEF IInv, Tokens
      <3> QED
        BY <3>1 DEF Holders, Holds
    <2>2. CASE ~Connected
      BY <2>2 DEF IInv, Offline
    <2> QED
      BY <2>1, <2>2
  <1>8. ASSUME NEW l \in Leases
        PROVE  ~Current(l)'
    <2>1. CASE book.count = 0
      BY <1>2, <1>5, <1>7, <2>1 DEF Answers, Current, Leased
    <2>2. CASE book.count > 0
      <3>1. call'[l].generation < book'.generation
        BY <1>2, <1>5, <1>6, <2>2 DEF Answers
      <3> QED
        BY <1>2, <1>5, <1>6, <2>2 DEF Answers, Current
    <2> QED
      BY <1>5, <2>1, <2>2
  <1>9. ASSUME NEW l \in Leases
        PROVE  /\ pending'[l] = "none"
               /\ call'[l].pc \in {"attachment", "creating"}
                    => call'[l].outcome = "failed"
    <2>1. pending'[l] = "none"
      BY <1>2 DEF Answers
    <2>2. ASSUME call[l].pc \in {"attachment", "creating"}
          PROVE  call'[l].outcome = "failed"
      <3>1. call[l].waits \in Leases \cup {None} /\ call[l].waits # None
        BY <2>2, CallTyped DEF IInv, Suspended, Busy, Kinds
      <3>2. CASE call[l].outcome = "waiting"
        <4>1. call[l].waits \in L
          BY <3>1, <3>2 DEF IInv, Suspended
        <4> QED
          BY <1>2, <3>2, <4>1 DEF Answers
      <3>3. CASE call[l].outcome # "waiting"
        <4>1. call[l].outcome \in {"ok", "failed"}
          BY <3>3, CallTyped DEF IInv, Outcomes
        <4>2. call[l].outcome # "ok"
          BY <2>2, <3>1, <3>3 DEF Granting, Resumed
        <4> QED
          BY <1>2, <4>1, <4>2 DEF Answers
      <3> QED
        BY <3>2, <3>3
    <2> QED
      BY <1>2, <2>1, <2>2 DEF Answers
  <1>10. Offline'
    BY <1>8, <1>9 DEF Offline
  <1>11. TypedCalls'
    <2>1. \A l \in Leases : call'[l].generation <= book'.generation
      BY <1>2, <1>5, <1>6 DEF Answers
    <2> QED
      BY <1>2, <1>5, <2>1 DEF TypedCalls
  <1>12. Tokens'
    <2>1. IsFiniteSet(Holders') /\ Cardinality(Holders') \in Nat
      <3>1. Holders' \subseteq Leases
        BY DEF Holders
      <3> QED
        BY <3>1, LeasesAssumption, FS_Subset, FS_CardinalityType
    <2>2. book'.exclusive \in Holders' \cup {None}
      <3>1. CASE book.count > 0
        BY <1>5, <3>1
      <3>2. CASE book.count = 0 /\ Connected
        <4>1. Holders = {}
          BY <3>2, HoldersFinite, FS_EmptySet DEF IInv, Tokens
        <4> QED
          BY <1>5, <3>2, <4>1 DEF IInv, Tokens
      <3>3. CASE book.count = 0 /\ ~Connected
        <4>1. \A k \in Leases : Holds(k) => Holds(k)'
          BY <1>2, <1>7, <3>3 DEF Answers, Holds, Acquiring
        <4> QED
          BY <1>5, <3>3, <4>1 DEF IInv, Tokens, Holders
      <3> QED
        BY <1>5, <3>1, <3>2, <3>3
    <2> QED
      BY <1>4, <1>5, <2>1, <2>2 DEF Tokens
  <1>13. TypedWorld' /\ Chunks' /\ Releases'
    BY <1>4 DEF TypedWorld, Chunks, Releases
  <1> QED
    BY <1>3, <1>10, <1>11, <1>12, <1>13 DEF IInv

LEMMA DisconnectKeeps ==
    ASSUME IInv, ~Overtaking, Disconnect \/ Dispose
    PROVE  IInv'
  <1>1. known' \in Copies /\ ~known'.attached
    <2>1. known \in Copies
      BY DEF IInv, TypedWorld
    <2>2. \/ known' = [known EXCEPT !.attached = FALSE]
          \/ known' = [attached |-> FALSE, snapshot |-> None]
      BY DEF Disconnect, ConnectionLost, Dispose
    <2>3. CASE known' = [known EXCEPT !.attached = FALSE]
      BY <2>1, <2>3 DEF Copies
    <2>4. CASE known' = [attached |-> FALSE, snapshot |-> None]
      BY <2>4 DEF Copies
    <2> QED
      BY <2>2, <2>3, <2>4
  <1>2. /\ \A l \in Leases : ~Granting(l)
        /\ connection' = [connection EXCEPT !.state = "disconnected"]
        /\ book' = AllInvalidated(book)
        /\ Settle({l \in Leases : pending[l] # "none"}, "failed")
        /\ server' = AtServer(FALSE, FALSE) /\ Turn
    BY DEF Disconnect, ConnectionLost, Dispose
  <1>3. server' \in Servers
    BY <1>2, ServerTyped DEF IInv
  <1>4. disposed' \in BOOLEAN /\ late' \in BOOLEAN
    BY DEF IInv, TypedWorld, Servers, Disconnect, Dispose
  <1> QED
    BY <1>1, <1>2, <1>3, <1>4, ConnectionGone
-----------------------------------------------------------------------------
(* The invariant *)

LEMMA InitEstablishes == Init => IInv
  <1> SUFFICES ASSUME Init PROVE IInv
    OBVIOUS
  <1>1. /\ connection = [state |-> "disconnected", id |-> 0]
        /\ known = [attached |-> FALSE, snapshot |-> None]
        /\ book = [count |-> 0, exclusive |-> None, cleanup |-> FALSE,
                   generation |-> 0]
        /\ promise = [k \in Kinds |-> None]
        /\ pending = [l \in Leases |-> "none"]
        /\ chunk = FALSE /\ late = FALSE /\ disposed = FALSE
    BY DEF Init, Kinds
  <1>2. PICK mode \in [Leases -> ModeNames] :
          call = [l \in Leases |->
                    [pc |-> "idle", mode |-> mode[l], generation |-> 0,
                     waits |-> None, outcome |-> "waiting",
                     early |-> FALSE]]
    BY ModesAssumption DEF Init, ModeNames
  <1>3. server \in Servers
    <2>1. PICK exists \in BOOLEAN :
            server = [exists |-> exists, attached |-> FALSE,
                      unsure |-> FALSE, runtime |-> 1, revision |-> 0]
      BY DEF Init
    <2>2. 1 \in 1..MaxRuntimes /\ 0 \in 0..MaxRevision
      BY BoundsAssumption
    <2> QED
      BY <2>1, <2>2 DEF Servers
  <1>4. TypedWorld
    <2>1. 0 \in 0..MaxConnections
      BY BoundsAssumption
    <2>2. connection \in Connections
      BY <1>1, <2>1 DEF Connections
    <2>3. known \in Copies
      BY <1>1 DEF Copies
    <2> QED
      BY <1>1, <1>3, <2>2, <2>3 DEF TypedWorld
  <1>5. ASSUME NEW l \in Leases
        PROVE  /\ call[l] \in Calls /\ call[l].pc = "idle"
               /\ call[l].generation = 0 /\ call[l].waits = None
    BY <1>2 DEF Calls, Pcs, Outcomes
  <1>6. TypedCalls
    <2>1. call \in [Leases -> Calls]
      BY <1>2, <1>5
    <2>2. \A l \in Leases : call[l].generation <= book.generation
      BY <1>1, <1>5
    <2>3. book \in Books
      BY <1>1 DEF Books
    <2>4. /\ promise \in [Kinds -> Promises \cup {None}]
          /\ pending \in [Leases -> Commands]
      BY <1>1 DEF Commands
    <2> QED
      BY <2>1, <2>2, <2>3, <2>4 DEF TypedCalls
  <1>7. Suspended /\ PromisesKept /\ Chunks
    BY <1>1, <1>5
    DEF Suspended, PromisesKept, Chunks, Busy, Kinds, Releasing
  <1>8. ~Connected
    BY <1>1 DEF Connected
  <1>9. \A l \in Leases : ~Current(l) /\ ~Holds(l)
    BY <1>5 DEF Current, Leased, Holds, Acquiring
  <1>10. Offline
    BY <1>1, <1>5, <1>9 DEF Offline
  <1>11. Holders = {}
    BY <1>9 DEF Holders
  <1>12. Tokens
    BY <1>1, <1>8, <1>11, FS_EmptySet DEF Tokens
  <1>13. Releases
    BY <1>8 DEF Releases
  <1> QED
    BY <1>4, <1>6, <1>7, <1>10, <1>12, <1>13 DEF IInv

LEMMA NextKeeps ==
    ASSUME IInv, ~Overtaking, [Next]_vars
    PROVE  IInv'
  <1>1. CASE UNCHANGED vars
    <2>1. /\ UNCHANGED <<connection, disposed, known, book, promise, call>>
          /\ UNCHANGED <<pending, server, chunk, late>>
      BY <1>1 DEF vars
    <2>2. TypedWorld' /\ Chunks' /\ (Connected' <=> Connected)
      BY <2>1 DEF IInv, TypedWorld, Chunks, Connected
    <2> QED
      BY <2>1, <2>2, CallsStand DEF IInv, Offline
  <1>2. ASSUME NEW l \in Leases,
               \/ AcquireSession(l) \/ CreateSession(l)
               \/ Release(l) \/ ReleaseInvalidated(l)
        PROVE  IInv'
    BY <1>2, AcquireSessionKeeps, CreateSessionKeeps, ReleaseKeeps,
       ReleaseInvalidatedKeeps
  <1>3. ASSUME NEW l \in Leases, Continue(l)
        PROVE  IInv'
    BY <1>3, DetachmentOverKeeps, ReconciliationOverKeeps,
       AttachmentOverKeeps, SessionCreatedKeeps, ReleaseSettlesKeeps,
       ReleaseFailsKeeps DEF Continue
  <1>4. ASSUME NEW l \in Leases, Answered(l)
        PROVE  IInv'
    BY <1>4, AnsweredKeeps
  <1>5. CASE SnapshotEvent \/ RuntimeReplaced \/ SessionRemoved
    BY <1>5, SnapshotEventKeeps, RuntimeReplacedKeeps, SessionRemovedKeeps
  <1>6. CASE Connect \/ Hello \/ Disconnect \/ Dispose
    BY <1>6, ConnectKeeps, HelloKeeps, DisconnectKeeps
  <1>7. CASE LateData
    <2>1. /\ late' = FALSE
          /\ UNCHANGED <<connection, disposed, known, book, promise, call,
                         pending, server, chunk>>
      BY <1>7 DEF LateData
    <2>2. TypedWorld' /\ Chunks' /\ (Connected' <=> Connected)
      BY <2>1 DEF IInv, TypedWorld, Chunks, Connected
    <2> QED
      BY <2>1, <2>2, CallsStand DEF IInv, Offline
  <1> QED
    BY <1>1, <1>2, <1>3, <1>4, <1>5, <1>6, <1>7 DEF Next

LEMMA Invariance ==
    ASSUME ~Overtaking
    PROVE  Spec => []IInv
  <1>1. Init => IInv
    BY InitEstablishes
  <1>2. IInv /\ [Next]_vars => IInv'
    BY NextKeeps
  <1> QED
    BY <1>1, <1>2, PTL DEF Spec

LEMMA SoleLease == IInv => LeasesExclusive
  <1> SUFFICES ASSUME IInv, NEW l \in Leases, NEW k \in Leases,
                      IsActive(l), IsActive(k), l # k
               PROVE  ~Exclusively(l)
    BY DEF LeasesExclusive
  <1>1. Connected
    BY DEF IInv, Offline, IsActive
  <1>2. l \in Holders /\ k \in Holders
    BY DEF IsActive, Holders, Holds
  <1> QED
    BY <1>1, <1>2 DEF IInv, Tokens

\* A lease that was given as the exclusive one is the only one in use, and no
\* other is given beside it, through failed acquisitions and releases and
\* across removals, disconnections and reconnections
\* (#reserveSessionLease of client.ts).
THEOREM ExclusiveLeaseIsSole ==
    ASSUME ~Overtaking
    PROVE  Spec => []LeasesExclusive
  BY Invariance, SoleLease, PTL

LEMMA CountedTokens == IInv => TokensCounted
  BY DEF IInv, Tokens, TokensCounted, Holders

\* While connected the client's count is that of the calls that hold or await
\* a lease, and its exclusive token is the exclusive one among them: release
\* detaches after the last of them, and none before (release of client.ts).
THEOREM CountIsThatOfTokens ==
    ASSUME ~Overtaking
    PROVE  Spec => []TokensCounted
  BY Invariance, CountedTokens, PTL

LEMMA ConnectionLeavesNothing == IInv => NothingOutlivesConnection
  <1> SUFFICES ASSUME IInv, ~Connected, Quiet
               PROVE  /\ \A l \in Leases : ~Holds(l)
                      /\ \A k \in DOMAIN promise : promise[k] = None
                      /\ book.count = 0 /\ ~known.attached
    BY DEF NothingOutlivesConnection
  <1>1. /\ \A l \in Leases : ~Holds(l) /\ call[l].pc \notin Busy
        /\ book.count = 0
    BY OfflineNobodyHolds
  <1>2. ASSUME NEW k \in Kinds, promise[k] # None
        PROVE  FALSE
    <2>1. promise[k].by \in Leases
      BY <1>2, PromiseTyped DEF IInv
    <2>2. call[promise[k].by].pc \in Makers(k)
      BY <1>2 DEF IInv, PromisesKept
    <2>3. Makers(k) \subseteq Busy
      BY DEF Makers, Busy, Kinds
    <2> QED
      BY <1>1, <2>1, <2>2, <2>3
  <1>3. DOMAIN promise = Kinds
    BY DEF IInv, TypedCalls
  <1> QED
    BY <1>1, <1>2, <1>3 DEF IInv, Offline

\* Once the calls of a lost connection have been told, no lease, shared
\* promise or token of it is left for the next one to find.
THEOREM ConnectionsAreSeparate ==
    ASSUME ~Overtaking
    PROVE  Spec => []NothingOutlivesConnection
  BY Invariance, ConnectionLeavesNothing, PTL

-----------------------------------------------------------------------------
(* The inductive invariant: what more is known of the calls *)

Owns(l, kind) == call[l].waits = l /\ call[l].pc \in Makers(kind)
Command(pc) ==
    IF pc = "attachment" THEN "attach"
    ELSE IF pc = "creating" THEN "create" ELSE "detach"

\* A request that is not answered is awaited by the call that sent it.
Unanswered ==
    \A l \in Leases : pending[l] # "none" =>
      /\ call[l].waits = l /\ call[l].outcome = "waiting"
      /\ pending[l] = Command(call[l].pc)
\* The maker of a promise is known by it, and awaits nothing else.
Makings ==
    \A l \in Leases :
      /\ call[l].pc \in Releasing \cup {"creating"} => call[l].waits = l
      /\ call[l].pc = "detachment" => call[l].waits # l
      /\ \A kind \in Kinds : Owns(l, kind) =>
           promise[kind] # None /\ promise[kind].by = l

\* Who awaits the request of another learns of it with the other, and runs
\* after it; in a chunk nobody has run.
Ahead(pc, owner) ==
    /\ owner \notin {"idle", "detachment", "creating"}
    /\ pc = "attachment" => owner # "reconciliation"
Followers ==
    \A l, k \in Leases :
      call[l].waits = k /\ k # l =>
        /\ Owns(k, call[l].pc) => call[l].outcome = call[k].outcome
        /\ call[l].outcome = "waiting" \/ chunk => Owns(k, call[l].pc)
        /\ call[l].pc # "detachment" => Ahead(call[l].pc, call[k].pc)
Chunk == chunk => \A l \in Leases : ~Refused(l)

Ordered == Unanswered /\ Makings /\ Followers /\ Chunk

\* A lease given between the failure of a dispose and its mark.
Early(l) == Leased(l) /\ call[l].early

\* A release is that of the only holder, and everybody who comes awaits it.
\* Once it has failed, and before that is marked, whoever comes awaits the
\* repair of an earlier one or is early.
SoleRelease ==
    Connected => \A l \in Leases :
      /\ call[l].pc \in Releasing =>
           \A k \in Leases : Holds(k) /\ k # l =>
             call[k].pc = "detachment" /\ call[k].waits = l
      /\ call[l].pc = "disposeRefused" =>
           \A k \in Leases : Holds(k) /\ k # l =>
             \/ call[k].pc = "detachment" /\ call[k].waits = l
             \/ call[k].pc = "reconciliation" /\ call[k].outcome = "waiting"
             \/ Early(k)
      /\ call[l].pc \in Releasing /\ call[l].outcome = "ok"
           => ~server.attached
      /\ call[l].pc \in Releasing /\ call[l].outcome # "ok" => known.attached
      /\ call[l].pc = "disposeRefused" => known.attached

\* A repair is due until the first call to learn of it has run, and only the
\* early do not await it.
Repairs ==
    Connected =>
      /\ book.cleanup => \A l \in Leases : Holds(l) =>
           call[l].pc \in {"detachment", "reconciliation"} \/ Early(l)
      /\ \A l \in Leases : call[l].pc = "reconciliation" =>
           /\ book.cleanup <=> (call[l].outcome # "ok"
                                \/ Owns(call[l].waits, "reconciliation"))
           /\ call[l].outcome = "ok" => ~server.attached /\ ~known.attached
           /\ call[l].waits = l /\ call[l].outcome = "ok" =>
                \A k \in Leases :
                  call[k].pc = "reconciliation" => call[k].waits = l

\* A session is there when somebody acquires it, and who made it is the first
\* to know.
Creation ==
    /\ \A l \in Leases : call[l].pc = "creating" => call[l].mode = "create"
    /\ ~server.exists =>
         /\ ~server.attached /\ ~known.attached /\ known.snapshot = None
         /\ ~book.cleanup
         /\ \A l \in Leases : /\ call[l].pc \in {"idle", "creating", "over"}
                              /\ call[l].outcome # "ok"
    /\ \A l \in Leases : call[l].pc = "creating" /\ call[l].outcome = "ok" =>
         /\ ~book.cleanup
         /\ \A k \in Leases :
              /\ call[k].pc # "disposeRefused"
              /\ call[k].pc \in Releasing => call[k].outcome = "waiting"
              /\ chunk => call[k].pc \in {"idle", "creating", "over"}

\* The client's copy of the session is the server's, and is used by somebody.
Copy ==
    /\ ~Connected => ~server.attached
    /\ \A l \in Leases : pending[l] = "attach" =>
         \/ known.snapshot = None
         \/ server.attached /\ known.snapshot.revision <= server.revision
    /\ Connected /\ ~server.unsure =>
         /\ known.attached = server.attached
         /\ known.attached => known.snapshot = Sent(server.revision)
         /\ \A l \in Leases :
              call[l].pc = "attachment" /\ call[l].outcome = "failed"
                => ~server.attached
         /\ server.attached =>
              \/ book.cleanup
              \/ \E l \in Leases : Holds(l)
              \/ \E l \in Leases :
                   call[l].pc = "creating" /\ call[l].outcome = "ok"

JInv == IInv /\ Ordered /\ SoleRelease /\ Repairs /\ Creation /\ Copy
-----------------------------------------------------------------------------
(* How a step of one call changes what the others know *)

Awake(l) == call[l].pc \in Busy => Runs(l)

\* An acquisition goes forward only.
Forward(from, to) ==
    /\ to # "idle"
    /\ to \in {"detachment", "creating"} => from = "idle"
    /\ to = "reconciliation" => from \in {"idle", "detachment"}
    /\ to = "attachment" => from \in {"idle", "detachment", "reconciliation"}

\* Call l runs and comes to await its own request, that of another or none.
Step(l, pc, w, o, g) ==
    /\ Changed(l, pc, w, o, g)
    /\ Awake(l) /\ ~chunk' /\ Forward(call[l].pc, pc)
    /\ pc \in Releasing \cup {"creating"} => w = l
    /\ pc = "detachment" => w # l
    /\ pc \in Busy => w # None
    /\ \A k \in Leases :
         pending'[k] = IF k = l /\ w = l /\ o = "waiting"
                       THEN Command(pc) ELSE pending[k]
    /\ \A kind \in Kinds :
         IF w = l /\ pc \in Makers(kind)
         THEN /\ promise'[kind] # None /\ promise'[kind].by = l
              /\ \A k \in Leases : k # l => ~Owns(k, kind)
         ELSE promise'[kind] = IF Owns(l, kind) THEN None ELSE promise[kind]
    /\ w # None /\ w # l =>
         /\ pc \in Kinds /\ promise[pc] # None
         /\ promise[pc].by = w /\ promise[pc].outcome = o
    /\ w = l /\ pc \in Releasing =>
         \A k \in Leases : call[k].pc # "detachment"

LEMMA AwakeKnows ==
    ASSUME IInv, Ordered, NEW l \in Leases, Awake(l)
    PROVE  /\ call[l].waits # None => call[l].outcome # "waiting"
           /\ pending[l] = "none"
           /\ \A k \in Leases : call[k].waits = l /\ k # l
                => call[k].outcome # "waiting"
  <1>1. call[l].waits # None => call[l].outcome # "waiting"
    BY DEF IInv, Suspended, Awake, Runs, Resumed
  <1>2. pending[l] = "none"
    BY <1>1, LeasesAssumption DEF Ordered, Unanswered
  <1>3. ASSUME NEW k \in Leases, call[k].waits = l, k # l
        PROVE  call[k].outcome # "waiting"
    BY <1>1, <1>3, LeasesAssumption DEF Ordered, Followers, Owns
  <1> QED
    BY <1>1, <1>2, <1>3

LEMMA StepKeepsUnanswered ==
    ASSUME IInv, Ordered, NEW l \in Leases,
           NEW pc, NEW w, NEW o, NEW g, Step(l, pc, w, o, g)
    PROVE  Unanswered'
  <1>1. pending[l] = "none"
    BY AwakeKnows DEF Step
  <1> SUFFICES ASSUME NEW k \in Leases, pending'[k] # "none"
               PROVE  /\ call'[k].waits = k /\ call'[k].outcome = "waiting"
                      /\ pending'[k] = Command(call'[k].pc)
    BY DEF Unanswered
  <1>2. CASE k = l
    BY <1>1, <1>2 DEF Step, Changed
  <1>3. CASE k # l
    BY <1>3 DEF Step, Changed, Ordered, Unanswered
  <1> QED
    BY <1>2, <1>3

LEMMA StepKeepsMakings ==
    ASSUME IInv, Ordered, NEW l \in Leases,
           NEW pc, NEW w, NEW o, NEW g, Step(l, pc, w, o, g)
    PROVE  Makings'
  <1> SUFFICES ASSUME NEW k \in Leases
               PROVE  /\ call'[k].pc \in Releasing \cup {"creating"}
                           => call'[k].waits = k
                      /\ call'[k].pc = "detachment" => call'[k].waits # k
                      /\ \A kind \in Kinds : Owns(k, kind)' =>
                           promise'[kind] # None /\ promise'[kind].by = k
    BY DEF Makings
  <1>1. CASE k = l
    BY <1>1 DEF Step, Changed, Owns
  <1>2. CASE k # l
    <2>1. call'[k] = call[k]
      BY <1>2 DEF Step, Changed
    <2>2. ASSUME NEW kind \in Kinds, Owns(k, kind)'
          PROVE  promise'[kind] # None /\ promise'[kind].by = k
      <3>1. Owns(k, kind)
        BY <2>1, <2>2 DEF Owns
      <3>2. promise[kind] # None /\ promise[kind].by = k
        BY <3>1 DEF Ordered, Makings
      <3>3. ~Owns(l, kind)
        BY <1>2, <3>2 DEF Ordered, Makings
      <3> QED
        BY <1>2, <3>1, <3>2, <3>3 DEF Step
    <2> QED
      BY <2>1, <2>2 DEF Ordered, Makings
  <1> QED
    BY <1>1, <1>2

LEMMA StepKeepsFollowers ==
    ASSUME IInv, Ordered, NEW l \in Leases,
           NEW pc, NEW w, NEW o, NEW g, Step(l, pc, w, o, g)
    PROVE  Followers'
  <1> SUFFICES ASSUME NEW j \in Leases, NEW k \in Leases,
                      call'[j].waits = k, k # j
               PROVE  /\ Owns(k, call[j].pc)' =>
                           call'[j].outcome = call'[k].outcome
                      /\ call'[j].outcome = "waiting" => Owns(k, call[j].pc)'
                      /\ call'[j].pc # "detachment" =>
                           Ahead(call'[j].pc, call'[k].pc)
    BY DEF Followers, Step
  <1>1. CASE j = l
    <2>1. /\ call'[k] = call[k] /\ w = k /\ call'[j].pc = pc
          /\ call'[j].outcome = o
      BY <1>1 DEF Step, Changed
    <2>2. /\ pc \in Kinds /\ promise[pc] # None
          /\ promise[pc].by = k /\ promise[pc].outcome = o
      BY <1>1, <2>1, LeasesAssumption DEF Step
    <2>3. /\ call[k].pc \in Makers(pc) /\ call[k].waits = k
          /\ call[k].outcome = o
      BY <2>2 DEF IInv, PromisesKept
    <2>4. Owns(k, call[j].pc)'
      BY <2>1, <2>3 DEF Owns
    <2>5. pc # "detachment" => Ahead(pc, call[k].pc)
      BY <2>2, <2>3 DEF Makers, Ahead, Kinds
    <2> QED
      BY <2>1, <2>3, <2>4, <2>5
  <1>2. CASE j # l /\ k = l
    <2>1. call'[j] = call[j] /\ call[j].waits = l
      BY <1>2 DEF Step, Changed
    <2>2. call[j].outcome # "waiting"
      BY <1>2, <2>1, AwakeKnows DEF Step
    <2>3. call[j].pc \in Kinds
      BY <1>2, <2>1, LeasesAssumption
      DEF IInv, Suspended, Busy, Ordered, Makings
    <2>4. call[j].pc # "detachment" => Ahead(call[j].pc, call[l].pc)
      BY <1>2, <2>1 DEF Ordered, Followers
    <2>5. call'[l].pc = pc /\ call'[l].waits = w
          /\ Forward(call[l].pc, pc)
      BY DEF Step, Changed
    <2>6. ~(w = l /\ pc \in Makers(call[j].pc))
      <3>1. CASE call[j].pc = "detachment"
        BY <3>1 DEF Makers, Step
      <3>2. CASE call[j].pc # "detachment"
        BY <2>3, <2>4, <2>5, <3>2 DEF Makers, Ahead, Forward, Kinds
      <3> QED
        BY <3>1, <3>2
    <2>7. ~Owns(k, call[j].pc)'
      BY <1>2, <2>1, <2>5, <2>6 DEF Owns
    <2>8. call[j].pc # "detachment" => Ahead(call[j].pc, pc)
      BY <2>4, <2>5 DEF Ahead, Forward
    <2> QED
      BY <1>2, <2>1, <2>2, <2>5, <2>7, <2>8
  <1>3. CASE j # l /\ k # l
    <2>1. call'[j] = call[j] /\ call'[k] = call[k]
      BY <1>3 DEF Step, Changed
    <2>2. Owns(k, call[j].pc)' <=> Owns(k, call[j].pc)
      BY <2>1 DEF Owns
    <2> QED
      BY <2>1, <2>2 DEF Ordered, Followers
  <1> QED
    BY <1>1, <1>2, <1>3

LEMMA StepKeepsOrdered ==
    ASSUME IInv, Ordered, NEW l \in Leases,
           NEW pc, NEW w, NEW o, NEW g, Step(l, pc, w, o, g)
    PROVE  Ordered'
  <1>1. Chunk'
    BY DEF Step, Chunk
  <1> QED
    BY <1>1, StepKeepsUnanswered, StepKeepsMakings, StepKeepsFollowers
    DEF Ordered
-----------------------------------------------------------------------------
(* What the steps of a call are *)

\* The promises without that of call l.
Without(l, P) ==
    /\ P \in [Kinds -> Promises \cup {None}]
    /\ \A kind \in Kinds :
         P[kind] = IF Owns(l, kind) THEN None ELSE promise[kind]

LEMMA WithoutNone ==
    ASSUME IInv, NEW l \in Leases, \A kind \in Kinds : ~Owns(l, kind)
    PROVE  Without(l, promise)
  BY DEF IInv, TypedCalls, Without

LEMMA WithoutIsBefore ==
    ASSUME IInv, NEW l \in Leases, NEW P, Without(l, P)
    PROVE  Before(l, P)
  BY DEF Without, Before, IInv, PromisesKept, Owns

\* Call l joins the request of a kind that is under way, or sends its own.
Joins(l, P, kind, p) ==
    /\ Step(l, kind, p.by, p.outcome, call[l].generation)
    /\ IF P[kind] = None
       THEN /\ p.by = l
            /\ p.outcome = IF Connected THEN "waiting" ELSE "failed"
       ELSE p.by # l

LEMMA JoinSteps ==
    ASSUME IInv, Ordered, NEW l \in Leases, Awake(l), Turn,
           NEW P, Without(l, P),
           NEW kind \in {"attachment", "reconciliation"},
           Forward(call[l].pc, kind), NEW p,
           P[kind] # None => p = P[kind],
           P[kind] = None => \/ p = Requested(l)
                             \/ p = [Requested(l) EXCEPT
                                       !.previous = known.snapshot],
           Await(l, kind, p), promise' = [P EXCEPT ![kind] = p],
           NEW command, command = Command(kind),
           IF P[kind] = None THEN Request(l, command)
           ELSE UNCHANGED pending
    PROVE  Joins(l, P, kind, p)
  <1>1. /\ kind \in Kinds /\ kind \in Pcs /\ kind \notin Releasing
        /\ kind # "detachment" /\ kind # "creating"
    BY DEF Kinds, Pcs, Busy, Releasing
  <1>2. P \in [Kinds -> Promises \cup {None}]
    BY DEF Without
  <1>3. CASE P[kind] = None
    <2>1. /\ p \in Promises /\ p.by = l
          /\ p.outcome = IF Connected THEN "waiting" ELSE "failed"
      BY <1>3, RequestedTyped DEF IInv
    <2>2. p.outcome \in Outcomes
      BY <2>1 DEF Outcomes
    <2>3. Changed(l, kind, p.by, p.outcome, call[l].generation)
      BY <1>1, <2>1, <2>2, AwaitChanges DEF IInv
    <2>4. \A k \in Leases : k # l => ~Owns(k, kind)
      BY <1>1, <1>3 DEF Without, Ordered, Makings
    <2>5. ASSUME NEW k \in Leases
          PROVE  pending'[k] = IF k = l /\ p.outcome = "waiting"
                               THEN Command(kind) ELSE pending[k]
      BY <1>3, <2>1 DEF Request, IInv, TypedCalls
    <2>6. p # None /\ p.by # None
      BY <2>1, NoneAssumption, LeasesAssumption
    <2>7. promise'[kind] = p /\ l # None
      BY <1>1, <1>2, LeasesAssumption
    <2>8. ASSUME NEW q \in Kinds, q # kind
          PROVE  /\ kind \notin Makers(q)
                 /\ promise'[q] = IF Owns(l, q) THEN None ELSE promise[q]
      BY <1>1, <1>2, <2>8 DEF Without, Makers
    <2>9. ASSUME NEW q \in Kinds
          PROVE  IF p.by = l /\ kind \in Makers(q)
                 THEN /\ promise'[q] # None /\ promise'[q].by = l
                      /\ \A k \in Leases : k # l => ~Owns(k, q)
                 ELSE promise'[q] = IF Owns(l, q) THEN None
                                    ELSE promise[q]
      <3>1. CASE q = kind
        BY <1>1, <2>1, <2>4, <2>6, <2>7, <3>1 DEF Makers
      <3>2. CASE q # kind
        BY <2>8, <3>2
      <3> QED
        BY <3>1, <3>2
    <2>10. Step(l, kind, p.by, p.outcome, call[l].generation)
      BY <1>1, <2>1, <2>3, <2>5, <2>6, <2>9 DEF Step, Turn
    <2> QED
      BY <1>3, <2>1, <2>10 DEF Joins
  <1>4. CASE P[kind] # None
    <2>1. /\ p = promise[kind] /\ promise[kind] # None
          /\ ~Owns(l, kind)
      BY <1>1, <1>4 DEF Without
    <2>2. p \in Promises /\ p.by \in Leases /\ p.outcome \in Outcomes
      BY <1>1, <2>1, PromiseTyped DEF IInv
    <2>3. Changed(l, kind, p.by, p.outcome, call[l].generation)
      BY <1>1, <2>2, AwaitChanges DEF IInv
    <2>4. p.by # l /\ p.by # None
      BY <1>1, <2>1, <2>2, LeasesAssumption DEF IInv, PromisesKept, Owns
    <2>5. \A q \in Kinds : promise'[q] = P[q]
      BY <1>1, <1>2, <1>4
    <2>6. pending' = pending
      BY <1>4
    <2>7. Step(l, kind, p.by, p.outcome, call[l].generation)
      BY <1>1, <2>1, <2>3, <2>4, <2>5, <2>6 DEF Step, Turn, Without
    <2> QED
      BY <1>4, <2>4, <2>7 DEF Joins
  <1> QED
    BY <1>3, <1>4

LEMMA AloneSteps ==
    ASSUME IInv, Ordered, NEW l \in Leases, Awake(l), Turn,
           NEW P, Without(l, P), NEW pc \in Pcs \ Busy, pc # "idle",
           NEW g, Changed(l, pc, None, "waiting", g),
           promise' = P, UNCHANGED pending
    PROVE  Step(l, pc, None, "waiting", g)
  <1>1. /\ pc \notin Releasing \cup {"creating"}
        /\ pc \notin {"detachment", "creating", "reconciliation",
                      "attachment"}
    BY DEF Busy, Kinds
  <1>2. l # None
    BY LeasesAssumption
  <1> QED
    BY <1>1, <1>2 DEF Step, Turn, Without, Forward

\* Who runs leaves no release behind, save that of another it has to wait for.
LEMMA NobodyReleases ==
    ASSUME IInv, Ordered, SoleRelease, Connected,
           NEW l \in Leases, Holds(l), Awake(l),
           NEW m \in Leases, m # l,
           \/ call[m].pc \in Releasing
           \/ Acquiring(l) /\ call[m].pc = "disposeRefused"
    PROVE  FALSE
  <1>1. CASE call[m].pc \in Releasing
    <2>1. call[l].pc = "detachment" /\ call[l].waits = m
      BY <1>1 DEF SoleRelease
    <2>2. Runs(l)
      BY <2>1 DEF Awake, Busy, Kinds
    <2>3. /\ ~(Resumed(m) /\ call[m].waits = m)
          /\ call[l].outcome # "waiting"
      BY <2>1, <2>2 DEF Runs, Resumed
    <2>4. Owns(m, "detachment") /\ call[m].waits = m
      BY <1>1 DEF Owns, Makers, Ordered, Makings
    <2>5. call[m].outcome = call[l].outcome
      BY <2>1, <2>4 DEF Ordered, Followers
    <2> QED
      BY <2>3, <2>4, <2>5, LeasesAssumption DEF Resumed
  <1>2. CASE Acquiring(l) /\ call[m].pc = "disposeRefused"
    <2>1. Runs(l) /\ ~Leased(l)
      BY <1>2 DEF Awake, Acquiring, Busy, Kinds, Leased
    <2>2. call[l].waits # m /\ call[l].outcome # "waiting"
      BY <1>2, <2>1 DEF Runs, Resumed, Refused
    <2> QED
      BY <1>2, <2>1, <2>2 DEF SoleRelease, Early
  <1> QED
    BY <1>1, <1>2

\* What call l is to do when m releases, or has failed to.
Yields(l, pc, w, o, m) ==
    /\ call[m].pc \in Releasing => pc = "detachment" /\ w = m
    /\ call[m].pc = "disposeRefused" =>
         \/ pc = "detachment" /\ w = m
         \/ pc = "reconciliation" /\ o = "waiting"
         \/ Early(l)'
-----------------------------------------------------------------------------
(* What the steps of a call keep *)

LEMMA StepKeepsSoleRelease ==
    ASSUME IInv, Ordered, SoleRelease, NEW l \in Leases,
           NEW pc, NEW w, NEW o, NEW g, Step(l, pc, w, o, g),
           connection' = connection, server' = server,
           known'.attached = known.attached,
           book'.generation = book.generation,
           pc \in Releasing => o # "ok",
           Connected /\ pc \in Releasing \cup {"disposeRefused"} =>
             /\ known.attached
             /\ \A k \in Leases : Holds(k) /\ k # l =>
                  call[k].pc = "detachment" /\ call[k].waits = l,
           Connected /\ Holds(l)' => \A m \in Leases :
             m # l => Yields(l, pc, w, o, m)
    PROVE  SoleRelease'
  <1>1. Changed(l, pc, w, o, g)
    BY DEF Step
  <1>2. \A k \in Leases : k # l => /\ call'[k] = call[k]
                                   /\ Holds(k)' <=> Holds(k)
                                   /\ Early(k)' <=> Early(k)
    BY <1>1, HoldsElsewhere DEF Changed, Early, Leased
  <1>3. /\ call'[l].pc = pc /\ call'[l].waits = w /\ call'[l].outcome = o
        /\ Connected' <=> Connected
    BY <1>1 DEF Changed, Connected
  <1>4. ASSUME Connected, NEW m \in Leases, call'[m].pc \in Releasing,
               NEW k \in Leases, Holds(k)', k # m
        PROVE  call'[k].pc = "detachment" /\ call'[k].waits = m
    <2>1. CASE m = l
      BY <1>2, <1>3, <1>4, <2>1
    <2>2. CASE k = l
      BY <1>2, <1>3, <1>4, <2>2 DEF Yields
    <2>3. CASE m # l /\ k # l
      BY <1>2, <1>4, <2>3 DEF SoleRelease
    <2> QED
      BY <2>1, <2>2, <2>3
  <1>5. ASSUME Connected, NEW m \in Leases, call'[m].pc = "disposeRefused",
               NEW k \in Leases, Holds(k)', k # m
        PROVE  \/ call'[k].pc = "detachment" /\ call'[k].waits = m
               \/ call'[k].pc = "reconciliation"
                  /\ call'[k].outcome = "waiting"
               \/ Early(k)'
    <2>1. CASE m = l
      BY <1>2, <1>3, <1>5, <2>1
    <2>2. CASE k = l
      BY <1>2, <1>3, <1>5, <2>2 DEF Yields
    <2>3. CASE m # l /\ k # l
      BY <1>2, <1>5, <2>3 DEF SoleRelease
    <2> QED
      BY <2>1, <2>2, <2>3
  <1>6. ASSUME Connected, NEW m \in Leases,
               call'[m].pc \in Releasing, call'[m].outcome = "ok"
        PROVE  ~server'.attached
    BY <1>2, <1>3, <1>6 DEF SoleRelease
  <1>7. ASSUME Connected, NEW m \in Leases,
               \/ call'[m].pc \in Releasing /\ call'[m].outcome # "ok"
               \/ call'[m].pc = "disposeRefused"
        PROVE  known'.attached
    <2>1. CASE m = l
      BY <1>3, <1>7, <2>1
    <2>2. CASE m # l
      BY <1>2, <1>7, <2>2 DEF SoleRelease
    <2> QED
      BY <2>1, <2>2
  <1> QED
    BY <1>3, <1>4, <1>5, <1>6, <1>7 DEF SoleRelease

LEMMA StepKeepsRepairs ==
    ASSUME IInv, Ordered, Repairs, NEW l \in Leases,
           NEW pc, NEW w, NEW o, NEW g, Step(l, pc, w, o, g),
           connection' = connection, server' = server,
           known'.attached = known.attached,
           book'.generation = book.generation,
           book'.cleanup = book.cleanup,
           Connected /\ book.cleanup /\ Holds(l)' =>
             pc \in {"detachment", "reconciliation"} \/ Early(l)',
           Connected /\ pc = "reconciliation" =>
             book.cleanup /\ (w = l => o # "ok"),
           Owns(l, "reconciliation") => call[l].outcome # "ok"
    PROVE  Repairs'
  <1>1. Changed(l, pc, w, o, g)
    BY DEF Step
  <1>2. \A k \in Leases : k # l => /\ call'[k] = call[k]
                                   /\ Holds(k)' <=> Holds(k)
                                   /\ Early(k)' <=> Early(k)
    BY <1>1, HoldsElsewhere DEF Changed, Early, Leased
  <1>3. /\ call'[l].pc = pc /\ call'[l].waits = w /\ call'[l].outcome = o
        /\ Connected' <=> Connected
    BY <1>1 DEF Changed, Connected
  <1> SUFFICES ASSUME Connected
               PROVE  /\ book.cleanup => \A k \in Leases : Holds(k)' =>
                           \/ call'[k].pc \in {"detachment",
                                               "reconciliation"}
                           \/ Early(k)'
                      /\ \A m \in Leases : call'[m].pc = "reconciliation" =>
                           /\ book.cleanup <=>
                                (call'[m].outcome # "ok"
                                 \/ Owns(call[m].waits, "reconciliation")')
                           /\ call'[m].outcome = "ok" =>
                                ~server.attached /\ ~known.attached
                           /\ call'[m].waits = m /\ call'[m].outcome = "ok"
                              => \A k \in Leases :
                                   call'[k].pc = "reconciliation" =>
                                     call'[k].waits = m
    BY <1>3 DEF Repairs
  <1>4. book.cleanup => \A k \in Leases : Holds(k)' =>
          call'[k].pc \in {"detachment", "reconciliation"} \/ Early(k)'
    BY <1>2, <1>3 DEF Repairs
  <1>5. ASSUME pc = "reconciliation", w # l
        PROVE  /\ w \in Leases /\ Owns(w, "reconciliation")
               /\ call[w].outcome = o
               /\ promise["reconciliation"].by = w
    <2>1. w # None
      BY <1>5 DEF Step, Busy, Kinds
    <2>2. /\ "reconciliation" \in Kinds /\ promise["reconciliation"] # None
          /\ promise["reconciliation"].by = w
          /\ promise["reconciliation"].outcome = o
      BY <1>5, <2>1 DEF Step
    <2> QED
      BY <2>2, PromiseTyped DEF IInv, PromisesKept, Owns
  <1>6. ASSUME pc = "reconciliation"
        PROVE  /\ book.cleanup
               /\ o # "ok" \/ Owns(w, "reconciliation")'
               /\ o = "ok" => w # l /\ ~server.attached /\ ~known.attached
    <2>1. CASE w = l
      BY <1>6, <2>1
    <2>2. CASE w # l
      <3>1. Owns(w, "reconciliation")' /\ call[w].pc = "reconciliation"
        BY <1>2, <1>5, <1>6, <2>2 DEF Owns, Makers
      <3> QED
        BY <1>5, <1>6, <2>2, <3>1 DEF Repairs
    <2> QED
      BY <2>1, <2>2
  <1>7. ASSUME NEW m \in Leases, m # l, call[m].pc = "reconciliation"
        PROVE  /\ book.cleanup <=>
                    (call[m].outcome # "ok"
                     \/ Owns(call[m].waits, "reconciliation")')
               /\ call[m].waits = m /\ call[m].outcome = "ok" =>
                    (pc = "reconciliation" => w = m)
    <2>1. book.cleanup <=> (call[m].outcome # "ok"
                            \/ Owns(call[m].waits, "reconciliation"))
      BY <1>7 DEF Repairs
    <2>2. CASE call[m].waits # l
      <3>1. call[m].waits \in Leases
        BY <1>7, CallTyped DEF IInv, Suspended, Busy, Kinds
      <3>2. Owns(call[m].waits, "reconciliation")'
              <=> Owns(call[m].waits, "reconciliation")
        BY <1>2, <1>7, <2>2, <3>1 DEF Owns
      <3>3. ASSUME call[m].waits = m, pc = "reconciliation"
            PROVE  w = m
        <4>1. Owns(m, "reconciliation") /\ "reconciliation" \in Kinds
          BY <1>7, <3>3 DEF Owns, Makers, Kinds
        <4>2. promise["reconciliation"].by = m
          BY <4>1 DEF Ordered, Makings
        <4>3. w # l
          BY <1>7, <3>3, <4>1 DEF Step, Makers
        <4> QED
          BY <1>5, <3>3, <4>2, <4>3
      <3> QED
        BY <2>1, <3>2, <3>3
    <2>3. CASE call[m].waits = l
      <3>1. /\ Owns(l, "reconciliation") => call[m].outcome # "ok"
            /\ Ahead("reconciliation", call[l].pc)
        BY <1>7, <2>3 DEF Ordered, Followers
      <3>2. pc # "reconciliation"
        BY <3>1 DEF Step, Forward, Ahead
      <3>3. call'[m].waits = l
        BY <1>2, <1>7, <2>3
      <3>4. ~Owns(call[m].waits, "reconciliation")'
        BY <1>3, <3>2, <3>3 DEF Owns, Makers
      <3> QED
        BY <2>1, <2>3, <3>1, <3>2, <3>4
    <2> QED
      BY <2>2, <2>3
  <1>8. ASSUME NEW m \in Leases, call'[m].pc = "reconciliation"
        PROVE  /\ book.cleanup <=>
                    (call'[m].outcome # "ok"
                     \/ Owns(call[m].waits, "reconciliation")')
               /\ call'[m].outcome = "ok" =>
                    ~server.attached /\ ~known.attached
               /\ call'[m].waits = m /\ call'[m].outcome = "ok"
                  => \A k \in Leases :
                       call'[k].pc = "reconciliation" => call'[k].waits = m
    <2>1. CASE m = l
      BY <1>3, <1>6, <1>8, <2>1
    <2>2. CASE m # l
      <3>1. call'[m] = call[m]
        BY <1>2, <2>2
      <3> QED
        BY <1>2, <1>3, <1>7, <1>8, <2>2, <3>1 DEF Repairs
    <2> QED
      BY <2>1, <2>2
  <1> QED
    BY <1>4, <1>8

LEMMA StepKeepsCreation ==
    ASSUME IInv, Ordered, Creation, NEW l \in Leases,
           NEW pc, NEW w, NEW o, NEW g, Step(l, pc, w, o, g),
           server' = server,
           \/ server.exists
           \/ /\ pc \in {"creating", "over"} /\ o # "ok"
              /\ known' = known /\ book' = book,
           book'.cleanup => book.cleanup \/ call[l].pc = "disposeRefused",
           pc = "disposeRefused" => call[l].pc \in Releasing,
           pc \in Releasing => o = "waiting",
           pc = "creating" => o # "ok" /\ call[l].mode = "create"
    PROVE  Creation'
  <1>1. /\ \A k \in Leases : k # l => call'[k] = call[k]
        /\ call'[l].pc = pc /\ call'[l].outcome = o /\ ~chunk'
    BY DEF Step, Changed
  <1>2. ASSUME ~server'.exists
        PROVE  /\ ~server'.attached /\ ~known'.attached
               /\ known'.snapshot = None /\ ~book'.cleanup
               /\ \A k \in Leases :
                    /\ call'[k].pc \in {"idle", "creating", "over"}
                    /\ call'[k].outcome # "ok"
    BY <1>1, <1>2 DEF Creation
  <1>3. ASSUME NEW m \in Leases,
               call'[m].pc = "creating", call'[m].outcome = "ok"
        PROVE  /\ ~book'.cleanup
               /\ \A k \in Leases :
                    /\ call'[k].pc # "disposeRefused"
                    /\ call'[k].pc \in Releasing
                         => call'[k].outcome = "waiting"
                    /\ chunk' => call'[k].pc \in {"idle", "creating", "over"}
    <2>1. m # l /\ call[m].pc = "creating" /\ call[m].outcome = "ok"
      BY <1>1, <1>3
    <2>2. /\ ~book.cleanup
          /\ \A k \in Leases :
               /\ call[k].pc # "disposeRefused"
               /\ call[k].pc \in Releasing => call[k].outcome = "waiting"
      BY <2>1 DEF Creation
    <2>3. pc # "disposeRefused"
      <3> SUFFICES ASSUME pc = "disposeRefused" PROVE FALSE
        OBVIOUS
      <3>1. call[l].pc \in Releasing /\ call[l].pc \in Busy
        BY DEF Busy
      <3>2. call[l].outcome # "waiting"
        BY <3>1 DEF Step, Awake, Runs, Resumed
      <3> QED
        BY <2>2, <3>1, <3>2
    <2> QED
      BY <1>1, <2>2, <2>3
  <1>4. \A k \in Leases : call'[k].pc = "creating" => call'[k].mode = "create"
    BY <1>1 DEF Creation, Step, Changed
  <1> QED
    BY <1>2, <1>3, <1>4 DEF Creation

LEMMA StepKeepsCopy ==
    ASSUME IInv, Ordered, Copy, NEW l \in Leases,
           NEW pc, NEW w, NEW o, NEW g, Step(l, pc, w, o, g),
           connection' = connection, server' = server,
           book'.generation = book.generation,
           known'.attached = known.attached,
           \/ known' = known
           \/ known'.snapshot = None /\ ~known.attached
           \/ /\ known.snapshot = None
              /\ \A k \in Leases : pending'[k] # "attach",
           pc = "attachment" /\ w = l => known'.snapshot = None,
           Connected /\ w = l => o # "failed",
           Connected /\ ~server.unsure /\ server.attached =>
             \/ book'.cleanup \/ Holds(l)'
             \/ \E k \in Leases : k # l /\ Holds(k)
             \/ ~book.cleanup /\ ~Holds(l) /\ call[l].pc # "creating"
             \/ ~book.cleanup /\ ~Holds(l) /\ call[l].outcome # "ok"
    PROVE  Copy'
  <1>1. Changed(l, pc, w, o, g)
    BY DEF Step
  <1>2. \A k \in Leases : k # l => /\ call'[k] = call[k]
                                   /\ Holds(k)' <=> Holds(k)
    BY <1>1, HoldsElsewhere DEF Changed
  <1>3. /\ call'[l].pc = pc /\ call'[l].waits = w /\ call'[l].outcome = o
        /\ Connected' <=> Connected
    BY <1>1 DEF Changed, Connected
  <1>4. ~Connected' => ~server'.attached
    BY <1>3 DEF Copy
  <1>5. ASSUME NEW k \in Leases, pending'[k] = "attach"
        PROVE  \/ known'.snapshot = None
               \/ /\ server'.attached
                  /\ known'.snapshot.revision <= server'.revision
    <2>1. CASE k = l /\ w = l /\ o = "waiting"
      <3>1. Command(pc) = "attach"
        BY <1>5, <2>1 DEF Step
      <3> QED
        BY <2>1, <3>1 DEF Command
    <2>2. CASE ~(k = l /\ w = l /\ o = "waiting")
      <3>1. pending[k] = "attach"
        BY <1>5, <2>2 DEF Step
      <3> QED
        BY <1>5, <3>1 DEF Copy
    <2> QED
      BY <2>1, <2>2
  <1>6. ASSUME Connected, ~server.unsure
        PROVE  /\ known'.attached = server'.attached
               /\ known'.attached => known'.snapshot = Sent(server.revision)'
               /\ \A k \in Leases :
                    call'[k].pc = "attachment" /\ call'[k].outcome = "failed"
                      => ~server'.attached
    <2>1. known'.attached = server'.attached
      BY <1>6 DEF Copy
    <2>2. ASSUME known'.attached
          PROVE  known'.snapshot = Sent(server.revision)'
      <3>1. known.snapshot = Sent(server.revision)
        BY <1>6, <2>2 DEF Copy
      <3>2. Sent(server.revision) \in Snapshots
        BY DEF IInv, TypedWorld, Servers, Sent, Snapshots
      <3>3. known.snapshot # None
        BY <3>1, <3>2, NoneAssumption
      <3> QED
        BY <2>2, <3>1, <3>3 DEF Sent
    <2>3. ASSUME NEW k \in Leases,
                 call'[k].pc = "attachment", call'[k].outcome = "failed"
          PROVE  ~server'.attached
      <3>1. CASE k # l
        BY <1>2, <1>6, <2>3, <3>1 DEF Copy
      <3>2. CASE k = l
        <4>1. /\ w # None /\ w # l /\ pc = "attachment" /\ pc \in Kinds
              /\ o = "failed"
          BY <1>3, <1>6, <2>3, <3>2 DEF Step, Busy, Kinds
        <4>2. /\ promise[pc] # None /\ promise[pc].by = w
              /\ promise[pc].outcome = o
          BY <4>1 DEF Step
        <4>3. /\ w \in Leases /\ call[w].pc = "attachment"
              /\ call[w].outcome = "failed"
          BY <4>1, <4>2, PromiseTyped DEF IInv, PromisesKept, Makers
        <4> QED
          BY <1>6, <4>3 DEF Copy
      <3> QED
        BY <3>1, <3>2
    <2> QED
      BY <2>1, <2>2, <2>3
  <1>7. ASSUME Connected, ~server.unsure, server.attached
        PROVE  \/ book'.cleanup
               \/ \E k \in Leases : Holds(k)'
               \/ \E k \in Leases :
                    call'[k].pc = "creating" /\ call'[k].outcome = "ok"
    BY <1>2, <1>7 DEF Copy
  <1> QED
    BY <1>3, <1>4, <1>5, <1>6, <1>7 DEF Copy
-----------------------------------------------------------------------------
(* The steps of an acquisition *)

\* Call l has, or waits for, a lease.
Advances(l, pc, w, o, g) ==
    /\ Step(l, pc, w, o, g)
    /\ \/ pc \in Kinds
       \/ pc = "active" /\ g = book.generation
    /\ w = l => o = IF Connected THEN "waiting" ELSE "failed"
    /\ known'.attached = known.attached
    /\ \/ known' = known
       \/ known'.snapshot = None /\ ~known.attached
    /\ pc = "attachment" => ~known.attached
    /\ pc = "attachment" /\ w = l => known'.snapshot = None
    /\ pc = "active" /\ (\E k \in Leases : call[k].pc = "disposeRefused") =>
         call'[l].early

LEMMA JoinAttachmentSteps ==
    ASSUME IInv, Ordered, NEW l \in Leases, Awake(l), Turn,
           NEW P, Without(l, P), Forward(call[l].pc, "attachment"),
           ~known.attached, JoinAttachment(l, P)
    PROVE  \E pc, w, o, g : Advances(l, pc, w, o, g) /\ pc = "attachment"
  <1> DEFINE p == IF P.attachment # None THEN P.attachment
                  ELSE [Requested(l) EXCEPT !.previous = known.snapshot]
  <1>1. /\ Await(l, "attachment", p)
        /\ promise' = [P EXCEPT !["attachment"] = p]
        /\ IF P["attachment"] = None THEN Request(l, "attach")
           ELSE UNCHANGED pending
        /\ "attach" = Command("attachment")
        /\ P["attachment"] # None => p = P["attachment"]
        /\ P["attachment"] = None =>
             p = [Requested(l) EXCEPT !.previous = known.snapshot]
    BY DEF JoinAttachment, Command
  <1>2. IF P["attachment"] = None
        THEN known' = [known EXCEPT !.snapshot = None] ELSE known' = known
    BY DEF JoinAttachment
  <1>3. known \in Copies
    BY DEF IInv, TypedWorld
  <1>4. /\ known'.attached = known.attached
        /\ P["attachment"] = None => known'.snapshot = None
        /\ known' = known \/ known'.snapshot = None
    BY <1>2, <1>3 DEF Copies
  <1> HIDE DEF p
  <1>5. Joins(l, P, "attachment", p)
    BY <1>1, JoinSteps
  <1>6. Advances(l, "attachment", p.by, p.outcome, call[l].generation)
    BY <1>4, <1>5 DEF Joins, Advances, Kinds
  <1> QED
    BY <1>6

LEMMA LeaseSteps ==
    ASSUME IInv, Ordered, NEW l \in Leases, Awake(l), Turn,
           NEW P, Without(l, P), ~Leased(l), Lease(l), promise' = P,
           UNCHANGED <<pending, known>>
    PROVE  Advances(l, "active", None, "waiting", book.generation)
  <1>1. /\ Changed(l, "active", None, "waiting", book.generation)
        /\ (\E k \in Leases : call[k].pc = "disposeRefused") =>
             call'[l].early
    BY LeaseChanges DEF IInv
  <1>2. "active" \in Pcs \ Busy
    BY DEF Pcs, Busy, Kinds, Releasing
  <1>3. Step(l, "active", None, "waiting", book.generation)
    BY <1>1, <1>2, AloneSteps
  <1> QED
    BY <1>1, <1>3, LeasesAssumption DEF Advances

LEMMA ProceedSteps ==
    ASSUME IInv, Ordered, NEW l \in Leases, Awake(l), Turn,
           NEW P, Without(l, P), Forward(call[l].pc, "attachment"),
           NEW reconciled, reconciled => ~known.attached,
           Proceed(l, reconciled, P)
    PROVE  \E pc, w, o, g : /\ Advances(l, pc, w, o, g)
                            /\ pc \in {"attachment", "active"}
  <1>1. CASE reconciled \/ ~known.attached
    <2>1. JoinAttachment(l, P) /\ ~known.attached
      BY <1>1 DEF Proceed
    <2> QED
      BY <2>1, JoinAttachmentSteps
  <1>2. CASE ~(reconciled \/ ~known.attached)
    <2>1. Lease(l) /\ promise' = P /\ UNCHANGED <<pending, known>>
      BY <1>2 DEF Proceed
    <2> QED
      BY <2>1, LeaseSteps DEF Forward, Leased
  <1> QED
    BY <1>1, <1>2

LEMMA ReconcileSteps ==
    ASSUME IInv, Ordered, NEW l \in Leases, Awake(l), Turn,
           call[l].pc \in {"idle", "detachment"}, Reconcile(l)
    PROVE  \E pc, w, o, g :
             /\ Advances(l, pc, w, o, g)
             /\ pc \in {"reconciliation", "attachment", "active"}
             /\ pc = "reconciliation" <=> book.cleanup
  <1>1. Without(l, promise)
    <2>1. \A kind \in Kinds : call[l].pc \notin Makers(kind)
          \/ call[l].waits # l
      BY DEF Makers, Kinds, Releasing
    <2> QED
      BY <2>1, WithoutNone DEF Owns
  <1>2. CASE book.cleanup
    <2> DEFINE p == IF promise.reconciliation # None
                    THEN promise.reconciliation ELSE Requested(l)
    <2>1. /\ Await(l, "reconciliation", p)
          /\ promise' = [promise EXCEPT !["reconciliation"] = p]
          /\ IF promise["reconciliation"] = None
             THEN Request(l, "detach") ELSE UNCHANGED pending
          /\ "detach" = Command("reconciliation")
          /\ promise["reconciliation"] # None =>
               p = promise["reconciliation"]
          /\ promise["reconciliation"] = None => p = Requested(l)
          /\ known' = known
      BY <1>2 DEF Reconcile, Command
    <2> HIDE DEF p
    <2>2. Forward(call[l].pc, "reconciliation")
      BY DEF Forward
    <2>3. Joins(l, promise, "reconciliation", p)
      BY <1>1, <2>1, <2>2, JoinSteps
    <2>4. Advances(l, "reconciliation", p.by, p.outcome, call[l].generation)
      BY <2>1, <2>3 DEF Joins, Advances, Kinds
    <2> QED
      BY <1>2, <2>4
  <1>3. CASE ~book.cleanup
    <2>1. Proceed(l, FALSE, promise)
      BY <1>3 DEF Reconcile
    <2>2. Forward(call[l].pc, "attachment")
      BY DEF Forward
    <2>3. PICK pc, w, o, g : /\ Advances(l, pc, w, o, g)
                             /\ pc \in {"attachment", "active"}
      BY <1>1, <2>1, <2>2, ProceedSteps
    <2>4. pc # "reconciliation"
      BY <2>3
    <2> QED
      BY <1>3, <2>3, <2>4
  <1> QED
    BY <1>2, <1>3

LEMMA AdvanceHolds ==
    ASSUME NEW l \in Leases,
           NEW pc, NEW w, NEW o, NEW g, Advances(l, pc, w, o, g),
           book'.generation = book.generation
    PROVE  Holds(l)'
  BY DEF Advances, Step, Changed, Holds, Acquiring, Current, Leased, Kinds

LEMMA AdvanceKeeps ==
    ASSUME JInv, IInv', NEW l \in Leases,
           NEW pc, NEW w, NEW o, NEW g, Advances(l, pc, w, o, g),
           UNCHANGED <<connection, server>>, server.exists,
           book'.generation = book.generation,
           book'.cleanup => book.cleanup, Repairs',
           Connected => \A m \in Leases :
             m # l => Yields(l, pc, w, o, m)
    PROVE  JInv'
  <1>1. Step(l, pc, w, o, g) /\ Holds(l)'
    BY AdvanceHolds DEF Advances
  <1>2. /\ pc \notin Releasing \cup {"disposeRefused", "creating"}
        /\ Connected /\ w = l => o # "failed"
    BY DEF Advances, Kinds, Releasing
  <1>3. Ordered'
    BY <1>1, StepKeepsOrdered DEF JInv
  <1>4. SoleRelease'
    BY <1>1, <1>2, StepKeepsSoleRelease DEF JInv, Advances
  <1>5. Creation'
    BY <1>1, <1>2, StepKeepsCreation DEF JInv
  <1>6. Copy'
    BY <1>1, <1>2, StepKeepsCopy DEF JInv, Advances
  <1> QED
    BY <1>3, <1>4, <1>5, <1>6 DEF JInv

\* The repair, if it is due, is what the call waits for next.
LEMMA AdvanceRepairs ==
    ASSUME JInv, NEW l \in Leases,
           NEW pc, NEW w, NEW o, NEW g, Advances(l, pc, w, o, g),
           UNCHANGED <<connection, server>>,
           book'.generation = book.generation,
           book'.cleanup = book.cleanup,
           Connected /\ book.cleanup =>
             pc \in {"detachment", "reconciliation"},
           pc = "reconciliation" => book.cleanup,
           Owns(l, "reconciliation") => call[l].outcome # "ok"
    PROVE  Repairs'
  <1>1. w = l => o # "ok"
    BY DEF Advances
  <1> QED
    BY <1>1, StepKeepsRepairs DEF JInv, Advances

LEMMA DetachmentSteps ==
    ASSUME IInv, Ordered, NEW l \in Leases, Turn, call[l].pc = "idle",
           promise.detachment # None,
           Await(l, "detachment", promise.detachment),
           UNCHANGED <<promise, pending, known>>
    PROVE  Advances(l, "detachment", promise.detachment.by,
                    promise.detachment.outcome, call[l].generation)
  <1> DEFINE p == promise.detachment
  <1>1. /\ "detachment" \in Kinds /\ "detachment" \in Pcs
        /\ "detachment" \notin Releasing
        /\ \A kind \in Kinds : "detachment" \notin Makers(kind)
    BY DEF Kinds, Pcs, Busy, Releasing, Makers
  <1>2. p \in Promises /\ p.by \in Leases /\ p.outcome \in Outcomes
    BY <1>1, PromiseTyped DEF IInv
  <1>3. Changed(l, "detachment", p.by, p.outcome, call[l].generation)
    BY <1>1, <1>2, AwaitChanges DEF IInv
  <1>4. call[p.by].pc \in Releasing
    BY <1>1 DEF IInv, PromisesKept, Makers
  <1>5. p.by # l /\ p.by # None
    BY <1>2, <1>4, LeasesAssumption DEF Releasing
  <1>6. /\ Awake(l) /\ Forward(call[l].pc, "detachment")
        /\ \A kind \in Kinds : ~Owns(l, kind)
    BY DEF Awake, Busy, Kinds, Releasing, Forward, Owns, Makers
  <1>7. Step(l, "detachment", p.by, p.outcome, call[l].generation)
    BY <1>1, <1>3, <1>5, <1>6 DEF Step, Turn
  <1> QED
    BY <1>1, <1>5, <1>7 DEF Advances

LEMMA AcquireSessionOrdered ==
    ASSUME JInv, IInv', ~Overtaking, NEW l \in Leases, AcquireSession(l)
    PROVE  JInv'
  <1>1. /\ call[l].pc = "idle" /\ server.exists /\ book' = Reserved(l)
        /\ UNCHANGED <<connection, disposed, server, late>> /\ Turn
    BY DEF AcquireSession
  <1>2. /\ IInv /\ Ordered
        /\ book'.generation = book.generation
        /\ book'.cleanup = book.cleanup
    BY <1>1 DEF JInv, IInv, TypedCalls, Books, Reserved
  <1>3. Awake(l) /\ ~Owns(l, "reconciliation")
    BY <1>1 DEF Awake, Busy, Kinds, Releasing, Owns, Makers
  <1>4. CASE promise.detachment # None
    <2> DEFINE p == promise.detachment
    <2>1. Advances(l, "detachment", p.by, p.outcome, call[l].generation)
      BY <1>1, <1>2, <1>4, DetachmentSteps DEF AcquireSession
    <2>2. Repairs'
      BY <1>1, <1>2, <1>3, <2>1, AdvanceRepairs
    <2>3. ASSUME NEW m \in Leases, call[m].pc \in Releasing
          PROVE  p.by = m
      <3>1. Owns(m, "detachment") /\ "detachment" \in Kinds
        BY <1>1, <1>2, <2>3 DEF Ordered, Makings, Owns, Makers, Kinds
      <3> QED
        BY <1>2, <3>1 DEF Ordered, Makings
    <2>4. p.by \in Leases /\ call[p.by].pc \in Releasing
      <3>1. "detachment" \in Kinds /\ Makers("detachment") = Releasing
        BY DEF Kinds, Makers
      <3> QED
        BY <1>2, <1>4, <3>1, PromiseTyped DEF IInv, PromisesKept
    <2>5. ASSUME Connected, NEW m \in Leases, call[m].pc = "disposeRefused"
          PROVE  FALSE
      <3>1. Holds(m) /\ m # p.by
        BY <1>2, <2>4, <2>5
        DEF IInv, Releases, Refusals, Holds, Releasing
      <3> QED
        BY <2>4, <2>5, <3>1 DEF JInv, SoleRelease
    <2> HIDE DEF p
    <2>6. Connected => \A m \in Leases : m # l =>
            Yields(l, "detachment", p.by, p.outcome, m)
      BY <2>3, <2>5 DEF Yields
    <2> QED
      BY <1>1, <1>2, <2>1, <2>2, <2>6, AdvanceKeeps
  <1>5. CASE promise.detachment = None
    <2>1. Reconcile(l)
      BY <1>5 DEF AcquireSession
    <2>2. PICK pc, w, o, g :
             /\ Advances(l, pc, w, o, g)
             /\ pc \in {"reconciliation", "attachment", "active"}
             /\ pc = "reconciliation" <=> book.cleanup
      BY <1>1, <1>2, <1>3, <2>1, ReconcileSteps
    <2>3. Repairs'
      BY <1>1, <1>2, <1>3, <2>2, AdvanceRepairs
    <2>4. ASSUME NEW m \in Leases, call[m].pc \in Releasing
          PROVE  FALSE
      <3>1. Owns(m, "detachment") /\ "detachment" \in Kinds
        BY <1>1, <1>2, <2>4 DEF Ordered, Makings, Owns, Makers, Kinds
      <3> QED
        BY <1>2, <1>5, <3>1 DEF Ordered, Makings
    <2>5. ASSUME Connected, NEW m \in Leases, m # l,
                 call[m].pc = "disposeRefused"
          PROVE  (pc = "reconciliation" /\ o = "waiting") \/ Early(l)'
      <3>1. pc # "attachment"
        BY <2>2, <2>5 DEF Advances, JInv, SoleRelease
      <3>2. pc = "active" => Early(l)'
        BY <2>2, <2>5 DEF Advances, Step, Changed, Early, Leased
      <3>3. ASSUME pc = "reconciliation", w = l
            PROVE  o = "waiting"
        BY <2>2, <2>5, <3>3 DEF Advances
      <3>4. ASSUME pc = "reconciliation", w # l
            PROVE  o = "waiting"
        <4>1. /\ "reconciliation" \in Kinds /\ w # None
              /\ promise["reconciliation"] # None
              /\ promise["reconciliation"].by = w
              /\ promise["reconciliation"].outcome = o
          BY <2>2, <3>4 DEF Advances, Step, Busy, Kinds
        <4>2. /\ w \in Leases /\ call[w].pc = "reconciliation"
              /\ call[w].outcome = o
          BY <1>2, <4>1, PromiseTyped DEF IInv, PromisesKept, Makers
        <4>3. Holds(w) /\ w # m /\ ~Leased(w)
          BY <2>5, <4>2 DEF Holds, Acquiring, Leased
        <4> QED
          BY <2>5, <4>2, <4>3 DEF JInv, SoleRelease, Early
      <3> QED
        BY <2>2, <3>1, <3>2, <3>3, <3>4
    <2>6. Connected => \A m \in Leases : m # l => Yields(l, pc, w, o, m)
      BY <2>4, <2>5 DEF Yields
    <2> QED
      BY <1>1, <1>2, <2>2, <2>3, <2>6, AdvanceKeeps
  <1> QED
    BY <1>4, <1>5

\* An acquisition that goes on finds nobody releasing.
LEMMA AcquiringGoesOn ==
    ASSUME JInv, IInv', NEW l \in Leases, Acquiring(l), Runs(l),
           NEW pc, NEW w, NEW o, NEW g, Advances(l, pc, w, o, g),
           UNCHANGED <<connection, server>>,
           book'.generation = book.generation,
           book'.cleanup => book.cleanup, Repairs'
    PROVE  JInv'
  <1>1. server.exists
    BY DEF JInv, Creation, Acquiring
  <1>2. Holds(l) /\ Awake(l)
    BY DEF Holds, Awake
  <1>3. Connected => \A m \in Leases :
          m # l => call[m].pc \notin Releasing \cup {"disposeRefused"}
    BY <1>2, NobodyReleases DEF JInv
  <1> QED
    BY <1>1, <1>3, AdvanceKeeps DEF Yields

LEMMA DetachmentOverOrdered ==
    ASSUME JInv, IInv', NEW l \in Leases, DetachmentOver(l)
    PROVE  JInv'
  <1>1. /\ call[l].pc = "detachment" /\ Runs(l) /\ Reconcile(l)
        /\ book' = book /\ UNCHANGED <<connection, server>> /\ Turn
    BY DEF DetachmentOver
  <1>2. /\ Awake(l) /\ ~Owns(l, "reconciliation") /\ Acquiring(l)
        /\ IInv /\ Ordered
    BY <1>1 DEF Awake, Owns, Makers, Acquiring, JInv
  <1>3. PICK pc, w, o, g :
           /\ Advances(l, pc, w, o, g)
           /\ pc \in {"reconciliation", "attachment", "active"}
           /\ pc = "reconciliation" <=> book.cleanup
    BY <1>1, <1>2, ReconcileSteps
  <1>4. Repairs'
    BY <1>1, <1>2, <1>3, AdvanceRepairs
  <1> QED
    BY <1>1, <1>2, <1>3, <1>4, AcquiringGoesOn

\* The first to learn that the repair is done takes note.
LEMMA FirstRepairs ==
    ASSUME JInv, NEW l \in Leases,
           NEW pc, NEW w, NEW o, NEW g, Step(l, pc, w, o, g),
           UNCHANGED <<connection, server>>, known'.attached = known.attached,
           book'.generation = book.generation, ~book'.cleanup,
           Owns(l, "reconciliation"), call[l].outcome = "ok",
           pc # "reconciliation"
    PROVE  Repairs'
  <1>1. /\ \A k \in Leases : k # l => call'[k] = call[k]
        /\ call'[l].pc = pc
        /\ Connected' <=> Connected
    BY DEF Step, Changed, Connected
  <1>2. call[l].pc = "reconciliation" /\ call[l].waits = l
    BY DEF Owns, Makers
  <1>3. ASSUME Connected, NEW m \in Leases, call'[m].pc = "reconciliation"
        PROVE  /\ m # l /\ call'[m].waits = l /\ call'[m].outcome = "ok"
               /\ ~server.attached /\ ~known.attached
    <2>1. m # l /\ call'[m] = call[m]
      BY <1>1, <1>3
    <2>2. /\ call[m].waits = l
          /\ ~server.attached /\ ~known.attached
      BY <1>2, <1>3, <2>1 DEF JInv, Repairs
    <2>3. call[m].outcome = "ok"
      BY <1>2, <1>3, <2>1, <2>2
      DEF JInv, Ordered, Followers, Owns, Makers
    <2> QED
      BY <2>1, <2>2, <2>3
  <1>4. ASSUME Connected, NEW m \in Leases, call'[m].pc = "reconciliation"
        PROVE  ~Owns(call[m].waits, "reconciliation")'
    <2>1. call'[m].waits = l
      BY <1>3, <1>4
    <2>2. Makers("reconciliation") = {"reconciliation"}
      BY DEF Makers
    <2>3. call'[l].pc # "reconciliation"
      BY <1>1
    <2> QED
      BY <2>1, <2>2, <2>3 DEF Owns
  <1>5. ASSUME Connected, NEW m \in Leases, call'[m].pc = "reconciliation"
        PROVE  /\ book'.cleanup <=>
                    (call'[m].outcome # "ok"
                     \/ Owns(call[m].waits, "reconciliation")')
               /\ call'[m].outcome = "ok" =>
                    ~server'.attached /\ ~known'.attached
               /\ call'[m].waits # m
    BY <1>3, <1>4, <1>5
  <1> SUFFICES ASSUME Connected
               PROVE  \A m \in Leases : call'[m].pc = "reconciliation" =>
                        /\ book'.cleanup <=>
                             (call'[m].outcome # "ok"
                              \/ Owns(call[m].waits, "reconciliation")')
                        /\ call'[m].outcome = "ok" =>
                             ~server'.attached /\ ~known'.attached
                        /\ call'[m].waits # m
    BY <1>1 DEF Repairs
  <1> QED
    BY <1>5

\* Whoever goes on knows that the maker of the request has gone on before.
LEMMA OwnerGone ==
    ASSUME IInv, Ordered, NEW l \in Leases, Acquiring(l), Runs(l),
           call[l].waits # l
    PROVE  ~Owns(call[l].waits, call[l].pc)
  <1> SUFFICES ASSUME Owns(call[l].waits, call[l].pc)
               PROVE  FALSE
    OBVIOUS
  <1>1. /\ call[l].waits \in Leases /\ call[l].outcome # "waiting"
        /\ ~(Resumed(call[l].waits)
             /\ call[call[l].waits].waits = call[l].waits)
    BY CallTyped DEF IInv, Runs, Resumed
  <1>2. call[call[l].waits].outcome = call[l].outcome
    BY <1>1 DEF Ordered, Followers
  <1> QED
    BY <1>1, <1>2, LeasesAssumption DEF Resumed, Owns

\* A call that is over.
OverWell(l) ==
    /\ Connected /\ ~server.unsure /\ server.attached =>
         \/ book'.cleanup
         \/ \E k \in Leases : k # l /\ Holds(k)
         \/ ~book.cleanup /\ ~Holds(l) /\ call[l].pc # "creating"
         \/ ~book.cleanup /\ ~Holds(l) /\ call[l].outcome # "ok"
    /\ book'.cleanup => book.cleanup \/ call[l].pc = "disposeRefused"
    /\ \/ server.exists
       \/ known' = known /\ book' = book

LEMMA OverKeeps ==
    ASSUME JInv, IInv', NEW l \in Leases, Awake(l), Turn,
           NEW P, Without(l, P), Goes(l, "over"), promise' = P,
           UNCHANGED <<connection, server, pending>>,
           book'.generation = book.generation, OverWell(l), Repairs',
           known'.attached = known.attached,
           \/ known' = known
           \/ known.snapshot = None /\ \A k \in Leases : pending[k] # "attach"
    PROVE  JInv'
  <1>1. IInv /\ Ordered
    BY DEF JInv
  <1>2. /\ "over" \in Pcs \ Busy /\ "over" # "idle"
        /\ "over" \notin Releasing
    BY DEF Pcs, Busy, Kinds, Releasing
  <1>3. Changed(l, "over", None, "waiting", call[l].generation)
    BY <1>1, <1>2, GoesChanges DEF IInv
  <1>4. Step(l, "over", None, "waiting", call[l].generation)
    BY <1>1, <1>2, <1>3, AloneSteps
  <1>5. ~Holds(l)'
    BY <1>3 DEF Changed, Holds, Acquiring, Current, Leased
  <1>6. Ordered'
    BY <1>1, <1>4, StepKeepsOrdered
  <1>7. SoleRelease'
    BY <1>2, <1>4, <1>5, StepKeepsSoleRelease DEF JInv
  <1>8. Creation'
    BY <1>2, <1>4, StepKeepsCreation DEF JInv, OverWell
  <1>9. Copy'
    BY <1>4, LeasesAssumption, StepKeepsCopy DEF JInv, OverWell
  <1> QED
    BY <1>6, <1>7, <1>8, <1>9 DEF JInv

\* It leaves the repair to the others.
LEMMA OverRepairs ==
    ASSUME JInv, NEW l \in Leases, Awake(l), Turn,
           NEW P, Without(l, P), Goes(l, "over"), promise' = P,
           UNCHANGED <<connection, server, pending>>,
           known'.attached = known.attached,
           book'.generation = book.generation, book'.cleanup = book.cleanup,
           Owns(l, "reconciliation") => call[l].outcome # "ok"
    PROVE  Repairs'
  <1>1. IInv /\ Ordered /\ "over" \in Pcs \ Busy
    BY DEF JInv, Pcs, Busy, Kinds, Releasing
  <1>2. Changed(l, "over", None, "waiting", call[l].generation)
    BY <1>1, GoesChanges DEF IInv
  <1>3. Step(l, "over", None, "waiting", call[l].generation)
    BY <1>1, <1>2, AloneSteps
  <1>4. ~Holds(l)'
    BY <1>2 DEF Changed, Holds, Acquiring, Current, Leased
  <1> QED
    BY <1>3, <1>4, StepKeepsRepairs DEF JInv

LEMMA ReconciliationOverOrdered ==
    ASSUME JInv, IInv', NEW l \in Leases, ReconciliationOver(l)
    PROVE  JInv'
  <1> DEFINE first == call[l].waits = l
             ok == call[l].outcome = "ok"
             P == IF first THEN [promise EXCEPT !.reconciliation = None]
                  ELSE promise
             b == IF first /\ ok THEN [book EXCEPT !.cleanup = FALSE]
                  ELSE book
  <1>1. /\ call[l].pc = "reconciliation" /\ Runs(l) /\ Turn
        /\ UNCHANGED <<connection, server>>
        /\ IF ok THEN Proceed(l, TRUE, P) /\ book' = b
           ELSE Fail(l) /\ promise' = P /\ book' = Released(book, l)
    BY DEF ReconciliationOver
  <1>2. /\ Awake(l) /\ Acquiring(l) /\ Holds(l) /\ IInv /\ Ordered
        /\ book \in Books
    BY <1>1 DEF Awake, Acquiring, Holds, JInv, IInv, TypedCalls
  <1>3. \A kind \in Kinds :
          Owns(l, kind) <=> kind = "reconciliation" /\ first
    BY <1>1 DEF Owns, Makers, Kinds, Releasing
  <1>4. Without(l, P)
    <2>1. promise \in [Kinds -> Promises \cup {None}]
      BY <1>2 DEF IInv, TypedCalls
    <2> QED
      BY <1>3, <2>1 DEF Without, Kinds
  <1>5. Owns(l, "reconciliation") <=> first
    BY <1>3 DEF Kinds
  <1>6. CASE ok
    <2>1. ~known.attached
      BY <1>1, <1>2, <1>6 DEF JInv, Repairs, IInv, Offline
    <2>2. Forward(call[l].pc, "attachment")
      BY <1>1 DEF Forward
    <2>3. Proceed(l, TRUE, P)
      BY <1>1, <1>6
    <2> HIDE DEF P
    <2>4. PICK pc, w, o, g : /\ Advances(l, pc, w, o, g)
                             /\ pc \in {"attachment", "active"}
      BY <1>1, <1>2, <1>4, <2>1, <2>2, <2>3, ProceedSteps
    <2>5. /\ book'.generation = book.generation
          /\ book'.cleanup = IF first THEN FALSE ELSE book.cleanup
      BY <1>1, <1>2, <1>6 DEF Books
    <2>6. CASE first
      <3>1. Step(l, pc, w, o, g) /\ known'.attached = known.attached
        BY <2>4 DEF Advances
      <3>2. Repairs'
        BY <1>1, <1>5, <1>6, <2>4, <2>5, <2>6, <3>1, FirstRepairs
      <3> QED
        BY <1>1, <1>2, <2>4, <2>5, <2>6, <3>2, AcquiringGoesOn
    <2>7. CASE ~first
      <3>1. Connected => ~book.cleanup
        BY <1>1, <1>2, <1>6, <2>7, OwnerGone DEF JInv, Repairs
      <3>2. Repairs'
        BY <1>1, <1>5, <2>4, <2>5, <2>7, <3>1, AdvanceRepairs
      <3> QED
        BY <1>1, <1>2, <2>4, <2>5, <2>7, <3>2, AcquiringGoesOn
    <2> QED
      BY <2>6, <2>7
  <1>7. CASE ~ok
    <2>1. /\ Goes(l, "over") /\ promise' = P /\ UNCHANGED <<pending, known>>
          /\ book'.generation = book.generation
          /\ book'.cleanup = book.cleanup
      BY <1>1, <1>2, <1>7 DEF Fail, Released, Books
    <2> HIDE DEF P
    <2>2. Repairs'
      BY <1>1, <1>2, <1>4, <1>7, <2>1, OverRepairs
    <2>3. Connected => book.cleanup
      BY <1>1, <1>7 DEF JInv, Repairs
    <2>4. server.exists
      BY <1>1 DEF JInv, Creation
    <2> QED
      BY <1>1, <1>2, <1>4, <2>1, <2>2, <2>3, <2>4, OverKeeps DEF OverWell
  <1> QED
    BY <1>6, <1>7

LEMMA AttachmentOverOrdered ==
    ASSUME JInv, IInv', NEW l \in Leases, AttachmentOver(l)
    PROVE  JInv'
  <1> DEFINE p == promise.attachment
             mine == p # None /\ p.by = call[l].waits
             P == [promise EXCEPT !.attachment = IF mine THEN None ELSE @]
  <1>1. /\ call[l].pc = "attachment" /\ Runs(l) /\ Turn
        /\ promise' = P /\ UNCHANGED <<connection, server>>
    BY DEF AttachmentOver
  <1>2. /\ Awake(l) /\ Acquiring(l) /\ Holds(l) /\ IInv /\ Ordered
        /\ "attachment" \in Kinds /\ book \in Books
    BY <1>1 DEF Awake, Acquiring, Holds, JInv, Kinds, IInv, TypedCalls
  <1>3. \A kind \in Kinds :
          Owns(l, kind) <=> kind = "attachment" /\ call[l].waits = l
    BY <1>1 DEF Owns, Makers, Kinds, Releasing
  <1>4. mine <=> call[l].waits = l
    <2>1. call[l].waits = l => mine
      BY <1>2, <1>3 DEF Ordered, Makings
    <2>2. ASSUME mine, call[l].waits # l
          PROVE  FALSE
      <3>1. Owns(call[l].waits, call[l].pc)
        BY <1>1, <1>2, <2>2 DEF IInv, PromisesKept, Owns
      <3> QED
        BY <1>1, <1>2, <2>2, <3>1, OwnerGone
    <2> QED
      BY <2>1, <2>2
  <1>5. Without(l, P)
    <2>1. promise \in [Kinds -> Promises \cup {None}]
      BY <1>2 DEF IInv, TypedCalls
    <2> QED
      BY <1>2, <1>3, <1>4, <2>1 DEF Without
  <1>6. ~Owns(l, "reconciliation") /\ server.exists
    BY <1>1 DEF Owns, Makers, JInv, Creation
  <1>7. Connected => ~book.cleanup
    BY <1>1, <1>2 DEF JInv, Repairs, Early, Leased
  <1> HIDE DEF P
  <1>8. CASE call[l].outcome = "ok"
    <2>1. Lease(l) /\ UNCHANGED <<pending, known, book>>
      BY <1>8 DEF AttachmentOver
    <2>2. Advances(l, "active", None, "waiting", book.generation)
      BY <1>1, <1>2, <1>5, <2>1, LeaseSteps DEF Leased
    <2>3. Repairs'
      BY <1>1, <1>6, <1>7, <2>1, <2>2, AdvanceRepairs
    <2> QED
      BY <1>1, <1>2, <2>1, <2>2, <2>3, AcquiringGoesOn
  <1>9. CASE call[l].outcome # "ok"
    <2>1. /\ Goes(l, "over") /\ UNCHANGED pending
          /\ book' = Released(book, l)
          /\ \/ /\ known' = [known EXCEPT !.snapshot = p.previous]
                /\ mine /\ known.snapshot = None
             \/ known' = known
      BY <1>9 DEF AttachmentOver
    <2>2. /\ book'.generation = book.generation
          /\ book'.cleanup = book.cleanup
      BY <1>2, <2>1 DEF Books, Released
    <2>3. known'.attached = known.attached
      BY <1>2, <2>1 DEF IInv, TypedWorld, Copies
    <2>4. ASSUME mine, NEW k \in Leases, pending[k] = "attach"
          PROVE  FALSE
      <3>1. /\ call[k].waits = k /\ call[k].outcome = "waiting"
            /\ Command(call[k].pc) = "attach"
        BY <1>2, <2>4 DEF Ordered, Unanswered
      <3>2. Owns(k, "attachment")
        BY <3>1 DEF Command, Owns, Makers
      <3>3. k = l
        BY <1>2, <1>4, <2>4, <3>2 DEF Ordered, Makings
      <3> QED
        BY <1>1, <3>1, <3>3 DEF Runs, Resumed
    <2>5. Repairs'
      BY <1>1, <1>2, <1>5, <1>6, <2>1, <2>2, <2>3, OverRepairs
    <2>6. Connected /\ ~server.unsure => ~server.attached
      <3>1. call[l].outcome = "failed"
        BY <1>1, <1>2, <1>9, CallTyped DEF IInv, Runs, Resumed, Outcomes
      <3> QED
        BY <1>1, <3>1 DEF JInv, Copy
    <2>7. OverWell(l)
      BY <1>6, <2>2, <2>6 DEF OverWell
    <2> QED
      BY <1>1, <1>2, <1>5, <2>1, <2>2, <2>3, <2>4, <2>5, <2>7, OverKeeps
  <1> QED
    BY <1>8, <1>9
-----------------------------------------------------------------------------
(* Creations and releases *)

LEMMA CreateSessionOrdered ==
    ASSUME JInv, IInv', NEW l \in Leases, CreateSession(l)
    PROVE  JInv'
  <1> DEFINE p == Requested(l)
  <1>1. /\ call[l].pc = "idle" /\ call[l].mode = "create" /\ ~server.exists
        /\ Await(l, "creating", p) /\ Request(l, "create") /\ Turn
        /\ UNCHANGED <<connection, known, book, promise, server>>
    BY DEF CreateSession
  <1>2. /\ p.by = l /\ p.outcome = IF Connected THEN "waiting" ELSE "failed"
        /\ p.outcome \in Outcomes /\ IInv /\ Ordered
    BY RequestedTyped DEF JInv, IInv, Outcomes
  <1> HIDE DEF p
  <1>3. /\ "creating" \in Pcs /\ "creating" \notin Kinds \cup Releasing
        /\ \A kind \in Kinds : "creating" \notin Makers(kind)
        /\ Command("creating") = "create"
    BY DEF Pcs, Busy, Releasing, Kinds, Makers, Command
  <1>4. Changed(l, "creating", l, p.outcome, call[l].generation)
    BY <1>1, <1>2, <1>3, AwaitChanges DEF IInv
  <1>5. /\ Awake(l) /\ Forward(call[l].pc, "creating")
        /\ \A kind \in Kinds : ~Owns(l, kind)
    BY <1>1 DEF Awake, Busy, Kinds, Releasing, Forward, Owns, Makers
  <1>6. \A k \in Leases :
          pending'[k] = IF k = l /\ p.outcome = "waiting"
                        THEN "create" ELSE pending[k]
    BY <1>1, <1>2 DEF Request, IInv, TypedCalls
  <1>7. Step(l, "creating", l, p.outcome, call[l].generation)
    BY <1>1, <1>3, <1>4, <1>5, <1>6, LeasesAssumption DEF Step, Turn
  <1>8. /\ ~Holds(l)' /\ ~server.attached /\ ~book.cleanup
    BY <1>1, <1>4
    DEF Changed, Holds, Acquiring, Current, Leased, JInv, Creation
  <1>9. Ordered'
    BY <1>2, <1>7, StepKeepsOrdered
  <1>10. SoleRelease'
    BY <1>1, <1>3, <1>7, <1>8, StepKeepsSoleRelease DEF JInv
  <1>11. Repairs'
    BY <1>1, <1>5, <1>7, <1>8, StepKeepsRepairs DEF JInv, Kinds
  <1>12. Creation'
    BY <1>1, <1>2, <1>3, <1>7, StepKeepsCreation DEF JInv
  <1>13. Copy'
    BY <1>1, <1>2, <1>7, <1>8, StepKeepsCopy DEF JInv
  <1> QED
    BY <1>9, <1>10, <1>11, <1>12, <1>13 DEF JInv

\* A call that has a lease when nobody else is releasing.
LEMMA ActiveKeeps ==
    ASSUME JInv, IInv', NEW l \in Leases,
           NEW g, Step(l, "active", None, "waiting", g),
           UNCHANGED <<connection, server, known>>,
           book'.generation = book.generation, book'.cleanup = book.cleanup,
           server.exists, Connected => Holds(l)',
           Connected /\ book.cleanup => Early(l)',
           Connected => \A m \in Leases : m # l =>
             /\ call[m].pc \notin Releasing
             /\ call[m].pc = "disposeRefused" => Early(l)',
           call[l].pc # "reconciliation"
    PROVE  JInv'
  <1>1. /\ "active" \notin Releasing /\ ~Owns(l, "reconciliation")
        /\ None # l
    BY LeasesAssumption DEF Releasing, Owns, Makers
  <1>2. Ordered'
    BY StepKeepsOrdered DEF JInv
  <1>3. SoleRelease'
    BY <1>1, StepKeepsSoleRelease DEF JInv, Yields
  <1>4. Repairs'
    BY <1>1, StepKeepsRepairs DEF JInv
  <1>5. Creation'
    BY <1>1, StepKeepsCreation DEF JInv
  <1>6. Copy'
    BY <1>1, StepKeepsCopy DEF JInv
  <1> QED
    BY <1>2, <1>3, <1>4, <1>5, <1>6 DEF JInv

LEMMA SessionCreatedOrdered ==
    ASSUME JInv, IInv', NEW l \in Leases, SessionCreated(l)
    PROVE  JInv'
  <1>1. /\ call[l].pc = "creating" /\ Runs(l) /\ Turn
        /\ UNCHANGED <<connection, known, promise, pending, server>>
    BY DEF SessionCreated
  <1>2. /\ Awake(l) /\ ~Holds(l) /\ IInv /\ Ordered /\ book \in Books
        /\ \A kind \in Kinds : ~Owns(l, kind)
    BY <1>1 DEF Awake, Holds, Acquiring, Current, Leased, JInv, IInv,
                TypedCalls, Kinds, Owns, Makers, Releasing
  <1>3. Without(l, promise) /\ ~Owns(l, "reconciliation")
    BY <1>2, WithoutNone DEF Kinds
  <1>4. CASE call[l].outcome = "ok" /\ Granted(l)
    <2>1. Lease(l) /\ book' = Reserved(l)
      BY <1>4 DEF SessionCreated
    <2>2. /\ book'.generation = book.generation
          /\ book'.cleanup = book.cleanup
      BY <1>2, <2>1 DEF Reserved, Books
    <2>3. Changed(l, "active", None, "waiting", book.generation)
      BY <1>1, <1>2, <2>1, LeaseChanges DEF IInv, Leased
    <2>4. /\ "active" \in Pcs \ Busy /\ "active" # "idle"
      BY DEF Pcs, Busy, Kinds, Releasing
    <2>5. Step(l, "active", None, "waiting", book.generation)
      BY <1>1, <1>2, <1>3, <2>3, <2>4, AloneSteps
    <2>6. Holds(l)'
      BY <2>2, <2>3 DEF Changed, Holds, Current, Leased
    <2>7. /\ server.exists /\ ~book.cleanup /\ Connected
          /\ Exclusively(l) /\ book.count = 0
      BY <1>1, <1>2, <1>4
      DEF JInv, Creation, IInv, Offline, Exclusively, Granted
    <2>8. ASSUME NEW m \in Leases,
                 call[m].pc \in Releasing \cup {"disposeRefused"}
          PROVE  FALSE
      <3>1. m \in Holders
        BY <1>2, <2>7, <2>8
        DEF IInv, Releases, Refusals, Holders, Holds
      <3>2. Cardinality(Holders) = 0 /\ IsFiniteSet(Holders)
        BY <1>2, <2>7, HoldersFinite DEF IInv, Tokens
      <3> QED
        BY <3>1, <3>2, FS_EmptySet
    <2> QED
      BY <1>1, <2>2, <2>5, <2>6, <2>7, <2>8, ActiveKeeps
  <1>5. CASE ~(call[l].outcome = "ok" /\ Granted(l))
    <2>1. Goes(l, "over") /\ UNCHANGED book
      BY <1>5 DEF SessionCreated
    <2>2. Repairs'
      BY <1>1, <1>2, <1>3, <2>1, OverRepairs
    <2>3. ASSUME Connected, call[l].outcome = "ok"
          PROVE  \E k \in Leases : k # l /\ Holds(k)
      <3>1. Exclusively(l) /\ book.count # 0
        BY <1>1, <1>5, <2>3 DEF JInv, Creation, Exclusively, Granted
      <3>2. Cardinality(Holders) # 0
        BY <1>2, <2>3, <3>1 DEF IInv, Tokens
      <3>3. PICK k \in Holders : TRUE
        BY <3>2, FS_EmptySet
      <3> QED
        BY <1>2, <3>3 DEF Holders
    <2>4. OverWell(l)
      BY <1>1, <1>2, <2>1, <2>3 DEF OverWell
    <2> QED
      BY <1>1, <1>2, <1>3, <2>1, <2>2, <2>4, OverKeeps
  <1> QED
    BY <1>4, <1>5

\* The release of the last lease is that of the only holder.
LEMMA LastHolder ==
    ASSUME IInv, Connected, book.count <= 1, NEW l \in Leases, Holds(l),
           NEW k \in Leases, k # l
    PROVE  ~Holds(k)
  <1> SUFFICES ASSUME Holds(k) PROVE FALSE
    OBVIOUS
  <1>1. /\ l \in Holders /\ k \in Holders /\ Cardinality(Holders) <= 1
        /\ IsFiniteSet(Holders)
    BY HoldersFinite DEF Holders, IInv, Tokens
  <1> DEFINE S == Holders \ {l}
             R == S \ {k}
  <1>2. Cardinality(S) = Cardinality(Holders) - 1 /\ IsFiniteSet(S)
    BY <1>1, FS_RemoveElement
  <1>3. k \in S
    BY <1>1
  <1> HIDE DEF S
  <1>4. Cardinality(R) = Cardinality(S) - 1 /\ IsFiniteSet(R)
    BY <1>2, <1>3, FS_RemoveElement
  <1>5. Cardinality(R) \in Nat
    BY <1>4, FS_CardinalityType
  <1> HIDE DEF R
  <1> QED
    BY <1>1, <1>2, <1>4, <1>5, HoldersFinite

LEMMA ReleaseOrdered ==
    ASSUME JInv, IInv', NEW l \in Leases, Release(l)
    PROVE  JInv'
  <1>1. /\ call[l].pc = "active" /\ Current(l) /\ Connected /\ Turn
        /\ known.attached
        /\ UNCHANGED <<connection, known, server>>
    BY DEF Release
  <1>2. /\ Awake(l) /\ Holds(l) /\ IInv /\ Ordered /\ server.exists
        /\ book \in Books /\ \A kind \in Kinds : ~Owns(l, kind)
    BY <1>1 DEF Awake, Busy, Holds, JInv, IInv, TypedCalls, Creation,
                Kinds, Owns, Makers, Releasing
  <1>3. \A m \in Leases : m # l => call[m].pc \notin Releasing
    BY <1>1, <1>2, NobodyReleases DEF JInv
  <1>4. (book.cleanup => Early(l)) /\ ~Owns(l, "reconciliation")
    BY <1>1, <1>2 DEF JInv, Repairs, Kinds
  <1>5. CASE book.count <= 1
    <2> DEFINE p == Requested(l)
    <2>1. PICK pc \in Releasing : Await(l, pc, p)
      BY <1>5 DEF Release, Releasing
    <2>2. /\ promise' = [promise EXCEPT !["detachment"] = p]
          /\ Request(l, "detach") /\ book' = book
      BY <1>5 DEF Release
    <2>3. p \in Promises /\ p.by = l /\ p.outcome = "waiting"
      BY <1>1, <1>2, RequestedTyped DEF IInv
    <2>4. p.outcome \in Outcomes /\ p # None
      BY <2>3, NoneAssumption DEF Outcomes
    <2> HIDE DEF p
    <2>5. /\ pc \in Pcs /\ pc \in Busy /\ pc # "creating" /\ pc \notin Kinds
          /\ Command(pc) = "detach" /\ Forward(call[l].pc, pc)
          /\ pc \notin {"active", "idle", "reconciliation", "attachment",
                        "disposeRefused"}
      BY DEF Pcs, Busy, Releasing, Kinds, Command, Forward
    <2>6. Changed(l, pc, l, "waiting", call[l].generation)
      BY <1>2, <2>1, <2>3, <2>4, <2>5, AwaitChanges DEF IInv
    <2>7. \A k \in Leases :
            pending'[k] = IF k = l THEN "detach" ELSE pending[k]
      BY <1>1, <1>2, <2>2 DEF Request, IInv, TypedCalls
    <2>8. /\ \A kind \in Kinds :
               pc \in Makers(kind) <=> kind = "detachment"
          /\ Makers("detachment") = Releasing
      BY <2>5 DEF Makers
    <2>9. \A k \in Leases : k # l => ~Owns(k, "detachment")
      BY <1>3, <2>8 DEF Owns
    <2>10. \A kind \in Kinds :
             promise'[kind] = IF kind = "detachment" THEN p
                              ELSE promise[kind]
      BY <1>2, <2>2 DEF IInv, TypedCalls
    <2>11. \A k \in Leases : k # l => ~Holds(k)
      BY <1>1, <1>2, <1>5, LastHolder
    <2>12. \A k \in Leases : call[k].pc # "detachment"
      BY <1>1, <2>11 DEF Holds, Acquiring
    <2>13. Step(l, pc, l, "waiting", call[l].generation)
      <3>1. \A kind \in Kinds :
              IF l = l /\ pc \in Makers(kind)
              THEN /\ promise'[kind] # None /\ promise'[kind].by = l
                   /\ \A k \in Leases : k # l => ~Owns(k, kind)
              ELSE promise'[kind] = IF Owns(l, kind) THEN None
                                    ELSE promise[kind]
        BY <1>2, <2>3, <2>4, <2>8, <2>9, <2>10
      <3>2. /\ pc \in Releasing \cup {"creating"} => l = l
            /\ pc = "detachment" => l # l
            /\ pc \in Busy => l # None
        BY <2>5, LeasesAssumption DEF Kinds
      <3> QED
        BY <1>1, <1>2, <2>5, <2>6, <2>7, <2>12, <3>1, <3>2 DEF Step, Turn
    <2>14. Holds(l)'
      BY <1>1, <2>2, <2>6 DEF Current, Leased, Holds, Changed, Releasing
    <2>15. Ordered'
      BY <1>2, <2>13, StepKeepsOrdered
    <2>16. SoleRelease'
      <3>1. \A m \in Leases : m # l => call[m].pc # "disposeRefused"
        BY <1>1, <1>2, <2>11 DEF IInv, Releases, Refusals, Holds
      <3>2. \A m \in Leases :
              m # l => Yields(l, pc, l, "waiting", m)
        BY <1>3, <3>1 DEF Yields
      <3> QED
        BY <1>1, <2>2, <2>11, <2>13, <3>2, StepKeepsSoleRelease DEF JInv
    <2>17. Repairs'
      <3>1. book.cleanup => Early(l)'
        BY <1>4, <2>6 DEF Early, Leased, Changed, Releasing
      <3> QED
        BY <1>1, <1>4, <2>2, <2>5, <2>13, <3>1, StepKeepsRepairs DEF JInv
    <2>18. Creation'
      BY <1>1, <1>2, <2>2, <2>5, <2>13, StepKeepsCreation DEF JInv
    <2>19. Copy'
      <3>1. /\ known' = known /\ known'.attached = known.attached
            /\ connection' = connection /\ server' = server
            /\ book'.generation = book.generation
        BY <1>1, <2>2
      <3>2. pc # "attachment" /\ "waiting" # "failed"
        BY <2>5
      <3> QED
        BY <2>13, <2>14, <3>1, <3>2, StepKeepsCopy DEF JInv
    <2> QED
      BY <2>15, <2>16, <2>17, <2>18, <2>19 DEF JInv
  <1>6. CASE ~(book.count <= 1)
    <2>1. /\ Goes(l, "over") /\ book' = Released(book, l)
          /\ UNCHANGED <<promise, pending>>
      BY <1>6 DEF Release
    <2>2. /\ book'.generation = book.generation
          /\ book'.cleanup = book.cleanup
      BY <1>2, <2>1 DEF Books, Released
    <2>3. Without(l, promise)
      BY <1>2, WithoutNone
    <2>4. Repairs'
      BY <1>1, <1>2, <1>4, <2>1, <2>2, <2>3, OverRepairs
    <2>5. \E k \in Leases : k # l /\ Holds(k)
      <3>1. SUFFICES ASSUME \A k \in Leases : k # l => ~Holds(k)
                     PROVE  FALSE
        OBVIOUS
      <3>2. Holders = {l}
        BY <1>2, <3>1 DEF Holders
      <3>3. Cardinality(Holders) = 1
        BY <3>2, FS_Singleton
      <3>4. book.count = Cardinality(Holders)
        BY <1>1, <1>2 DEF IInv, Tokens
      <3> QED
        BY <1>6, <3>3, <3>4
    <2>6. OverWell(l)
      BY <1>2, <2>2, <2>5 DEF OverWell
    <2> QED
      BY <1>1, <1>2, <2>1, <2>2, <2>3, <2>4, <2>6, OverKeeps
  <1> QED
    BY <1>5, <1>6

LEMMA ReleaseInvalidatedOrdered ==
    ASSUME JInv, IInv', NEW l \in Leases, ReleaseInvalidated(l)
    PROVE  JInv'
  <1>1. /\ call[l].pc = "active" /\ ~Current(l) /\ Turn /\ Goes(l, "over")
        /\ UNCHANGED <<connection, known, book, promise, pending, server>>
    BY DEF ReleaseInvalidated
  <1>2. /\ Awake(l) /\ ~Holds(l) /\ IInv /\ server.exists
        /\ \A kind \in Kinds : ~Owns(l, kind)
    BY <1>1 DEF Awake, Busy, Holds, Acquiring, JInv, Creation, Kinds, Owns,
                Makers, Releasing
  <1>3. Without(l, promise) /\ ~Owns(l, "reconciliation")
    BY <1>2, WithoutNone DEF Kinds
  <1>4. Repairs'
    BY <1>1, <1>2, <1>3, OverRepairs
  <1>5. OverWell(l)
    BY <1>1, <1>2 DEF OverWell
  <1> QED
    BY <1>1, <1>2, <1>3, <1>4, <1>5, OverKeeps

LEMMA ReleaseSettlesOrdered ==
    ASSUME JInv, IInv', NEW l \in Leases, ReleaseSettles(l)
    PROVE  JInv'
  <1> DEFINE P == [promise EXCEPT !.detachment =
                     IF @ # None /\ @.by = l THEN None ELSE @]
  <1>1. /\ call[l].pc \in Releasing /\ Runs(l) /\ promise' = P /\ Turn
        /\ UNCHANGED <<connection, known, pending, server>>
    BY DEF ReleaseSettles, Releasing
  <1>2. /\ Awake(l) /\ ~Acquiring(l) /\ IInv /\ Ordered /\ server.exists
        /\ call[l].waits = l /\ book \in Books
    BY <1>1 DEF Awake, Acquiring, JInv, Creation, Releasing, Ordered,
                Makings, IInv, TypedCalls
  <1>3. \A kind \in Kinds : Owns(l, kind) <=> kind = "detachment"
    BY <1>1, <1>2 DEF Owns, Makers, Kinds, Releasing
  <1>4. "detachment" \in Kinds /\ ~Owns(l, "reconciliation")
    BY <1>3 DEF Kinds
  <1>5. Without(l, P)
    <2>1. promise \in [Kinds -> Promises \cup {None}]
      BY <1>2 DEF IInv, TypedCalls
    <2>2. promise["detachment"] # None /\ promise["detachment"].by = l
      BY <1>2, <1>3, <1>4 DEF Ordered, Makings
    <2> QED
      BY <1>3, <1>4, <2>1, <2>2 DEF Without
  <1> HIDE DEF P
  <1>6. Connected => Holds(l) /\ (book.cleanup => Early(l))
    BY <1>1, <1>2 DEF IInv, Releases, Holds, JInv, Repairs, Releasing
  <1>7. CASE call[l].outcome = "ok"
    <2>1. Goes(l, "over") /\ book' = Released(book, l)
      BY <1>7 DEF ReleaseSettles
    <2>2. /\ book'.generation = book.generation
          /\ book'.cleanup = book.cleanup
      BY <1>2, <2>1 DEF Books, Released
    <2>3. Repairs'
      BY <1>1, <1>2, <1>4, <1>5, <2>1, <2>2, OverRepairs
    <2>4. Connected => ~server.attached
      BY <1>1, <1>7 DEF JInv, SoleRelease
    <2>5. OverWell(l)
      BY <1>2, <2>2, <2>4 DEF OverWell
    <2> QED
      BY <1>1, <1>2, <1>5, <2>1, <2>2, <2>3, <2>5, OverKeeps
  <1>8. CASE call[l].outcome # "ok"
    <2>1. PICK pc \in Refusals : Goes(l, pc) /\ book' = book
      BY <1>8 DEF ReleaseSettles, Refusals
    <2>2. /\ pc \in Pcs \ Busy
          /\ pc \notin Releasing \cup {"idle", "creating", "attachment",
                                       "reconciliation", "detachment"}
      BY DEF Pcs, Busy, Kinds, Releasing, Refusals
    <2>3. Changed(l, pc, None, "waiting", call[l].generation)
      BY <1>2, <2>1, <2>2, GoesChanges DEF IInv
    <2>4. Step(l, pc, None, "waiting", call[l].generation)
      BY <1>1, <1>2, <1>5, <2>1, <2>2, <2>3, AloneSteps
    <2>5. Connected => Holds(l)'
      BY <1>1, <1>2, <2>1, <2>3
      DEF IInv, Releases, Holds, Current, Leased, Refusals, Changed
    <2>6. Connected =>
            /\ known.attached
            /\ \A k \in Leases : Holds(k) /\ k # l =>
                 call[k].pc = "detachment" /\ call[k].waits = l
      BY <1>1, <1>8 DEF JInv, SoleRelease
    <2>7. Connected => \A m \in Leases :
            m # l => Yields(l, pc, None, "waiting", m)
      BY <1>2, <2>6
      DEF IInv, Releases, Holds, Releasing, Refusals, Yields
    <2>8. Ordered'
      BY <1>2, <2>4, StepKeepsOrdered
    <2>9. SoleRelease'
      BY <1>1, <2>1, <2>2, <2>4, <2>6, <2>7, StepKeepsSoleRelease DEF JInv
    <2>10. Repairs'
      <3>1. Connected /\ book.cleanup => Early(l)'
        BY <1>6, <2>1, <2>3 DEF Early, Leased, Changed, Refusals
      <3> QED
        BY <1>1, <1>4, <2>1, <2>2, <2>4, <3>1, StepKeepsRepairs DEF JInv
    <2>11. Creation'
      BY <1>1, <1>2, <2>1, <2>2, <2>4, StepKeepsCreation DEF JInv
    <2>12. Copy'
      BY <1>1, <2>1, <2>2, <2>4, <2>5, LeasesAssumption, StepKeepsCopy
      DEF JInv
    <2> QED
      BY <2>8, <2>9, <2>10, <2>11, <2>12 DEF JInv
  <1> QED
    BY <1>7, <1>8

\* The repair is left to the next acquisition, and only the early have a lease.
LEMMA RelinquishRepairs ==
    ASSUME JInv, NEW l \in Leases, call[l].pc = "disposeRefused",
           NEW g, Changed(l, "over", None, "waiting", g),
           UNCHANGED connection, book'.generation = book.generation,
           book'.cleanup
    PROVE  Repairs'
  <1>1. \A k \in Leases : k # l => /\ call'[k] = call[k]
                                   /\ Holds(k)' <=> Holds(k)
                                   /\ Early(k)' <=> Early(k)
    BY HoldsElsewhere DEF Changed, Early, Leased
  <1>2. /\ call'[l].pc = "over" /\ ~Holds(l)'
        /\ Connected' = Connected
    BY DEF Changed, Holds, Acquiring, Current, Leased, Connected
  <1>3. ASSUME Connected, NEW k \in Leases, Holds(k)'
        PROVE  \/ call'[k].pc = "detachment"
               \/ call'[k].pc = "reconciliation"
                  /\ call'[k].outcome = "waiting"
               \/ Early(k)'
    BY <1>1, <1>2, <1>3 DEF JInv, SoleRelease
  <1>4. ASSUME Connected, NEW k \in Leases,
               call'[k].pc = "reconciliation"
        PROVE  call'[k].outcome = "waiting"
    <2>1. Holds(k)' /\ ~Early(k)'
      BY <1>4 DEF Holds, Acquiring, Early, Leased
    <2> QED
      BY <1>3, <1>4, <2>1
  <1> QED
    BY <1>2, <1>3, <1>4 DEF Repairs

LEMMA ReleaseFailsOrdered ==
    ASSUME JInv, IInv', NEW l \in Leases, ReleaseFails(l)
    PROVE  JInv'
  <1> DEFINE relinquishes == call[l].pc = "disposeRefused" /\ Current(l)
  <1>1. /\ call[l].pc \in Refusals /\ Turn
        /\ Goes(l, IF call[l].pc = "disposeRefused" \/ ~Current(l)
                   THEN "over" ELSE "active")
        /\ book' = IF relinquishes THEN Relinquished(book, l) ELSE book
        /\ UNCHANGED <<connection, known, promise, pending, server>>
    BY DEF ReleaseFails, Refused, Refusals
  <1>2. /\ Awake(l) /\ ~Acquiring(l) /\ IInv /\ Ordered /\ server.exists
        /\ \A kind \in Kinds : ~Owns(l, kind)
        /\ book \in Books
    BY <1>1 DEF Awake, Busy, Acquiring, JInv, Creation, Kinds, Owns, Makers,
                Releasing, Refusals, IInv, TypedCalls
  <1>3. Without(l, promise) /\ ~Owns(l, "reconciliation")
    BY <1>2, WithoutNone DEF Kinds
  <1>4. Connected =>
          Current(l) /\ Holds(l) /\ (book.cleanup => Early(l))
    BY <1>1, <1>2
    DEF IInv, Releases, Holds, JInv, Repairs, Refusals
  <1>5. CASE relinquishes
    <2>1. Goes(l, "over") /\ book' = Relinquished(book, l)
      BY <1>1, <1>5
    <2>2. book'.generation = book.generation /\ book'.cleanup
      BY <1>2, <2>1 DEF Relinquished, Released, Books
    <2>3. "over" \in Pcs
      BY DEF Pcs
    <2>4. Changed(l, "over", None, "waiting", call[l].generation)
      BY <1>2, <2>1, <2>3, GoesChanges DEF IInv
    <2>5. Repairs'
      BY <1>1, <1>5, <2>2, <2>4, RelinquishRepairs
    <2>6. OverWell(l)
      BY <1>2, <1>5, <2>2 DEF OverWell
    <2> QED
      BY <1>1, <1>2, <1>3, <2>1, <2>2, <2>5, <2>6, OverKeeps
  <1>6. CASE ~Current(l)
    <2>1. Goes(l, "over") /\ book' = book /\ ~Connected
      BY <1>1, <1>4, <1>6
    <2>2. Repairs'
      BY <1>1, <1>2, <1>3, <2>1, OverRepairs
    <2>3. OverWell(l)
      BY <1>2, <2>1 DEF OverWell
    <2> QED
      BY <1>1, <1>2, <1>3, <2>1, <2>2, <2>3, OverKeeps
  <1>7. CASE ~relinquishes /\ Current(l)
    <2>1. Goes(l, "active") /\ book' = book
      BY <1>1, <1>7
    <2>2. Connected
      BY <1>2, <1>7 DEF IInv, Offline
    <2>3. "active" \in Pcs \ Busy /\ "active" # "idle"
      BY DEF Pcs, Busy, Kinds, Releasing
    <2>4. Changed(l, "active", None, "waiting", call[l].generation)
      BY <1>2, <2>1, <2>3, GoesChanges DEF IInv
    <2>5. Step(l, "active", None, "waiting", call[l].generation)
      BY <1>1, <1>2, <1>3, <2>3, <2>4, AloneSteps
    <2>6. Holds(l)'
      BY <1>7, <2>1, <2>4 DEF Changed, Holds, Current, Leased
    <2>7. ASSUME NEW m \in Leases, m # l
          PROVE  /\ call[m].pc \notin Releasing
                 /\ call[m].pc = "disposeRefused" => Early(l)
      <3>1. call[m].pc \notin Releasing
        BY <1>2, <1>4, <2>2, <2>7, NobodyReleases DEF JInv
      <3>2. call[l].pc \notin {"detachment", "reconciliation"}
        BY <1>1 DEF Refusals
      <3> QED
        BY <1>4, <2>2, <2>7, <3>1, <3>2 DEF JInv, SoleRelease
    <2>8. call[l].pc # "reconciliation"
      BY <1>1 DEF Refusals
    <2>9. Early(l) => Early(l)'
      BY <2>4 DEF Early, Leased, Changed
    <2> QED
      BY <1>1, <1>2, <1>4, <2>1, <2>5, <2>6, <2>7, <2>8, <2>9, ActiveKeeps
  <1> QED
    BY <1>5, <1>6, <1>7
-----------------------------------------------------------------------------
(* What the calls know when a message arrives *)

LEMMA AnswersKeepOrdered ==
    ASSUME IInv, Ordered, NEW L, NEW outcome \in {"ok", "failed"},
           Answers(L, outcome), chunk' => Quiet \/ chunk
    PROVE  Ordered'
  <1>1. \A k \in Leases :
          /\ call'[k].pc = call[k].pc /\ call'[k].waits = call[k].waits
          /\ call'[k].outcome =
               IF call[k].waits \in L /\ call[k].outcome = "waiting"
               THEN outcome ELSE call[k].outcome
          /\ pending'[k] = IF k \in L THEN "none" ELSE pending[k]
    BY DEF Answers
  <1>2. \A k \in Leases : \A kind : Owns(k, kind)' <=> Owns(k, kind)
    BY <1>1 DEF Owns
  <1>3. Unanswered'
    BY <1>1 DEF Ordered, Unanswered
  <1>4. Makings'
    BY <1>1, <1>2 DEF Ordered, Makings, Answers
  <1>5. Followers'
    <2> SUFFICES ASSUME NEW j \in Leases, NEW k \in Leases,
                        call[j].waits = k, k # j
                 PROVE  /\ Owns(k, call[j].pc) =>
                             call'[j].outcome = call'[k].outcome
                        /\ call'[j].outcome = "waiting" \/ chunk' =>
                             Owns(k, call[j].pc)
                        /\ call[j].pc # "detachment" =>
                             Ahead(call[j].pc, call[k].pc)
      BY <1>1, <1>2 DEF Followers, Owns
    <2>1. /\ Owns(k, call[j].pc) => call[j].outcome = call[k].outcome
          /\ call[j].outcome = "waiting" \/ chunk => Owns(k, call[j].pc)
          /\ call[j].pc # "detachment" => Ahead(call[j].pc, call[k].pc)
      BY DEF Ordered, Followers
    <2>2. Owns(k, call[j].pc) => call[k].waits = k
      BY DEF Owns
    <2>3. call'[j].outcome = "waiting" => call[j].outcome = "waiting"
      BY <1>1
    <2>4. Quiet => call[j].outcome = "waiting"
      BY LeasesAssumption DEF Quiet, Resumed
    <2> QED
      BY <1>1, <2>1, <2>2, <2>3, <2>4
  <1>6. Chunk'
    BY <1>1 DEF Ordered, Chunk, Refused, Quiet
  <1> QED
    BY <1>3, <1>4, <1>5, <1>6 DEF Ordered

LEMMA UnchangedAnswers ==
    ASSUME IInv, UNCHANGED <<call, pending, promise>>
    PROVE  Answers({}, "ok")
  BY DEF Answers

\* No dispose that failed is left to be marked when a message arrives.
LEMMA NobodyRefused ==
    ASSUME Ordered, Quiet \/ chunk, NEW m \in Leases
    PROVE  call[m].pc # "disposeRefused"
  BY DEF Ordered, Chunk, Quiet, Refused

\* Everybody awaits what is still awaited by the call that sent it.
LEMMA Told ==
    ASSUME IInv, Ordered, Quiet \/ chunk, NEW m \in Leases,
           call[m].pc \in {"attachment", "reconciliation"}
    PROVE  /\ call[m].waits \in Leases
           /\ Owns(call[m].waits, call[m].pc)
           /\ call[call[m].waits].outcome = call[m].outcome
  <1>1. call[m].waits \in Leases
    BY CallTyped DEF IInv, Suspended, Busy, Kinds
  <1>2. CASE call[m].waits = m
    BY <1>1, <1>2 DEF Owns, Makers
  <1>3. CASE call[m].waits # m
    <2>1. Quiet => call[m].outcome = "waiting"
      BY <1>1, LeasesAssumption DEF Quiet, Resumed
    <2>2. Owns(call[m].waits, call[m].pc)
      BY <1>1, <1>3, <2>1 DEF Ordered, Followers
    <2> QED
      BY <1>1, <1>3, <2>2 DEF Ordered, Followers
  <1> QED
    BY <1>2, <1>3

LEMMA Asked ==
    ASSUME IInv, Ordered, NEW l \in Leases, pending[l] # "none"
    PROVE  /\ Connected /\ call[l].waits = l /\ call[l].outcome = "waiting"
           /\ pending[l] = "attach" => call[l].pc = "attachment"
           /\ pending[l] = "create" => call[l].pc = "creating"
           /\ pending[l] = "detach" =>
                call[l].pc \in Releasing \cup {"reconciliation"}
           /\ pending[l] \in {"attach", "create", "detach"}
  <1>1. /\ call[l].waits = l /\ call[l].outcome = "waiting"
        /\ pending[l] = Command(call[l].pc)
    BY DEF Ordered, Unanswered
  <1>2. Connected
    BY DEF IInv, Offline
  <1>3. call[l].pc \in Busy /\ call[l].pc # "detachment"
    BY <1>1, LeasesAssumption DEF IInv, Suspended, Ordered, Makings
  <1> QED
    BY <1>1, <1>2, <1>3 DEF Command, Busy, Kinds

LEMMA AttachAsked ==
    ASSUME JInv, NEW l \in Leases, pending[l] = "attach"
    PROVE  /\ Owns(l, "attachment") /\ Holds(l) /\ ~book.cleanup
           /\ server.exists
           /\ \A m \in Leases :
                /\ call[m].pc \notin Releasing \cup {"disposeRefused"}
                /\ pending[m] # "detach"
                /\ pending[m] = "attach" => m = l
                /\ Quiet \/ chunk =>
                     /\ call[m].pc # "reconciliation"
                     /\ call[m].pc = "attachment" =>
                          call[m].outcome = "waiting"
  <1>1. IInv /\ Ordered /\ Connected /\ "attachment" \in Kinds
        /\ call[l].pc = "attachment" /\ call[l].waits = l
        /\ call[l].outcome = "waiting"
    BY Asked DEF JInv, Kinds
  <1>2. Owns(l, "attachment") /\ Holds(l)
    BY <1>1 DEF Owns, Makers, Holds, Acquiring
  <1>3. ~book.cleanup /\ server.exists
    BY <1>1, <1>2 DEF JInv, Repairs, Creation, Early, Leased
  <1>4. ASSUME NEW m \in Leases
        PROVE  call[m].pc \notin Releasing \cup {"disposeRefused"}
    BY <1>1, <1>2 DEF JInv, SoleRelease, Releasing, Early, Leased
  <1>5. ASSUME NEW m \in Leases
        PROVE  pending[m] # "detach"
    <2>1. SUFFICES ASSUME pending[m] = "detach" PROVE FALSE
      OBVIOUS
    <2>2. /\ call[m].pc = "reconciliation" /\ call[m].outcome = "waiting"
      BY <1>1, <1>4, <2>1, Asked
    <2> QED
      BY <1>1, <1>3, <2>2 DEF JInv, Repairs
  <1>6. ASSUME NEW m \in Leases, Owns(m, "attachment")
        PROVE  m = l
    BY <1>1, <1>2, <1>6 DEF Ordered, Makings
  <1>7. ASSUME NEW m \in Leases, pending[m] = "attach"
        PROVE  m = l
    <2>1. Owns(m, "attachment")
      BY <1>1, <1>7, Asked DEF Owns, Makers
    <2> QED
      BY <1>6, <2>1
  <1>8. ASSUME NEW m \in Leases, Quiet \/ chunk
        PROVE  /\ call[m].pc # "reconciliation"
               /\ call[m].pc = "attachment" => call[m].outcome = "waiting"
    <2>1. ASSUME call[m].pc = "reconciliation"
          PROVE  FALSE
      <3>1. Owns(call[m].waits, "reconciliation")
        BY <1>1, <1>8, <2>1, Told
      <3> QED
        BY <1>1, <1>3, <2>1, <3>1 DEF JInv, Repairs
    <2>2. ASSUME call[m].pc = "attachment"
          PROVE  call[m].outcome = "waiting"
      <3>1. /\ call[m].waits \in Leases /\ Owns(call[m].waits, "attachment")
            /\ call[call[m].waits].outcome = call[m].outcome
        BY <1>1, <1>8, <2>2, Told
      <3> QED
        BY <1>1, <1>6, <3>1
    <2> QED
      BY <2>1, <2>2
  <1> QED
    BY <1>2, <1>3, <1>4, <1>5, <1>7, <1>8

LEMMA DetachAsked ==
    ASSUME JInv, NEW l \in Leases, pending[l] = "detach"
    PROVE  /\ Connected /\ server.exists
           /\ call[l].pc \in Releasing \cup {"reconciliation"}
           /\ \A m \in Leases :
                /\ pending[m] # "attach"
                /\ pending[m] = "detach" => m = l
           /\ Quiet \/ chunk => \A m \in Leases :
                call[m].pc = "creating" => call[m].outcome # "ok"
  <1>1. /\ IInv /\ Ordered /\ Connected /\ call[l].waits = l
        /\ call[l].pc \in Releasing \cup {"reconciliation"}
    BY Asked DEF JInv
  <1>2. server.exists
    BY <1>1 DEF JInv, Creation, Releasing
  <1>3. \A m \in Leases : pending[m] # "attach"
    BY AttachAsked
  <1>4. ASSUME NEW m \in Leases, pending[m] = "detach"
        PROVE  m = l
    <2>1. /\ call[m].waits = m
          /\ call[m].pc \in Releasing \cup {"reconciliation"}
      BY <1>1, <1>4, Asked
    <2>2. ASSUME NEW a \in Leases, NEW b \in Leases, a # b,
                 call[a].pc \in Releasing, call[b].pc = "reconciliation"
          PROVE  FALSE
      BY <1>1, <2>2 DEF JInv, SoleRelease, Holds, Acquiring
    <2>3. ASSUME NEW kind \in Kinds, Owns(l, kind), Owns(m, kind)
          PROVE  m = l
      BY <1>1, <2>3 DEF Ordered, Makings
    <2>4. /\ "detachment" \in Kinds /\ "reconciliation" \in Kinds
          /\ Makers("detachment") = Releasing
          /\ Makers("reconciliation") = {"reconciliation"}
      BY DEF Kinds, Makers
    <2> QED
      BY <1>1, <2>1, <2>2, <2>3, <2>4 DEF Owns
  <1>5. ASSUME Quiet \/ chunk, NEW m \in Leases,
               call[m].pc = "creating", call[m].outcome = "ok"
        PROVE  FALSE
    <2>1. chunk
      BY <1>1, <1>5, LeasesAssumption
      DEF Quiet, Resumed, IInv, Suspended, Busy
    <2> QED
      BY <1>1, <1>5, <2>1 DEF JInv, Creation, Releasing
  <1> QED
    BY <1>1, <1>2, <1>3, <1>4, <1>5
-----------------------------------------------------------------------------
(* Messages *)

LEMMA AnswersHold ==
    ASSUME NEW L, NEW outcome, Answers(L, outcome),
           book'.generation = book.generation
    PROVE  \A k \in Leases : /\ Holds(k)' <=> Holds(k)
                             /\ Early(k)' <=> Early(k)
  BY DEF Answers, Holds, Acquiring, Current, Leased, Early

LEMMA AppliedNewer ==
    ASSUME TypedWorld, NEW r \in Revisions,
           \/ known.snapshot = None
           \/ known.snapshot.revision <= server.revision
    PROVE  /\ Applied(known, Sent(r)) = [attached |-> TRUE,
                                         snapshot |-> Sent(r)]
           /\ Sent(r).revision = r /\ server.revision <= r
  <1>1. /\ server.revision \in Nat /\ r \in Nat /\ server.revision <= r
        /\ Sent(r).revision = r
    BY BoundsAssumption DEF Revisions, TypedWorld, Servers, Sent
  <1>2. known.snapshot # None => known.snapshot.revision \in Nat
    BY DEF TypedWorld, Copies, Snapshots
  <1> QED
    BY <1>1, <1>2 DEF Applied

\* While a request is awaited nobody who made a session is told of it.
LEMMA NobodyCreated ==
    ASSUME JInv, Quiet \/ chunk, NEW m \in Leases,
           call[m].pc = "creating", call[m].outcome = "ok"
    PROVE  /\ ~book.cleanup
           /\ \A k \in Leases : call[k].pc \in {"idle", "creating", "over"}
  <1>1. chunk
    BY LeasesAssumption
    DEF Quiet, Resumed, JInv, IInv, Suspended, Busy
  <1> QED
    BY <1>1 DEF JInv, Creation

\* An answer that attaches the session finds nobody detaching it.
LEMMA AttachAnsweredOrdered ==
    ASSUME JInv, NEW l \in Leases, AttachAnswered(l)
    PROVE  SoleRelease' /\ Repairs' /\ Creation' /\ Copy'
  <1>1. /\ \/ pending[l] = "attach"
           \/ pending[l] = "create" /\ ~server.exists
        /\ Connected /\ (Quiet \/ chunk)
        /\ book' = book /\ connection' = connection
        /\ Settle({l}, "ok")
    BY DEF AttachAnswered, Received, Message
  <1>2. PICK r \in Revisions :
          /\ server' = [AtServer(TRUE, FALSE) EXCEPT !.revision = r,
                                                     !.exists = TRUE]
          /\ known' = Applied(known, Sent(r))
    BY DEF AttachAnswered
  <1>3. /\ IInv /\ Ordered /\ TypedWorld /\ {l} \in SUBSET Leases
        /\ server \in Servers
    BY DEF JInv, IInv, TypedWorld
  <1>4. Answers({l}, "ok")
    BY <1>1, <1>3, SettleAnswers DEF IInv
  <1>5. /\ \A k \in Leases :
             /\ call'[k].pc = call[k].pc /\ call'[k].waits = call[k].waits
             /\ call'[k].mode = call[k].mode
             /\ call'[k].outcome =
                  IF call[k].waits = l /\ call[k].outcome = "waiting"
                  THEN "ok" ELSE call[k].outcome
             /\ pending'[k] = IF k = l THEN "none" ELSE pending[k]
        /\ \A k \in Leases : Holds(k)' <=> Holds(k)
        /\ Connected'
    BY <1>1, <1>4, AnswersHold DEF Answers, Connected
  <1>6. /\ ~book.cleanup
        /\ \/ known.snapshot = None
           \/ known.snapshot.revision <= server.revision
        /\ \A m \in Leases :
             /\ call[m].pc \notin Releasing
             /\ call[m].pc \notin {"disposeRefused", "reconciliation"}
             /\ call[m].pc = "attachment" => call[m].outcome = "waiting"
             /\ pending[m] = "attach" => m = l
             /\ pending[l] = "create" =>
                  call[m].pc \in {"idle", "creating", "over"}
             /\ call[m].pc = "creating" /\ call[m].outcome = "ok" => FALSE
    <2>1. CASE pending[l] = "attach"
      <3>1. call[l].pc = "attachment"
        BY <1>3, <2>1, Asked
      <3>2. \/ known.snapshot = None
            \/ known.snapshot.revision <= server.revision
        BY <2>1 DEF JInv, Copy
      <3>3. \A m \in Leases :
              ~(call[m].pc = "creating" /\ call[m].outcome = "ok")
        BY <1>1, <3>1, NobodyCreated
      <3> QED
        BY <1>1, <2>1, <3>2, <3>3, AttachAsked
    <2>2. CASE pending[l] = "create" /\ ~server.exists
      <3>1. /\ known.snapshot = None /\ ~book.cleanup
            /\ \A m \in Leases :
                 /\ call[m].pc \in {"idle", "creating", "over"}
                 /\ call[m].outcome # "ok"
        BY <2>2 DEF JInv, Creation
      <3>2. \A m \in Leases : pending[m] # "attach"
        BY <2>2, AttachAsked
      <3> QED
        BY <3>1, <3>2 DEF Releasing
    <2> QED
      BY <1>1, <2>1, <2>2
  <1>7. /\ server'.attached /\ ~server'.unsure /\ server'.exists
        /\ server'.revision = r /\ server'.runtime = server.runtime
    BY <1>2, <1>3 DEF Servers, AtServer
  <1>8. /\ known'.attached /\ known'.snapshot = Sent(r)
        /\ Sent(r).revision = r /\ Sent(server.revision)' = Sent(r)
    <2>1. /\ known' = [attached |-> TRUE, snapshot |-> Sent(r)]
          /\ Sent(r).revision = r
      BY <1>2, <1>3, <1>6, AppliedNewer
    <2>2. Sent(server.revision)' = Sent(r)
      BY <1>7 DEF Sent
    <2> QED
      BY <2>1, <2>2
  <1>9. SoleRelease'
    BY <1>5, <1>6 DEF SoleRelease
  <1>10. Repairs'
    BY <1>1, <1>5, <1>6 DEF Repairs
  <1>11. Creation'
    <2>1. ASSUME NEW m \in Leases,
                 call'[m].pc = "creating", call'[m].outcome = "ok"
          PROVE  pending[l] = "create"
      <3>1. m = l
        BY <1>3, <1>5, <1>6, <2>1 DEF Ordered, Makings
      <3> QED
        BY <1>1, <1>3, <1>5, <2>1, <3>1, Asked
    <2>2. \A m \in Leases :
            call'[m].pc = "creating" => call'[m].mode = "create"
      BY <1>5 DEF JInv, Creation
    <2> QED
      BY <1>1, <1>5, <1>6, <1>7, <2>1, <2>2 DEF Creation
  <1>12. Copy'
    <2>1. \/ \E k \in Leases : Holds(k)'
          \/ \E k \in Leases :
               call'[k].pc = "creating" /\ call'[k].outcome = "ok"
      <3>1. CASE pending[l] = "attach"
        BY <1>5, <3>1, AttachAsked
      <3>2. CASE pending[l] = "create"
        BY <1>3, <1>5, <3>2, Asked
      <3> QED
        BY <1>1, <3>1, <3>2
    <2>2. \A k \in Leases : pending'[k] # "attach"
      BY <1>5, <1>6
    <2>3. \A k \in Leases :
            call'[k].pc = "attachment" => call'[k].outcome # "failed"
      BY <1>5, <1>6
    <2> QED
      BY <1>5, <1>7, <1>8, <2>1, <2>2, <2>3 DEF Copy
  <1> QED
    BY <1>9, <1>10, <1>11, <1>12

LEMMA DetachAnsweredOrdered ==
    ASSUME JInv, NEW l \in Leases, DetachAnswered(l)
    PROVE  SoleRelease' /\ Repairs' /\ Creation' /\ Copy'
  <1>1. /\ pending[l] = "detach" /\ (Quiet \/ chunk)
        /\ server' = AtServer(FALSE, FALSE)
        /\ known' = [known EXCEPT !.attached = FALSE]
        /\ book' = book /\ connection' = connection
        /\ Settle({l}, "ok")
    BY DEF DetachAnswered, Received, Message
  <1>2. /\ IInv /\ Ordered /\ {l} \in SUBSET Leases
        /\ server \in Servers /\ known \in Copies
    BY DEF JInv, IInv, TypedWorld
  <1>3. Answers({l}, "ok")
    BY <1>1, <1>2, SettleAnswers DEF IInv
  <1>4. /\ Connected /\ server.exists
        /\ call[l].pc \in Releasing \cup {"reconciliation"}
        /\ call[l].waits = l
        /\ \A m \in Leases : pending[m] # "attach"
        /\ \A m \in Leases :
             call[m].pc = "creating" => call[m].outcome # "ok"
    BY <1>1, <1>2, Asked, DetachAsked
  <1>5. /\ \A k \in Leases :
             /\ call'[k].pc = call[k].pc /\ call'[k].waits = call[k].waits
             /\ call'[k].mode = call[k].mode
             /\ call'[k].outcome =
                  IF call[k].waits = l /\ call[k].outcome = "waiting"
                  THEN "ok" ELSE call[k].outcome
             /\ pending'[k] = IF k = l THEN "none" ELSE pending[k]
        /\ \A k \in Leases : /\ Holds(k)' <=> Holds(k)
                             /\ Early(k)' <=> Early(k)
        /\ Connected'
    <2>1. \A k \in Leases : /\ Holds(k)' <=> Holds(k)
                            /\ Early(k)' <=> Early(k)
      BY <1>1, <1>3, AnswersHold
    <2>2. Connected'
      BY <1>1, <1>4 DEF Connected
    <2> QED
      BY <1>3, <2>1, <2>2 DEF Answers
  <1>6. /\ server'.attached = FALSE /\ known'.attached = FALSE
        /\ server'.exists = server.exists
        /\ known'.snapshot = known.snapshot
    BY <1>1, <1>2 DEF Servers, Copies, AtServer
  <1>7. SoleRelease'
    <2>1. \A m \in Leases : call'[m].pc # "disposeRefused"
      BY <1>1, <1>2, <1>5, NobodyRefused
    <2>2. ASSUME NEW m \in Leases, call'[m].pc \in Releasing
          PROVE  /\ \A k \in Leases : Holds(k)' /\ k # m =>
                      call'[k].pc = "detachment" /\ call'[k].waits = m
                 /\ m = l
      <3>1. \A k \in Leases : Holds(k) /\ k # m =>
              call[k].pc = "detachment" /\ call[k].waits = m
        BY <1>4, <1>5, <2>2 DEF JInv, SoleRelease
      <3>2. Holds(l) /\ call[l].pc # "detachment"
        BY <1>2, <1>4
        DEF IInv, Releases, Holds, Acquiring, Releasing, Refusals
      <3> QED
        BY <1>5, <3>1, <3>2
    <2>3. call'[l].outcome = "ok"
      BY <1>1, <1>2, <1>5, Asked
    <2> QED
      BY <1>6, <2>1, <2>2, <2>3 DEF SoleRelease
  <1>8. ASSUME NEW m \in Leases, call[m].pc = "reconciliation"
        PROVE  /\ book.cleanup <=>
                    (call'[m].outcome # "ok"
                     \/ Owns(call[m].waits, "reconciliation"))
               /\ call'[m].waits = m /\ call'[m].outcome = "ok" =>
                    \A k \in Leases :
                      call'[k].pc = "reconciliation" => call'[k].waits = m
    <2>1. /\ call[m].waits \in Leases
          /\ Owns(call[m].waits, "reconciliation")
      BY <1>1, <1>2, <1>8, Told
    <2>2. book.cleanup
      BY <1>4, <1>8, <2>1 DEF JInv, Repairs
    <2>3. ASSUME NEW k \in Leases, call[k].pc = "reconciliation"
          PROVE  call[k].waits = call[m].waits
      <3>1. /\ call[k].waits \in Leases
            /\ Owns(call[k].waits, "reconciliation")
        BY <1>1, <1>2, <2>3, Told
      <3> QED
        BY <1>2, <2>1, <3>1 DEF Ordered, Makings, Kinds
    <2> QED
      BY <1>5, <2>1, <2>2, <2>3
  <1>9. Repairs'
    <2>1. book'.cleanup => \A k \in Leases : Holds(k)' =>
            call'[k].pc \in {"detachment", "reconciliation"} \/ Early(k)'
      BY <1>1, <1>4, <1>5 DEF JInv, Repairs
    <2>2. ASSUME NEW m \in Leases, call'[m].pc = "reconciliation"
          PROVE  /\ book'.cleanup <=>
                      (call'[m].outcome # "ok"
                       \/ Owns(call[m].waits, "reconciliation")')
                 /\ call'[m].outcome = "ok" =>
                      ~server'.attached /\ ~known'.attached
                 /\ call'[m].waits = m /\ call'[m].outcome = "ok" =>
                      \A k \in Leases :
                        call'[k].pc = "reconciliation" =>
                          call'[k].waits = m
      <3>1. call[m].pc = "reconciliation"
        BY <1>5, <2>2
      <3>2. call[m].waits \in Leases
        BY <1>1, <1>2, <3>1, Told
      <3>3. Owns(call[m].waits, "reconciliation")'
              <=> Owns(call[m].waits, "reconciliation")
        BY <1>5, <3>2 DEF Owns
      <3> QED
        BY <1>1, <1>5, <1>6, <1>8, <3>1, <3>3
    <2> QED
      BY <2>1, <2>2 DEF Repairs
  <1>10. Creation'
    <2>1. \A m \in Leases :
            call'[m].pc = "creating" => call'[m].outcome # "ok"
      BY <1>2, <1>4, <1>5 DEF Ordered, Makings, Releasing
    <2> QED
      BY <1>4, <1>5, <1>6, <2>1 DEF JInv, Creation
  <1>11. Copy'
    <2>1. \A k \in Leases : pending'[k] # "attach"
      BY <1>4, <1>5
    <2> QED
      BY <1>5, <1>6, <2>1 DEF Copy
  <1> QED
    BY <1>7, <1>9, <1>10, <1>11

LEMMA RequestRefusedOrdered ==
    ASSUME JInv, NEW l \in Leases, RequestRefused(l)
    PROVE  SoleRelease' /\ Repairs' /\ Creation' /\ Copy'
  <1>1. /\ pending[l] # "none" /\ (Quiet \/ chunk)
        /\ known' = known /\ book' = book /\ connection' = connection
        /\ Settle({l}, "failed")
    BY DEF RequestRefused, Received, Message
  <1>2. /\ IInv /\ Ordered /\ {l} \in SUBSET Leases /\ server \in Servers
    BY DEF JInv, IInv, TypedWorld
  <1>3. \/ server' = server /\ ~(pending[l] = "attach" /\ server.attached)
        \/ /\ pending[l] # "create"
           /\ server'.attached = (pending[l] = "attach")
           /\ server'.unsure = TRUE /\ server'.exists = server.exists
           /\ server'.revision = server.revision
    BY <1>2 DEF RequestRefused, Servers, AtServer
  <1>4. /\ Connected /\ call[l].waits = l
        /\ pending[l] \in {"attach", "create", "detach"}
        /\ pending[l] = Command(call[l].pc)
    BY <1>1, <1>2, Asked DEF Ordered, Unanswered
  <1>5. Answers({l}, "failed")
    BY <1>1, <1>2, SettleAnswers DEF IInv
  <1>6. /\ \A k \in Leases :
             /\ call'[k].pc = call[k].pc /\ call'[k].waits = call[k].waits
             /\ call'[k].mode = call[k].mode
             /\ call'[k].outcome =
                  IF call[k].waits = l /\ call[k].outcome = "waiting"
                  THEN "failed" ELSE call[k].outcome
             /\ pending'[k] = IF k = l THEN "none" ELSE pending[k]
        /\ \A k \in Leases : /\ Holds(k)' <=> Holds(k)
                             /\ Early(k)' <=> Early(k)
        /\ Connected'
    <2>1. \A k \in Leases : /\ Holds(k)' <=> Holds(k)
                            /\ Early(k)' <=> Early(k)
      BY <1>1, <1>5, AnswersHold
    <2>2. Connected'
      BY <1>1, <1>4 DEF Connected
    <2> QED
      BY <1>5, <2>1, <2>2 DEF Answers
  <1>7. server'.attached => server.attached \/ pending[l] = "attach"
    BY <1>3
  <1>8. SoleRelease'
    <2>1. ASSUME NEW m \in Leases,
                 call'[m].pc \in Releasing, call'[m].outcome = "ok"
          PROVE  ~server'.attached
      <3>1. call[m].pc \in Releasing /\ call[m].outcome = "ok"
        BY <1>6, <2>1
      <3>2. ~server.attached
        BY <1>4, <3>1 DEF JInv, SoleRelease
      <3>3. pending[l] # "attach"
        BY <3>1, AttachAsked
      <3> QED
        BY <1>7, <3>2, <3>3
    <2>2. ASSUME NEW m \in Leases, call'[m].pc \in Releasing,
                 NEW k \in Leases, Holds(k)', k # m
          PROVE  call'[k].pc = "detachment" /\ call'[k].waits = m
      BY <1>4, <1>6, <2>2 DEF JInv, SoleRelease
    <2>3. ASSUME NEW m \in Leases,
                 call'[m].pc \in Releasing, call'[m].outcome # "ok"
          PROVE  known'.attached
      BY <1>1, <1>4, <1>6, <2>3 DEF JInv, SoleRelease
    <2>4. \A m \in Leases : call'[m].pc # "disposeRefused"
      BY <1>1, <1>2, <1>6, NobodyRefused
    <2> QED
      BY <2>1, <2>2, <2>3, <2>4 DEF SoleRelease
  <1>9. Repairs'
    <2>1. book'.cleanup => \A k \in Leases : Holds(k)' =>
            call'[k].pc \in {"detachment", "reconciliation"} \/ Early(k)'
      BY <1>1, <1>4, <1>6 DEF JInv, Repairs
    <2>2. ASSUME NEW m \in Leases, call'[m].pc = "reconciliation"
          PROVE  /\ book'.cleanup <=>
                      (call'[m].outcome # "ok"
                       \/ Owns(call[m].waits, "reconciliation")')
                 /\ call'[m].outcome = "ok" =>
                      ~server'.attached /\ ~known'.attached
                 /\ call'[m].waits = m /\ call'[m].outcome = "ok" =>
                      \A k \in Leases :
                        call'[k].pc = "reconciliation" =>
                          call'[k].waits = m
      <3>1. call[m].pc = "reconciliation" /\ pending[l] # "attach"
        BY <1>1, <1>6, <2>2, AttachAsked
      <3>2. call[m].waits \in Leases
        BY <1>1, <1>2, <3>1, Told
      <3>3. Owns(call[m].waits, "reconciliation")'
              <=> Owns(call[m].waits, "reconciliation")
        BY <1>6, <3>2 DEF Owns
      <3>4. /\ book.cleanup <=>
                 (call[m].outcome # "ok"
                  \/ Owns(call[m].waits, "reconciliation"))
            /\ call[m].outcome = "ok" => ~server.attached /\ ~known.attached
            /\ call[m].waits = m /\ call[m].outcome = "ok" =>
                 \A k \in Leases :
                   call[k].pc = "reconciliation" => call[k].waits = m
        BY <1>4, <3>1 DEF JInv, Repairs
      <3> QED
        BY <1>1, <1>6, <1>7, <3>1, <3>3, <3>4
    <2> QED
      BY <2>1, <2>2 DEF Repairs
  <1>10. Creation'
    <2>1. ASSUME NEW m \in Leases,
                 call'[m].pc = "creating", call'[m].outcome = "ok"
          PROVE  /\ ~book'.cleanup
                 /\ \A k \in Leases :
                      call'[k].pc \in {"idle", "creating", "over"}
      BY <1>1, <1>6, <2>1, NobodyCreated
    <2>2. ASSUME ~server'.exists
          PROVE  /\ ~server'.attached /\ ~known'.attached
                 /\ known'.snapshot = None /\ ~book'.cleanup
                 /\ \A k \in Leases :
                      /\ call'[k].pc \in {"idle", "creating", "over"}
                      /\ call'[k].outcome # "ok"
      <3>1. ~server.exists
        BY <1>3, <2>2
      <3>2. pending[l] # "attach"
        BY <3>1, AttachAsked
      <3> QED
        BY <1>1, <1>6, <1>7, <3>1, <3>2 DEF JInv, Creation
    <2>3. \A k \in Leases :
            call'[k].pc = "creating" => call'[k].mode = "create"
      BY <1>6 DEF JInv, Creation
    <2>4. /\ "disposeRefused" \notin {"idle", "creating", "over"}
          /\ \A pc \in Releasing : pc \notin {"idle", "creating", "over"}
      BY DEF Releasing
    <2> QED
      BY <2>1, <2>2, <2>3, <2>4 DEF Creation
  <1>11. Copy'
    <2>1. ASSUME NEW k \in Leases, pending'[k] = "attach"
          PROVE  \/ known'.snapshot = None
                 \/ /\ server'.attached
                    /\ known'.snapshot.revision <= server'.revision
      <3>1. k # l /\ pending[k] = "attach"
        BY <1>6, <2>1
      <3>2. pending[l] \notin {"attach", "detach"}
        BY <3>1, AttachAsked
      <3>3. server' = server
        BY <1>3, <1>4, <3>2
      <3> QED
        BY <1>1, <3>1, <3>3 DEF JInv, Copy
    <2>2. ASSUME ~server'.unsure
          PROVE  server' = server /\ ~server.unsure
      BY <1>3, <2>2
    <2>3. ASSUME NEW m \in Leases, ~server'.unsure,
                 call'[m].pc = "attachment", call'[m].outcome = "failed"
          PROVE  ~server'.attached
      <3>1. CASE call[m].outcome = "failed"
        BY <1>4, <1>6, <2>2, <2>3, <3>1 DEF JInv, Copy
      <3>2. CASE call[m].outcome # "failed"
        <4>1. /\ call[m].waits = l /\ call[m].outcome = "waiting"
              /\ call[m].pc = "attachment"
          BY <1>6, <2>3, <3>2
        <4>2. call[l].pc = "attachment"
          BY <1>1, <1>2, <4>1, Told DEF Owns, Makers
        <4> QED
          BY <1>3, <1>4, <2>2, <2>3, <4>2 DEF Command
      <3> QED
        BY <3>1, <3>2
    <2>4. ASSUME ~server'.unsure
          PROVE  /\ known'.attached = server'.attached
                 /\ known'.attached =>
                      known'.snapshot = Sent(server.revision)'
                 /\ server'.attached =>
                      \/ book'.cleanup
                      \/ \E k \in Leases : Holds(k)'
                      \/ \E k \in Leases : /\ call'[k].pc = "creating"
                                           /\ call'[k].outcome = "ok"
      <3>1. Sent(server.revision)' = Sent(server.revision)
        BY <2>2, <2>4 DEF Sent
      <3>2. /\ known.attached = server.attached
            /\ known.attached => known.snapshot = Sent(server.revision)
            /\ server.attached =>
                 \/ book.cleanup
                 \/ \E k \in Leases : Holds(k)
                 \/ \E k \in Leases : /\ call[k].pc = "creating"
                                      /\ call[k].outcome = "ok"
        BY <1>4, <2>2, <2>4 DEF JInv, Copy
      <3> QED
        BY <1>1, <1>6, <2>2, <2>4, <3>1, <3>2
    <2> QED
      BY <1>6, <2>1, <2>3, <2>4 DEF Copy
  <1> QED
    BY <1>8, <1>9, <1>10, <1>11

\* An event finds the calls as they were.
LEMMA SnapshotEventOrdered ==
    ASSUME JInv, SnapshotEvent
    PROVE  SoleRelease' /\ Repairs' /\ Creation' /\ Copy'
  <1>1. /\ server.exists /\ Connected /\ (Quiet \/ chunk)
        /\ UNCHANGED <<connection, book, promise, call, pending>>
    BY DEF SnapshotEvent, Received, Message
  <1>2. IInv /\ Ordered /\ TypedWorld /\ server \in Servers
    BY DEF JInv, IInv, TypedWorld
  <1>3. /\ \A k \in Leases : /\ (Holds(k)' <=> Holds(k))
                             /\ (Early(k)' <=> Early(k))
        /\ Connected'
    BY <1>1 DEF Holds, Acquiring, Current, Leased, Connected, Early
  <1>4. /\ server'.exists = server.exists
        /\ server'.unsure = server.unsure
        /\ server'.attached = TRUE
        /\ \/ server.attached
           \/ \E l \in Leases : pending[l] = "attach"
    BY <1>2 DEF SnapshotEvent, Servers
  <1>5. Creation'
    BY <1>1, <1>4, NobodyCreated DEF JInv, Creation, Releasing
  <1>6. SoleRelease'
    <2>1. ASSUME NEW m \in Leases, call[m].pc \in Releasing,
                 call[m].outcome = "ok"
          PROVE  FALSE
      BY <1>1, <1>4, <2>1, AttachAsked DEF JInv, SoleRelease
    <2>2. known.attached => known'.attached
      <3>1. PICK r : known' = Applied(known, Sent(r))
        BY DEF SnapshotEvent
      <3> QED
        BY <3>1 DEF Applied
    <2> QED
      BY <1>1, <1>3, <2>1, <2>2 DEF JInv, SoleRelease
  <1>7. Repairs'
    <2>1. ASSUME NEW m \in Leases, call[m].pc = "reconciliation",
                 call[m].outcome = "ok"
          PROVE  FALSE
      BY <1>1, <1>4, <2>1, AttachAsked DEF JInv, Repairs
    <2>2. ASSUME NEW m \in Leases, call[m].pc = "reconciliation"
          PROVE  book.cleanup
      BY <1>1, <2>1, <2>2 DEF JInv, Repairs
    <2> QED
      BY <1>1, <1>3, <2>1, <2>2 DEF JInv, Repairs
  <1>8. ASSUME NEW m \in Leases, call[m].pc = "attachment",
               call[m].outcome = "failed", ~server.unsure
        PROVE  FALSE
    BY <1>1, <1>4, <1>8, AttachAsked DEF JInv, Copy
  <1>9. \/ book.cleanup \/ server.unsure
        \/ \E k \in Leases : Holds(k)
        \/ \E k \in Leases : /\ call[k].pc = "creating"
                             /\ call[k].outcome = "ok"
    BY <1>1, <1>4, AttachAsked DEF JInv, Copy
  <1>10. \/ known.snapshot = None
         \/ known.snapshot.revision <= server.revision
         \/ server.unsure /\ \A l \in Leases : pending[l] # "attach"
    <2>1. ASSUME NEW l \in Leases, pending[l] = "attach"
          PROVE  \/ known.snapshot = None
                 \/ known.snapshot.revision <= server.revision
      BY <2>1 DEF JInv, Copy
    <2>2. ASSUME server.attached, ~server.unsure
          PROVE  known.snapshot.revision <= server.revision
      <3>1. known.snapshot = Sent(server.revision)
        BY <1>1, <2>2 DEF JInv, Copy
      <3>2. server.revision \in Nat
        BY <1>2, BoundsAssumption DEF Servers
      <3> QED
        BY <3>1, <3>2 DEF Sent
    <2> QED
      BY <1>4, <2>1, <2>2
  <1>11. ASSUME \E r \in Revisions :
                  /\ server' = [server EXCEPT !.revision = r,
                                              !.attached = TRUE]
                  /\ known' = Applied(known, Sent(r))
         PROVE  Copy'
    <2>1. PICK r \in Revisions :
            /\ server' = [server EXCEPT !.revision = r, !.attached = TRUE]
            /\ known' = Applied(known, Sent(r))
      BY <1>11
    <2>2. server'.revision = r /\ server'.runtime = server.runtime
      BY <1>2, <2>1 DEF Servers
    <2>3. Sent(server.revision)' = Sent(r)
      BY <2>2 DEF Sent
    <2>4. CASE server.unsure /\ \A l \in Leases : pending[l] # "attach"
      <3>1. \A l \in Leases : pending'[l] # "attach"
        BY <1>1, <2>4
      <3>2. Connected' /\ server'.unsure
        BY <1>3, <1>4, <2>4
      <3> QED
        BY <3>1, <3>2 DEF Copy
    <2>5. CASE ~(server.unsure /\ \A l \in Leases : pending[l] # "attach")
      <3>1. /\ known' = [attached |-> TRUE, snapshot |-> Sent(r)]
            /\ Sent(r).revision = r /\ r <= r
        BY <1>2, <1>10, <2>1, <2>5, AppliedNewer
           DEF Revisions, TypedWorld, Servers
      <3>2. /\ known'.attached = TRUE
            /\ known'.snapshot = Sent(server.revision)'
            /\ known'.snapshot.revision <= server'.revision
        BY <2>2, <2>3, <3>1
      <3> QED
        BY <1>1, <1>3, <1>4, <1>8, <1>9, <3>2 DEF Copy
    <2> QED
      BY <2>4, <2>5
  <1>12. ASSUME /\ server.attached /\ server.revision > 0
                /\ known' = Applied(known, Sent(server.revision - 1))
                /\ UNCHANGED server
         PROVE  Copy'
    <2>1. /\ server.revision \in Nat /\ Sent(server.revision) # None
          /\ Sent(server.revision).revision = server.revision
          /\ Sent(server.revision - 1).revision = server.revision - 1
      <3>1. server.revision \in 0..MaxRevision
            /\ server.runtime \in 1..MaxRuntimes
        BY <1>2 DEF Servers
      <3>2. Sent(server.revision) \in Snapshots
        BY <3>1 DEF Sent, Snapshots
      <3> QED
        BY <3>1, <3>2, NoneAssumption, BoundsAssumption DEF Sent
    <2>2. \/ known' = known
          \/ known'.snapshot = Sent(server.revision - 1)
      BY <1>12 DEF Applied
    <2>3. ASSUME NEW k \in Leases, pending[k] = "attach"
          PROVE  \/ known'.snapshot = None
                 \/ known'.snapshot.revision <= server.revision
      BY <2>1, <2>2, <2>3 DEF JInv, Copy
    <2>4. ASSUME ~server.unsure
          PROVE  known' = known
      <3>1. known.snapshot = Sent(server.revision)
        BY <1>1, <1>12, <2>4 DEF JInv, Copy
      <3> QED
        BY <1>12, <2>1, <3>1 DEF Applied
    <2>5. Sent(server.revision)' = Sent(server.revision)
      BY <1>12 DEF Sent
    <2> QED
      BY <1>1, <1>3, <1>12, <2>3, <2>4, <2>5 DEF JInv, Copy
  <1>13. Copy'
    BY <1>11, <1>12 DEF SnapshotEvent
  <1> QED
    BY <1>5, <1>6, <1>7, <1>13

LEMMA MessageOrdered ==
    ASSUME JInv, IInv', ~Overtaking,
           (\E l \in Leases : Answered(l)) \/ SnapshotEvent
    PROVE  JInv'
  <1>1. ASSUME NEW l \in Leases, Answered(l)
        PROVE  JInv'
    <2>1. /\ \E outcome \in {"ok", "failed"} : Settle({l}, outcome)
          /\ chunk' => Quiet \/ chunk
      BY <1>1 DEF Answered, AttachAnswered, DetachAnswered, RequestRefused,
                  Received, Message
    <2>2. {l} \in SUBSET Leases
      OBVIOUS
    <2>3. \E outcome \in {"ok", "failed"} : Answers({l}, outcome)
      BY <2>1, <2>2, SettleAnswers DEF JInv, IInv
    <2>4. Ordered'
      BY <2>1, <2>3, AnswersKeepOrdered DEF JInv
    <2>5. SoleRelease' /\ Repairs' /\ Creation' /\ Copy'
      BY <1>1, AttachAnsweredOrdered, DetachAnsweredOrdered,
         RequestRefusedOrdered DEF Answered
    <2> QED
      BY <2>4, <2>5 DEF JInv
  <1>2. CASE SnapshotEvent
    <2>1. /\ UNCHANGED <<call, pending, promise>>
          /\ chunk' => Quiet \/ chunk
      BY <1>2 DEF SnapshotEvent, Received, Message
    <2>2. Answers({}, "ok")
      BY <2>1, UnchangedAnswers DEF JInv
    <2>3. Ordered'
      BY <2>1, <2>2, AnswersKeepOrdered DEF JInv
    <2> QED
      BY <1>2, <2>3, SnapshotEventOrdered DEF JInv
  <1> QED
    BY <1>1, <1>2

LEMMA RuntimeReplacedOrdered ==
    ASSUME JInv, IInv', RuntimeReplaced
    PROVE  JInv'
  <1>1. /\ server.exists /\ ~server.attached /\ chunk' = FALSE
        /\ UNCHANGED <<connection, known, book, promise, call, pending>>
    BY DEF RuntimeReplaced, Turn
  <1>2. IInv /\ Ordered /\ server \in Servers
    BY DEF JInv, IInv, TypedWorld
  <1>3. /\ server'.exists = server.exists
        /\ server'.attached = server.attached
        /\ server'.unsure = server.unsure
    BY <1>2 DEF RuntimeReplaced, Servers
  <1>4. /\ \A k \in Leases : /\ (Holds(k)' <=> Holds(k))
                             /\ (Early(k)' <=> Early(k))
        /\ Connected' <=> Connected
    BY <1>1 DEF Holds, Acquiring, Current, Leased, Connected, Early
  <1>5. Ordered'
    BY <1>1, <1>2, UnchangedAnswers, AnswersKeepOrdered
  <1>6. SoleRelease'
    BY <1>1, <1>3, <1>4 DEF JInv, SoleRelease
  <1>7. Repairs'
    BY <1>1, <1>3, <1>4 DEF JInv, Repairs, Owns
  <1>8. Creation'
    BY <1>1, <1>3 DEF JInv, Creation
  <1>9. Copy'
    BY <1>1, <1>3, <1>4 DEF JInv, Copy
  <1> QED
    BY <1>5, <1>6, <1>7, <1>8, <1>9 DEF JInv

LEMMA SessionRemovedOrdered ==
    ASSUME JInv, IInv', ~Overtaking, SessionRemoved
    PROVE  JInv'
  <1>1. /\ server.exists /\ Connected /\ (Quiet \/ chunk)
        /\ \A l \in Leases : ~Waiting(l)
        /\ server' = [AtServer(FALSE, FALSE) EXCEPT !.runtime = @ + 1,
                                                    !.revision = 0]
        /\ book' = Invalidated(book)
        /\ known' = [attached |-> FALSE, snapshot |-> None]
        /\ UNCHANGED <<connection, promise, call, pending>>
    BY DEF SessionRemoved, Received, Message
  <1>2. IInv /\ Ordered /\ server \in Servers
    BY DEF JInv, IInv, TypedWorld
  <1>3. /\ server'.exists = server.exists /\ server'.attached = FALSE
        /\ known'.attached = FALSE /\ known'.snapshot = None
        /\ book'.cleanup = FALSE /\ Connected'
    BY <1>1, <1>2 DEF Servers, AtServer, Invalidated, Connected
  <1>4. \A l \in Leases :
          call[l].pc \notin Releasing
            \cup {"reconciliation", "attachment", "disposeRefused"}
    BY <1>1 DEF Waiting, Acquiring, Leased, Releasing
  <1>5. Ordered'
    BY <1>1, <1>2, UnchangedAnswers, AnswersKeepOrdered
  <1>6. SoleRelease' /\ Repairs'
    BY <1>1, <1>3, <1>4 DEF SoleRelease, Repairs
  <1>7. Creation'
    BY <1>1, <1>3, <1>4, NobodyCreated DEF JInv, Creation, Releasing
  <1>8. Copy'
    BY <1>1, <1>3, <1>4 DEF Copy
  <1> QED
    BY <1>5, <1>6, <1>7, <1>8 DEF JInv
-----------------------------------------------------------------------------
(* The connection *)

LEMMA ConnectOrdered ==
    ASSUME JInv, IInv', Connect
    PROVE  JInv'
  <1>1. /\ ~Connected /\ ~Connected' /\ chunk' = FALSE
        /\ known' = [attached |-> FALSE, snapshot |-> None]
        /\ UNCHANGED <<book, promise, call, pending, server>>
    BY DEF Connect, Turn, Connected
  <1>2. IInv /\ Ordered
    BY DEF JInv
  <1>3. Ordered'
    BY <1>1, <1>2, UnchangedAnswers, AnswersKeepOrdered
  <1>4. SoleRelease' /\ Repairs'
    BY <1>1 DEF SoleRelease, Repairs
  <1>5. Creation'
    BY <1>1 DEF JInv, Creation
  <1>6. Copy'
    BY <1>1 DEF JInv, Copy
  <1> QED
    BY <1>3, <1>4, <1>5, <1>6 DEF JInv

LEMMA HelloOrdered ==
    ASSUME JInv, IInv', Hello
    PROVE  JInv'
  <1>1. /\ connection.state = "connecting" /\ (Quiet \/ chunk)
        /\ UNCHANGED <<known, book, promise, call, pending, server>>
    BY DEF Hello, Message
  <1>2. IInv /\ Ordered /\ ~Connected
    BY <1>1 DEF JInv, Connected
  <1>3. Quiet
    BY <1>1, <1>2 DEF IInv, Chunks
  <1>4. \A l \in Leases : ~Holds(l) /\ call[l].pc \notin Busy
    BY <1>2, <1>3, OfflineNobodyHolds
  <1>5. /\ known.attached = FALSE /\ server.attached = FALSE
        /\ \A l \in Leases : pending[l] = "none"
    BY <1>2 DEF IInv, TypedWorld, Copies, Servers, Offline, JInv, Copy
  <1>6. \A l \in Leases :
          /\ ~Holds(l)'
          /\ call[l].pc \notin Releasing
               \cup {"reconciliation", "attachment", "creating",
                     "disposeRefused"}
    BY <1>1, <1>3, <1>4
    DEF Holds, Acquiring, Current, Leased, Busy, Kinds, Quiet, Refused
  <1>7. Ordered'
    BY <1>1, <1>2, UnchangedAnswers, AnswersKeepOrdered
  <1>8. SoleRelease' /\ Repairs'
    BY <1>1, <1>6 DEF SoleRelease, Repairs
  <1>9. Creation'
    BY <1>1, <1>6 DEF JInv, Creation
  <1>10. Copy'
    BY <1>1, <1>5, <1>6 DEF Copy
  <1> QED
    BY <1>7, <1>8, <1>9, <1>10 DEF JInv

LEMMA DisconnectOrdered ==
    ASSUME JInv, IInv', ~Overtaking, Disconnect \/ Dispose
    PROVE  JInv'
  <1> DEFINE L == {l \in Leases : pending[l] # "none"}
  <1>1. /\ \A l \in Leases : ~Granting(l)
        /\ connection' = [connection EXCEPT !.state = "disconnected"]
        /\ book' = AllInvalidated(book) /\ Settle(L, "failed")
        /\ server' = AtServer(FALSE, FALSE) /\ chunk' = FALSE
        /\ \/ known' = [known EXCEPT !.attached = FALSE]
           \/ known' = [attached |-> FALSE, snapshot |-> None]
    BY DEF Disconnect, ConnectionLost, Dispose, Turn
  <1>2. /\ IInv /\ Ordered /\ server \in Servers /\ known \in Copies
        /\ book \in Books /\ connection \in Connections
    BY DEF JInv, IInv, TypedWorld, TypedCalls
  <1>3. /\ server'.exists = server.exists /\ server'.attached = FALSE
        /\ known'.attached = FALSE
        /\ known.snapshot = None => known'.snapshot = None
        /\ book'.cleanup = FALSE /\ ~Connected'
    <2>1. server'.exists = server.exists /\ server'.attached = FALSE
      BY <1>1, <1>2 DEF Servers, AtServer
    <2>2. /\ known'.attached = FALSE
          /\ known.snapshot = None => known'.snapshot = None
      BY <1>1, <1>2 DEF Copies
    <2>3. book'.cleanup = FALSE
      BY <1>1, <1>2 DEF Books, AllInvalidated, Invalidated
    <2>4. ~Connected'
      BY <1>1, <1>2 DEF Connections, Connected
    <2> QED
      BY <2>1, <2>2, <2>3, <2>4
  <1>4. L \in SUBSET Leases
    OBVIOUS
  <1>5. Answers(L, "failed")
    BY <1>1, <1>2, <1>4, SettleAnswers DEF IInv
  <1>6. \A k \in Leases : pending'[k] # "attach"
    BY <1>5 DEF Answers
  <1>7. Ordered'
    <2> HIDE DEF L
    <2> QED
      BY <1>1, <1>2, <1>5, AnswersKeepOrdered
  <1>8. SoleRelease' /\ Repairs'
    BY <1>3 DEF SoleRelease, Repairs
  <1>9. Creation'
    <2>1. \A k \in Leases :
            /\ call'[k].pc = call[k].pc /\ call'[k].mode = call[k].mode
            /\ call'[k].outcome = "ok" => call[k].outcome = "ok"
      BY <1>5 DEF Answers
    <2>2. ASSUME NEW k \in Leases, call[k].pc = "creating",
                 call[k].outcome = "ok"
          PROVE  FALSE
      BY <1>1, <1>2, <2>2, LeasesAssumption
      DEF Granting, Resumed, IInv, Suspended, Busy
    <2> QED
      BY <1>3, <2>1, <2>2 DEF JInv, Creation
  <1>10. Copy'
    BY <1>3, <1>6 DEF Copy
  <1> QED
    BY <1>7, <1>8, <1>9, <1>10 DEF JInv

LEMMA StandsOrdered ==
    ASSUME JInv, IInv', UNCHANGED <<connection, known, book, promise, call,
                                    pending, server, chunk>>
    PROVE  JInv'
  <1>1. /\ \A k \in Leases : /\ (Holds(k)' <=> Holds(k))
                             /\ (Early(k)' <=> Early(k))
        /\ Connected' <=> Connected
    BY DEF Holds, Acquiring, Current, Leased, Connected, Early
  <1>2. chunk' => Quiet \/ chunk
    OBVIOUS
  <1>3. Ordered'
    BY <1>2, UnchangedAnswers, AnswersKeepOrdered DEF JInv
  <1>4. SoleRelease' /\ Creation'
    BY <1>1 DEF JInv, SoleRelease, Creation
  <1>5. Repairs'
    BY <1>1 DEF JInv, Repairs, Owns
  <1>6. Copy'
    BY <1>1 DEF JInv, Copy, Sent
  <1> QED
    BY <1>3, <1>4, <1>5, <1>6 DEF JInv
-----------------------------------------------------------------------------
(* The invariant holds *)

LEMMA InitOrders == Init => JInv
  <1> SUFFICES ASSUME Init PROVE JInv
    OBVIOUS
  <1>1. IInv
    BY InitEstablishes
  <1>2. /\ ~Connected /\ book.cleanup = FALSE /\ chunk = FALSE
        /\ known.attached = FALSE /\ known.snapshot = None
        /\ pending = [l \in Leases |-> "none"]
        /\ promise = [k \in Kinds |-> None]
    BY DEF Init, Connected, Kinds
  <1>3. server.attached = FALSE
    BY DEF Init
  <1>4. \A l \in Leases :
          call[l].pc = "idle" /\ call[l].waits = None
          /\ call[l].outcome = "waiting"
    BY DEF Init
  <1>5. \A l, k \in Leases : call[l].waits # k
    BY <1>4, LeasesAssumption
  <1>6. \A l \in Leases, kind \in Kinds : ~Owns(l, kind)
    BY <1>5 DEF Owns
  <1>7. Ordered
    BY <1>2, <1>4, <1>5, <1>6
    DEF Ordered, Unanswered, Makings, Followers, Chunk, Releasing
  <1>8. SoleRelease /\ Repairs
    BY <1>2 DEF SoleRelease, Repairs
  <1>9. Creation
    BY <1>2, <1>3, <1>4 DEF Creation
  <1>10. Copy
    BY <1>2, <1>3 DEF Copy
  <1> QED
    BY <1>1, <1>7, <1>8, <1>9, <1>10 DEF JInv

LEMMA NextOrders ==
    ASSUME JInv, ~Overtaking, [Next]_vars
    PROVE  JInv'
  <1>1. IInv'
    BY NextKeeps DEF JInv
  <1>2. CASE UNCHANGED vars \/ LateData
    <2>1. UNCHANGED <<connection, known, book, promise, call, pending,
                      server, chunk>>
      BY <1>2 DEF vars, LateData
    <2> QED
      BY <1>1, <2>1, StandsOrdered
  <1>3. ASSUME NEW l \in Leases,
               \/ AcquireSession(l) \/ CreateSession(l)
               \/ Release(l) \/ ReleaseInvalidated(l)
        PROVE  JInv'
    BY <1>1, <1>3, AcquireSessionOrdered, CreateSessionOrdered,
       ReleaseOrdered, ReleaseInvalidatedOrdered
  <1>4. ASSUME NEW l \in Leases, Continue(l)
        PROVE  JInv'
    BY <1>1, <1>4, DetachmentOverOrdered, ReconciliationOverOrdered,
       AttachmentOverOrdered, SessionCreatedOrdered, ReleaseSettlesOrdered,
       ReleaseFailsOrdered DEF Continue
  <1>5. CASE (\E l \in Leases : Answered(l)) \/ SnapshotEvent
    BY <1>1, <1>5, MessageOrdered
  <1>6. CASE RuntimeReplaced \/ SessionRemoved
    BY <1>1, <1>6, RuntimeReplacedOrdered, SessionRemovedOrdered
  <1>7. CASE Connect \/ Hello \/ Disconnect \/ Dispose
    BY <1>1, <1>7, ConnectOrdered, HelloOrdered, DisconnectOrdered
  <1> QED
    BY <1>2, <1>3, <1>4, <1>5, <1>6, <1>7 DEF Next

LEMMA Orders ==
    ASSUME ~Overtaking
    PROVE  Spec => []JInv
  <1>1. Init => JInv
    BY InitOrders
  <1>2. JInv /\ [Next]_vars => JInv'
    BY NextOrders
  <1> QED
    BY <1>1, <1>2, PTL DEF Spec
-----------------------------------------------------------------------------
(* What follows from it *)

LEMMA CopyAgrees == JInv => AttachmentAgrees /\ SnapshotIsCurrent
  BY DEF JInv, Copy, AttachmentAgrees, SnapshotIsCurrent

\* Unless the server failed half way, a connected client and the server agree
\* on whether the session is attached: the flag of state.ts is never stale,
\* whatever is acquired, released, removed or repaired meanwhile.
THEOREM AgreedAttachment ==
    ASSUME ~Overtaking
    PROVE  Spec => []AttachmentAgrees
  BY Orders, CopyAgrees, PTL

\* An attached client shows the newest state of the runtime that is there
\* now: an attach forgets the snapshot of an earlier runtime, and one that was
\* overtaken is not applied (#applySessionSnapshot of state.ts).
THEOREM CopyIsCurrent ==
    ASSUME ~Overtaking
    PROVE  Spec => []SnapshotIsCurrent
  BY Orders, CopyAgrees, PTL

LEMMA OneRequest == JInv => RequestsSerialized
  <1> DEFINE R == {l \in Leases : pending[l] \in {"attach", "detach"}}
  <1> SUFFICES ASSUME JInv PROVE Cardinality(R) <= 1
    BY DEF RequestsSerialized
  <1>1. CASE R = {}
    BY <1>1, FS_EmptySet
  <1>2. CASE R # {}
    <2>1. PICK l \in Leases : pending[l] \in {"attach", "detach"}
      BY <1>2
    <2>2. \A m \in R : m = l
      BY <2>1, AttachAsked, DetachAsked
    <2>3. R = {l}
      BY <2>1, <2>2
    <2>4. Cardinality({l}) = 1
      BY FS_Singleton
    <2> QED
      BY <2>3, <2>4
  <1> QED
    BY <1>1, <1>2

\* At most one attach or detach is under way, so the server carries them out
\* in the order the calls came to them (the shared promises of client.ts).
THEOREM OneRequestAtATime ==
    ASSUME ~Overtaking
    PROVE  Spec => []RequestsSerialized
  BY Orders, OneRequest, PTL

LEMMA SomebodyKnows == JInv => NoForgottenAttachment
  <1> SUFFICES ASSUME JInv, Connected, Quiet, server.attached,
                      ~server.unsure
               PROVE  \/ book.cleanup
                      \/ \E l \in Leases : Holds(l) \/ pending[l] # "none"
    BY DEF NoForgottenAttachment
  <1>1. ASSUME NEW l \in Leases, call[l].pc = "creating",
               call[l].outcome = "ok"
        PROVE  FALSE
    <2>1. call[l].waits = l
      BY <1>1 DEF JInv, Ordered, Makings
    <2> QED
      BY <1>1, <2>1, LeasesAssumption DEF Quiet, Resumed
  <1> QED
    BY <1>1 DEF JInv, Copy

\* An attachment nobody uses any more is given up, or is noted for the next
\* acquisition to give up: none is forgotten when a release fails
\* (#sessionCleanupRequired of client.ts).
THEOREM NothingForgotten ==
    ASSUME ~Overtaking
    PROVE  Spec => []NoForgottenAttachment
  BY Orders, SomebodyKnows, PTL

LEMMA TypesRight == IInv => TypeOK
  <1> SUFFICES ASSUME IInv PROVE TypeOK
    OBVIOUS
  <1>1. book \in Books /\ book.count \in Nat
    BY DEF IInv, TypedCalls, Books
  <1>2. book.count \in 0..Cardinality(Leases)
    <2>1. /\ IsFiniteSet(Leases) /\ Holders \subseteq Leases
      BY LeasesAssumption DEF Holders
    <2>2. /\ Cardinality(Holders) <= Cardinality(Leases)
          /\ Cardinality(Holders) \in Nat /\ Cardinality(Leases) \in Nat
      BY <2>1, FS_Subset, FS_CardinalityType
    <2>3. book.count <= Cardinality(Holders)
      BY <2>2 DEF IInv, Tokens
    <2> QED
      BY <1>1, <2>2, <2>3
  <1>3. /\ book.exclusive \in Leases \union {None}
        /\ book.cleanup \in BOOLEAN /\ book.generation \in Nat
    BY <1>1 DEF Books
  <1>4. \A k \in DOMAIN promise : promise[k] \in Promises \union {None}
    BY DEF IInv, TypedCalls
  <1>5. pending \in [Leases -> {"none", "attach", "detach", "create"}]
    BY DEF IInv, TypedCalls, Commands
  <1>6. ASSUME NEW l \in Leases
        PROVE  /\ call[l].generation \in 0..book.generation
               /\ call[l].waits \in Leases \union {None}
    BY <1>3, CallTyped DEF IInv
  <1>7. /\ connection \in [state : {"disconnected", "connecting",
                                    "connected"}, id : 0..MaxConnections]
        /\ known \in [attached : BOOLEAN, snapshot : Snapshots \union {None}]
        /\ server \in [exists : BOOLEAN, attached : BOOLEAN,
                       unsure : BOOLEAN, runtime : 1..MaxRuntimes,
                       revision : 0..MaxRevision]
        /\ disposed \in BOOLEAN /\ chunk \in BOOLEAN /\ late \in BOOLEAN
    BY DEF IInv, TypedWorld, Connections, Copies, Servers
  <1> QED
    BY <1>2, <1>3, <1>4, <1>5, <1>6, <1>7 DEF TypeOK

\* The books of a client balance, however many share it: the count and the
\* tokens, the requests under way, the attachment, and an empty book without
\* a connection.
THEOREM BalancedBooks ==
    ASSUME ~Overtaking
    PROVE  Spec => []BooksBalance
  <1>1. JInv => BooksBalance
    BY TypesRight, CountedTokens, ConnectionLeavesNothing, CopyAgrees,
       OneRequest DEF BooksBalance, JInv
  <1> QED
    BY <1>1, Orders, PTL
-----------------------------------------------------------------------------
(* Who sends a detach *)

LEMMA DetachSent ==
    ASSUME pending \in [Leases -> Commands], NEW l \in Leases,
           pending[l] # "detach", pending'[l] = "detach",
           NEW m \in Leases, NEW command, Request(m, command)
    PROVE  Connected /\ m = l /\ command = "detach"
  BY DEF Request

LEMMA DetachOfProceed ==
    ASSUME pending \in [Leases -> Commands], NEW l \in Leases,
           pending[l] # "detach", pending'[l] = "detach",
           NEW m \in Leases, NEW reconciled, NEW P
    PROVE  ~Proceed(m, reconciled, P)
  <1> SUFFICES ASSUME Proceed(m, reconciled, P) PROVE FALSE
    OBVIOUS
  <1>1. Request(m, "attach") \/ UNCHANGED pending
    BY DEF Proceed, JoinAttachment
  <1> QED
    BY <1>1, DetachSent

LEMMA RepairLeavesNobody ==
    ASSUME JInv, NEW l \in Leases,
           pending[l] # "detach", pending'[l] = "detach",
           NEW m \in Leases, Reconcile(m), NEW k \in Leases
    PROVE  IsActive(k) => call[k].early /\ call'[l].pc = "reconciliation"
  <1>1. pending \in [Leases -> Commands]
    BY DEF JInv, IInv, TypedCalls
  <1>2. book.cleanup /\ Request(m, "detach")
    BY <1>1, DetachOfProceed DEF Reconcile
  <1>3. Connected /\ m = l
    BY <1>1, <1>2, DetachSent
  <1>4. Holds(k) =>
          call[k].pc \in {"detachment", "reconciliation"} \/ Early(k)
    BY <1>2, <1>3 DEF JInv, Repairs
  <1>5. call'[l].pc = "reconciliation"
    BY <1>2, <1>3 DEF Reconcile, Await, JInv, IInv, TypedCalls, Calls
  <1> QED
    BY <1>4, <1>5 DEF IsActive, Holds, Early

LEMMA LastRelease ==
    ASSUME JInv, NEW l \in Leases,
           pending[l] # "detach", pending'[l] = "detach",
           NEW m \in Leases, Release(m), NEW k \in Leases, k # l
    PROVE  ~IsActive(k)
  <1>1. pending \in [Leases -> Commands]
    BY DEF JInv, IInv, TypedCalls
  <1>2. /\ Connected /\ book.count <= 1 /\ Request(m, "detach")
        /\ Holds(m)
    BY DEF Release, Holds
  <1>3. m = l
    BY <1>1, <1>2, DetachSent
  <1>4. ~Holds(k)
    BY <1>2, <1>3, LastHolder DEF JInv
  <1> QED
    BY <1>4 DEF IsActive, Holds

LEMMA NoOtherDetach ==
    ASSUME JInv, NEW l \in Leases,
           pending[l] # "detach", pending'[l] = "detach", Next
    PROVE  \E m \in Leases : Release(m) \/ Reconcile(m)
  <1>1. pending \in [Leases -> Commands]
    BY DEF JInv, IInv, TypedCalls
  <1>2. ~UNCHANGED pending
    OBVIOUS
  <1>3. ASSUME NEW L, NEW outcome, Settle(L, outcome)
        PROVE  FALSE
    BY <1>3 DEF Settle
  <1>4. ASSUME NEW m \in Leases,
               AcquireSession(m) \/ DetachmentOver(m)
        PROVE  Reconcile(m)
    BY <1>2, <1>4 DEF AcquireSession, DetachmentOver
  <1>5. ASSUME NEW m \in Leases,
               \/ CreateSession(m) \/ ReleaseInvalidated(m)
               \/ ReconciliationOver(m) \/ AttachmentOver(m)
               \/ SessionCreated(m) \/ ReleaseSettles(m) \/ ReleaseFails(m)
        PROVE  FALSE
    <2>1. ~CreateSession(m)
      BY <1>1, DetachSent DEF CreateSession
    <2>2. /\ ~ReleaseInvalidated(m) /\ ~SessionCreated(m)
          /\ ~ReleaseSettles(m) /\ ~ReleaseFails(m)
      BY <1>2 DEF ReleaseInvalidated, SessionCreated, ReleaseSettles,
                  ReleaseFails
    <2>3. ~ReconciliationOver(m)
      BY <1>1, <1>2, DetachOfProceed DEF ReconciliationOver, Fail
    <2>4. ~AttachmentOver(m)
      BY <1>2 DEF AttachmentOver
    <2> QED
      BY <1>5, <2>1, <2>2, <2>3, <2>4
  <1>6. ASSUME NEW m \in Leases, Answered(m)
        PROVE  FALSE
    BY <1>3, <1>6
    DEF Answered, AttachAnswered, DetachAnswered, RequestRefused
  <1>7. /\ ~SnapshotEvent /\ ~RuntimeReplaced /\ ~SessionRemoved
        /\ ~Connect /\ ~Hello /\ ~LateData
    BY <1>2 DEF SnapshotEvent, RuntimeReplaced, SessionRemoved, Connect,
                Hello, LateData
  <1>8. ~Disconnect /\ ~Dispose
    BY <1>3 DEF Disconnect, ConnectionLost, Dispose
  <1> QED
    BY <1>4, <1>5, <1>6, <1>7, <1>8 DEF Next, Continue

\* A session is detached only after the last lease: no release sends a detach
\* while another lease is in use, and the repair of a failed one ends no lease
\* but those given between the failure and its mark (release, dispose and
\* #reconcileSessionCleanup of client.ts).
THEOREM DetachIsLast ==
    ASSUME ~Overtaking
    PROVE  Spec => DetachLeavesNobody
  <1>1. JInv /\ [Next]_vars =>
          [\A l, k \in Leases :
             /\ pending[l] # "detach" /\ pending'[l] = "detach" /\ k # l
             /\ IsActive(k)
             => call[k].early /\ call'[l].pc = "reconciliation"]_vars
    <2> SUFFICES ASSUME JInv, Next, NEW l \in Leases, NEW k \in Leases,
                        pending[l] # "detach", pending'[l] = "detach",
                        k # l, IsActive(k)
                 PROVE  call[k].early /\ call'[l].pc = "reconciliation"
      OBVIOUS
    <2> QED
      BY NoOtherDetach, LastRelease, RepairLeavesNobody
  <1> QED
    BY <1>1, Orders, PTL DEF Spec, DetachLeavesNobody
=============================================================================

---------------------------- MODULE SessionState ----------------------------
(***************************************************************************)
(* The log of a harness session and the state projected from it:           *)
(* packages/agent/src/harness/session/state.ts.                            *)
(*                                                                         *)
(* A session is a tree of entries with lanes pointing at its leaves, the   *)
(* records of the operations run on the lanes, and two kinds of facts, the *)
(* session's name and labels of entries.  Every change is a mutation with  *)
(* the next sequence number.  Payloads and timestamps are left out, and    *)
(* the records that neither start nor finish an operation: they take an id *)
(* and a sequence number, as finishing an unknown operation does.          *)
(***************************************************************************)
EXTENDS Naturals, Sequences, SequencesExt, FiniteSets

CONSTANTS
    Lanes,          \* names lanes can have
    Main,           \* the lane every session has
    Ids,            \* ids of entries and records
    Names,          \* names of the session, labels of entries
    None,           \* null or undefined
    Missing         \* what the map of lanes holds for a lane not created

ASSUME MainAssumption == Main \in Lanes
ASSUME NoneAssumption ==
    None \notin Ids \cup Lanes \cup Names /\ Missing \notin Ids \cup {None}

EntryTypes == {"message", "custom"}
Pointers == Ids \cup {None}
-----------------------------------------------------------------------------
(* Mutations: what they are about is in `ref' (the parent of an entry, the *)
(* operation a record finishes, the leaf of a lane, the entry labelled),   *)
(* their payload in `value'.                                               *)

Kinds == {"entry", "operation_started", "operation_finished", "lane",
          "name", "label"}
RecordKinds == {"operation_started", "operation_finished"}

Mutation == [kind : Kinds, seq : Nat, id : Pointers, lane : Lanes \cup {None},
             ref : Pointers, value : EntryTypes \cup Names \cup {None}]

Entry(seq, id, lane, parent, type) ==
    [kind |-> "entry", seq |-> seq, id |-> id, lane |-> lane, ref |-> parent,
     value |-> type]
Record(seq, kind, id, lane, runId) ==
    [kind |-> kind, seq |-> seq, id |-> id, lane |-> lane, ref |-> runId,
     value |-> None]
Lane(seq, lane, leaf) ==
    [kind |-> "lane", seq |-> seq, id |-> None, lane |-> lane, ref |-> leaf,
     value |-> None]
Fact(seq, fact, target, value) ==
    [kind |-> fact, seq |-> seq, id |-> None, lane |-> None, ref |-> target,
     value |-> value]
-----------------------------------------------------------------------------
(* The projections.                                                        *)

SessionStates ==
    [sequence : Nat, usedIds : SUBSET Ids,
     entries : Seq([id : Ids, parent : Pointers, type : EntryTypes]),
     lanes : [Lanes -> Pointers \cup {Missing}],
     open : [Lanes -> SUBSET Ids],
     name : Names \cup {None}, labels : [Ids -> Names \cup {None}]]

Empty ==
    [sequence |-> 0, usedIds |-> {}, entries |-> <<>>,
     lanes |-> [l \in Lanes |-> IF l = Main THEN None ELSE Missing],
     open |-> [l \in Lanes |-> {}],
     name |-> None, labels |-> [i \in Ids |-> None]]

EntryIds(s) == {s.entries[i].id : i \in DOMAIN s.entries}
EntryOf(s, id) ==
    s.entries[CHOOSE i \in DOMAIN s.entries : s.entries[i].id = id]
HasLane(s, lane) == s.lanes[lane] # Missing
\* Mutant: the target of a pointer is looked up among all ids in use.
KnownAsUsed(s, pointer) == pointer = None \/ pointer \in s.usedIds

Known(s, pointer) == pointer = None \/ pointer \in EntryIds(s)

\* What applyMutation insists on before it changes anything.
Valid(s, m) ==
    /\ m.seq = s.sequence + 1
    /\ m.kind = "entry" =>
         /\ m.id \notin s.usedIds
         /\ m.lane # None => HasLane(s, m.lane) /\ m.ref = s.lanes[m.lane]
         /\ Known(s, m.ref)
    /\ m.kind \in RecordKinds => HasLane(s, m.lane) /\ m.id \notin s.usedIds
    /\ m.kind = "lane" => Known(s, m.ref)
    /\ m.kind = "label" => m.ref \in EntryIds(s)

\* Mutant: an operation is finished by the id of the record.
OpenAfterOwnId(s, m) ==
    CASE m.kind = "operation_started" ->
           [s.open EXCEPT ![m.lane] = @ \cup {m.id}]
      [] m.kind = "operation_finished" ->
           [s.open EXCEPT ![m.lane] = @ \ {m.id}]
      [] OTHER -> s.open

\* Operations open after a record: a map of each lane's own operations.
OpenAfter(s, m) ==
    CASE m.kind = "operation_started" ->
           [s.open EXCEPT ![m.lane] = @ \cup {m.id}]
      [] m.kind = "operation_finished" ->
           [s.open EXCEPT ![m.lane] = @ \ {m.ref}]
      [] OTHER -> s.open

LanesAfter(s, m) ==
    CASE m.kind = "lane" -> [s.lanes EXCEPT ![m.lane] = m.ref]
      [] m.kind = "entry" /\ m.lane # None ->
           [s.lanes EXCEPT ![m.lane] = m.id]
      [] OTHER -> s.lanes

SequenceAfter(s, m) == m.seq

Applied(s, m) ==
    [sequence |-> SequenceAfter(s, m),
     usedIds |-> IF m.kind \in RecordKinds \cup {"entry"}
                 THEN s.usedIds \cup {m.id} ELSE s.usedIds,
     entries |-> IF m.kind = "entry"
                 THEN Append(s.entries, [id |-> m.id, parent |-> m.ref,
                                         type |-> m.value])
                 ELSE s.entries,
     lanes |-> LanesAfter(s, m),
     open |-> OpenAfter(s, m),
     name |-> IF m.kind = "name" THEN m.value ELSE s.name,
     labels |-> IF m.kind = "label" THEN [s.labels EXCEPT ![m.ref] = m.value]
                ELSE s.labels]

\* Mutations applied one after the other to the empty session.
Replayed(mutations) ==
    LET after[n \in 0..Len(mutations)] ==
          IF n = 0 THEN Empty ELSE Applied(after[n - 1], mutations[n])
    IN  after

Replays(mutations) ==
    LET after == Replayed(mutations)
    IN  \A n \in 1..Len(mutations) : Valid(after[n - 1], mutations[n])

Replay(mutations) == Replayed(mutations)[Len(mutations)]
-----------------------------------------------------------------------------
(* The write operations of a storage, as their arguments, what they check  *)
(* and the mutation they make.                                             *)

Requests ==
         [op : {"createLane", "moveLane"}, lane : Lanes, ref : Pointers]
    \cup [op : {"appendEntry"}, id : Ids, lane : Lanes, value : EntryTypes]
    \cup [op : {"operation_started"}, id : Ids, lane : Lanes, ref : {None}]
    \cup [op : {"operation_finished"}, id : Ids, lane : Lanes, ref : Ids]
    \cup [op : {"setName"}, value : Names \cup {None}]
    \cup [op : {"setLabel"}, ref : Ids, value : Names \cup {None}]

\* Mutant: operations are opened without asking for the open ones.
AcceptsSecondOperation(s, r) ==
    CASE r.op = "createLane" -> ~HasLane(s, r.lane) /\ Known(s, r.ref)
      [] r.op = "moveLane" -> HasLane(s, r.lane) /\ Known(s, r.ref)
      [] r.op \in RecordKinds \cup {"appendEntry"} ->
           HasLane(s, r.lane) /\ r.id \notin s.usedIds
      [] r.op = "setName" -> TRUE
      [] r.op = "setLabel" -> Known(s, r.ref)

Accepts(s, r) ==
    CASE r.op = "createLane" -> ~HasLane(s, r.lane) /\ Known(s, r.ref)
      [] r.op = "moveLane" -> HasLane(s, r.lane) /\ Known(s, r.ref)
      [] r.op = "appendEntry" -> HasLane(s, r.lane) /\ r.id \notin s.usedIds
      [] r.op \in RecordKinds ->
           /\ HasLane(s, r.lane) /\ r.id \notin s.usedIds
           /\ r.op = "operation_started" => s.open[r.lane] = {}
      [] r.op = "setName" -> TRUE
      [] r.op = "setLabel" -> Known(s, r.ref)

MutationOf(s, r) ==
    LET seq == s.sequence + 1
    IN  CASE r.op \in {"createLane", "moveLane"} -> Lane(seq, r.lane, r.ref)
          [] r.op = "appendEntry" ->
               Entry(seq, r.id, r.lane, s.lanes[r.lane], r.value)
          [] r.op \in RecordKinds -> Record(seq, r.op, r.id, r.lane, r.ref)
          [] r.op = "setName" -> Fact(seq, "name", None, r.value)
          [] r.op = "setLabel" -> Fact(seq, "label", r.ref, r.value)
-----------------------------------------------------------------------------
(* Forks: of the whole tree, or of the branch that ends at a message (or   *)
(* before it).  A fork gets no records.                                    *)

ForkOptions == [scope : {"tree", "branch"}, entryId : Pointers,
                position : {"at", "before"}]

\* The entries from the root to an entry.
Branch(s, id) ==
    LET path[e \in EntryIds(s)] ==
          LET parent == EntryOf(s, e).parent
          IN  IF parent = None THEN <<EntryOf(s, e)>>
              ELSE Append(path[parent], EntryOf(s, e))
    IN  IF id = None THEN <<>> ELSE path[id]

\* The entry a branch is selected by: the leaf of the main lane by default.
Selected(s, options) ==
    IF options.entryId = None THEN s.lanes[Main] ELSE options.entryId

Forkable(s, options) ==
    LET id == Selected(s, options)
    IN  options.scope = "branch" /\ id # None =>
          id \in EntryIds(s) /\ EntryOf(s, id).type = "message"

ForkTarget(s, options) ==
    LET id == Selected(s, options)
    IN  IF id = None \/ options.position = "at" THEN id
        ELSE EntryOf(s, id).parent

\* Mutant: a branch is copied in the order it is walked.
CopiedAsWalked(s, options) ==
    IF options.scope = "tree" THEN s.entries
    ELSE Reverse(Branch(s, ForkTarget(s, options)))

Copied(s, options) ==
    IF options.scope = "tree" THEN s.entries
    ELSE Branch(s, ForkTarget(s, options))

\* The order of the lanes, that of their creation, makes no difference.
ForkLanes(s, options) ==
    IF options.scope = "branch"
    THEN <<[lane |-> Main, leaf |-> ForkTarget(s, options)]>>
    ELSE LET lanes == SetToSeq({l \in Lanes : HasLane(s, l)})
         IN  [i \in DOMAIN lanes |-> [lane |-> lanes[i],
                                      leaf |-> s.lanes[lanes[i]]]]

\* Those of some entries that have a label.
Labelled(s, entries) ==
    LET first[n \in 0..Len(entries)] ==
          IF n = 0 THEN <<>>
          ELSE IF s.labels[entries[n].id] = None THEN first[n - 1]
          ELSE Append(first[n - 1], entries[n])
    IN  first[Len(entries)]

\* createForkMutations: entries, lanes, name and labels, renumbered.
ForkMutations(s, options) ==
    LET copied == Copied(s, options)
        lanes == ForkLanes(s, options)
        labelled == Labelled(s, copied)
        facts == (IF s.name = None THEN <<>>
                  ELSE <<Fact(0, "name", None, s.name)>>)
                 \o [i \in DOMAIN labelled |->
                       Fact(0, "label", labelled[i].id,
                            s.labels[labelled[i].id])]
        all == [i \in DOMAIN copied |->
                  Entry(0, copied[i].id, None, copied[i].parent,
                        copied[i].type)]
               \o [i \in DOMAIN lanes |-> Lane(0, lanes[i].lane,
                                               lanes[i].leaf)]
               \o facts
    IN  [i \in DOMAIN all |-> [all[i] EXCEPT !.seq = i]]
=============================================================================

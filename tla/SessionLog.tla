----------------------------- MODULE SessionLog -----------------------------
(***************************************************************************)
(* A session held in memory, packages/agent/src/harness/session/memory.ts: *)
(* what every storage of sessions promises.  An operation takes effect at  *)
(* once or is rejected and changes nothing.                                *)
(***************************************************************************)
EXTENDS SessionState

CONSTANT MaxLog     \* bound: mutations of a session

VARIABLES
    log,            \* the mutations, which getLog returns
    state           \* the SessionState they were applied to

vars == <<log, state>>

Init == log = <<>> /\ state = Empty

\* applyMutation throws when the mutation is invalid and changes nothing.
Write(r) ==
    /\ Len(log) < MaxLog
    /\ Accepts(state, r)
    /\ LET m == MutationOf(state, r)
       IN  /\ Valid(state, m)
           /\ state' = Applied(state, m)
           /\ log' = Append(log, m)

CreateLane == \E r \in Requests : r.op = "createLane" /\ Write(r)
MoveLane == \E r \in Requests : r.op = "moveLane" /\ Write(r)
AppendEntry == \E r \in Requests : r.op = "appendEntry" /\ Write(r)
AppendRecord == \E r \in Requests : r.op \in RecordKinds /\ Write(r)
SetName == \E r \in Requests : r.op = "setName" /\ Write(r)
SetLabel == \E r \in Requests : r.op = "setLabel" /\ Write(r)

Next ==
    \/ CreateLane \/ MoveLane \/ AppendEntry \/ AppendRecord
    \/ SetName \/ SetLabel

Spec == Init /\ [][Next]_vars

\* A fork is a session of its own: ForkSpec goes on with it.
Fork(options) ==
    /\ Forkable(state, options)
    /\ log' = ForkMutations(state, options)
    /\ Len(log') <= MaxLog
    /\ Replays(log')
    /\ state' = Replay(log')

ForkSpec == Init /\ [][Next \/ \E options \in ForkOptions : Fork(options)]_vars
-----------------------------------------------------------------------------
\* The type invariant of the log and of the state projected from it.
TypeOK ==
    /\ log \in Seq(Mutation)
    /\ state \in SessionStates
    /\ state.sequence = Len(log)

(* The projections read off the log as a whole.                            *)

\* Index of the last mutation for which P holds, or 0.
LastOf(P(_)) ==
    LET found == {i \in DOMAIN log : P(log[i])}
    IN  IF found = {} THEN 0 ELSE CHOOSE i \in found : \A j \in found : j <= i

LeafInLog(lane) ==
    LET i == LastOf(LAMBDA m : m.kind \in {"lane", "entry"} /\ m.lane = lane)
    IN  IF i = 0 THEN Empty.lanes[lane]
        ELSE IF log[i].kind = "lane" THEN log[i].ref ELSE log[i].id

OpenInLog(lane) ==
    {id \in Ids : \E i \in DOMAIN log :
        /\ log[i].kind = "operation_started"
        /\ log[i].id = id /\ log[i].lane = lane
        /\ \A j \in i..Len(log) :
             ~(log[j].kind = "operation_finished" /\ log[j].lane = lane
               /\ log[j].ref = id)}

LabelInLog(id) ==
    LET i == LastOf(LAMBDA m : m.kind = "label" /\ m.ref = id)
    IN  IF i = 0 THEN None ELSE log[i].value

\* What a reader is told of lanes, open operations and labels is what the
\* log says when it is read as a whole (SessionState.applyMutation).
ProjectionsMatchLog ==
    /\ \A l \in Lanes : /\ state.lanes[l] = LeafInLog(l)
                        /\ state.open[l] = OpenInLog(l)
    /\ \A i \in Ids : state.labels[i] = LabelInLog(i)

\* A lane never has two open operations: recovery resumes the one that
\* findOpenOperations(lane, { limit: 1 }) returns (appendRecord).
OneOpenOperation == \A l \in Lanes : Cardinality(state.open[l]) <= 1

\* Every entry was preceded by its parent, so every branch ends at a root,
\* and lanes and labels point into the tree.
TreeIntact ==
    /\ \A i \in DOMAIN state.entries :
         LET parent == state.entries[i].parent
         IN  parent # None => \E j \in 1..(i - 1) :
                                state.entries[j].id = parent
    /\ \A i, j \in DOMAIN state.entries :
         state.entries[i].id = state.entries[j].id => i = j
    /\ \A l \in Lanes : HasLane(state, l) => Known(state, state.lanes[l])
    /\ \A i \in Ids : state.labels[i] # None => i \in EntryIds(state)

\* What an operation checks is all that applyMutation insists on: the JSONL
\* storage writes the mutation in between, and could not read it again.
AcceptedIsValid ==
    \A r \in Requests : Accepts(state, r) => Valid(state, MutationOf(state, r))

\* A load restores what readers were told, numbered like the log, and nothing
\* it would refuse was ever accepted.
LogReplays == TypeOK /\ ProjectionsMatchLog /\ AcceptedIsValid

\* A fork can always be replayed; it has the entries of the tree or branch,
\* with the same parents, the labels of those and the name, the lanes of the
\* tree or the main lane alone, and nothing to recover.
ForkFaithful ==
    \A options \in ForkOptions : Forkable(state, options) =>
      LET mutations == ForkMutations(state, options)
          fork == Replay(mutations)
          ids == EntryIds(fork)
      IN  /\ Replays(mutations)
          /\ ids = IF options.scope = "tree" THEN EntryIds(state)
                   ELSE {id \in EntryIds(state) :
                           LET branch == Branch(state,
                                                ForkTarget(state, options))
                           IN  \E i \in DOMAIN branch : branch[i].id = id}
          /\ \A id \in ids : /\ EntryOf(fork, id) = EntryOf(state, id)
                             /\ fork.labels[id] = state.labels[id]
          /\ fork.name = state.name
          /\ options.scope = "tree" => fork.lanes = state.lanes
          /\ options.scope = "branch" =>
               fork.lanes = [Empty.lanes EXCEPT ![Main] =
                               ForkTarget(state, options)]
          /\ \A l \in Lanes : fork.open[l] = {}
=============================================================================

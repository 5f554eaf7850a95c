---------------------------- MODULE JsonlStorage ----------------------------
(***************************************************************************)
(* A session kept in a JSONL file:                                         *)
(* packages/agent/src/harness/session/jsonl/storage.ts.                    *)
(*                                                                         *)
(* Writes go through a queue: one at a time is checked against the state   *)
(* in memory, appended to the file as a line and then applied in memory.   *)
(* A process may die anywhere in between; load restores the session from   *)
(* the file and repairs its end.  The fork of a session loads its file     *)
(* again, in the same process.                                             *)
(*                                                                         *)
(* The file is a sequence of lines, the last of which may lack its         *)
(* newline.  What a write left half done is a line that is no JSON: a      *)
(* proper prefix of an object, or one with more text after it.             *)
(***************************************************************************)
EXTENDS SessionState

CONSTANTS
    Writes,         \* the requests made of the storage
    Loaders,        \* who loads the file: "open" and "fork"
    FailureLeaves,  \* how much of its line a failed append may leave behind
    Serialized,     \* forks load the file only while nobody else uses it
    MaxRequests,    \* bound: requests made
    MaxCrashes      \* bound: crashes

ASSUME WritesAssumption == Writes \subseteq Requests
ASSUME ParametersAssumption ==
    /\ Loaders \subseteq {"open", "fork"}
    /\ FailureLeaves \subseteq {"none", "partial", "whole", "line"}
    /\ Serialized \in BOOLEAN
    /\ MaxRequests \in Nat /\ MaxCrashes \in Nat

VARIABLES
    file,           \* the file of the session
    durable,        \* history: the session that a load of it restores
    tmp,            \* its temporary sibling
    storage,        \* the JsonlSessionStorage of the process
    loader,         \* progress of the loads
    requests,       \* requests made and settled
    acked,          \* history: the mutations acknowledged
    crashes

disk == <<file, durable>>
vars == <<file, durable, tmp, storage, loader, requests, acked, crashes>>
-----------------------------------------------------------------------------
(* Files.                                                                  *)

Header == [kind |-> "header"]
Torn == [kind |-> "torn"]           \* no JSON
Blank == [kind |-> "blank"]         \* no JSON either
Line == {Header, Torn, Blank} \cup Mutation

File == [lines : Seq(Line), ended : BOOLEAN]
EmptyFile == [lines |-> <<>>, ended |-> TRUE]
Absent == [lines |-> <<>>, ended |-> FALSE]
NewFile == [lines |-> <<Header>>, ended |-> TRUE]

\* Text that begins a line of its own, or lands behind an unended one.
WithText(f, line) ==
    IF f.ended THEN [lines |-> Append(f.lines, line), ended |-> FALSE]
    ELSE [f EXCEPT !.lines[Len(f.lines)] = Torn]

WithNewline(f) ==
    IF f.ended THEN [f EXCEPT !.lines = Append(f.lines, Blank)]
    ELSE [f EXCEPT !.ended = TRUE]

Mutations(lines) == SubSeq(lines, 2, Len(lines))
Malformed(line) == line.kind \in {"header", "torn", "blank"}

\* Only the last line may be malformed: an append nobody was told of.
TornTail(f) == Len(f.lines) > 1 /\ Last(f.lines).kind \in {"torn", "blank"}
ValidPrefix(f) == IF TornTail(f) THEN Front(f.lines) ELSE f.lines

\* load rejects every other file as invalid.
Readable(f) ==
    /\ f.lines # <<>> /\ f.lines[1] = Header
    /\ \A i \in 2..Len(ValidPrefix(f)) : ~Malformed(f.lines[i])
    /\ Replays(Mutations(ValidPrefix(f)))

\* Mutant: a last line without newline is left as it is.
NeverUnterminated(f) == FALSE

Unterminated(f) == ~f.ended

Restored(f) ==
    LET log == Mutations(ValidPrefix(f))
    IN  IF Readable(f)
        THEN [readable |-> TRUE, log |-> log, state |-> Replay(log)]
        ELSE [readable |-> FALSE, log |-> <<>>, state |-> Empty]

Store(f) == file' = f /\ durable' = Restored(f)
-----------------------------------------------------------------------------
Closed == [open |-> FALSE, state |-> Empty, queue |-> <<>>,
           phase |-> "idle", glued |-> FALSE, orphan |-> FALSE]
Opened(mutations) == [Closed EXCEPT !.open = TRUE,
                                    !.state = Replay(mutations)]
NoLoad == [stage |-> "idle", read |-> Absent]

Loading == \E l \in Loaders : loader[l].stage # "idle"

\* create has written the header; the process has the session open.
Init ==
    /\ file = NewFile /\ durable = Restored(NewFile) /\ tmp = Absent
    /\ storage = Opened(<<>>)
    /\ loader = [l \in Loaders |-> NoLoad]
    /\ requests = [made |-> 0, settled |-> 0]
    /\ acked = <<>> /\ crashes = 0

(* Writes.                                                                 *)

Enqueue ==
    /\ storage.open /\ requests.made < MaxRequests
    /\ Serialized => ~Loading
    /\ \E r \in Writes :
         storage' = [storage EXCEPT !.queue = Append(@, r)]
    /\ requests' = [requests EXCEPT !.made = @ + 1]
    /\ UNCHANGED <<disk, tmp, loader, acked, crashes>>

\* Mutant: whatever was enqueued is written.
AdmittedUnchecked(s, r) == TRUE

\* The checks of the operation, made when its turn has come.
Admitted(s, r) == Accepts(s, r)

Current == MutationOf(storage.state, Head(storage.queue))

Begin ==
    /\ storage.phase = "idle" /\ storage.queue # <<>>
    /\ Admitted(storage.state, Head(storage.queue))
    /\ storage' = [storage EXCEPT !.phase = "none"]
    /\ UNCHANGED <<disk, tmp, loader, requests, acked, crashes>>

\* Mutant: the first rejection is what every later write is chained to.
AfterPoisoned(s) == [s EXCEPT !.phase = "rejected"]

\* The queue goes on with the next operation, whatever became of this one.
After(s) == [s EXCEPT !.queue = Tail(@), !.phase = "idle"]

Reject ==
    /\ storage' = After(storage)
    /\ requests' = [requests EXCEPT !.settled = @ + 1]
    /\ UNCHANGED <<disk, tmp, loader, acked, crashes>>

Refuse ==
    /\ storage.phase = "idle" /\ storage.queue # <<>>
    /\ ~Admitted(storage.state, Head(storage.queue))
    /\ Reject

\* The system writes the text of the line in one or several pieces.  An
\* append that still holds the file a repair has replaced writes to nobody.
WritePart ==
    /\ storage.phase = "none"
    /\ storage' = [storage EXCEPT !.phase = "partial", !.orphan = FALSE,
                                  !.glued = ~file.ended]
    /\ Store(WithText(file, Torn))
    /\ UNCHANGED <<tmp, loader, requests, acked, crashes>>

WriteRest ==
    /\ storage.phase = "partial"
    /\ storage' = [storage EXCEPT !.phase = "whole"]
    /\ Store(IF storage.orphan THEN file
             ELSE IF file.ended THEN WithText(file, Torn)
             ELSE IF storage.glued THEN file
             ELSE [file EXCEPT !.lines[Len(file.lines)] = Current])
    /\ UNCHANGED <<tmp, loader, requests, acked, crashes>>

WriteNewline ==
    /\ storage.phase = "whole"
    /\ storage' = [storage EXCEPT !.phase = "line"]
    /\ Store(IF storage.orphan THEN file ELSE WithNewline(file))
    /\ UNCHANGED <<tmp, loader, requests, acked, crashes>>

\* Mutant: the mutation is not applied to the state in memory.
Forgotten(s, m) == s

Remembered(s, m) == Applied(s, m)

AppendSucceeds ==
    /\ storage.phase = "line"
    /\ IF Valid(storage.state, Current)
       THEN /\ storage' = [After(storage) EXCEPT
                             !.state = Remembered(storage.state, Current)]
            /\ acked' = Append(acked, Current)
       ELSE storage' = After(storage) /\ UNCHANGED acked
    /\ requests' = [requests EXCEPT !.settled = @ + 1]
    /\ UNCHANGED <<disk, tmp, loader, crashes>>

AppendFails ==
    /\ storage.phase \in FailureLeaves
    /\ Reject
-----------------------------------------------------------------------------
(* Loads.                                                                  *)

Read(l) ==
    /\ loader[l].stage = "idle"
    /\ l = "open" => ~storage.open
    /\ Serialized => ~Loading /\ storage.queue = <<>>
    /\ durable.readable
    /\ loader' = [loader EXCEPT ![l] = [stage |-> "read", read |-> file]]
    /\ UNCHANGED <<disk, tmp, storage, requests, acked, crashes>>

\* An open gives the process its storage; a fork has a copy of its own.
Loaded(l) ==
    /\ loader' = [loader EXCEPT ![l] = NoLoad]
    /\ storage' = IF l = "open"
                  THEN Opened(Mutations(ValidPrefix(loader[l].read)))
                  ELSE storage

MoveTo(l, stage) == loader' = [loader EXCEPT ![l].stage = stage]

Parse(l) ==
    /\ loader[l].stage = "read"
    /\ \/ /\ TornTail(loader[l].read)
          /\ MoveTo(l, "staging") /\ UNCHANGED storage
       \/ /\ ~TornTail(loader[l].read) /\ Unterminated(loader[l].read)
          /\ MoveTo(l, "terminating") /\ UNCHANGED storage
       \/ /\ ~TornTail(loader[l].read) /\ ~Unterminated(loader[l].read)
          /\ Loaded(l)
    /\ UNCHANGED <<disk, tmp, requests, acked, crashes>>

Terminate(l) ==
    /\ loader[l].stage = "terminating"
    /\ Store(WithNewline(file))
    /\ Loaded(l)
    /\ UNCHANGED <<tmp, requests, acked, crashes>>

\* publishFileAtomically: the valid prefix is written to the temporary
\* file, which is emptied first, and renamed over the destination.
OpenTemporary(l) ==
    /\ loader[l].stage = "staging"
    /\ tmp' = EmptyFile
    /\ MoveTo(l, "populating")
    /\ UNCHANGED <<disk, storage, requests, acked, crashes>>

\* The file opened may meanwhile have been published by another loader, or
\* removed.
Populate(l) ==
    /\ loader[l].stage \in {"populating", "displaced"}
    /\ LET prefix == ValidPrefix(loader[l].read)
       IN  IF loader[l].stage = "displaced"
           THEN /\ Store([file EXCEPT !.lines = prefix \o
                            SubSeq(@, Len(prefix) + 1, Len(@))])
                /\ UNCHANGED tmp
           ELSE /\ tmp' = IF tmp = Absent THEN Absent
                          ELSE [lines |-> prefix, ended |-> TRUE]
                /\ UNCHANGED disk
    /\ MoveTo(l, "publishing")
    /\ UNCHANGED <<storage, requests, acked, crashes>>

Publish(l) ==
    /\ loader[l].stage = "publishing" /\ tmp # Absent
    /\ Store(tmp) /\ tmp' = Absent
    /\ loader' = [k \in Loaders |->
                    IF k = l THEN NoLoad
                    ELSE IF loader[k].stage = "populating"
                    THEN [loader[k] EXCEPT !.stage = "displaced"]
                    ELSE loader[k]]
    /\ storage' = IF l = "open"
                  THEN Opened(Mutations(ValidPrefix(loader[l].read)))
                  ELSE [storage EXCEPT !.orphan = TRUE]
    /\ UNCHANGED <<requests, acked, crashes>>

Repairing(l) == loader[l].stage \notin {"idle", "read"}

\* A failed repair removes the temporary file; the load rejects.
RepairFails(l) ==
    /\ Repairing(l)
    /\ tmp' = IF loader[l].stage = "terminating" THEN tmp ELSE Absent
    /\ loader' = [loader EXCEPT ![l] = NoLoad]
    /\ UNCHANGED <<disk, storage, requests, acked, crashes>>

\* The process dies; the files stay as they are.
Crash ==
    /\ crashes < MaxCrashes
    /\ storage.open \/ Loading
    /\ storage' = Closed
    /\ loader' = [l \in Loaders |-> NoLoad]
    /\ requests' = [requests EXCEPT !.settled = requests.made]
    /\ crashes' = crashes + 1
    /\ UNCHANGED <<disk, tmp, acked>>

Progress ==
    \/ Begin \/ Refuse \/ WritePart \/ WriteRest \/ WriteNewline
    \/ AppendSucceeds

Load(l) ==
    \/ Parse(l) \/ Terminate(l) \/ OpenTemporary(l) \/ Populate(l)
    \/ Publish(l) \/ RepairFails(l)

Next ==
    \/ Enqueue \/ Progress \/ AppendFails \/ Crash
    \/ \E l \in Loaders : Read(l) \/ Load(l)

\* File operations return.
Fairness == WF_vars(Progress) /\ \A l \in Loaders : WF_vars(Load(l))

Spec == Init /\ [][Next]_vars /\ Fairness
-----------------------------------------------------------------------------
Stages == {"idle", "read", "staging", "populating", "displaced",
           "publishing", "terminating"}

TypeOK ==
    /\ file \in File /\ tmp \in File /\ durable = Restored(file)
    /\ storage \in [open : BOOLEAN, state : SessionStates,
                    queue : Seq(Writes), glued : BOOLEAN, orphan : BOOLEAN,
                    phase : {"idle", "none", "partial", "whole", "line"}]
    /\ loader \in [Loaders -> [stage : Stages, read : File]]
    /\ requests \in [made : 0..MaxRequests, settled : 0..MaxRequests]
    /\ requests.made = requests.settled + Len(storage.queue)
    /\ acked \in Seq(Mutation) /\ crashes \in 0..MaxCrashes

\* What was acknowledged is restored by the next load, wherever the process
\* dies, also in a repair: only what nobody was told of is ever dropped
\* (load: "Drop the unacknowledged partial append").
AcknowledgedSurvives ==
    durable.readable /\ ToSet(acked) \subseteq ToSet(durable.log)

\* Between writes the state in memory is the one a load would restore, and
\* the next append begins a line of its own.
MemoryMatchesFile ==
    storage.open /\ storage.phase = "idle" =>
      file.ended /\ durable.readable /\ storage.state = durable.state

\* The storage object, its queue and the file fit together.
StorageConsistent == TypeOK /\ MemoryMatchesFile

\* The durable session is a session in memory: every write that takes
\* effect does so once, when its whole text is in the file, and no crash,
\* repair or failure takes one back or lets an unchecked one through.
Log == INSTANCE SessionLog WITH
         MaxLog <- MaxRequests,
         log <- durable.log, state <- durable.state
ImplementsSessionLog == Log!Spec

\* Every request is answered, whatever became of the ones before it
\* (enqueue); a crash takes the caller along.
RequestsSettle == []<>(requests.settled = requests.made)

\* Every load comes to an end.
LoadsSettle == \A l \in Loaders : []<>(loader[l].stage = "idle")

EverythingSettles == RequestsSettle /\ LoadsSettle
=============================================================================

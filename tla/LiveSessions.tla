---------------------------- MODULE LiveSessions ----------------------------
(***************************************************************************)
(* The live sessions of a PiServer: packages/server/src/sessions.ts with   *)
(* the connection and shutdown handling of packages/server/src/server.ts.  *)
(*                                                                         *)
(* A session is durable; at most one runtime may hold it at a time.  A     *)
(* request that attaches to a session joins its live runtime, joins the    *)
(* opening of one, waits for the disposal of the previous one, or opens    *)
(* one itself.  A runtime is disposed when nobody uses it any more.        *)
(*                                                                         *)
(* Every request is an asynchronous procedure of its own: `task[t].pc'     *)
(* names the await it is suspended at.  Node runs all promise reactions    *)
(* that are ready before it looks at the next socket event; only the       *)
(* requests decoded from one chunk are dispatched back to back.            *)
(***************************************************************************)
EXTENDS Integers, FiniteSets

CONSTANTS
    Conns,          \* connections whose handshake is complete
    Sessions,       \* durable sessions of the service
    MaxRequests,    \* bound: requests dispatched
    None            \* no runtime

ASSUME BoundsAssumption == MaxRequests \in Nat /\ None \notin 1..MaxRequests
ASSUME SessionsAssumption == Sessions # {}

Tasks == 1..MaxRequests

VARIABLES
    conn,           \* ConnectionState of every connection
    live,           \* the runtime a request asked for, and its LiveSession
    liveSessions, openingSessions,      \* the two maps of the manager
    task,           \* requests being executed
    server,         \* progress of PiServer.close
    chunk           \* connection whose chunk is being dispatched

vars == <<conn, live, liveSessions, openingSessions, task, server, chunk>>
maps == <<liveSessions, openingSessions>>
-----------------------------------------------------------------------------
(* Runtimes and their LiveSession.  A request asks the service for at most *)
(* one runtime, so a runtime goes by the number of the request.            *)

\* Until it is `ready' a runtime has no LiveSession: it is acquired, its
\* first snapshot taken, or it is discarded because the opening failed.
Stages == {"unused", "acquiring", "snapshotting", "discarding", "failed",
           "ready"}
Opened(l) == l.stage \in {"ready", "failed"}
Disposed(l) == l.outcome # "pending"

\* The service holds the durable session for this runtime.
Held(l) ==
    l.stage \in {"snapshotting", "discarding", "ready"} /\ ~Disposed(l)

\* The manager still listens to the runtime's events.
Subscribed(l) == l.stage = "ready" /\ ~l.terminal /\ l.disposals = 0

Closing == server.phase # "open"

\* Mutant: a running operation does not keep its session.
UnusedByConnections(l) ==
    /\ l.stage = "ready" /\ ~l.disposing
    /\ l.connections = {}
    /\ l.terminal \/ l.phase = "idle"

Unused(l) ==
    /\ l.stage = "ready" /\ ~l.disposing
    /\ l.connections = {} /\ l.operations = 0
    /\ l.terminal \/ l.phase = "idle"

Dispose(l) == [l EXCEPT !.disposals = @ + 1]

\* Mutant: disposal goes on while close() disposes everything itself.
MaybeDisposeAnyway(l) ==
    IF Unused(l) THEN Dispose([l EXCEPT !.disposing = TRUE]) ELSE l

MaybeDispose(l) ==
    IF ~Closing /\ Unused(l)
    THEN Dispose([l EXCEPT !.disposing = TRUE])
    ELSE l
-----------------------------------------------------------------------------
(* Connections *)

Connected(c) == conn[c].stage # "closed"

\* The live sessions a connection is attached to.
LiveOf(c) == {liveSessions[s] : s \in conn[c].sessionIds} \ {None}

\* What PiServer.disconnect of the connections in C leaves of a connection
\* and of a live session.
Gone(c, C) ==
    IF c \in C THEN [conn[c] EXCEPT !.stage = "closed", !.sessionIds = {}]
    ELSE conn[c]
Left(n, C) ==
    LET leaving == {c \in C : n \in LiveOf(c)} IN
    IF leaving = {} THEN live[n]
    ELSE MaybeDispose([live[n] EXCEPT !.connections = @ \ leaving])

DisconnectAll(C) ==
    /\ conn' = [c \in Conns |-> Gone(c, C)]
    /\ live' = [n \in Tasks |-> Left(n, C)]
-----------------------------------------------------------------------------
(* Requests *)

\* Requests that only the microtask queue separates from their next step.
Ready(t) ==
    LET l == live[task[t].live] IN
    \/ task[t].pc = "attach"
    \/ task[t].pc = "opening" /\ Opened(l)
    \/ task[t].pc \in {"releasing", "draining"} /\ Disposed(l)
Quiet == \A t \in Tasks : ~Ready(t)
NewTurn == Quiet /\ chunk' = None

Resume(t, pc) == task' = [task EXCEPT ![t].pc = pc]
Answer(t) == task' = [task EXCEPT ![t].pc = "answered", ![t].live = None]

\* A chunk of connection c holds one more request; it becomes task t.
Dispatch(t, c) ==
    /\ task[t].pc = "free" /\ \A u \in 1..(t - 1) : task[u].pc # "free"
    /\ conn[c].stage = "ready" /\ conn[c].open
    /\ Quiet \/ chunk = c
    /\ chunk' = c
Start(t, c, s, pc, n) ==
    task' = [task EXCEPT ![t] = [conn |-> c, session |-> s, pc |-> pc,
                                 live |-> n]]

\* One turn of the loop in acquire: where the request goes on, with which
\* runtime, and whether it opens that runtime itself.
\* Mutant: an opening under way is not joined.
OpensAnother(s) == liveSessions[s] = None
Opens(s) == liveSessions[s] = None /\ openingSessions[s] = None

Acquired(t, s) ==
    LET n == liveSessions[s] IN
    CASE Opens(s)                        -> <<"opening", t>>
      [] n = None /\ ~Opens(s)           -> <<"opening", openingSessions[s]>>
      [] n # None /\ live[n].terminal    -> <<"answered", None>>
      [] n # None /\ ~live[n].terminal   ->
           <<IF live[n].disposing THEN "releasing" ELSE "attach", n>>
Open(t, s) ==
    IF Opens(s)
    THEN /\ live' = [live EXCEPT ![t].stage = "acquiring", ![t].session = s]
         /\ openingSessions' = [openingSessions EXCEPT ![s] = t]
    ELSE UNCHANGED <<live, openingSessions>>

\* attach, and create: the fresh ID of a created session is one nobody else
\* asks for yet.
RequestAttach(t, c, s) ==
    /\ Dispatch(t, c)
    /\ Start(t, c, s, Acquired(t, s)[1], Acquired(t, s)[2])
    /\ Open(t, s)
    /\ UNCHANGED <<conn, liveSessions, server>>

\* detach; one for a session the connection is not attached to is a no-op.
RequestDetach(t, c, s) ==
    /\ Dispatch(t, c)
    /\ s \in conn[c].sessionIds
    /\ conn' = [conn EXCEPT ![c].sessionIds = @ \ {s}]
    /\ IF liveSessions[s] = None
       THEN Start(t, c, s, "answered", None) /\ UNCHANGED live
       ELSE LET n == liveSessions[s]
                l == [live[n] EXCEPT !.connections = @ \ {c}]
                shared == /\ l.connections # {}
                          /\ ~l.terminal /\ ~l.disposing
                after == IF shared THEN l ELSE MaybeDispose(l)
            IN  /\ live' = [live EXCEPT ![n] = after]
                /\ Start(t, c, s, IF shared THEN "leaving"
                                  ELSE IF after.disposing THEN "draining"
                                  ELSE "answered", n)
    /\ UNCHANGED <<maps, server>>

\* prompt, steer, abort, set_model or set_thinking, when requireAttached lets
\* it pass; a prompt starts a turn of the runtime.
RequestOperation(t, c, s) ==
    LET n == liveSessions[s] IN
    /\ Dispatch(t, c)
    /\ s \in conn[c].sessionIds
    /\ n # None /\ ~live[n].terminal /\ ~live[n].disposing
    /\ \E p \in {live[n].phase, "turn"} :
         live' = [live EXCEPT ![n].operations = @ + 1, ![n].phase = p]
    /\ Start(t, c, s, "operating", n)
    /\ UNCHANGED <<conn, maps, server>>

\* Once its promise has settled the opening leaves the map: its owner takes it
\* out before anybody else can look.
Forget(t) ==
    LET s == task[t].session IN
    openingSessions' =
      IF task[t].live = t /\ openingSessions[s] = t
      THEN [openingSessions EXCEPT ![s] = None] ELSE openingSessions

\* attach(connection, live), once acquire has returned the live session.
Attach(t) ==
    LET c == task[t].conn
        n == task[t].live
    IN
    /\ \/ task[t].pc = "attach"
       \/ task[t].pc = "opening" /\ live[n].stage = "ready"
    /\ IF conn[c].stage = "ready" /\ conn[c].open
       THEN /\ conn' = [conn EXCEPT ![c].sessionIds =
                          @ \union {task[t].session}]
            /\ live' = [live EXCEPT ![n].connections = @ \union {c}]
            /\ Resume(t, "snapshot")
       ELSE /\ live' = [live EXCEPT ![n] = MaybeDispose(@)]
            /\ Answer(t)
            /\ UNCHANGED conn
    /\ Forget(t)
    /\ UNCHANGED <<liveSessions, server>>

\* The disposal acquire waited for is over: it looks again, or rethrows.
Released(t) ==
    LET s == task[t].session
        l == live[task[t].live]
    IN
    /\ task[t].pc = "releasing" /\ Disposed(l)
    /\ IF l.outcome = "failed"
       THEN Answer(t) /\ UNCHANGED <<live, openingSessions>>
       ELSE /\ task' = [task EXCEPT ![t].pc = Acquired(t, s)[1],
                                    ![t].live = Acquired(t, s)[2]]
            /\ Open(t, s)
    /\ UNCHANGED <<conn, liveSessions, server>>

\* Nothing is left to do but to answer: the opening failed, the disposal a
\* detach began is over, or the broadcastSnapshot of an attach has settled (a
\* rejection leaves the connection attached).
RequestEnds(t) ==
    LET l == live[task[t].live] IN
    /\ \/ task[t].pc = "opening" /\ l.stage = "failed"
       \/ task[t].pc = "draining" /\ Disposed(l)
       \/ task[t].pc = "snapshot"
    /\ Answer(t)
    /\ Forget(t)
    /\ UNCHANGED <<conn, live, liveSessions, server>>

\* broadcastSnapshot of a detach settles.
DetachReported(t) ==
    LET n == task[t].live IN
    /\ task[t].pc = "leaving"
    /\ \/ /\ live' = [live EXCEPT ![n] = MaybeDispose(@)]
          /\ IF live'[n].disposing THEN Resume(t, "draining") ELSE Answer(t)
       \/ UNCHANGED live /\ Answer(t)
    /\ UNCHANGED <<conn, maps, server>>

\* Mutant: the end of an operation does not look whether it was the last use.
OperationEndsQuietly(t) ==
    /\ task[t].pc \in {"operating", "reporting"}
    /\ live' = [live EXCEPT ![task[t].live].operations = @ - 1]
    /\ Answer(t)
    /\ UNCHANGED <<conn, maps, server>>

\* The operation succeeds and is reported; a failure of either ends it.
OperationSucceeds(t) ==
    /\ task[t].pc = "operating"
    /\ Resume(t, "reporting")
    /\ UNCHANGED <<conn, live, maps, server>>
OperationEnds(t) ==
    LET n == task[t].live
        l == [live[n] EXCEPT !.operations = @ - 1]
    IN
    /\ task[t].pc \in {"operating", "reporting"}
    /\ live' = [live EXCEPT ![n] = MaybeDispose(l)]
    /\ Answer(t)
    /\ UNCHANGED <<conn, maps, server>>
-----------------------------------------------------------------------------
(* The service: acquireRuntime, snapshot and dispose settle *)

RuntimeAcquired(n) ==
    /\ live[n].stage = "acquiring"
    /\ live' = [live EXCEPT ![n] =
                  IF Closing THEN Dispose([@ EXCEPT !.stage = "discarding"])
                  ELSE [@ EXCEPT !.stage = "snapshotting"]]
    /\ UNCHANGED <<conn, maps, task, server>>

RuntimeRefused(n) ==
    /\ live[n].stage = "acquiring"
    /\ live' = [live EXCEPT ![n].stage = "failed"]
    /\ UNCHANGED <<conn, maps, task, server>>

Register(n) ==
    /\ live[n].stage = "snapshotting"
    /\ live' = [live EXCEPT ![n].stage = "ready"]
    /\ liveSessions' = [liveSessions EXCEPT ![live[n].session] = n]
    /\ UNCHANGED <<conn, openingSessions, task, server>>

\* The snapshot is rejected, or it is one of another session.
SnapshotRefused(n) ==
    /\ live[n].stage = "snapshotting"
    /\ live' = [live EXCEPT ![n] = Dispose([@ EXCEPT !.stage = "discarding"])]
    /\ UNCHANGED <<conn, maps, task, server>>

\* A disposal by maybeDispose takes the session out of the map, whatever its
\* outcome.
DisposeSettles(n, outcome) ==
    /\ live[n].disposals > 0 /\ ~Disposed(live[n])
    /\ live' = [live EXCEPT ![n].outcome = outcome,
                            ![n].stage = IF @ = "discarding" THEN "failed"
                                         ELSE @]
    /\ liveSessions' =
         [s \in Sessions |->
            IF live[n].disposing /\ liveSessions[s] = n THEN None
            ELSE liveSessions[s]]
    /\ UNCHANGED <<conn, openingSessions, task, server>>
-----------------------------------------------------------------------------
(* Events of a runtime *)

\* A snapshot or progress event; with it, a turn may have ended.
RuntimeEvent(n, phase) ==
    /\ NewTurn
    /\ Subscribed(live[n])
    /\ live' = [live EXCEPT ![n] = MaybeDispose([@ EXCEPT !.phase = phase])]
    /\ UNCHANGED <<conn, maps, task, server>>

\* An error event: terminate closes the transports of the session's
\* connections, waits, disconnects them, waits, and disposes the runtime.
RuntimeError(n) ==
    /\ NewTurn
    /\ Subscribed(live[n])
    /\ live' = [live EXCEPT ![n].terminal = TRUE,
                            ![n].doomed = live[n].connections,
                            ![n].ending = "closing"]
    /\ conn' = [c \in Conns |->
                  IF c \in live[n].connections
                  THEN [conn[c] EXCEPT !.open = FALSE] ELSE conn[c]]
    /\ UNCHANGED <<maps, task, server>>

TerminateDisconnects(n) ==
    LET C == {c \in live[n].doomed : Connected(c)} IN
    /\ live[n].ending = "closing"
    /\ conn' = [c \in Conns |-> Gone(c, C)]
    /\ live' = [m \in Tasks |->
                  IF m = n THEN [Left(n, C) EXCEPT !.ending = "disposing",
                                                   !.doomed = {}]
                  ELSE Left(m, C)]
    /\ UNCHANGED <<maps, task, server>>

TerminateDisposes(n) ==
    /\ live[n].ending = "disposing"
    /\ live' = [live EXCEPT ![n] = MaybeDispose([@ EXCEPT !.ending = "done"])]
    /\ UNCHANGED <<conn, maps, task, server>>
-----------------------------------------------------------------------------
(* Connections come to an end *)

\* The transport fails, or a send on it does.
LoseTransport(c) ==
    /\ NewTurn
    /\ Connected(c) /\ conn[c].open
    /\ conn' = [conn EXCEPT ![c].open = FALSE]
    /\ UNCHANGED <<live, maps, task, server>>

\* failProtocol, for bytes that are no message or a message out of place.
FailProtocol(c) ==
    /\ chunk' = None
    /\ conn[c].stage = "ready" /\ conn[c].open
    /\ Quiet \/ chunk = c
    /\ conn' = [conn EXCEPT ![c].stage = "closing", ![c].open = FALSE]
    /\ UNCHANGED <<live, maps, task, server>>

Disconnect(c) ==
    /\ NewTurn
    /\ Connected(c) /\ ~conn[c].open
    /\ DisconnectAll({c})
    /\ UNCHANGED <<maps, task, server>>
-----------------------------------------------------------------------------
(* PiServer.close *)

Advance(phase, waits) == server' = [phase |-> phase, waits |-> waits]

\* close() while a client may still be served: the listeners close first.
Close ==
    /\ NewTurn
    /\ server.phase = "open"
    /\ Advance("listeners", {})
    /\ UNCHANGED <<conn, live, maps, task>>

CloseTransports ==
    /\ server.phase = "listeners"
    /\ conn' = [c \in Conns |->
                  IF Connected(c)
                  THEN [conn[c] EXCEPT !.stage = "closing", !.open = FALSE]
                  ELSE conn[c]]
    /\ Advance("transports", {})
    /\ UNCHANGED <<live, maps, task>>

\* The disconnects wait for the disposals already under way.
CloseConnections ==
    LET C == {c \in Conns : Connected(c)} IN
    /\ server.phase = "transports"
    /\ DisconnectAll(C)
    /\ Advance("disconnecting",
               {n \in UNION {LiveOf(c) : c \in C} : live[n].disposing})
    /\ UNCHANGED <<maps, task>>

\* Mutant: close() does not wait for openings under way.
CloseIgnoresOpenings ==
    /\ server.phase = "disconnecting"
    /\ \A n \in server.waits : Disposed(live[n])
    /\ Advance("openings", {})
    /\ UNCHANGED <<conn, live, maps, task>>

CloseAwaitsOpenings ==
    /\ server.phase = "disconnecting"
    /\ \A n \in server.waits : Disposed(live[n])
    /\ Advance("openings",
               {openingSessions[s] : s \in Sessions} \ {None})
    /\ UNCHANGED <<conn, live, maps, task>>

\* Mutant: the map is cleared before its sessions are collected.
CloseSessionsCleared ==
    /\ server.phase = "openings"
    /\ \A n \in server.waits : Opened(live[n])
    /\ liveSessions' = [s \in Sessions |-> None]
    /\ Advance("disposing", {})
    /\ UNCHANGED <<conn, live, openingSessions, task>>

CloseSessions ==
    LET sessions == {liveSessions[s] : s \in Sessions} \ {None} IN
    /\ server.phase = "openings"
    /\ \A n \in server.waits : Opened(live[n])
    /\ liveSessions' = [s \in Sessions |-> None]
    /\ live' = [n \in Tasks |->
                  IF n \in sessions /\ ~live[n].disposing
                  THEN Dispose(live[n]) ELSE live[n]]
    /\ Advance("disposing", sessions)
    /\ UNCHANGED <<conn, openingSessions, task>>

\* close() fulfils when every disposal has, or rejects with the first failure.
CloseReturns ==
    /\ server.phase = "disposing"
    /\ \/ \A n \in server.waits : Disposed(live[n])
       \/ \E n \in server.waits : live[n].outcome = "failed"
    /\ Advance("closed", {})
    /\ UNCHANGED <<conn, live, maps, task>>
-----------------------------------------------------------------------------
NoRuntime(s) ==
    [stage |-> "unused", session |-> s, connections |-> {},
     operations |-> 0, phase |-> "idle", terminal |-> FALSE, ending |-> "no",
     doomed |-> {}, disposing |-> FALSE, disposals |-> 0,
     outcome |-> "pending"]

Init ==
    /\ conn = [c \in Conns |->
                 [stage |-> "ready", open |-> TRUE, sessionIds |-> {}]]
    /\ live = [n \in Tasks |-> NoRuntime(CHOOSE s \in Sessions : TRUE)]
    /\ liveSessions = [s \in Sessions |-> None]
    /\ openingSessions = [s \in Sessions |-> None]
    /\ task = [t \in Tasks |-> [conn |-> None, session |-> None,
                                pc |-> "free", live |-> None]]
    /\ server = [phase |-> "open", waits |-> {}]
    /\ chunk = None

Request(t) ==
    \E c \in Conns, s \in Sessions :
      \/ RequestAttach(t, c, s)
      \/ RequestDetach(t, c, s)
      \/ RequestOperation(t, c, s)
TaskStep(t) ==
    /\ chunk' = None
    /\ \/ Attach(t) \/ Released(t) \/ DetachReported(t) \/ RequestEnds(t)
       \/ OperationSucceeds(t) \/ OperationEnds(t)
ServiceStep(n) ==
    /\ chunk' = None
    /\ \/ RuntimeAcquired(n) \/ RuntimeRefused(n)
       \/ Register(n) \/ SnapshotRefused(n)
       \/ \E outcome \in {"done", "failed"} : DisposeSettles(n, outcome)
RuntimeStep(n) ==
    \/ \E phase \in {live[n].phase, "idle"} : RuntimeEvent(n, phase)
    \/ RuntimeError(n)
TerminateStep(n) ==
    chunk' = None /\ (TerminateDisconnects(n) \/ TerminateDisposes(n))
CloseStep ==
    /\ chunk' = None
    /\ \/ CloseTransports \/ CloseConnections \/ CloseAwaitsOpenings
       \/ CloseSessions \/ CloseReturns

\* A closed server with nothing left to do.
Stopped ==
    /\ server.phase = "closed"
    /\ \A t \in Tasks : task[t].pc \in {"free", "answered"}
    /\ UNCHANGED vars

Next ==
    \/ \E t \in Tasks :
         \/ Request(t) \/ TaskStep(t) \/ ServiceStep(t) \/ RuntimeStep(t)
         \/ TerminateStep(t)
    \/ \E c \in Conns :
         LoseTransport(c) \/ FailProtocol(c) \/ Disconnect(c)
    \/ Close \/ CloseStep
    \/ Stopped

Spec == Init /\ [][Next]_vars

\* The runtime resumes a settled await, transports report their end, and by
\* the contract of the service its promises settle; a turn ends with an event.
Fairness ==
    /\ \A t \in Tasks :
         /\ WF_vars(TaskStep(t)) /\ WF_vars(ServiceStep(t))
         /\ WF_vars(TerminateStep(t))
         /\ WF_vars(RuntimeEvent(t, "idle"))
    /\ \A c \in Conns : WF_vars(Disconnect(c))
    /\ WF_vars(CloseStep)
FairSpec == Spec /\ Fairness
-----------------------------------------------------------------------------
(* Correctness *)

Ids == Tasks \union {None}
Conn == [stage : {"ready", "closing", "closed"}, open : BOOLEAN,
         sessionIds : SUBSET Sessions]
Live == [stage : Stages, session : Sessions, connections : SUBSET Conns,
         operations : Nat, phase : {"idle", "turn"}, terminal : BOOLEAN,
         ending : {"no", "closing", "disposing", "done"},
         doomed : SUBSET Conns, disposing : BOOLEAN, disposals : Nat,
         outcome : {"pending", "done", "failed"}]
Task == [conn : Conns \union {None}, session : Sessions \union {None},
         live : Ids,
         pc : {"free", "opening", "releasing", "attach", "snapshot",
               "leaving", "draining", "operating", "reporting", "answered"}]
Phases == {"open", "listeners", "transports", "disconnecting", "openings",
           "disposing", "closed"}

\* Connections, live sessions, requests and the shutdown have their types; in
\* particular a request suspended on a runtime names one.
TypeOK ==
    /\ conn \in [Conns -> Conn]
    /\ live \in [Tasks -> Live]
    /\ liveSessions \in [Sessions -> Ids]
    /\ openingSessions \in [Sessions -> Ids]
    /\ task \in [Tasks -> Task]
    /\ \A t \in Tasks :
         task[t].pc \notin {"free", "answered"} => task[t].live \in Tasks
    /\ server \in [phase : Phases, waits : SUBSET Tasks]
    /\ chunk \in Conns \union {None}

\* "Exclusively acquired runtimes" (types.ts): whatever attaches, detaches,
\* failures and disposals overlap, the server never holds two runtimes of one
\* session, not even while one is on its way out.
OneRuntimePerSession ==
    \A m, n \in Tasks :
      Held(live[m]) /\ Held(live[n]) /\ live[m].session = live[n].session
        => m = n

\* A runtime the server has acquired is never forgotten: it is being opened,
\* live, or on its way out.
NoRuntimeLeaks ==
    \A n \in Tasks : Held(live[n]) =>
      \/ openingSessions[live[n].session] = n
      \/ liveSessions[live[n].session] = n
      \/ live[n].disposals > 0

\* The disconnects, detaches, operations, events and the shutdown that find a
\* session unused at about the same time dispose its runtime only once.
DisposedOnce == \A n \in Tasks : live[n].disposals <= 1

\* No operation runs on a runtime that was given up, unless the server closes.
OperationsKeepRuntime ==
    \A t \in Tasks :
      task[t].pc \in {"operating", "reporting"} /\ ~Closing
        => live[task[t].live].disposals = 0

\* A live session lists no connection that has left it or has closed: such a
\* listener would keep the session from ever being disposed.
NoGhostListener ==
    \A s \in Sessions : liveSessions[s] # None =>
      \A c \in live[liveSessions[s]].connections :
        Connected(c) /\ s \in conn[c].sessionIds

\* Connections, operations and runtimes keep together.
ConnectionsConsistent == TypeOK /\ OperationsKeepRuntime /\ NoGhostListener

\* After close() no session is live, no matter what was being opened.
NothingLiveAfterClose ==
    server.phase = "closed" => \A s \in Sessions : liveSessions[s] = None

\* "allows every attached client to control a singleton live runtime"
\* (sessions.test.ts): a connection attached to a session is listed by its
\* live runtime, which is not on its way out.
AttachedClientsControlRuntime ==
    \A c \in Conns : \A s \in conn[c].sessionIds :
      LET n == liveSessions[s] IN
      Closing \/ (/\ n # None /\ c \in live[n].connections
                  /\ live[n].terminal \/ ~live[n].disposing)

\* A runtime without connections is disposed in the end, or somebody attaches
\* to it: whichever of a detach, a disconnect, the end of an operation or of a
\* turn comes last.
AbandonedIsDisposed ==
    \A n \in Tasks :
      Held(live[n]) /\ live[n].connections = {}
        ~> Disposed(live[n]) \/ live[n].connections # {}

\* A runtime that reported an error is disposed and its session can be opened
\* again, whoever was attached to it or was about to be.
TerminatedIsDisposed ==
    \A n \in Tasks : live[n].terminal ~> Disposed(live[n])

\* close() returns and every runtime is given back to the service, those still
\* being acquired when it returns included.
CloseReleases ==
    Closing ~> [](/\ server.phase = "closed"
                  /\ \A n \in Tasks : ~Held(live[n]))

\* Every request is answered.
RequestsAnswered ==
    \A t \in Tasks : task[t].pc # "free" ~> task[t].pc = "answered"

\* Runtimes, requests and the shutdown come to an end, in whatever order their
\* promises settle.
EverythingSettles ==
    /\ AbandonedIsDisposed /\ TerminatedIsDisposed
    /\ CloseReleases /\ RequestsAnswered
=============================================================================

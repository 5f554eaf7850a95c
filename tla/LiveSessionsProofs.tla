------------------------- MODULE LiveSessionsProofs -------------------------
(***************************************************************************)
(* Safety theorems about LiveSessions, for every value of its constants:   *)
(* the server never holds two runtimes of one session, forgets none it     *)
(* holds, gives none up twice and leaves no session live when it closes    *)
(* (from IInv, about the maps and the requests), and its sessions list the *)
(* connections and operations there are (from Attended beside it).         *)
(***************************************************************************)
EXTENDS LiveSessions, FiniteSetTheorems, TLAPS

(* The inductive invariant *)

LiveRecord ==
    [stage : Stages, session : Sessions, connections : SUBSET Conns,
     operations : Int, phase : {"idle", "turn"}, terminal : BOOLEAN,
     ending : {"no", "closing", "disposing", "done"},
     doomed : SUBSET Conns, disposing : BOOLEAN, disposals : Nat,
     outcome : {"pending", "done", "failed"}]

Typed ==
    /\ conn \in [Conns -> Conn]
    /\ live \in [Tasks -> LiveRecord]
    /\ liveSessions \in [Sessions -> Ids]
    /\ openingSessions \in [Sessions -> Ids]
    /\ task \in [Tasks -> Task]
    /\ server \in [phase : Phases, waits : SUBSET Tasks]

Opening(l) == l.stage \in {"acquiring", "snapshotting", "discarding"}
Claims(l) == Opening(l) \/ (l.stage = "ready" /\ ~Disposed(l))
Cleared == server.phase \in {"disposing", "closed"}

\* An opening keeps its place in the map until it has settled.
Placed ==
    \A n \in Tasks : Opening(live[n]) => openingSessions[live[n].session] = n

\* Until close() clears the map, it lists exactly the runtimes in use.
Listed ==
    \A s \in Sessions : liveSessions[s] # None =>
      LET l == live[liveSessions[s]] IN
      l.stage = "ready" /\ l.session = s /\ ~Disposed(l)
Registered ==
    \A n \in Tasks :
      live[n].stage = "ready" /\ ~Disposed(live[n]) /\ ~Cleared
        => liveSessions[live[n].session] = n
Emptied == Cleared => \A s \in Sessions : liveSessions[s] = None

\* How often a runtime has been given up, by what the manager knows of it.
Counted ==
    \A n \in Tasks :
      LET l == live[n] IN
      /\ l.disposals <= 1
      /\ l.stage \in {"unused", "acquiring", "snapshotting"} =>
           l.disposals = 0 /\ ~l.disposing
      /\ l.stage = "discarding" => l.disposals = 1
      /\ l.stage = "ready" /\ ~l.disposing /\ ~Cleared => l.disposals = 0
      /\ l.stage = "ready" /\ ~l.disposing /\ Cleared => l.disposals = 1
      /\ l.disposing => l.disposals = 1
      /\ l.disposals = 0 => ~Disposed(l)

\* close() waits for every opening that may still register a session.
Awaited ==
    \A n \in Tasks : live[n].stage = "snapshotting" =>
      /\ ~Cleared
      /\ server.phase = "openings" => n \in server.waits

\* The claim on a session is exclusive, from the request to the service on.
Exclusive ==
    \A m, n \in Tasks :
      Claims(live[m]) /\ Claims(live[n]) /\ live[m].session = live[n].session
        => m = n

MapsInv ==
    /\ Placed /\ Listed /\ Registered /\ Emptied
    /\ Counted /\ Awaited /\ Exclusive

\* What a request may rely on where it is suspended.
RestsAt(t) ==
    /\ task[t].pc \notin {"free", "answered"} =>
         /\ task[t].conn \in Conns /\ task[t].session \in Sessions
         /\ task[t].live \in Tasks
    /\ task[t].pc \in {"attach", "releasing", "snapshot", "leaving",
                       "draining", "operating", "reporting"} =>
         live[task[t].live].stage = "ready"
    /\ task[t].pc = "releasing" =>
         live[task[t].live].session = task[t].session
    /\ task[t].pc \in {"free", "releasing"} => live[t].stage = "unused"
Suspended == \A t \in Tasks : RestsAt(t)

\* A request that resumes after a disposal while the server closes meets no
\* runtime of its session but one that will be discarded.
LateAt(t) ==
    Closing /\ task[t].pc = "releasing" /\ Disposed(live[task[t].live]) =>
      \A n \in Tasks :
        Claims(live[n]) /\ live[n].session = task[t].session =>
          live[n].stage \in {"acquiring", "discarding"}
Late == \A t \in Tasks : LateAt(t)

\* Once close() has reached the transports, nobody is served any more.
Unserved ==
    server.phase \notin {"open", "listeners"} =>
      \A c \in Conns : conn[c].stage # "ready"

IInv == Typed /\ MapsInv /\ Suspended /\ Late /\ Unserved
-----------------------------------------------------------------------------
(* Steps that use a runtime, or leave it to maybeDispose *)

\* Such a step may begin the disposal of the runtime and nothing else that the
\* invariant looks at.
Used(l, m) ==
    /\ m \in LiveRecord
    /\ m.stage = l.stage /\ m.session = l.session /\ m.outcome = l.outcome
    /\ \/ m.disposing = l.disposing /\ m.disposals = l.disposals
       \/ /\ ~Closing /\ l.stage = "ready" /\ l.disposing = FALSE
          /\ m.disposing = TRUE /\ m.disposals = l.disposals + 1
Uses ==
    /\ live' = [n \in Tasks |-> live'[n]]
    /\ \A n \in Tasks : Used(live[n], live'[n])

\* Two records agree on everything but how the session is used.
Alike(l, m) ==
    /\ m \in LiveRecord
    /\ m.stage = l.stage /\ m.session = l.session /\ m.outcome = l.outcome
    /\ m.disposing = l.disposing /\ m.disposals = l.disposals

\* Fields that only record the use of a session do not matter, and neither
\* does a maybeDispose that follows.
LEMMA AlikeUsed ==
    ASSUME NEW l \in LiveRecord, NEW k, Alike(l, k)
    PROVE  Used(l, k) /\ Used(l, MaybeDispose(k))
<1>1. Used(l, k)
  BY DEF Used, Alike
<1>2. CASE ~Closing /\ Unused(k)
  <2>1. k.stage = "ready" /\ k.disposing = FALSE
    BY <1>2 DEF Unused, Alike, LiveRecord
  <2> DEFINE m == [[k EXCEPT !.disposing = TRUE] EXCEPT !.disposals = @ + 1]
  <2>2. MaybeDispose(k) = m
    BY <1>2 DEF MaybeDispose, Dispose
  <2>3. m \in LiveRecord
    <3>1. k.disposals + 1 \in Nat /\ k.disposals = l.disposals
      BY DEF LiveRecord, Alike
    <3>2. m = [k EXCEPT !.disposing = TRUE, !.disposals = k.disposals + 1]
      BY DEF LiveRecord, Alike
    <3> HIDE DEF m
    <3> QED BY <3>1, <3>2 DEF LiveRecord, Alike
  <2>4. m.disposals = l.disposals + 1 /\ m.disposing = TRUE /\ m.stage = l.stage
        /\ m.session = l.session /\ m.outcome = l.outcome
    BY DEF LiveRecord, Alike
  <2> QED BY <1>1, <1>2, <2>1, <2>2, <2>3, <2>4 DEF Used, Alike
<1>3. CASE ~(~Closing /\ Unused(k))
  BY <1>1, <1>3 DEF MaybeDispose
<1> QED BY <1>1, <1>2, <1>3

\* A step that uses one runtime.
LEMMA OneUsed ==
    ASSUME Typed, NEW n \in Tasks, NEW m, live' = [live EXCEPT ![n] = m],
           Used(live[n], m)
    PROVE  Uses
<1>1. \A k \in Tasks : Alike(live[k], live[k])
  BY DEF Typed, Alike
<1>2. \A k \in Tasks : Used(live[k], live[k])
  BY <1>1, AlikeUsed DEF Typed
<1>3. live' = [k \in Tasks |-> IF k = n THEN m ELSE live[k]]
  BY DEF Typed
<1> QED BY <1>2, <1>3 DEF Uses

\* A step that leaves every runtime alone.
LEMMA NoneUsed ==
    ASSUME Typed, UNCHANGED live
    PROVE  Uses
<1>1. \A k \in Tasks : Alike(live[k], live[k])
  BY DEF Typed, Alike
<1>2. \A k \in Tasks : Used(live[k], live[k])
  BY <1>1, AlikeUsed DEF Typed
<1> QED BY <1>2 DEF Uses, Typed

\* A disconnect uses the sessions of its connections.
LEMMA LeftUsed ==
    ASSUME Typed, NEW C, NEW n \in Tasks
    PROVE  Used(live[n], Left(n, C))
<1> DEFINE leaving == {c \in C : n \in LiveOf(c)}
           k == [live[n] EXCEPT !.connections = @ \ leaving]
<1>1. live[n] \in LiveRecord
  BY DEF Typed
<1>2. Alike(live[n], live[n]) /\ Alike(live[n], k)
  BY <1>1 DEF Alike, LiveRecord
<1>3. Used(live[n], live[n]) /\ Used(live[n], MaybeDispose(k))
  BY <1>1, <1>2, AlikeUsed
<1> QED BY <1>3 DEF Left

\* detach
LEMMA DetachUses ==
    ASSUME Typed, NEW t \in Tasks, NEW c \in Conns, NEW s \in Sessions,
           RequestDetach(t, c, s)
    PROVE  Uses
<1> DEFINE n == liveSessions[s]
           l == [live[n] EXCEPT !.connections = @ \ {c}]
<1>1. CASE n = None
  BY <1>1, NoneUsed DEF RequestDetach
<1>2. CASE n # None
  <2>1. n \in Tasks /\ live[n] \in LiveRecord
    BY <1>2 DEF Typed, Ids
  <2>2. Alike(live[n], l)
    BY <2>1 DEF Alike, LiveRecord
  <2>3. Used(live[n], l) /\ Used(live[n], MaybeDispose(l))
    BY <2>1, <2>2, AlikeUsed
  <2>4. \E m \in {l, MaybeDispose(l)} : live' = [live EXCEPT ![n] = m]
    BY <1>2 DEF RequestDetach
  <2> QED BY <2>1, <2>3, <2>4, OneUsed
<1> QED BY <1>1, <1>2

\* prompt, steer, abort, set_model, set_thinking
LEMMA OperationUses ==
    ASSUME Typed, NEW t \in Tasks, NEW c \in Conns, NEW s \in Sessions,
           RequestOperation(t, c, s)
    PROVE  Uses
<1> DEFINE n == liveSessions[s]
<1>1. n \in Tasks /\ live[n] \in LiveRecord
  BY DEF Typed, Ids, RequestOperation
<1>2. PICK p \in {live[n].phase, "turn"} :
        live' = [live EXCEPT ![n].operations = @ + 1, ![n].phase = p]
  BY <1>1 DEF RequestOperation
<1> DEFINE m == [live[n] EXCEPT !.operations = @ + 1, !.phase = p]
<1>3. Alike(live[n], m)
  <2>1. live[n].operations + 1 \in Int /\ p \in {"idle", "turn"}
    BY <1>1 DEF LiveRecord
  <2> QED BY <1>1, <2>1 DEF Alike, LiveRecord
<1>4. Used(live[n], m)
  BY <1>1, <1>3, AlikeUsed
<1>5. live' = [live EXCEPT ![n] = m]
  BY <1>1, <1>2 DEF Typed
<1> QED BY <1>1, <1>4, <1>5, OneUsed


\* The steps of a request after its start.
LEMMA TaskUses ==
    ASSUME Typed, Suspended, NEW t \in Tasks,
           Attach(t) \/ DetachReported(t) \/ OperationEnds(t)
             \/ RequestEnds(t) \/ OperationSucceeds(t)
    PROVE  Uses
<1> DEFINE n == task[t].live
<1>1. ASSUME task[t].pc \in {"attach", "opening", "leaving", "operating",
                             "reporting"}
      PROVE  n \in Tasks /\ live[n] \in LiveRecord
  BY <1>1 DEF Typed, Suspended, RestsAt
<1>2. CASE Attach(t)
  <2> DEFINE k == [live[n] EXCEPT !.connections = @ \union {task[t].conn}]
  <2>1. n \in Tasks /\ live[n] \in LiveRecord /\ task[t].conn \in Conns
    BY <1>1, <1>2 DEF Attach, Suspended, RestsAt
  <2>2. Alike(live[n], live[n]) /\ Alike(live[n], k)
    BY <2>1 DEF Alike, LiveRecord
  <2>3. Used(live[n], k) /\ Used(live[n], MaybeDispose(live[n]))
    BY <2>1, <2>2, AlikeUsed
  <2>4. \E m \in {k, MaybeDispose(live[n])} : live' = [live EXCEPT ![n] = m]
    BY <1>2, <2>1 DEF Attach, Typed
  <2> QED BY <2>1, <2>3, <2>4, OneUsed
<1>3. CASE DetachReported(t)
  <2>1. n \in Tasks /\ live[n] \in LiveRecord
    BY <1>1, <1>3 DEF DetachReported
  <2>2. Used(live[n], MaybeDispose(live[n]))
    BY <2>1, AlikeUsed DEF Alike
  <2>3. live' = [live EXCEPT ![n] = MaybeDispose(live[n])] \/ UNCHANGED live
    BY <1>3 DEF DetachReported
  <2> QED BY <2>1, <2>2, <2>3, OneUsed, NoneUsed
<1>4. CASE OperationEnds(t)
  <2> DEFINE k == [live[n] EXCEPT !.operations = @ - 1]
  <2>1. n \in Tasks /\ live[n] \in LiveRecord
    BY <1>1, <1>4 DEF OperationEnds
  <2>2. Alike(live[n], k)
    <3>1. live[n].operations - 1 \in Int
      BY <2>1 DEF LiveRecord
    <3> QED BY <2>1, <3>1 DEF Alike, LiveRecord
  <2>3. Used(live[n], MaybeDispose(k))
    BY <2>1, <2>2, AlikeUsed
  <2>4. live' = [live EXCEPT ![n] = MaybeDispose(k)]
    BY <1>4 DEF OperationEnds
  <2> QED BY <2>1, <2>3, <2>4, OneUsed
<1>5. CASE RequestEnds(t) \/ OperationSucceeds(t)
  BY <1>5, NoneUsed DEF RequestEnds, OperationSucceeds
<1> QED BY <1>2, <1>3, <1>4, <1>5

\* Events of a runtime, and what follows from an error.
LEMMA RuntimeUses ==
    ASSUME Typed, NEW n \in Tasks, RuntimeStep(n) \/ TerminateStep(n)
    PROVE  Uses
<1>1. live[n] \in LiveRecord
  BY DEF Typed
<1>2. ASSUME NEW phase \in {live[n].phase, "idle"}, RuntimeEvent(n, phase)
      PROVE  Uses
  <2> DEFINE k == [live[n] EXCEPT !.phase = phase]
  <2>1. Alike(live[n], k)
    BY <1>1 DEF Alike, LiveRecord
  <2>2. Used(live[n], MaybeDispose(k))
    BY <1>1, <2>1, AlikeUsed
  <2>3. live' = [live EXCEPT ![n] = MaybeDispose(k)]
    BY <1>2 DEF RuntimeEvent
  <2> QED BY <2>2, <2>3, OneUsed
<1>3. CASE RuntimeError(n)
  <2> DEFINE k == [live[n] EXCEPT !.terminal = TRUE,
                                  !.doomed = live[n].connections,
                                  !.ending = "closing"]
  <2>1. Alike(live[n], k)
    BY <1>1 DEF Alike, LiveRecord
  <2>2. Used(live[n], k)
    BY <1>1, <2>1, AlikeUsed
  <2>3. live' = [live EXCEPT ![n] = k]
    BY <1>1, <1>3 DEF RuntimeError, Typed
  <2> QED BY <2>2, <2>3, OneUsed
<1>4. CASE TerminateDisconnects(n)
  <2> DEFINE C == {c \in live[n].doomed : Connected(c)}
             k == [Left(n, C) EXCEPT !.ending = "disposing", !.doomed = {}]
  <2>1. \A m \in Tasks : Used(live[m], Left(m, C))
    BY LeftUsed
  <2>2. Alike(Left(n, C), k)
    BY <2>1, ZenonT(60) DEF Used, Alike, LiveRecord
  <2>3. Used(live[n], k)
    BY <2>1, <2>2 DEF Used, Alike
  <2>4. live' = [m \in Tasks |-> IF m = n THEN k ELSE Left(m, C)]
    BY <1>4 DEF TerminateDisconnects
  <2> HIDE DEF C, k
  <2> QED BY <2>1, <2>3, <2>4 DEF Uses
<1>5. CASE TerminateDisposes(n)
  <2> DEFINE k == [live[n] EXCEPT !.ending = "done"]
  <2>1. Alike(live[n], k)
    BY <1>1 DEF Alike, LiveRecord
  <2>2. Used(live[n], MaybeDispose(k))
    BY <1>1, <2>1, AlikeUsed
  <2>3. live' = [live EXCEPT ![n] = MaybeDispose(k)]
    BY <1>5 DEF TerminateDisposes
  <2> QED BY <2>2, <2>3, OneUsed
<1> QED BY <1>2, <1>3, <1>4, <1>5 DEF RuntimeStep, TerminateStep

\* A disconnect by the transport or by close().
LEMMA DisconnectUses ==
    ASSUME Typed, NEW C, DisconnectAll(C)
    PROVE  Uses
<1>1. \A n \in Tasks : Used(live[n], Left(n, C))
  BY LeftUsed
<1>2. live' = [n \in Tasks |-> Left(n, C)]
  BY DEF DisconnectAll
<1> QED BY <1>1, <1>2 DEF Uses

\* A step that uses runtimes, drops no opening under way from the map and
\* does not take close() past its disconnects keeps the claims as they are.
LEMMA UsesKeepMaps ==
    ASSUME Typed, MapsInv, Uses, UNCHANGED liveSessions,
           \A n \in Tasks : Opening(live[n]) =>
             openingSessions'[live[n].session]
               = openingSessions[live[n].session],
           \/ UNCHANGED server
           \/ /\ server.phase \in {"open", "listeners", "transports"}
              /\ server'.phase \in {"listeners", "transports",
                                    "disconnecting"}
    PROVE  MapsInv'
<1>1. \A n \in Tasks : Used(live[n], live'[n])
  BY DEF Uses
<1>2. \A n \in Tasks :
        /\ live'[n].stage = live[n].stage
        /\ live'[n].session = live[n].session
        /\ live'[n].outcome = live[n].outcome
  BY <1>1 DEF Used
<1>3. Cleared' <=> Cleared
  BY DEF Cleared
<1>4. \A n \in Tasks : (Opening(live[n])' <=> Opening(live[n]))
                       /\ (Disposed(live[n])' <=> Disposed(live[n]))
                       /\ (Claims(live[n])' <=> Claims(live[n]))
  BY <1>2 DEF Opening, Disposed, Claims
<1>5. Placed'
  BY <1>2, <1>4 DEF Placed, MapsInv
<1>6. Listed' /\ Registered' /\ Emptied'
  BY <1>2, <1>3, <1>4 DEF Listed, Registered, Emptied, MapsInv, Typed, Ids
<1>7. Counted'
  <2>1. Cleared => Closing
    BY DEF Cleared, Closing
  <2> SUFFICES ASSUME NEW n \in Tasks
               PROVE  LET l == live'[n] IN
                      /\ l.disposals <= 1
                      /\ l.stage \in {"unused", "acquiring", "snapshotting"}
                           => l.disposals = 0 /\ ~l.disposing
                      /\ l.stage = "discarding" => l.disposals = 1
                      /\ l.stage = "ready" /\ ~l.disposing /\ ~Cleared' =>
                           l.disposals = 0
                      /\ l.stage = "ready" /\ ~l.disposing /\ Cleared' =>
                           l.disposals = 1
                      /\ l.disposing => l.disposals = 1
                      /\ l.disposals = 0 => ~Disposed(l)
    BY DEF Counted, Disposed
  <2>2. CASE live'[n].disposing = live[n].disposing
             /\ live'[n].disposals = live[n].disposals
    BY <1>2, <1>3, <2>2 DEF Counted, MapsInv, Disposed
  <2>3. CASE /\ ~Closing /\ live[n].stage = "ready"
             /\ live[n].disposing = FALSE /\ live'[n].disposing = TRUE
             /\ live'[n].disposals = live[n].disposals + 1
    <3>1. live[n].disposals = 0
      BY <2>1, <2>3 DEF Counted, MapsInv
    <3>2. live'[n].disposals = 1
      BY <2>3, <3>1
    <3> QED BY <1>2, <2>3, <3>2
  <2> QED BY <1>1, <2>2, <2>3 DEF Used
<1>8. Awaited'
  BY <1>2, <1>3 DEF Awaited, MapsInv
<1>9. Exclusive'
  BY <1>2, <1>4 DEF Exclusive, MapsInv
<1> QED BY <1>5, <1>6, <1>7, <1>8, <1>9 DEF MapsInv

-----------------------------------------------------------------------------
(* Openings *)

\* Once close() has cleared the map, no runtime of the session is live.
Claimable(s) ==
    Cleared => \A n \in Tasks :
                 Claims(live[n]) /\ live[n].session = s =>
                   live[n].stage \in {"acquiring", "discarding"}

\* Request t has asked for a runtime of s, unless it joins another.
OpenedBy(t, s) ==
    /\ live' \in [Tasks -> LiveRecord]
    /\ openingSessions' \in [Sessions -> Ids]
    /\ \A n \in Tasks : n # t => live'[n] = live[n]
    /\ Opens(s) => live'[t].stage = "acquiring"
    /\ ~Opens(s) => live'[t].stage = "unused"

\* Asking the service for a runtime claims a session nobody claims.
LEMMA OpenKeepsMaps ==
    ASSUME Typed, MapsInv, NEW t \in Tasks, NEW s \in Sessions,
           live[t].stage = "unused", Open(t, s),
           UNCHANGED <<liveSessions, server>>,
           Claimable(s)
    PROVE  MapsInv' /\ OpenedBy(t, s)
<1>1. CASE ~Opens(s)
  <2>1. UNCHANGED <<live, openingSessions>>
    BY <1>1 DEF Open
  <2>2. MapsInv'
    BY <2>1, NoneUsed, UsesKeepMaps
  <2> QED BY <1>1, <2>1, <2>2 DEF Typed, OpenedBy
<1>2. CASE Opens(s)
  <2> DEFINE k == [live[t] EXCEPT !.stage = "acquiring", !.session = s]
  <2>1. /\ live' = [live EXCEPT ![t] = k]
        /\ openingSessions' = [openingSessions EXCEPT ![s] = t]
        /\ liveSessions[s] = None /\ openingSessions[s] = None
    BY <1>2 DEF Open, Opens, Typed
  <2>2. /\ k \in LiveRecord /\ k.stage = "acquiring" /\ k.session = s
        /\ k.disposals = live[t].disposals /\ k.outcome = live[t].outcome
        /\ k.disposing = live[t].disposing
    BY ZenonT(60) DEF Typed, LiveRecord, Stages
  <2> HIDE DEF k
  <2>3. live' \in [Tasks -> LiveRecord] /\ live'[t] = k
        /\ \A n \in Tasks : n # t => live'[n] = live[n]
    BY <2>1, <2>2 DEF Typed
  <2>4. openingSessions' \in [Sessions -> Ids] /\ openingSessions'[s] = t
        /\ \A r \in Sessions : r # s =>
             openingSessions'[r] = openingSessions[r]
    BY <2>1 DEF Typed, Ids
  <2>5. \A n \in Tasks : Claims(live[n]) => live[n].session # s
    <3> SUFFICES ASSUME NEW n \in Tasks, Claims(live[n]),
                        live[n].session = s
                 PROVE  FALSE
      OBVIOUS
    <3>1. ~Opening(live[n])
      BY <2>1, BoundsAssumption DEF Placed, MapsInv, Tasks
    <3>2. live[n].stage = "ready" /\ ~Disposed(live[n])
      BY <3>1 DEF Claims
    <3>3. Cleared
      BY <2>1, <3>2, BoundsAssumption DEF Registered, MapsInv, Tasks
    <3> QED BY <3>1, <3>3 DEF Opening, Claimable
  <2>6. \A n \in Tasks : live[n].session \in Sessions
    BY DEF Typed, LiveRecord
  <2>7. Placed'
    BY <2>2, <2>3, <2>4, <2>5, <2>6
       DEF Placed, MapsInv, Opening, Claims
  <2>8. Listed' /\ Registered' /\ Emptied'
    <3>1. \A r \in Sessions : liveSessions[r] # None =>
            liveSessions[r] \in Tasks \ {t}
      BY DEF Typed, Ids, Listed, MapsInv
    <3> QED BY <2>2, <2>3, <3>1
            DEF Listed, Registered, Emptied, MapsInv, Cleared, Disposed
  <2>9. Counted'
    BY <2>2, <2>3 DEF Counted, MapsInv, Cleared, Disposed
  <2>10. Awaited'
    BY <2>2, <2>3 DEF Awaited, MapsInv, Cleared
  <2>11. Exclusive'
    BY <2>2, <2>3, <2>5
       DEF Exclusive, MapsInv, Claims, Opening, Disposed
  <2> QED BY <1>2, <2>1, <2>2, <2>3, <2>4, <2>7, <2>8, <2>9, <2>10, <2>11
          DEF MapsInv, OpenedBy
<1> QED BY <1>1, <1>2

\* An opening that goes on, fails or registers its session.
LEMMA OpeningKeepsMaps ==
    ASSUME Typed, MapsInv, NEW n \in Tasks,
           RuntimeAcquired(n) \/ RuntimeRefused(n) \/ Register(n)
             \/ SnapshotRefused(n)
    PROVE  /\ MapsInv' /\ live' \in [Tasks -> LiveRecord]
           /\ liveSessions' \in [Sessions -> Ids]
           /\ \A m \in Tasks : m # n => live'[m] = live[m]
           /\ live'[n].session = live[n].session
           /\ live'[n].outcome = live[n].outcome
           /\ live[n].stage \in {"acquiring", "snapshotting"}
           /\ \/ live'[n].stage \in {"discarding", "failed"}
              \/ /\ live[n].stage = "acquiring" /\ ~Closing
                 /\ live'[n].stage = "snapshotting"
              \/ /\ live[n].stage = "snapshotting"
                 /\ live'[n].stage = "ready"
<1> DEFINE l == live[n]
           s == live[n].session
<1>1. l \in LiveRecord /\ s \in Sessions
  BY DEF Typed, LiveRecord
<1>2. /\ l.stage \in {"acquiring", "snapshotting"} /\ l.disposals = 0
      /\ l.disposing = FALSE /\ l.outcome = "pending"
  <2>1. l.stage \in {"acquiring", "snapshotting"}
    BY DEF RuntimeAcquired, RuntimeRefused, Register, SnapshotRefused
  <2>2. l.disposals = 0 /\ ~l.disposing /\ ~Disposed(l)
    BY <2>1 DEF Counted, MapsInv
  <2> QED BY <1>1, <2>1, <2>2 DEF Disposed, LiveRecord
<1>3. PICK m \in LiveRecord :
        /\ live' = [live EXCEPT ![n] = m]
        /\ m.session = s /\ m.outcome = "pending" /\ m.disposing = FALSE
        /\ \/ m.stage = "discarding" /\ m.disposals = 1
           \/ m.stage = "failed" /\ m.disposals = 0
           \/ /\ m.stage = "snapshotting" /\ m.disposals = 0
              /\ l.stage = "acquiring" /\ ~Closing
           \/ /\ m.stage = "ready" /\ m.disposals = 0
              /\ l.stage = "snapshotting"
              /\ liveSessions' = [liveSessions EXCEPT ![s] = n]
        /\ (m.stage = "ready" \/ UNCHANGED liveSessions)
  <2> DEFINE e == [l EXCEPT !.stage = "discarding"]
             d == [e EXCEPT !.disposals = 1]
             f == [l EXCEPT !.stage = "failed"]
             g == [l EXCEPT !.stage = "snapshotting"]
             r == [l EXCEPT !.stage = "ready"]
  <2>1. /\ d \in LiveRecord /\ d.session = s /\ d.outcome = "pending"
        /\ d.disposing = FALSE /\ d.stage = "discarding" /\ d.disposals = 1
    BY <1>1, <1>2 DEF LiveRecord, Stages
  <2>2. /\ f \in LiveRecord /\ f.session = s /\ f.outcome = "pending"
        /\ f.disposing = FALSE /\ f.stage = "failed" /\ f.disposals = 0
    BY <1>1, <1>2 DEF LiveRecord, Stages
  <2>3. /\ g \in LiveRecord /\ g.session = s /\ g.outcome = "pending"
        /\ g.disposing = FALSE /\ g.stage = "snapshotting"
        /\ g.disposals = 0
    BY <1>1, <1>2 DEF LiveRecord, Stages
  <2>4. /\ r \in LiveRecord /\ r.session = s /\ r.outcome = "pending"
        /\ r.disposing = FALSE /\ r.stage = "ready" /\ r.disposals = 0
    BY <1>1, <1>2 DEF LiveRecord, Stages
  <2>5. Dispose([l EXCEPT !.stage = "discarding"]) = d
    <3>1. e.disposals = 0 /\ Dispose(e) = [e EXCEPT !.disposals = @ + 1]
      BY <1>1, <1>2 DEF Dispose, LiveRecord
    <3>2. e.disposals + 1 = 1
      BY <3>1
    <3> QED BY <3>1, <3>2
  <2>6. RuntimeAcquired(n) =>
          /\ live' = [live EXCEPT ![n] = IF Closing THEN d ELSE g]
          /\ l.stage = "acquiring" /\ UNCHANGED liveSessions
    BY <2>5 DEF RuntimeAcquired, maps
  <2>7. RuntimeRefused(n) =>
          live' = [live EXCEPT ![n] = f] /\ UNCHANGED liveSessions
    BY <1>1 DEF RuntimeRefused, maps, Typed
  <2>8. Register(n) =>
          /\ live' = [live EXCEPT ![n] = r] /\ l.stage = "snapshotting"
          /\ liveSessions' = [liveSessions EXCEPT ![s] = n]
    BY <1>1 DEF Register, Typed
  <2>9. SnapshotRefused(n) =>
          live' = [live EXCEPT ![n] = d] /\ UNCHANGED liveSessions
    BY <2>5 DEF SnapshotRefused, maps
  <2> HIDE DEF d, e, f, g, r, l, s
  <2> QED BY <2>1, <2>2, <2>3, <2>4, <2>6, <2>7, <2>8, <2>9
<1>4. UNCHANGED <<openingSessions, server>>
  BY DEF RuntimeAcquired, RuntimeRefused, Register, SnapshotRefused, maps
<1>5. live' \in [Tasks -> LiveRecord] /\ live'[n] = m
      /\ \A k \in Tasks : k # n => live'[k] = live[k]
  BY <1>3 DEF Typed
<1>6. liveSessions' \in [Sessions -> Ids]
  BY <1>3 DEF Typed, Ids
<1>7. \A k \in Tasks : Claims(live[k]) /\ live[k].session = s => k = n
  BY <1>2 DEF Exclusive, MapsInv, Claims, Opening
<1>8. Placed'
  BY <1>2, <1>3, <1>4, <1>5 DEF Placed, MapsInv, Opening
<1>9. Listed' /\ Registered' /\ Emptied'
  <2>1. \A r \in Sessions : liveSessions[r] # None =>
          liveSessions[r] \in Tasks \ {n}
    BY <1>2 DEF Typed, Ids, Listed, MapsInv
  <2>2. CASE m.stage # "ready"
    BY <1>3, <1>4, <1>5, <2>1, <2>2
       DEF Listed, Registered, Emptied, MapsInv, Cleared, Disposed
  <2>3. CASE m.stage = "ready"
    <3>1. /\ liveSessions' = [liveSessions EXCEPT ![s] = n]
          /\ l.stage = "snapshotting"
      BY <1>3, <2>3
    <3>2. ~Cleared
      BY <3>1 DEF Awaited, MapsInv
    <3>3. liveSessions'[s] = n /\ \A r \in Sessions : r # s =>
            liveSessions'[r] = liveSessions[r]
      BY <1>1, <3>1 DEF Typed
    <3>4. Listed'
      BY <1>3, <1>5, <2>1, <2>3, <3>3 DEF Listed, MapsInv, Disposed
    <3>5. \A k \in Tasks :
            live'[k].stage = "ready" /\ ~Disposed(live[k])' /\ k # n =>
              live[k].session # s /\ live[k].session \in Sessions
      BY <1>5, <1>7 DEF Claims, Disposed, Typed, LiveRecord
    <3>6. Registered'
      BY <1>3, <1>4, <1>5, <3>3, <3>5
         DEF Registered, MapsInv, Cleared, Disposed
    <3> QED BY <1>4, <3>2, <3>4, <3>6 DEF Emptied, Cleared
  <2> QED BY <2>2, <2>3
<1>10. Counted'
  <2>1. m.stage = "ready" => ~Cleared
    BY <1>3 DEF Awaited, MapsInv
  <2>2. \A k \in Tasks : k # n => live'[k] = live[k]
    BY <1>5
  <2> QED BY <1>3, <1>4, <1>5, <2>1 DEF Counted, MapsInv, Cleared, Disposed
<1>11. Awaited'
  <2>1. m.stage = "snapshotting" => ~Cleared /\ server.phase # "openings"
    BY <1>3 DEF Closing, Cleared
  <2> QED BY <1>4, <1>5, <2>1 DEF Awaited, MapsInv, Cleared
<1>12. Exclusive'
  <2>1. \A k \in Tasks : k # n => (Claims(live[k])' <=> Claims(live[k]))
    BY <1>5 DEF Claims, Opening, Disposed
  <2> QED BY <1>3, <1>5, <1>7, <2>1 DEF Exclusive, MapsInv
<1> QED BY <1>2, <1>3, <1>5, <1>6, <1>8, <1>9, <1>10, <1>11, <1>12
        DEF MapsInv

-----------------------------------------------------------------------------
(* Disposals and the shutdown *)

\* A disposal that settles ends the claim of its runtime.
LEMMA DisposeKeepsMaps ==
    ASSUME Typed, MapsInv, NEW n \in Tasks, NEW outcome \in {"done", "failed"},
           DisposeSettles(n, outcome)
    PROVE  /\ MapsInv' /\ live' \in [Tasks -> LiveRecord]
           /\ liveSessions' \in [Sessions -> Ids]
           /\ \A m \in Tasks : m # n => live'[m] = live[m]
           /\ live'[n].session = live[n].session
           /\ ~Claims(live[n])' /\ ~Disposed(live[n])
           /\ live[n].stage \in {"discarding", "ready", "failed"}
           /\ live'[n].stage = (IF live[n].stage = "discarding" THEN "failed"
                                ELSE live[n].stage)
<1> DEFINE l == live[n]
<1>1. l \in LiveRecord
  BY DEF Typed
<1>2. /\ l.disposals = 1 /\ l.outcome = "pending"
      /\ l.stage \in {"discarding", "ready", "failed"}
  <2>1. l.disposals > 0 /\ ~Disposed(l)
    BY DEF DisposeSettles
  <2>2. l.disposals = 1 /\ l.stage \notin {"unused", "acquiring",
                                           "snapshotting"}
    BY <1>1, <2>1 DEF Counted, MapsInv, LiveRecord
  <2> QED BY <1>1, <2>1, <2>2 DEF LiveRecord, Stages, Disposed
<1>3. PICK m \in LiveRecord :
        /\ live' = [live EXCEPT ![n] = m]
        /\ m.session = l.session /\ m.outcome = outcome
        /\ m.disposals = 1 /\ m.disposing = l.disposing
        /\ m.stage = IF l.stage = "discarding" THEN "failed" ELSE l.stage
  <2> DEFINE g == IF l.stage = "discarding" THEN "failed" ELSE l.stage
             m == [l EXCEPT !.outcome = outcome, !.stage = g]
  <2>1. /\ m \in LiveRecord /\ m.session = l.session /\ m.outcome = outcome
        /\ m.disposals = 1 /\ m.disposing = l.disposing /\ m.stage = g
    BY <1>1, <1>2 DEF LiveRecord, Stages
  <2>2. live' = [live EXCEPT ![n] = m]
    BY <1>1 DEF DisposeSettles, Typed
  <2> HIDE DEF m
  <2> QED BY <2>1, <2>2
<1>4. live' \in [Tasks -> LiveRecord] /\ live'[n] = m
      /\ \A k \in Tasks : k # n => live'[k] = live[k]
  BY <1>3 DEF Typed
<1>5. /\ UNCHANGED <<openingSessions, server>>
      /\ liveSessions' =
           [s \in Sessions |->
              IF live[n].disposing /\ liveSessions[s] = n THEN None
              ELSE liveSessions[s]]
  BY DEF DisposeSettles
<1>6. liveSessions' \in [Sessions -> Ids]
  BY <1>5 DEF Typed, Ids
<1>7. ~Claims(m) /\ m.stage \in {"failed", "ready"} /\ Disposed(m)
  BY <1>2, <1>3 DEF Claims, Opening, Disposed
<1>8. Placed'
  BY <1>4, <1>5, <1>7 DEF Placed, MapsInv, Opening
<1>9. \A s \in Sessions : liveSessions'[s] # None =>
        liveSessions[s] = liveSessions'[s] /\ liveSessions[s] \in Tasks \ {n}
  <2> SUFFICES ASSUME NEW s \in Sessions, liveSessions'[s] # None
               PROVE  liveSessions[s] = liveSessions'[s]
                      /\ liveSessions[s] \in Tasks \ {n}
    OBVIOUS
  <2>1. /\ liveSessions[s] = liveSessions'[s] /\ liveSessions[s] \in Tasks
        /\ liveSessions[s] = n => live[n].disposing = FALSE
    BY <1>1, <1>5 DEF Typed, Ids, LiveRecord
  <2>2. ASSUME liveSessions[s] = n PROVE FALSE
    <3>1. l.stage = "ready" /\ ~l.disposing
      BY <2>1, <2>2 DEF Listed, MapsInv, Typed
    <3>2. Cleared
      BY <1>2, <3>1 DEF Counted, MapsInv
    <3> QED BY <2>1, <3>2 DEF Emptied, MapsInv
  <2> QED BY <2>1, <2>2
<1>10. Listed'
  BY <1>4, <1>9 DEF Listed, MapsInv, Disposed
<1>11. Registered'
  <2> SUFFICES ASSUME NEW k \in Tasks, live'[k].stage = "ready",
                      ~Disposed(live[k])', ~Cleared'
               PROVE  liveSessions'[live'[k].session] = k
    BY DEF Registered
  <2>1. k # n /\ live'[k] = live[k] /\ live[k].session \in Sessions
    BY <1>4, <1>7 DEF Typed, LiveRecord, Disposed
  <2>2. liveSessions[live[k].session] = k
    BY <1>5, <2>1 DEF Registered, MapsInv, Cleared, Disposed
  <2> QED BY <1>5, <2>1, <2>2
<1>12. Emptied'
  BY <1>5, <1>9 DEF Emptied, MapsInv, Cleared
<1>13. Counted'
  <2>1. m.disposing => m.disposals = 1
    BY <1>3
  <2>2. m.stage = "ready" /\ ~m.disposing => Cleared
    BY <1>2, <1>3 DEF Counted, MapsInv
  <2> QED BY <1>3, <1>4, <1>5, <1>7, <2>1, <2>2
          DEF Counted, MapsInv, Cleared, Disposed
<1>14. Awaited'
  BY <1>4, <1>5, <1>7 DEF Awaited, MapsInv, Cleared
<1>15. Exclusive'
  <2>1. \A k \in Tasks : k # n => (Claims(live[k])' <=> Claims(live[k]))
    BY <1>4 DEF Claims, Opening, Disposed
  <2>2. ~Claims(live[n])'
    BY <1>4, <1>7 DEF Claims, Opening, Disposed
  <2> QED BY <1>4, <2>1, <2>2 DEF Exclusive, MapsInv
<1> QED
  BY <1>2, <1>3, <1>4, <1>6, <1>7, <1>8, <1>10, <1>11, <1>12, <1>13, <1>14,
     <1>15
  DEF MapsInv, Claims, Opening, Disposed

\* close() takes every live session out of the map, and gives up those that
\* nobody was giving up.
LEMMA ClearKeepsMaps ==
    ASSUME Typed, MapsInv, CloseSessions
    PROVE  /\ MapsInv' /\ live' \in [Tasks -> LiveRecord]
           /\ liveSessions' \in [Sessions -> Ids]
           /\ \A n \in Tasks : /\ live'[n].stage = live[n].stage
                               /\ live'[n].session = live[n].session
                               /\ live'[n].outcome = live[n].outcome
<1> DEFINE sessions == {liveSessions[s] : s \in Sessions} \ {None}
<1>1. /\ server.phase = "openings" /\ server'.phase = "disposing"
      /\ \A n \in server.waits : Opened(live[n])
      /\ liveSessions' = [s \in Sessions |-> None]
      /\ UNCHANGED openingSessions
      /\ live' = [n \in Tasks |->
                    IF n \in sessions /\ ~live[n].disposing
                    THEN Dispose(live[n]) ELSE live[n]]
  BY DEF CloseSessions, Advance
<1>2. ~Cleared /\ Cleared'
  BY <1>1 DEF Cleared
<1>3. \A n \in sessions : /\ n \in Tasks /\ live[n].stage = "ready"
                          /\ ~Disposed(live[n])
  BY DEF Listed, MapsInv, Typed, Ids
<1>4. \A n \in Tasks :
        live[n].stage = "ready" /\ ~Disposed(live[n]) => n \in sessions
  BY <1>2, BoundsAssumption DEF Registered, MapsInv, Typed, LiveRecord, Tasks
<1>5. \A n \in Tasks :
        /\ live'[n] \in LiveRecord
        /\ live'[n].stage = live[n].stage
        /\ live'[n].session = live[n].session
        /\ live'[n].outcome = live[n].outcome
        /\ live'[n].disposing = live[n].disposing
        /\ IF n \in sessions /\ live[n].disposing = FALSE
           THEN live'[n].disposals = 1
           ELSE live'[n].disposals = live[n].disposals
  <2> SUFFICES ASSUME NEW n \in Tasks
               PROVE  /\ live'[n] \in LiveRecord
                      /\ live'[n].stage = live[n].stage
                      /\ live'[n].session = live[n].session
                      /\ live'[n].outcome = live[n].outcome
                      /\ live'[n].disposing = live[n].disposing
                      /\ IF n \in sessions /\ live[n].disposing = FALSE
                         THEN live'[n].disposals = 1
                         ELSE live'[n].disposals = live[n].disposals
    OBVIOUS
  <2>1. live[n] \in LiveRecord
    BY DEF Typed
  <2>2. CASE n \in sessions /\ live[n].disposing = FALSE
    <3>1. live[n].disposals = 0
      BY <1>2, <1>3, <2>2 DEF Counted, MapsInv
    <3>2. 0 + 1 = 1
      OBVIOUS
    <3>3. Dispose(live[n]) = [live[n] EXCEPT !.disposals = 1]
      BY <3>1, <3>2 DEF Dispose
    <3>4. live'[n] = [live[n] EXCEPT !.disposals = 1]
      BY <1>1, <2>2, <3>3
    <3> QED BY <2>1, <2>2, <3>4 DEF LiveRecord
  <2>3. CASE ~(n \in sessions /\ live[n].disposing = FALSE)
    BY <1>1, <2>1, <2>3 DEF LiveRecord
  <2> QED BY <2>2, <2>3
<1>6. Placed' /\ Listed' /\ Registered' /\ Emptied'
  BY <1>1, <1>2, <1>5
  DEF Placed, Listed, Registered, Emptied, MapsInv, Opening, Cleared
<1>7. Counted'
  <2> SUFFICES ASSUME NEW n \in Tasks
               PROVE  LET l == live'[n] IN
                      /\ l.disposals <= 1
                      /\ l.stage \in {"unused", "acquiring", "snapshotting"}
                           => l.disposals = 0 /\ ~l.disposing
                      /\ l.stage = "discarding" => l.disposals = 1
                      /\ l.stage = "ready" /\ ~l.disposing =>
                           l.disposals = 1
                      /\ l.disposing => l.disposals = 1
                      /\ l.disposals = 0 => ~Disposed(l)
    BY <1>2 DEF Counted, Disposed
  <2>1. CASE n \in sessions /\ live[n].disposing = FALSE
    BY <1>3, <1>5, <2>1 DEF Disposed
  <2>2. CASE ~(n \in sessions /\ live[n].disposing = FALSE)
    <3>1. ~(live[n].stage = "ready" /\ ~live[n].disposing)
      <4> SUFFICES ASSUME live[n].stage = "ready", ~live[n].disposing
                   PROVE  FALSE
        OBVIOUS
      <4>1. Disposed(live[n])
        BY <1>4, <2>2 DEF Typed, LiveRecord
      <4>2. live[n].disposals = 0
        BY <1>2 DEF Counted, MapsInv
      <4> QED BY <4>1, <4>2 DEF Counted, MapsInv
    <3> QED BY <1>5, <2>2, <3>1 DEF Counted, MapsInv, Disposed
  <2> QED BY <2>1, <2>2
<1>8. Awaited'
  <2>1. \A n \in Tasks : live[n].stage # "snapshotting"
    BY <1>1 DEF Awaited, MapsInv, Opened
  <2> QED BY <1>5, <2>1 DEF Awaited
<1>9. Exclusive'
  <2>1. \A n \in Tasks : Claims(live[n])' <=> Claims(live[n])
    BY <1>5 DEF Claims, Opening, Disposed
  <2> QED BY <1>5, <2>1 DEF Exclusive, MapsInv
<1>10. live' \in [Tasks -> LiveRecord]
  <2>1. live' = [n \in Tasks |-> live'[n]]
    BY <1>1
  <2> QED BY <1>5, <2>1
<1> QED BY <1>1, <1>5, <1>6, <1>7, <1>8, <1>9, <1>10 DEF Ids, MapsInv

\* The other steps of close().
LEMMA CloseKeepsMaps ==
    ASSUME Typed, MapsInv,
           Close \/ CloseTransports \/ CloseConnections
             \/ CloseAwaitsOpenings \/ CloseReturns
    PROVE  MapsInv' /\ Uses
<1>1. CASE Close \/ CloseTransports
  <2>1. /\ UNCHANGED <<live, liveSessions, openingSessions>>
        /\ server.phase \in {"open", "listeners", "transports"}
        /\ server'.phase \in {"listeners", "transports", "disconnecting"}
    <3>1. CASE Close
      BY <3>1 DEF Close, Advance, maps
    <3>2. CASE CloseTransports
      BY <3>2 DEF CloseTransports, Advance, maps
    <3> QED BY <1>1, <3>1, <3>2
  <2> QED BY <2>1, NoneUsed, UsesKeepMaps
<1>2. CASE CloseConnections
  BY <1>2, DisconnectUses, UsesKeepMaps DEF CloseConnections, Advance, maps
<1>3. CASE CloseAwaitsOpenings \/ CloseReturns
  <2>1. UNCHANGED <<live, liveSessions, openingSessions>>
    BY <1>3 DEF CloseAwaitsOpenings, CloseReturns, maps
  <2>2. Cleared' <=> Cleared
    BY <1>3 DEF CloseAwaitsOpenings, CloseReturns, Cleared, Advance
  <2>3. Placed' /\ Listed' /\ Registered' /\ Emptied'
    BY <2>1, <2>2
    DEF Placed, Listed, Registered, Emptied, MapsInv, Opening, Disposed
  <2>4. Counted' /\ Exclusive'
    BY <2>1, <2>2
    DEF Counted, Exclusive, MapsInv, Claims, Opening, Disposed
  <2>5. Awaited'
    <3> SUFFICES ASSUME NEW n \in Tasks, live[n].stage = "snapshotting"
                 PROVE  ~Cleared'
                        /\ (server'.phase = "openings" => n \in server'.waits)
      BY <2>1 DEF Awaited
    <3>1. ~Cleared
      BY DEF Awaited, MapsInv
    <3>2. openingSessions[live[n].session] = n
          /\ live[n].session \in Sessions /\ n # None
      BY BoundsAssumption
      DEF Placed, MapsInv, Opening, Typed, LiveRecord, Tasks
    <3>3. CloseAwaitsOpenings =>
            server'.waits = {openingSessions[s] : s \in Sessions} \ {None}
      BY DEF CloseAwaitsOpenings, Advance
    <3>4. CloseReturns => server'.phase = "closed"
      BY DEF CloseReturns, Advance
    <3> QED BY <1>3, <2>2, <3>1, <3>2, <3>3, <3>4
  <2> QED BY <2>1, <2>3, <2>4, <2>5, NoneUsed DEF MapsInv
<1> QED BY <1>1, <1>2, <1>3

-----------------------------------------------------------------------------
(* What is left of the invariant in each step *)

\* A connection that is closing or closed is never served again.
Step(k, m) == m \in Conn /\ (m.stage = "ready" => k.stage = "ready")
Keeps ==
    /\ conn' = [c \in Conns |-> conn'[c]]
    /\ \A c \in Conns : Step(conn[c], conn'[c])

\* Every step keeps the types of the connections and serves none again.
LEMMA ConnsStep ==
    ASSUME Typed, Suspended, [Next]_vars
    PROVE  Keeps
<1>1. \A k \in Conn, S \in SUBSET Sessions :
        /\ Step(k, k)
        /\ Step(k, [k EXCEPT !.stage = "closed", !.sessionIds = {}])
        /\ Step(k, [k EXCEPT !.stage = "closing", !.open = FALSE])
        /\ Step(k, [k EXCEPT !.open = FALSE])
        /\ Step(k, [k EXCEPT !.sessionIds = S])
  BY DEF Conn, Step
<1>2. \A C : \A c \in Conns : Step(conn[c], Gone(c, C))
  BY <1>1 DEF Typed, Gone
<1>3. ASSUME NEW c \in Conns, NEW k, Step(conn[c], k),
             conn' = [conn EXCEPT ![c] = k]
      PROVE  Keeps
  <2>1. conn' = [d \in Conns |-> IF d = c THEN k ELSE conn[d]]
    BY <1>3 DEF Typed
  <2>2. \A d \in Conns : Step(conn[d], conn[d])
    BY <1>1 DEF Typed
  <2> QED BY <1>3, <2>1, <2>2 DEF Keeps
<1>4. ASSUME UNCHANGED conn PROVE Keeps
  BY <1>1, <1>4 DEF Typed, Keeps
<1>5. ASSUME NEW C, conn' = [c \in Conns |-> Gone(c, C)]
      PROVE  Keeps
  BY <1>2, <1>5 DEF Keeps
<1>6. ASSUME NEW t \in Tasks, NEW c \in Conns, NEW s \in Sessions,
             RequestDetach(t, c, s)
      PROVE  Keeps
  <2> DEFINE k == [conn[c] EXCEPT !.sessionIds = @ \ {s}]
  <2>1. conn[c] \in Conn /\ conn[c].sessionIds \ {s} \in SUBSET Sessions
    BY DEF Typed, Conn
  <2>2. Step(conn[c], k) /\ conn' = [conn EXCEPT ![c] = k]
    BY <1>1, <1>6, <2>1 DEF RequestDetach, Typed
  <2> QED BY <1>3, <2>2
<1>7. ASSUME NEW t \in Tasks, Attach(t)
      PROVE  Keeps
  <2> DEFINE c == task[t].conn
             k == [conn[c] EXCEPT !.sessionIds = @ \union {task[t].session}]
  <2>1. c \in Conns /\ task[t].session \in Sessions
    BY <1>7 DEF Attach, Suspended, RestsAt
  <2>2. conn[c] \in Conn
        /\ conn[c].sessionIds \union {task[t].session} \in SUBSET Sessions
    BY <2>1 DEF Typed, Conn
  <2>3. Step(conn[c], k)
    BY <1>1, <2>2
  <2>4. UNCHANGED conn \/ conn' = [conn EXCEPT ![c] = k]
    BY <1>7, <2>1 DEF Attach, Typed
  <2> QED BY <1>3, <1>4, <2>1, <2>3, <2>4
<1>8. ASSUME NEW n \in Tasks, RuntimeError(n)
      PROVE  Keeps
  BY <1>1, <1>8 DEF RuntimeError, Typed, Keeps
<1>9. ASSUME NEW c \in Conns,
             LoseTransport(c) \/ FailProtocol(c)
      PROVE  Keeps
  <2>1. \E k \in {[conn[c] EXCEPT !.stage = "closing", !.open = FALSE],
                  [conn[c] EXCEPT !.open = FALSE]} :
          conn' = [conn EXCEPT ![c] = k]
    BY <1>9 DEF LoseTransport, FailProtocol, Typed
  <2> QED BY <1>1, <1>3, <2>1 DEF Typed
<1>10. ASSUME CloseTransports PROVE Keeps
  BY <1>1, <1>10 DEF CloseTransports, Typed, Keeps
<1>11. ASSUME NEW c \in Conns, Disconnect(c) PROVE Keeps
  BY <1>5, <1>11 DEF Disconnect, DisconnectAll
<1>12. ASSUME CloseConnections PROVE Keeps
  BY <1>5, <1>12 DEF CloseConnections, DisconnectAll
<1>13. ASSUME NEW n \in Tasks, TerminateDisconnects(n) PROVE Keeps
  BY <1>5, <1>13 DEF TerminateDisconnects
<1>14. UNCHANGED vars => UNCHANGED conn
  BY DEF vars
<1>15. ASSUME NEW t \in Tasks, Request(t) PROVE Keeps
  BY <1>4, <1>6, <1>15 DEF Request, RequestAttach, RequestOperation
<1>16. ASSUME NEW t \in Tasks, TaskStep(t) PROVE Keeps
  BY <1>4, <1>7, <1>16 DEF TaskStep, Released, DetachReported, RequestEnds,
                           OperationSucceeds, OperationEnds
<1>17. ASSUME NEW n \in Tasks, ServiceStep(n) PROVE Keeps
  BY <1>4, <1>17 DEF ServiceStep, RuntimeAcquired, RuntimeRefused, Register,
                     SnapshotRefused, DisposeSettles
<1>18. ASSUME NEW n \in Tasks, RuntimeStep(n) \/ TerminateStep(n) PROVE Keeps
  BY <1>4, <1>8, <1>13, <1>18
  DEF RuntimeStep, TerminateStep, RuntimeEvent, TerminateDisposes
<1>19. ASSUME Close \/ CloseStep PROVE Keeps
  BY <1>4, <1>10, <1>12, <1>19
  DEF Close, CloseStep, CloseAwaitsOpenings, CloseSessions, CloseReturns
<1>20. CASE UNCHANGED vars
  BY <1>4, <1>14, <1>20
<1>21. CASE Next
  BY <1>9, <1>11, <1>15, <1>16, <1>17, <1>18, <1>19, <1>20, <1>21
  DEF Next, Stopped
<1> QED BY <1>20, <1>21

\* What acquire decides.
LEMMA AcquiredRests ==
    ASSUME Typed, MapsInv, NEW t \in Tasks, NEW s \in Sessions
    PROVE  /\ Acquired(t, s)[1] \in {"opening", "answered", "releasing",
                                     "attach"}
           /\ Acquired(t, s)[2] \in Ids
           /\ Acquired(t, s)[1] # "answered" => Acquired(t, s)[2] \in Tasks
           /\ Acquired(t, s)[1] \in {"releasing", "attach"} =>
                /\ live[Acquired(t, s)[2]].stage = "ready"
                /\ live[Acquired(t, s)[2]].session = s
                /\ ~Disposed(live[Acquired(t, s)[2]])
           /\ Opens(s) <=> (liveSessions[s] = None
                            /\ openingSessions[s] = None)
           /\ Opens(s) => Acquired(t, s)[1] = "opening"
<1> DEFINE n == liveSessions[s]
<1>1. openingSessions[s] \in Ids /\ n \in Ids
  BY DEF Typed
<1>2. n # None => /\ n \in Tasks /\ live[n].stage = "ready"
                  /\ live[n].session = s /\ ~Disposed(live[n])
  BY <1>1 DEF Listed, MapsInv, Ids
<1>3. CASE Opens(s)
  <2>1. Acquired(t, s) = <<"opening", t>>
    BY <1>3 DEF Acquired, Opens
  <2> QED BY <1>3, <2>1 DEF Ids, Opens
<1>4. CASE n = None /\ ~Opens(s)
  <2>1. Acquired(t, s) = <<"opening", openingSessions[s]>>
        /\ openingSessions[s] # None
    BY <1>4 DEF Acquired, Opens
  <2> QED BY <1>1, <1>4, <2>1 DEF Ids, Opens
<1>5. CASE n # None /\ live[n].terminal
  <2>1. Acquired(t, s) = <<"answered", None>> /\ ~Opens(s)
    BY <1>5 DEF Acquired, Opens
  <2> QED BY <1>5, <2>1 DEF Ids, Opens
<1>6. CASE n # None /\ ~live[n].terminal
  <2>1. \E p \in {"releasing", "attach"} : Acquired(t, s) = <<p, n>>
    BY <1>6 DEF Acquired, Opens
  <2>2. ~Opens(s)
    BY <1>6 DEF Opens
  <2> QED BY <1>1, <1>2, <1>6, <2>1, <2>2 DEF Ids, Opens
<1> QED BY <1>3, <1>4, <1>5, <1>6

-----------------------------------------------------------------------------
(* What the steps keep: everything but the connections *)

Moves ==
    /\ live' \in [Tasks -> LiveRecord]
    /\ liveSessions' \in [Sessions -> Ids]
    /\ openingSessions' \in [Sessions -> Ids]
    /\ task' \in [Tasks -> Task]
    /\ server' \in [phase : Phases, waits : SUBSET Tasks]
    /\ MapsInv' /\ Suspended' /\ Late'

\* No runtime changes its stage, its session or its outcome.
Same ==
    \A n \in Tasks : /\ live'[n].stage = live[n].stage
                     /\ live'[n].session = live[n].session
                     /\ live'[n].outcome = live[n].outcome

\* Using runtimes leaves their stages as they are.
LEMMA UsesSame ==
    ASSUME Typed, Uses
    PROVE  Same /\ live' \in [Tasks -> LiveRecord]
<1>1. \A n \in Tasks : Used(live[n], live'[n])
  BY DEF Uses
<1>2. live' = [n \in Tasks |-> live'[n]]
  BY DEF Uses
<1>3. Same
  BY <1>1 DEF Same, Used
<1>4. \A n \in Tasks : live'[n] \in LiveRecord
  BY <1>1 DEF Used
<1> QED BY <1>2, <1>3, <1>4

\* A request that takes no step stays as sound as it was.
LEMMA RestsKept ==
    ASSUME Typed, Same, NEW u \in Tasks, task'[u] = task[u], RestsAt(u)
    PROVE  RestsAt(u)' /\ (LateAt(u) /\ (Closing' => Closing) => LateAt(u)')
<1>1. RestsAt(u)'
  BY DEF RestsAt, Same
<1>2. ASSUME LateAt(u), Closing' => Closing
      PROVE  LateAt(u)'
  <2> SUFFICES ASSUME Closing, task[u].pc = "releasing",
                      Disposed(live[task[u].live])',
                      NEW n \in Tasks, Claims(live[n])',
                      live'[n].session = task[u].session
               PROVE  live'[n].stage \in {"acquiring", "discarding"}
    BY <1>2 DEF LateAt
  <2>1. task[u].live \in Tasks
    BY DEF RestsAt
  <2>2. Disposed(live[task[u].live])
    BY <2>1 DEF Same, Disposed
  <2>3. Claims(live[n]) /\ live[n].session = task[u].session
    BY DEF Same, Claims, Opening, Disposed
  <2> QED BY <1>2, <2>2, <2>3 DEF LateAt, Same
<1> QED BY <1>1, <1>2

\* A step that moves no request.
LEMMA IdleKept ==
    ASSUME Typed, Suspended, Same, UNCHANGED task
    PROVE  Suspended' /\ (Late /\ (Closing' => Closing) => Late')
<1>1. ASSUME NEW u \in Tasks
      PROVE  RestsAt(u)' /\ (LateAt(u) /\ (Closing' => Closing) => LateAt(u)')
  BY RestsKept DEF Suspended
<1> QED BY <1>1 DEF Suspended, Late

\* A request that goes on with runtime r.live, or is answered.
LEMMA SameRests ==
    ASSUME Typed, Suspended, Late, Same, Closing' => Closing,
           NEW t \in Tasks, NEW r \in Task, task' = [task EXCEPT ![t] = r],
           \/ r = task[t]
           \/ /\ r.pc \notin {"free", "releasing"}
              /\ r.pc # "answered" =>
                   /\ r.conn \in Conns /\ r.session \in Sessions
                   /\ r.live \in Tasks
                   /\ r.pc = "opening" \/ live[r.live].stage = "ready"
    PROVE  task' \in [Tasks -> Task] /\ Suspended' /\ Late'
<1>1. task' \in [Tasks -> Task] /\ task'[t] = r
      /\ \A u \in Tasks : u # t => task'[u] = task[u]
  BY DEF Typed
<1>2. ASSUME NEW u \in Tasks, task'[u] = task[u]
      PROVE  RestsAt(u)' /\ LateAt(u)'
  <2>1. RestsAt(u) /\ LateAt(u)
    BY DEF Suspended, Late
  <2> QED BY <1>2, <2>1, RestsKept
<1>3. RestsAt(t)' /\ LateAt(t)'
  <2>1. CASE r = task[t]
    BY <1>1, <1>2, <2>1
  <2>2. CASE /\ r.pc \notin {"free", "releasing"}
             /\ r.pc # "answered" =>
                  /\ r.conn \in Conns /\ r.session \in Sessions
                  /\ r.live \in Tasks
                  /\ r.pc = "opening" \/ live[r.live].stage = "ready"
    <3>1. RestsAt(t)'
      BY <1>1, <2>2 DEF RestsAt, Same
    <3>2. LateAt(t)'
      BY <1>1, <2>2 DEF LateAt
    <3> QED BY <3>1, <3>2
  <2> QED BY <2>1, <2>2
<1> QED BY <1>1, <1>2, <1>3 DEF Suspended, Late

\* The events of runtimes and connections
LEMMA EventMoves ==
    ASSUME Typed, MapsInv, Suspended, Late, Uses,
           UNCHANGED <<maps, task, server>>
    PROVE  Moves
<1>2. MapsInv'
  BY UsesKeepMaps DEF maps
<1>3. Same /\ live' \in [Tasks -> LiveRecord]
  BY UsesSame
<1>4. Suspended' /\ (Closing' <=> Closing)
  BY <1>3, IdleKept DEF Closing
<1>5. Late'
  BY <1>3, <1>4, IdleKept
<1> QED BY <1>2, <1>3, <1>4, <1>5 DEF Moves, Typed, maps

\* A request forgets only an opening that has settled.
LEMMA ForgetKeeps ==
    ASSUME Typed, MapsInv, NEW t \in Tasks, Forget(t),
           task[t].live = t => ~Opening(live[t])
    PROVE  /\ openingSessions' \in [Sessions -> Ids]
           /\ \A n \in Tasks : Opening(live[n]) =>
                openingSessions'[live[n].session]
                  = openingSessions[live[n].session]
<1>1. openingSessions' \in [Sessions -> Ids]
  BY DEF Forget, Typed, Ids
<1>2. ASSUME NEW n \in Tasks, Opening(live[n])
      PROVE  openingSessions'[live[n].session]
               = openingSessions[live[n].session]
  <2>1. openingSessions[live[n].session] = n /\ live[n].session \in Sessions
    BY <1>2 DEF Placed, MapsInv, Typed, LiveRecord
  <2>2. n = t => task[t].live # t
    BY <1>2
  <2> QED BY <2>1, <2>2 DEF Forget, Typed
<1> QED BY <1>1, <1>2

\* A request that uses a runtime, and goes on with it or is answered.
LEMMA UsesMove ==
    ASSUME Typed, MapsInv, Suspended, Late, Uses,
           UNCHANGED <<liveSessions, server>>,
           openingSessions' \in [Sessions -> Ids],
           \A n \in Tasks : Opening(live[n]) =>
             openingSessions'[live[n].session]
               = openingSessions[live[n].session],
           NEW t \in Tasks, NEW r \in Task, task' = [task EXCEPT ![t] = r],
           /\ r.pc \notin {"free", "releasing"}
           /\ r.pc # "answered" =>
                /\ r.conn \in Conns /\ r.session \in Sessions
                /\ r.live \in Tasks
                /\ r.pc = "opening" \/ live[r.live].stage = "ready"
    PROVE  Moves
<1>1. MapsInv'
  BY UsesKeepMaps
<1>2. Same /\ live' \in [Tasks -> LiveRecord]
  BY UsesSame
<1>3. Closing' => Closing
  BY DEF Closing
<1>4. task' \in [Tasks -> Task] /\ Suspended' /\ Late'
  BY <1>2, <1>3, SameRests
<1> QED BY <1>1, <1>2, <1>4 DEF Moves, Typed

-----------------------------------------------------------------------------
(* Requests *)

\* The names of the awaits.
Awaits == {"free", "opening", "releasing", "attach", "snapshot", "leaving",
           "draining", "operating", "reporting", "answered"}

\* The record of a request that starts.
LEMMA StartRecord ==
    ASSUME NEW c \in Conns, NEW s \in Sessions, NEW p \in Awaits, NEW n \in Ids
    PROVE  [conn |-> c, session |-> s, pc |-> p, live |-> n] \in Task
BY DEF Task, Awaits

\* A request that asks for a runtime, and opens it itself unless it can join
\* or wait for another.
LEMMA OpenMoves ==
    ASSUME Typed, MapsInv, Suspended, Late, NEW t \in Tasks,
           NEW s \in Sessions, live[t].stage = "unused", Open(t, s),
           UNCHANGED <<liveSessions, server>>,
           Claimable(s),
           NEW r \in Task, task' = [task EXCEPT ![t] = r],
           r.conn \in Conns, r.session = s, r.pc = Acquired(t, s)[1],
           r.live = Acquired(t, s)[2]
    PROVE  Moves
<1>1. /\ MapsInv' /\ live' \in [Tasks -> LiveRecord]
      /\ openingSessions' \in [Sessions -> Ids]
      /\ \A n \in Tasks : n # t => live'[n] = live[n]
      /\ Opens(s) => live'[t].stage = "acquiring"
      /\ ~Opens(s) => live'[t].stage = "unused"
  BY OpenKeepsMaps DEF OpenedBy
<1>2. task' \in [Tasks -> Task] /\ task'[t] = r
      /\ \A u \in Tasks : u # t => task'[u] = task[u]
  BY DEF Typed
<1>3. /\ r.pc \in {"opening", "answered", "releasing", "attach"}
      /\ r.pc # "answered" => r.live \in Tasks
      /\ r.pc \in {"releasing", "attach"} =>
           /\ live[r.live].stage = "ready" /\ live[r.live].session = s
           /\ ~Disposed(live[r.live]) /\ r.live # t /\ ~Opens(s)
  BY AcquiredRests
<1>4. RestsAt(t)'
  BY <1>1, <1>2, <1>3 DEF RestsAt
<1>5. LateAt(t)'
  <2>1. r.pc = "releasing" => ~Disposed(live[r.live])'
    BY <1>1, <1>3 DEF Disposed
  <2> QED BY <1>2, <2>1 DEF LateAt
<1>6. ASSUME NEW u \in Tasks, u # t
      PROVE  RestsAt(u)' /\ LateAt(u)'
  <2>1. RestsAt(u) /\ LateAt(u) /\ task'[u] = task[u]
    BY <1>2, <1>6 DEF Suspended, Late
  <2>2. live[task[u].live].stage = "ready" => task[u].live # t
    OBVIOUS
  <2>3. RestsAt(u)'
    BY <1>1, <1>6, <2>1, <2>2 DEF RestsAt
  <2>4. LateAt(u)'
    <3> SUFFICES ASSUME Closing, task[u].pc = "releasing",
                        Disposed(live[task[u].live])',
                        NEW n \in Tasks, Claims(live[n])',
                        live'[n].session = task[u].session
                 PROVE  live'[n].stage \in {"acquiring", "discarding"}
      BY <2>1 DEF LateAt, Closing
    <3>1. task[u].live \in Tasks /\ task[u].live # t
      BY <2>1, <2>2 DEF RestsAt
    <3>2. Disposed(live[task[u].live])
      BY <1>1, <2>1, <3>1 DEF Disposed
    <3>3. CASE n = t
      BY <1>1, <3>3 DEF Claims, Opening
    <3>4. CASE n # t
      <4>1. Claims(live[n]) /\ live[n].session = task[u].session
        BY <1>1, <3>4 DEF Claims, Opening, Disposed
      <4> QED BY <1>1, <2>1, <3>2, <3>4, <4>1 DEF LateAt
    <3> QED BY <3>3, <3>4
  <2> QED BY <2>3, <2>4
<1>7. Suspended' /\ Late'
  BY <1>4, <1>5, <1>6 DEF Suspended, Late
<1> QED BY <1>1, <1>2, <1>7 DEF Moves, Typed

\* attach and create
LEMMA AttachMoves ==
    ASSUME Typed, MapsInv, Suspended, Late, Unserved, NEW t \in Tasks,
           NEW c \in Conns, NEW s \in Sessions, RequestAttach(t, c, s)
    PROVE  Moves
<1>1. /\ Start(t, c, s, Acquired(t, s)[1], Acquired(t, s)[2]) /\ Open(t, s)
      /\ UNCHANGED <<liveSessions, server>>
  BY DEF RequestAttach
<1>2. live[t].stage = "unused" /\ task[t].pc = "free"
  BY DEF RequestAttach, Dispatch, Suspended, RestsAt
<1>3. Claimable(s)
  BY DEF RequestAttach, Dispatch, Unserved, Cleared, Claimable
<1> DEFINE r == [conn |-> c, session |-> s, pc |-> Acquired(t, s)[1],
                 live |-> Acquired(t, s)[2]]
<1>4. r \in Task /\ task' = [task EXCEPT ![t] = r]
  BY <1>1, AcquiredRests, StartRecord DEF Start, Awaits
<1>5. /\ r.conn = c /\ r.session = s /\ r.pc = Acquired(t, s)[1]
      /\ r.live = Acquired(t, s)[2]
  OBVIOUS
<1> HIDE DEF r
<1> QED BY <1>1, <1>2, <1>3, <1>4, <1>5, OpenMoves

\* acquire goes round its loop again, or rethrows.
LEMMA ReleasedMoves ==
    ASSUME Typed, MapsInv, Suspended, Late, NEW t \in Tasks, Released(t)
    PROVE  Moves
<1> DEFINE k == task[t]
           s == task[t].session
           l == live[task[t].live]
<1>1. /\ k.pc = "releasing" /\ Disposed(l) /\ k \in Task
      /\ k.conn \in Conns /\ s \in Sessions /\ live[t].stage = "unused"
      /\ UNCHANGED <<liveSessions, server>>
  BY DEF Released, Suspended, RestsAt, Typed
<1>2. CASE l.outcome = "failed"
  <2> DEFINE r == [k EXCEPT !.pc = "answered", !.live = None]
  <2>1. r \in Task /\ r.pc = "answered"
    BY <1>1 DEF Task, Ids
  <2>2. task' = [task EXCEPT ![t] = r]
    BY <1>2 DEF Released, Answer, Typed
  <2>3. UNCHANGED <<live, openingSessions>>
    BY <1>2 DEF Released
  <2>4. Uses /\ openingSessions' \in [Sessions -> Ids]
    BY <2>3, NoneUsed DEF Typed
  <2> HIDE DEF r
  <2> QED BY <1>1, <2>1, <2>2, <2>3, <2>4, UsesMove
<1>3. CASE l.outcome # "failed"
  <2> DEFINE r == [k EXCEPT !.pc = Acquired(t, s)[1],
                            !.live = Acquired(t, s)[2]]
  <2>1. /\ r \in Task /\ r.conn = k.conn /\ r.session = s
        /\ r.pc = Acquired(t, s)[1] /\ r.live = Acquired(t, s)[2]
    <3>1. PICK p \in {"opening", "answered", "releasing", "attach"},
               m \in Ids : p = Acquired(t, s)[1] /\ m = Acquired(t, s)[2]
      BY <1>1, AcquiredRests
    <3>2. r = [k EXCEPT !.pc = p, !.live = m]
      BY <3>1
    <3>3. /\ [k EXCEPT !.pc = p, !.live = m] \in Task
          /\ [k EXCEPT !.pc = p, !.live = m].conn = k.conn
          /\ [k EXCEPT !.pc = p, !.live = m].session = s
          /\ [k EXCEPT !.pc = p, !.live = m].pc = p
          /\ [k EXCEPT !.pc = p, !.live = m].live = m
      BY <1>1 DEF Task
    <3> QED BY <3>1, <3>2, <3>3
  <2>2. task' = [task EXCEPT ![t] = r] /\ Open(t, s)
    BY <1>3 DEF Released, Typed
  <2>3. Claimable(s)
    BY <1>1 DEF Late, LateAt, Cleared, Closing, Claimable
  <2> HIDE DEF r
  <2> QED BY <1>1, <2>1, <2>2, <2>3, OpenMoves
<1> QED BY <1>2, <1>3

\* detach, and the commands that use the session
LEMMA CommandMoves ==
    ASSUME Typed, MapsInv, Suspended, Late, NEW t \in Tasks, NEW c \in Conns,
           NEW s \in Sessions,
           RequestDetach(t, c, s) \/ RequestOperation(t, c, s)
    PROVE  Moves
<1> DEFINE n == liveSessions[s]
<1>1. Uses /\ UNCHANGED <<maps, server>>
  BY DetachUses, OperationUses DEF RequestDetach, RequestOperation
<1>2. n # None => n \in Tasks /\ live[n].stage = "ready"
  BY DEF Listed, MapsInv, Typed, Ids
<1>3. \E p \in {"answered", "leaving", "draining", "operating"}, m \in Ids :
        /\ Start(t, c, s, p, m)
        /\ p # "answered" => m \in Tasks /\ live[m].stage = "ready"
  <2>1. CASE RequestOperation(t, c, s)
    BY <1>2, <2>1 DEF RequestOperation, Ids
  <2>2. CASE RequestDetach(t, c, s) /\ n = None
    BY <2>2 DEF RequestDetach, Ids
  <2>3. CASE RequestDetach(t, c, s) /\ n # None
    <3>1. \E p \in {"answered", "leaving", "draining"} : Start(t, c, s, p, n)
      BY <2>3 DEF RequestDetach
    <3> QED BY <1>2, <2>3, <3>1 DEF Ids
  <2> QED BY <2>1, <2>2, <2>3
<1>4. PICK p \in {"answered", "leaving", "draining", "operating"}, m \in Ids :
        /\ Start(t, c, s, p, m)
        /\ p # "answered" => m \in Tasks /\ live[m].stage = "ready"
  BY <1>3
<1> DEFINE r == [conn |-> c, session |-> s, pc |-> p, live |-> m]
<1>5. r \in Task /\ task' = [task EXCEPT ![t] = r]
  BY <1>4, StartRecord DEF Start, Awaits
<1>6. r.conn = c /\ r.session = s /\ r.pc = p /\ r.live = m
  OBVIOUS
<1>7. openingSessions' \in [Sessions -> Ids]
  BY <1>1 DEF Typed, maps
<1> HIDE DEF r
<1> QED BY <1>1, <1>4, <1>5, <1>6, <1>7, UsesMove DEF maps

\* What follows the awaits of a request, but for a disposal awaited.
LEMMA TaskMoves ==
    ASSUME Typed, MapsInv, Suspended, Late, NEW t \in Tasks,
           Attach(t) \/ DetachReported(t) \/ OperationEnds(t)
             \/ RequestEnds(t) \/ OperationSucceeds(t)
    PROVE  Moves
<1> DEFINE n == task[t].live
           k == task[t]
<1>1. RestsAt(t) /\ k \in Task
  BY DEF Suspended, Typed
<1>2. Uses
  BY TaskUses
<1>3. UNCHANGED <<liveSessions, server>>
  BY DEF Attach, DetachReported, OperationEnds, RequestEnds,
         OperationSucceeds, maps
<1>4. /\ k.conn \in Conns /\ k.session \in Sessions /\ n \in Tasks
      /\ live[n].stage = "ready" \/ k.pc = "opening"
      /\ k.pc \in {"attach", "opening", "snapshot", "leaving", "draining",
                   "operating", "reporting"}
  BY <1>1 DEF Attach, DetachReported, OperationEnds, RequestEnds,
              OperationSucceeds, RestsAt
<1>5. /\ openingSessions' \in [Sessions -> Ids]
      /\ \A m \in Tasks : Opening(live[m]) =>
           openingSessions'[live[m].session]
             = openingSessions[live[m].session]
  <2>1. CASE Attach(t) \/ RequestEnds(t)
    <3>1. live[n].stage \in {"ready", "failed"} /\ Forget(t)
      BY <1>4, <2>1 DEF Attach, RequestEnds
    <3>2. task[t].live = t => ~Opening(live[t])
      BY <3>1 DEF Opening
    <3> QED BY <3>1, <3>2, ForgetKeeps
  <2>2. CASE DetachReported(t) \/ OperationEnds(t) \/ OperationSucceeds(t)
    BY <2>2 DEF DetachReported, OperationEnds, OperationSucceeds, maps, Typed
  <2> QED BY <2>1, <2>2
<1>6. \/ Answer(t)
      \/ /\ live[n].stage = "ready"
         /\ \E p \in {"snapshot", "draining", "reporting"} : Resume(t, p)
  BY <1>4 DEF Attach, DetachReported, OperationEnds, RequestEnds,
              OperationSucceeds
<1>7. \E r \in Task :
        /\ task' = [task EXCEPT ![t] = r]
        /\ r.pc \notin {"free", "releasing"}
        /\ r.pc # "answered" =>
             /\ r.conn \in Conns /\ r.session \in Sessions
             /\ r.live \in Tasks /\ live[r.live].stage = "ready"
  <2>1. CASE Answer(t)
    <3> DEFINE r == [k EXCEPT !.pc = "answered", !.live = None]
    <3>1. r \in Task /\ r.pc = "answered"
      BY <1>1 DEF Task, Ids
    <3>2. task' = [task EXCEPT ![t] = r]
      BY <2>1 DEF Answer, Typed
    <3> HIDE DEF r
    <3> QED BY <3>1, <3>2
  <2>2. ASSUME NEW p \in {"snapshot", "draining", "reporting"}, Resume(t, p),
               live[n].stage = "ready"
        PROVE  \E r \in Task :
                 /\ task' = [task EXCEPT ![t] = r]
                 /\ r.pc \notin {"free", "releasing"}
                 /\ r.pc # "answered" =>
                      /\ r.conn \in Conns /\ r.session \in Sessions
                      /\ r.live \in Tasks /\ live[r.live].stage = "ready"
    <3> DEFINE r == [k EXCEPT !.pc = p]
    <3>1. /\ r \in Task /\ r.pc = p /\ r.conn = k.conn
          /\ r.session = k.session /\ r.live = k.live
      BY <1>1 DEF Task
    <3>2. task' = [task EXCEPT ![t] = r]
      BY <2>2 DEF Resume, Typed
    <3> HIDE DEF r
    <3> QED BY <1>4, <2>2, <3>1, <3>2
  <2> QED BY <1>6, <2>1, <2>2
<1> QED BY <1>2, <1>3, <1>5, <1>7, UsesMove

-----------------------------------------------------------------------------
(* The service and the shutdown *)

\* What a step of the service that concerns runtime n leaves of requests.
LEMMA ServiceRests ==
    ASSUME Typed, MapsInv, Suspended, Late, NEW n \in Tasks,
           UNCHANGED <<task, server>>,
           \A m \in Tasks : m # n => live'[m] = live[m],
           live'[n].session = live[n].session,
           live[n].stage # "unused",
           live[n].stage = "ready" => live'[n].stage = "ready",
           \/ /\ live'[n].outcome = live[n].outcome
              /\ Claims(live[n])
              /\ Claims(live[n])' =>
                   \/ Closing => live'[n].stage = "discarding"
                   \/ /\ live[n].stage = "snapshotting"
                      /\ live'[n].stage = "ready"
           \/ ~Claims(live[n])' /\ ~Disposed(live[n])
    PROVE  Suspended' /\ Late'
<1> SUFFICES ASSUME NEW t \in Tasks
             PROVE  RestsAt(t)' /\ LateAt(t)'
  BY DEF Suspended, Late
<1>1. RestsAt(t) /\ LateAt(t) /\ task'[t] = task[t] /\ (Closing' <=> Closing)
  BY DEF Suspended, Late, Closing
<1>2. RestsAt(t)'
  BY <1>1 DEF RestsAt
<1>3. LateAt(t)'
  <2> DEFINE k == task[t].live
  <2> SUFFICES ASSUME Closing, task[t].pc = "releasing",
                      Disposed(live[k])',
                      NEW m \in Tasks, Claims(live[m])',
                      live'[m].session = task[t].session
               PROVE  live'[m].stage \in {"acquiring", "discarding"}
    BY <1>1 DEF LateAt
  <2>1. /\ k \in Tasks /\ live[k].stage = "ready"
        /\ live[k].session = task[t].session
    BY <1>1 DEF RestsAt
  <2>2. CASE Disposed(live[k])
    <3>1. \A j \in Tasks :
            Claims(live[j]) /\ live[j].session = task[t].session =>
              live[j].stage \in {"acquiring", "discarding"}
      BY <1>1, <2>2 DEF LateAt
    <3>2. CASE m # n
      BY <3>1, <3>2 DEF Claims, Opening, Disposed
    <3>3. CASE m = n
      BY <3>1, <3>3
    <3> QED BY <3>2, <3>3
  <2>3. CASE ~Disposed(live[k])
    <3>1. k = n
      BY <1>1, <2>1, <2>3 DEF Disposed
    <3>2. ~Claims(live[n])'
      BY <1>1, <2>3, <3>1 DEF Disposed
    <3>3. m # n /\ Claims(live[m]) /\ live[m].session = live[n].session
      BY <2>1, <3>1, <3>2 DEF Claims, Opening, Disposed
    <3>4. Claims(live[n])
      BY <2>1, <2>3, <3>1 DEF Claims
    <3> QED BY <3>3, <3>4 DEF Exclusive, MapsInv
  <2> QED BY <2>2, <2>3
<1> QED BY <1>2, <1>3

\* acquireRuntime, snapshot and dispose settle.
LEMMA ServiceMoves ==
    ASSUME Typed, MapsInv, Suspended, Late, NEW n \in Tasks, ServiceStep(n)
    PROVE  Moves
<1>1. UNCHANGED <<openingSessions, task, server>>
  BY DEF ServiceStep, RuntimeAcquired, RuntimeRefused, Register,
         SnapshotRefused, DisposeSettles, maps
<1>2. CASE RuntimeAcquired(n) \/ RuntimeRefused(n) \/ Register(n)
             \/ SnapshotRefused(n)
  <2>1. /\ MapsInv' /\ live' \in [Tasks -> LiveRecord]
        /\ liveSessions' \in [Sessions -> Ids]
    BY <1>2, OpeningKeepsMaps
  <2>2. /\ \A m \in Tasks : m # n => live'[m] = live[m]
        /\ live'[n].session = live[n].session
        /\ live'[n].outcome = live[n].outcome
        /\ live[n].stage \in {"acquiring", "snapshotting"}
    BY <1>2, OpeningKeepsMaps
  <2>3. \/ live'[n].stage \in {"discarding", "failed"}
        \/ /\ live[n].stage = "acquiring" /\ ~Closing
           /\ live'[n].stage = "snapshotting"
        \/ /\ live[n].stage = "snapshotting"
           /\ live'[n].stage = "ready"
    BY <1>2, OpeningKeepsMaps
  <2>4. Claims(live[n]) /\ live[n].stage \notin {"unused", "ready"}
    BY <2>2 DEF Claims, Opening
  <2>5. Claims(live[n])' => live'[n].stage # "failed"
    BY DEF Claims, Opening
  <2>6. Suspended' /\ Late'
    BY <1>1, <2>2, <2>3, <2>4, <2>5, ServiceRests
  <2> QED BY <1>1, <2>1, <2>6 DEF Moves, Typed
<1>3. ASSUME NEW outcome \in {"done", "failed"}, DisposeSettles(n, outcome)
      PROVE  Moves
  <2>1. /\ MapsInv' /\ live' \in [Tasks -> LiveRecord]
        /\ liveSessions' \in [Sessions -> Ids]
    BY <1>3, DisposeKeepsMaps
  <2>2. /\ \A m \in Tasks : m # n => live'[m] = live[m]
        /\ live'[n].session = live[n].session
        /\ ~Claims(live[n])' /\ ~Disposed(live[n])
    BY <1>3, DisposeKeepsMaps
  <2>3. /\ live[n].stage \in {"discarding", "ready", "failed"}
        /\ live[n].stage = "ready" => live'[n].stage = "ready"
    BY <1>3, DisposeKeepsMaps
  <2>4. Suspended' /\ Late'
    BY <1>1, <2>2, <2>3, ServiceRests
  <2> QED BY <1>1, <2>1, <2>4 DEF Moves, Typed
<1> QED BY <1>2, <1>3 DEF ServiceStep

\* All of close().
LEMMA CloseMoves ==
    ASSUME Typed, MapsInv, Suspended, Late, Close \/ CloseStep
    PROVE  Moves
<1>1. UNCHANGED <<openingSessions, task>>
  BY DEF Close, CloseStep, CloseTransports, CloseConnections,
         CloseAwaitsOpenings, CloseSessions, CloseReturns, maps
<1>2. server' \in [phase : Phases, waits : SUBSET Tasks]
  <2>1. \A p \in Phases, W \in SUBSET Tasks :
          Advance(p, W) => server' \in [phase : Phases, waits : SUBSET Tasks]
    BY DEF Advance
  <2>2. /\ {openingSessions[s] : s \in Sessions} \ {None} \in SUBSET Tasks
        /\ {liveSessions[s] : s \in Sessions} \ {None} \in SUBSET Tasks
    BY DEF Typed, Ids
  <2>3. {n \in UNION {LiveOf(c) : c \in {d \in Conns : Connected(d)}} :
           live[n].disposing} \in SUBSET Tasks
    BY DEF LiveOf, Typed, Ids, Conn
  <2>4. CASE Close \/ CloseTransports \/ CloseReturns
    BY <2>1, <2>4 DEF Close, CloseTransports, CloseReturns, Phases
  <2>5. CASE CloseConnections
    BY <2>1, <2>3, <2>5 DEF CloseConnections, Phases
  <2>6. CASE CloseAwaitsOpenings \/ CloseSessions
    BY <2>1, <2>2, <2>6 DEF CloseAwaitsOpenings, CloseSessions, Phases
  <2> QED BY <2>4, <2>5, <2>6 DEF CloseStep
<1>3. /\ MapsInv' /\ Same /\ live' \in [Tasks -> LiveRecord]
      /\ liveSessions' \in [Sessions -> Ids]
  <2>1. CASE CloseSessions
    BY <2>1, ClearKeepsMaps DEF Same
  <2>2. CASE Close \/ CloseTransports \/ CloseConnections
               \/ CloseAwaitsOpenings \/ CloseReturns
    <3>1. UNCHANGED liveSessions
      BY <2>2 DEF Close, CloseTransports, CloseConnections,
                  CloseAwaitsOpenings, CloseReturns, maps
    <3> QED BY <2>2, <3>1, CloseKeepsMaps, UsesSame DEF Typed
  <2> QED BY <2>1, <2>2 DEF CloseStep
<1>4. Suspended' /\ Late'
  <2>1. CASE Closing
    BY <1>1, <1>3, <2>1, IdleKept
  <2>2. CASE Close
    <3>1. Late'
      <4> SUFFICES ASSUME NEW t \in Tasks PROVE LateAt(t)'
        BY DEF Late
      <4>1. ~(task[t].pc = "releasing" /\ Disposed(live[task[t].live]))
        BY <2>2 DEF Close, NewTurn, Quiet, Ready
      <4> QED BY <1>1, <2>2, <4>1 DEF LateAt, Close, Disposed
    <3> QED BY <1>1, <1>3, <3>1, IdleKept
  <2>3. CloseStep => Closing
    BY DEF CloseStep, CloseTransports, CloseConnections, CloseAwaitsOpenings,
           CloseSessions, CloseReturns, Closing
  <2> QED BY <2>1, <2>2, <2>3
<1> QED BY <1>1, <1>2, <1>3, <1>4 DEF Moves, Typed

-----------------------------------------------------------------------------
(* The invariant *)

\* A server starts with no runtime and every connection served.
LEMMA InitInv == Init => IInv
<1> SUFFICES ASSUME Init PROVE IInv
  OBVIOUS
<1>1. PICK s0 \in Sessions : live = [n \in Tasks |-> NoRuntime(s0)]
  <2>1. (CHOOSE s \in Sessions : TRUE) \in Sessions
    BY SessionsAssumption
  <2> QED BY <2>1 DEF Init
<1>2. /\ \A n \in Tasks : live[n] = NoRuntime(s0)
      /\ \A s \in Sessions : liveSessions[s] = None
      /\ \A t \in Tasks : task[t] = [conn |-> None, session |-> None,
                                     pc |-> "free", live |-> None]
      /\ server = [phase |-> "open", waits |-> {}]
  BY <1>1 DEF Init
<1>3. NoRuntime(s0) \in LiveRecord
  BY DEF NoRuntime, LiveRecord, Stages
<1>4. live \in [Tasks -> LiveRecord]
  BY <1>1, <1>3
<1>5. /\ liveSessions \in [Sessions -> Ids]
      /\ openingSessions \in [Sessions -> Ids]
      /\ task \in [Tasks -> Task]
      /\ server \in [phase : Phases, waits : SUBSET Tasks]
  BY DEF Init, Ids, Task, Phases
<1>6. conn \in [Conns -> Conn]
  BY DEF Init, Conn
<1>7. \A n \in Tasks : /\ live[n].stage = "unused" /\ live[n].disposals = 0
                       /\ live[n].disposing = FALSE
                       /\ live[n].outcome = "pending"
                       /\ ~Opening(live[n]) /\ ~Claims(live[n])
  BY <1>2 DEF NoRuntime, Opening, Claims
<1>8. ~Cleared /\ ~Closing
  BY <1>2 DEF Cleared, Closing
<1>9. Placed /\ Listed /\ Registered /\ Emptied /\ Awaited /\ Exclusive
  BY <1>2, <1>7, <1>8
  DEF Placed, Listed, Registered, Emptied, Awaited, Exclusive
<1>10. Counted
  BY <1>7 DEF Counted, Disposed
<1>11. Suspended /\ Late
  BY <1>2, <1>7, <1>8 DEF Suspended, RestsAt, Late, LateAt
<1>12. Unserved
  BY <1>2 DEF Unserved
<1> QED BY <1>4, <1>5, <1>6, <1>9, <1>10, <1>11, <1>12
        DEF IInv, Typed, MapsInv

\* Every step keeps the part of the invariant that is not about connections.
LEMMA StepMoves ==
    ASSUME IInv, [Next]_vars
    PROVE  Moves
<1> USE DEF IInv
<1>1. ASSUME NEW t \in Tasks, Request(t) PROVE Moves
  BY <1>1, AttachMoves, CommandMoves DEF Request
<1>2. ASSUME NEW t \in Tasks, TaskStep(t) PROVE Moves
  BY <1>2, TaskMoves, ReleasedMoves DEF TaskStep
<1>3. ASSUME NEW n \in Tasks, ServiceStep(n) PROVE Moves
  BY <1>3, ServiceMoves
<1>4. ASSUME NEW n \in Tasks, RuntimeStep(n) \/ TerminateStep(n) PROVE Moves
  <2>1. UNCHANGED <<maps, task, server>>
    BY <1>4 DEF RuntimeStep, TerminateStep, RuntimeEvent, RuntimeError,
                TerminateDisconnects, TerminateDisposes
  <2> QED BY <1>4, <2>1, RuntimeUses, EventMoves
<1>5. ASSUME NEW c \in Conns,
             LoseTransport(c) \/ FailProtocol(c) \/ Disconnect(c)
      PROVE  Moves
  <2>1. UNCHANGED <<maps, task, server>>
    BY <1>5 DEF LoseTransport, FailProtocol, Disconnect
  <2>2. Uses
    BY <1>5, NoneUsed, DisconnectUses
    DEF LoseTransport, FailProtocol, Disconnect
  <2> QED BY <2>1, <2>2, EventMoves
<1>6. ASSUME Close \/ CloseStep PROVE Moves
  BY <1>6, CloseMoves
<1>7. CASE UNCHANGED vars
  <2>1. UNCHANGED <<live, maps, task, server>>
    BY <1>7 DEF vars, maps
  <2> QED BY <2>1, NoneUsed, EventMoves
<1>8. CASE Next
  BY <1>1, <1>2, <1>3, <1>4, <1>5, <1>6, <1>7, <1>8 DEF Next, Stopped
<1> QED BY <1>7, <1>8

\* The phase of close() leaves its first two phases only by closing the
\* connections.
LEMMA StepUnserved ==
    ASSUME IInv, [Next]_vars
    PROVE  Unserved'
<1>1. \A c \in Conns : conn'[c].stage = "ready" => conn[c].stage = "ready"
  BY ConnsStep DEF IInv, Keeps, Step
<1>2. CASE server.phase \notin {"open", "listeners"}
  BY <1>1, <1>2 DEF Unserved, IInv
<1>3. CASE CloseTransports
  <2>1. \A c \in Conns : conn'[c].stage # "ready"
    BY <1>3 DEF CloseTransports, Connected, IInv, Typed, Conn
  <2> QED BY <2>1 DEF Unserved
<1>4. ASSUME server.phase \in {"open", "listeners"}, ~CloseTransports
      PROVE  server'.phase \in {"open", "listeners"}
  <2>1. UNCHANGED server \/ Close
    <3>1. \A t \in Tasks : Request(t) \/ TaskStep(t) => UNCHANGED server
      <4>1. ASSUME NEW t \in Tasks, Request(t) PROVE UNCHANGED server
        BY <4>1 DEF Request, RequestAttach, RequestDetach, RequestOperation
      <4>2. ASSUME NEW t \in Tasks, TaskStep(t) PROVE UNCHANGED server
        BY <4>2 DEF TaskStep, Attach, Released, DetachReported, RequestEnds,
                    OperationSucceeds, OperationEnds
      <4> QED BY <4>1, <4>2
    <3>2. \A n \in Tasks : ServiceStep(n) => UNCHANGED server
      BY DEF ServiceStep, RuntimeAcquired, RuntimeRefused, Register,
             SnapshotRefused, DisposeSettles
    <3>3. \A n \in Tasks : RuntimeStep(n) \/ TerminateStep(n) =>
                             UNCHANGED server
      BY DEF RuntimeStep, TerminateStep, RuntimeEvent, RuntimeError,
             TerminateDisconnects, TerminateDisposes
    <3>4. \A c \in Conns :
            LoseTransport(c) \/ FailProtocol(c) \/ Disconnect(c) =>
              UNCHANGED server
      BY DEF LoseTransport, FailProtocol, Disconnect
    <3>5. ~CloseStep
      BY <1>4 DEF CloseStep, CloseConnections, CloseAwaitsOpenings,
                  CloseSessions, CloseReturns
    <3>6. UNCHANGED vars => UNCHANGED server
      BY DEF vars
    <3> QED BY <3>1, <3>2, <3>3, <3>4, <3>5, <3>6 DEF Next, Stopped
  <2> QED BY <1>4, <2>1 DEF Close, Advance
<1>5. CASE server'.phase \in {"open", "listeners"}
  BY <1>5 DEF Unserved
<1> QED BY <1>2, <1>3, <1>4, <1>5

\* The invariant is inductive, so it holds in every reachable state.
LEMMA StepInv == IInv /\ [Next]_vars => IInv'
<1> SUFFICES ASSUME IInv, [Next]_vars PROVE IInv'
  OBVIOUS
<1>1. Moves /\ Unserved'
  BY StepMoves, StepUnserved
<1>2. conn' \in [Conns -> Conn]
  <2>1. Keeps
    BY ConnsStep DEF IInv
  <2> QED BY <2>1 DEF Keeps, Step
<1> QED BY <1>1, <1>2 DEF IInv, Moves, Typed

\* The invariant of every behaviour.
LEMMA InvCorrect == Spec => []IInv
BY InitInv, StepInv, PTL DEF Spec
-----------------------------------------------------------------------------
(* The theorems *)

\* Whatever attaches, detaches, failures and disposals overlap, and however
\* many of them, the server never holds two runtimes of one session.
THEOREM ExclusiveCorrect == Spec => []OneRuntimePerSession
<1>1. IInv => OneRuntimePerSession
  <2>1. \A n \in Tasks : Held(live[n]) => Claims(live[n])
    BY DEF Held, Claims, Opening
  <2> QED BY <2>1 DEF IInv, MapsInv, Exclusive, OneRuntimePerSession
<1> QED BY <1>1, InvCorrect, PTL

\* A runtime the service has handed out is in one of the manager's maps, or it
\* has been given up.
THEOREM NoLeakCorrect == Spec => []NoRuntimeLeaks
<1>1. IInv => NoRuntimeLeaks
  <2> SUFFICES ASSUME IInv, NEW n \in Tasks, Held(live[n])
               PROVE  \/ openingSessions[live[n].session] = n
                      \/ liveSessions[live[n].session] = n
                      \/ live[n].disposals > 0
    BY DEF NoRuntimeLeaks
  <2>1. CASE live[n].stage \in {"snapshotting", "discarding"}
    BY <2>1 DEF IInv, MapsInv, Placed, Opening
  <2>2. CASE live[n].stage = "ready" /\ ~Cleared
    BY <2>2 DEF IInv, MapsInv, Registered, Held
  <2>3. CASE live[n].stage = "ready" /\ Cleared
    <3>1. live[n].disposals = 1
      BY <2>3 DEF IInv, MapsInv, Counted
    <3> QED BY <3>1
  <2> QED BY <2>1, <2>2, <2>3 DEF Held
<1> QED BY <1>1, InvCorrect, PTL

\* Disconnects, detaches, operations, events and the shutdown together give a
\* runtime up at most once.
THEOREM DisposedOnceCorrect == Spec => []DisposedOnce
<1>1. IInv => DisposedOnce
  BY DEF IInv, MapsInv, Counted, DisposedOnce
<1> QED BY <1>1, InvCorrect, PTL

\* No opening that was under way when close() was called leaves a session live
\* behind it.
THEOREM ClosedCorrect == Spec => []NothingLiveAfterClose
<1>1. IInv => NothingLiveAfterClose
  BY DEF IInv, MapsInv, Emptied, Cleared, NothingLiveAfterClose
<1> QED BY <1>1, InvCorrect, PTL

-----------------------------------------------------------------------------
(* Operations and listeners *)

\* The operations of requests under way on runtime n.
Operating(n) ==
    {t \in Tasks : /\ task[t].pc \in {"operating", "reporting"}
                   /\ task[t].live = n}

\* A runtime counts the operations under way and is not given up beside one.
Busy ==
    \A n \in Tasks :
      /\ live[n].operations = Cardinality(Operating(n))
      /\ live[n].disposing => live[n].operations = 0

\* Openings, and the requests that join them, name a runtime of the session.
Named ==
    \A s \in Sessions : openingSessions[s] # None =>
      LET l == live[openingSessions[s]] IN
      l.stage # "unused" /\ l.session = s
JoinsAt(t) ==
    task[t].pc \in {"opening", "attach"} =>
      LET l == live[task[t].live] IN
      l.stage # "unused" /\ l.session = task[t].session
Joining == \A t \in Tasks : JoinsAt(t)

\* Nobody listens to a runtime that has no live session.
Unlisted ==
    \A n \in Tasks : live[n].stage # "ready" => live[n].connections = {}
Listeners == Unlisted /\ NoGhostListener

Attended == Busy /\ Named /\ Joining /\ Listeners

LEMMA OperatingFinite ==
    ASSUME NEW n
    PROVE  IsFiniteSet(Operating(n)) /\ Cardinality(Operating(n)) \in Nat
<1>1. IsFiniteSet(Tasks)
  BY FS_Interval, BoundsAssumption DEF Tasks
<1>2. Operating(n) \in SUBSET Tasks
  BY DEF Operating
<1>3. IsFiniteSet(Operating(n))
  BY <1>1, <1>2, FS_Subset
<1> QED
  BY <1>3, FS_CardinalityType

\* maybeDispose gives up a session only while no operation is under way.
LEMMA DisposeUsage ==
    ASSUME NEW k \in LiveRecord
    PROVE  /\ MaybeDispose(k).connections = k.connections
           /\ MaybeDispose(k).operations = k.operations
           /\ MaybeDispose(k).disposing => k.disposing \/ k.operations = 0
<1>1. CASE ~Closing /\ Unused(k)
  <2> DEFINE m == [[k EXCEPT !.disposing = TRUE] EXCEPT !.disposals = @ + 1]
  <2>1. MaybeDispose(k) = m
    BY <1>1 DEF MaybeDispose, Dispose
  <2>2. m.connections = k.connections /\ m.operations = k.operations
    BY DEF LiveRecord
  <2>3. k.operations = 0
    BY <1>1 DEF Unused
  <2> HIDE DEF m
  <2> QED BY <2>1, <2>2, <2>3
<1>2. CASE ~(~Closing /\ Unused(k))
  BY <1>2 DEF MaybeDispose
<1> QED BY <1>1, <1>2

\* What a step leaves of runtimes that exist.
Stays ==
    \A n \in Tasks : live[n].stage # "unused" =>
      live'[n].stage # "unused" /\ live'[n].session = live[n].session

\* How a step uses runtimes of which it begins and ends no operation.
Attends(l, m) ==
    /\ m.operations = l.operations
    /\ m.disposing => l.disposing \/ l.operations = 0
Quieter == \A n \in Tasks : Attends(live[n], live'[n])
Fewer == \A n \in Tasks : live'[n].connections \subseteq live[n].connections

\* The requests that operate go on with it, and nobody else begins to.
Operators ==
    \A t \in Tasks :
      \/ task'[t] = task[t]
      \/ {task[t].pc, task'[t].pc} \cap {"operating", "reporting"} = {}
      \/ /\ task[t].pc = "operating" /\ task'[t].pc = "reporting"
         /\ task'[t].live = task[t].live

LEMMA BusyKept ==
    ASSUME Busy, Quieter, Operators
    PROVE  Busy'
<1>1. ASSUME NEW n \in Tasks PROVE Operating(n)' = Operating(n)
  BY DEF Operators, Operating
<1> QED
  BY <1>1 DEF Busy, Quieter, Attends

LEMMA NamedKept ==
    ASSUME Typed, Named, Stays,
           \A s \in Sessions : openingSessions'[s] \in {openingSessions[s], None}
    PROVE  Named'
<1> SUFFICES ASSUME NEW s \in Sessions, openingSessions'[s] # None
             PROVE  LET l == live'[openingSessions'[s]] IN
                    l.stage # "unused" /\ l.session = s
  BY DEF Named
<1>1. openingSessions'[s] = openingSessions[s] /\ openingSessions[s] \in Tasks
  BY DEF Typed, Ids
<1> QED
  BY <1>1 DEF Named, Stays

LEMMA JoiningKept ==
    ASSUME Suspended, Joining, Stays,
           \A t \in Tasks : \/ task'[t] = task[t]
                            \/ task'[t].pc \notin {"opening", "attach"}
    PROVE  Joining'
<1> SUFFICES ASSUME NEW t \in Tasks, task'[t].pc \in {"opening", "attach"}
             PROVE  LET l == live'[task'[t].live] IN
                    l.stage # "unused" /\ l.session = task'[t].session
  BY DEF Joining, JoinsAt
<1>1. task'[t] = task[t] /\ task[t].live \in Tasks
  BY DEF Suspended, RestsAt
<1> QED
  BY <1>1 DEF Joining, JoinsAt, Stays

\* No connection that a session still listens to has left it.
Present ==
    \A s \in Sessions, n \in Tasks : liveSessions'[s] = n =>
      \A c \in live'[n].connections \cap live[n].connections :
        Connected(c) /\ s \in conn[c].sessionIds =>
          Connected(c)' /\ s \in conn'[c].sessionIds

LEMMA ListenersKept ==
    ASSUME Typed, Listeners, Fewer, Present,
           \A n \in Tasks :
             live[n].stage = "ready" => live'[n].stage = "ready",
           \A s \in Sessions : liveSessions'[s] \in {liveSessions[s], None}
    PROVE  Listeners'
<1>1. Unlisted'
  BY DEF Unlisted, Listeners, Fewer
<1>2. NoGhostListener'
  <2> SUFFICES ASSUME NEW s \in Sessions, liveSessions'[s] # None,
                      NEW c \in live'[liveSessions'[s]].connections
               PROVE  Connected(c)' /\ s \in conn'[c].sessionIds
    BY DEF NoGhostListener, Connected
  <2>1. liveSessions'[s] = liveSessions[s] /\ liveSessions[s] \in Tasks
    BY DEF Typed, Ids
  <2>2. c \in live[liveSessions[s]].connections
    BY <2>1 DEF Fewer
  <2>3. Connected(c) /\ s \in conn[c].sessionIds
    BY <2>1, <2>2 DEF Listeners, NoGhostListener
  <2> QED
    BY <2>1, <2>2, <2>3 DEF Present
<1> QED
  BY <1>1, <1>2 DEF Listeners

\* A step that begins and ends no operation, opens and registers nothing and
\* attaches nobody.
Ordinary ==
    /\ Stays /\ Quieter /\ Operators /\ Fewer /\ Present
    /\ \A n \in Tasks : live[n].stage = "ready" => live'[n].stage = "ready"
    /\ \A s \in Sessions : openingSessions'[s] \in {openingSessions[s], None}
    /\ \A s \in Sessions : liveSessions'[s] \in {liveSessions[s], None}
    /\ \A t \in Tasks : \/ task'[t] = task[t]
                        \/ task'[t].pc \notin {"opening", "attach"}

LEMMA OrdinaryKeeps ==
    ASSUME Typed, Suspended, Attended, Ordinary
    PROVE  Attended'
BY BusyKept, NamedKept, JoiningKept, ListenersKept DEF Attended, Ordinary

Leaves(l, m) == Attends(l, m) /\ m.connections \subseteq l.connections

LEMMA OneLeaves ==
    ASSUME Typed, NEW n \in Tasks, NEW m, live' = [live EXCEPT ![n] = m],
           Leaves(live[n], m)
    PROVE  Quieter /\ Fewer
<1>1. live'[n] = m /\ \A k \in Tasks : k # n => live'[k] = live[k]
  BY DEF Typed
<1> QED
  BY <1>1 DEF Quieter, Fewer, Leaves, Attends

LEMMA NoneLeaves ==
    ASSUME UNCHANGED live
    PROVE  Quieter /\ Fewer
BY DEF Quieter, Fewer, Attends

\* maybeDispose after the session has lost connections.
LEMMA DisposeLeaves ==
    ASSUME NEW l \in LiveRecord, NEW k \in LiveRecord, Leaves(l, k),
           k.disposing = l.disposing
    PROVE  Leaves(l, MaybeDispose(k))
<1> DEFINE m == MaybeDispose(k)
<1>1. /\ m.connections = k.connections /\ m.operations = k.operations
      /\ m.disposing => k.disposing \/ k.operations = 0
  BY DisposeUsage
<1> HIDE DEF m
<1>2. k.operations = l.operations /\ k.connections \subseteq l.connections
  BY DEF Leaves, Attends
<1>3. ASSUME m.disposing PROVE l.disposing \/ l.operations = 0
  <2>1. k.disposing \/ k.operations = 0
    BY <1>1, <1>3, Zenon
  <2> QED
    BY <1>2, <2>1, Zenon
<1> QED
  BY <1>1, <1>2, <1>3 DEF Leaves, Attends, m

LEMMA LeftLeaves ==
    ASSUME Typed, NEW C, NEW n \in Tasks
    PROVE  /\ Leaves(live[n], Left(n, C))
           /\ \A c \in C : n \in LiveOf(c) => c \notin Left(n, C).connections
                                           \/ c \notin live[n].connections
<1> DEFINE leaving == {c \in C : n \in LiveOf(c)}
           k == [live[n] EXCEPT !.connections = @ \ leaving]
<1>1. live[n] \in LiveRecord
  BY DEF Typed
<1>2. /\ k \in LiveRecord /\ k.connections = live[n].connections \ leaving
      /\ k.operations = live[n].operations
      /\ k.disposing = live[n].disposing
  BY <1>1 DEF LiveRecord
<1>3. Leaves(live[n], k)
  BY <1>2 DEF Leaves, Attends
<1>4. Left(n, C) = IF leaving = {} THEN live[n] ELSE MaybeDispose(k)
  BY DEF Left
<1>5. Leaves(live[n], MaybeDispose(k))
      /\ MaybeDispose(k).connections = k.connections
  <2> HIDE DEF k
  <2> QED BY <1>1, <1>2, <1>3, DisposeLeaves, DisposeUsage
<1>6. Leaves(live[n], live[n])
  BY DEF Leaves, Attends
<1>7. Leaves(live[n], Left(n, C))
  BY <1>4, <1>5, <1>6
<1>8. ASSUME NEW c \in C, n \in LiveOf(c)
      PROVE  c \notin Left(n, C).connections
  <2>1. c \in leaving
    BY <1>8
  <2>2. Left(n, C) = MaybeDispose(k)
    BY <1>4, <2>1
  <2> HIDE DEF k, leaving
  <2> QED
    BY <1>2, <1>5, <2>1, <2>2
<1> QED
  BY <1>7, <1>8

\* Connections that close leave every session that lists them.
LEMMA GonePresent ==
    ASSUME Typed, NEW C, UNCHANGED liveSessions,
           conn' = [c \in Conns |-> Gone(c, C)],
           \A n \in Tasks : live'[n].connections = Left(n, C).connections
    PROVE  Present
<1> SUFFICES ASSUME NEW s \in Sessions, NEW n \in Tasks, liveSessions[s] = n,
                    NEW c \in live'[n].connections \cap live[n].connections,
                    Connected(c), s \in conn[c].sessionIds
             PROVE  Connected(c)' /\ s \in conn'[c].sessionIds
  BY DEF Present
<1>1. c \in Conns /\ n # None
  BY BoundsAssumption DEF Typed, LiveRecord, Tasks
<1>2. n \in LiveOf(c)
  BY <1>1 DEF LiveOf
<1>3. c \notin C
  BY <1>2, LeftLeaves
<1>4. conn'[c] = conn[c]
  BY <1>1, <1>3 DEF Gone
<1> QED
  BY <1>4 DEF Connected

LEMMA SamePresent ==
    ASSUME \A c \in Conns : /\ Connected(c) => Connected(c)'
                            /\ conn'[c].sessionIds = conn[c].sessionIds,
           live \in [Tasks -> LiveRecord]
    PROVE  Present
BY DEF Present, LiveRecord

LEMMA UsesStay ==
    ASSUME Typed, Uses
    PROVE  /\ Stays
           /\ \A n \in Tasks : live[n].stage = "ready" =>
                live'[n].stage = "ready"
BY UsesSame DEF Same, Stays

\* Steps that leave requests and maps alone.
LEMMA IdleOrdinary ==
    ASSUME Typed, UNCHANGED <<maps, task>>, Stays, Quieter, Fewer, Present,
           \A n \in Tasks : live[n].stage = "ready" => live'[n].stage = "ready"
    PROVE  Ordinary
BY DEF Ordinary, Operators, maps

\* Events of a runtime, and what follows from an error.
LEMMA RuntimeOrdinary ==
    ASSUME Typed, NEW n \in Tasks, RuntimeStep(n) \/ TerminateStep(n)
    PROVE  Ordinary
<1>1. live[n] \in LiveRecord /\ live \in [Tasks -> LiveRecord]
  BY DEF Typed
<1>2. /\ Stays
      /\ \A m \in Tasks : live[m].stage = "ready" => live'[m].stage = "ready"
  BY RuntimeUses, UsesStay
<1>3. UNCHANGED <<maps, task>>
  BY DEF RuntimeStep, TerminateStep, RuntimeEvent, RuntimeError,
         TerminateDisconnects, TerminateDisposes
<1>4. ASSUME NEW k \in LiveRecord, Leaves(live[n], k),
             k.disposing = live[n].disposing,
             live' = [live EXCEPT ![n] = MaybeDispose(k)], UNCHANGED conn
      PROVE  Quieter /\ Fewer /\ Present
  <2>1. Leaves(live[n], MaybeDispose(k))
    BY <1>1, <1>4, DisposeLeaves
  <2>2. Present
    BY <1>1, <1>4, SamePresent DEF Connected
  <2> QED BY <1>4, <2>1, <2>2, OneLeaves
<1>5. ASSUME NEW phase \in {live[n].phase, "idle"}, RuntimeEvent(n, phase)
      PROVE  Quieter /\ Fewer /\ Present
  <2> DEFINE k == [live[n] EXCEPT !.phase = phase]
  <2>1. k \in LiveRecord /\ Leaves(live[n], k)
        /\ k.disposing = live[n].disposing
    BY <1>1 DEF LiveRecord, Leaves, Attends
  <2>2. live' = [live EXCEPT ![n] = MaybeDispose(k)] /\ UNCHANGED conn
    BY <1>5 DEF RuntimeEvent
  <2> HIDE DEF k
  <2> QED BY <1>4, <2>1, <2>2
<1>6. CASE RuntimeError(n)
  <2> DEFINE k == [live[n] EXCEPT !.terminal = TRUE,
                                  !.doomed = live[n].connections,
                                  !.ending = "closing"]
  <2>1. Leaves(live[n], k)
    BY <1>1 DEF LiveRecord, Leaves, Attends
  <2>2. live' = [live EXCEPT ![n] = k]
    BY <1>1, <1>6 DEF RuntimeError, Typed
  <2>3. \A c \in Conns : /\ Connected(c) => Connected(c)'
                         /\ conn'[c].sessionIds = conn[c].sessionIds
    BY <1>6 DEF RuntimeError, Connected, Typed, Conn
  <2>4. Present
    BY <1>1, <2>3, SamePresent
  <2>5. Quieter /\ Fewer
    BY <2>1, <2>2, OneLeaves
  <2> QED BY <1>2, <1>3, <2>4, <2>5, IdleOrdinary
<1>7. CASE TerminateDisconnects(n)
  <2> DEFINE C == {c \in live[n].doomed : Connected(c)}
             k == [Left(n, C) EXCEPT !.ending = "disposing", !.doomed = {}]
  <2>1. \A m \in Tasks : Leaves(live[m], Left(m, C)) /\ Left(m, C) \in LiveRecord
    BY LeftLeaves, LeftUsed DEF Used
  <2>2. /\ k.connections = Left(n, C).connections
        /\ k.operations = Left(n, C).operations
        /\ k.disposing = Left(n, C).disposing
    <3> HIDE DEF C
    <3> QED BY <2>1, ZenonT(60) DEF LiveRecord
  <2>3. /\ live' = [m \in Tasks |-> IF m = n THEN k ELSE Left(m, C)]
        /\ conn' = [c \in Conns |-> Gone(c, C)]
    BY <1>7 DEF TerminateDisconnects
  <2> HIDE DEF C, k
  <2>4. \A m \in Tasks : live'[m].connections = Left(m, C).connections
    BY <2>2, <2>3
  <2>5. Quieter /\ Fewer
    BY <2>1, <2>2, <2>3 DEF Quieter, Fewer, Leaves, Attends
  <2>6. Present
    BY <1>3, <2>3, <2>4, GonePresent DEF maps
  <2> QED BY <1>2, <1>3, <2>5, <2>6, IdleOrdinary
<1>8. CASE TerminateDisposes(n)
  <2> DEFINE k == [live[n] EXCEPT !.ending = "done"]
  <2>1. k \in LiveRecord /\ Leaves(live[n], k)
        /\ k.disposing = live[n].disposing
    BY <1>1 DEF LiveRecord, Leaves, Attends
  <2>2. live' = [live EXCEPT ![n] = MaybeDispose(k)] /\ UNCHANGED conn
    BY <1>8 DEF TerminateDisposes
  <2> HIDE DEF k
  <2> QED BY <1>2, <1>3, <1>4, <2>1, <2>2, IdleOrdinary
<1> QED
  BY <1>2, <1>3, <1>5, <1>6, <1>7, <1>8, IdleOrdinary
  DEF RuntimeStep, TerminateStep

\* A disconnect by the transport or by close().
LEMMA DisconnectOrdinary ==
    ASSUME Typed, NEW C, DisconnectAll(C), UNCHANGED <<maps, task>>
    PROVE  Ordinary
<1>1. /\ Stays
      /\ \A m \in Tasks : live[m].stage = "ready" => live'[m].stage = "ready"
  BY DisconnectUses, UsesStay
<1>2. \A n \in Tasks : live'[n] = Left(n, C) /\ Leaves(live[n], Left(n, C))
  BY LeftLeaves DEF DisconnectAll
<1>3. Quieter /\ Fewer
  BY <1>2 DEF Quieter, Fewer, Leaves
<1>4. Present
  BY <1>2, GonePresent DEF DisconnectAll, maps
<1> QED
  BY <1>1, <1>3, <1>4, IdleOrdinary

LEMMA NothingOrdinary ==
    ASSUME Typed, UNCHANGED <<live, maps, task>>,
           \A c \in Conns : /\ Connected(c) => Connected(c)'
                            /\ conn'[c].sessionIds = conn[c].sessionIds
    PROVE  Ordinary
<1>1. Stays /\ Quieter /\ Fewer
  BY NoneLeaves DEF Stays
<1>2. Present
  BY SamePresent DEF Typed
<1> QED
  BY <1>1, <1>2, IdleOrdinary

LEMMA TransportOrdinary ==
    ASSUME Typed, NEW c \in Conns,
           LoseTransport(c) \/ FailProtocol(c) \/ Disconnect(c)
    PROVE  Ordinary
<1>1. CASE LoseTransport(c) \/ FailProtocol(c)
  <2>1. \A d \in Conns : /\ Connected(d) => Connected(d)'
                         /\ conn'[d].sessionIds = conn[d].sessionIds
    BY <1>1 DEF LoseTransport, FailProtocol, Connected, Typed, Conn
  <2> QED
    BY <1>1, <2>1, NothingOrdinary DEF LoseTransport, FailProtocol
<1>2. CASE Disconnect(c)
  BY <1>2, DisconnectOrdinary DEF Disconnect
<1> QED BY <1>1, <1>2

LEMMA CloseOrdinary ==
    ASSUME Typed, MapsInv, Close \/ CloseStep
    PROVE  Ordinary
<1>1. CASE Close \/ CloseTransports \/ CloseAwaitsOpenings \/ CloseReturns
  <2>1. \A d \in Conns : /\ Connected(d) => Connected(d)'
                         /\ conn'[d].sessionIds = conn[d].sessionIds
    <3>1. UNCHANGED conn \/ CloseTransports
      BY <1>1 DEF Close, CloseAwaitsOpenings, CloseReturns
    <3>2. CASE CloseTransports
      <4> SUFFICES ASSUME NEW d \in Conns
                   PROVE  /\ Connected(d) => Connected(d)'
                          /\ conn'[d].sessionIds = conn[d].sessionIds
        OBVIOUS
      <4> DEFINE k == [conn[d] EXCEPT !.stage = "closing", !.open = FALSE]
      <4>1. k.stage = "closing" /\ k.sessionIds = conn[d].sessionIds
        BY DEF Typed, Conn
      <4>2. conn'[d] = IF Connected(d) THEN k ELSE conn[d]
        BY <3>2 DEF CloseTransports
      <4> HIDE DEF k
      <4> QED BY <4>1, <4>2 DEF Connected
    <3> QED BY <3>1, <3>2 DEF Connected
  <2> QED
    BY <1>1, <2>1, NothingOrdinary
    DEF Close, CloseTransports, CloseAwaitsOpenings, CloseReturns
<1>2. CASE CloseConnections
  BY <1>2, DisconnectOrdinary DEF CloseConnections
<1>3. CASE CloseSessions
  <2>1. \A n \in Tasks : live'[n] \in {live[n], Dispose(live[n])}
    BY <1>3 DEF CloseSessions
  <2>2. \A n \in Tasks : Leaves(live[n], live'[n])
    BY <2>1 DEF Leaves, Attends, Dispose, Typed, LiveRecord
  <2>3. Quieter /\ Fewer
    BY <2>2 DEF Quieter, Fewer, Leaves
  <2>4. Present
    BY <1>3, SamePresent DEF CloseSessions, Connected, Typed
  <2>5. Stays /\ \A n \in Tasks : live[n].stage = "ready" =>
                                    live'[n].stage = "ready"
    BY <1>3, ClearKeepsMaps DEF Stays
  <2>6. /\ UNCHANGED <<openingSessions, task>>
        /\ \A s \in Sessions : liveSessions'[s] = None
    BY <1>3 DEF CloseSessions
  <2> QED
    BY <2>3, <2>4, <2>5, <2>6 DEF Ordinary, Operators
<1> QED BY <1>1, <1>2, <1>3 DEF CloseStep

\* The service's promises settle; only the opening that registers its session
\* does more.
LEMMA ServiceAttended ==
    ASSUME Typed, MapsInv, Suspended, Attended, NEW n \in Tasks,
           ServiceStep(n)
    PROVE  Attended'
<1> DEFINE l == live[n]
<1>1. l \in LiveRecord /\ UNCHANGED <<conn, openingSessions, task>>
  BY DEF Typed, ServiceStep, RuntimeAcquired, RuntimeRefused, Register,
         SnapshotRefused, DisposeSettles, maps
<1>2. \E m : /\ live' = [live EXCEPT ![n] = m]
             /\ Leaves(l, m) /\ m.connections = l.connections
  <2> DEFINE e == [l EXCEPT !.stage = "discarding"]
             d == [e EXCEPT !.disposals = @ + 1]
             f == [l EXCEPT !.stage = "failed"]
             g == [l EXCEPT !.stage = "snapshotting"]
             r == [l EXCEPT !.stage = "ready"]
  <2>1. \A m \in {d, f, g, r} :
          Leaves(l, m) /\ m.connections = l.connections
    BY <1>1 DEF LiveRecord, Leaves, Attends
  <2>2. RuntimeAcquired(n) => \E m \in {d, g} : live' = [live EXCEPT ![n] = m]
    BY DEF RuntimeAcquired, Dispose, Typed
  <2>3. RuntimeRefused(n) => live' = [live EXCEPT ![n] = f]
    BY DEF RuntimeRefused, Typed
  <2>4. Register(n) => live' = [live EXCEPT ![n] = r]
    BY DEF Register, Typed
  <2>5. SnapshotRefused(n) => live' = [live EXCEPT ![n] = d]
    BY DEF SnapshotRefused, Dispose, Typed
  <2>6. ASSUME NEW outcome \in {"done", "failed"}, DisposeSettles(n, outcome)
        PROVE  \E m : /\ live' = [live EXCEPT ![n] = m]
                      /\ Leaves(l, m) /\ m.connections = l.connections
    <3> DEFINE x == IF l.stage = "discarding" THEN "failed" ELSE l.stage
               m == [l EXCEPT !.outcome = outcome, !.stage = x]
    <3>1. Leaves(l, m) /\ m.connections = l.connections
      BY <1>1 DEF LiveRecord, Leaves, Attends
    <3>2. live' = [live EXCEPT ![n] = m]
      BY <2>6 DEF DisposeSettles, Typed
    <3> HIDE DEF m
    <3> QED BY <3>1, <3>2
  <2> HIDE DEF d, e, f, g, r, l
  <2> QED
    BY <2>1, <2>2, <2>3, <2>4, <2>5, <2>6 DEF ServiceStep
<1>3. Quieter /\ Fewer
  BY <1>2, OneLeaves
<1>4. \A k \in Tasks : live'[k].connections = live[k].connections
  BY <1>2 DEF Typed
<1>5. /\ \A m \in Tasks : m # n => live'[m] = live[m]
      /\ live'[n].session = live[n].session
      /\ live[n].stage # "unused" /\ live'[n].stage # "unused"
      /\ live[n].stage = "ready" => live'[n].stage = "ready"
  <2>1. ASSUME NEW outcome \in {"done", "failed"}, DisposeSettles(n, outcome)
        PROVE  /\ \A m \in Tasks : m # n => live'[m] = live[m]
               /\ live'[n].session = live[n].session
               /\ live[n].stage # "unused" /\ live'[n].stage # "unused"
               /\ live[n].stage = "ready" => live'[n].stage = "ready"
    BY <2>1, DisposeKeepsMaps
  <2> QED BY <2>1, OpeningKeepsMaps DEF ServiceStep
<1>6. /\ Stays
      /\ \A m \in Tasks : live[m].stage = "ready" => live'[m].stage = "ready"
  BY <1>5 DEF Stays
<1>7. CASE ~Register(n)
  <2>1. \A s \in Sessions : liveSessions'[s] \in {liveSessions[s], None}
    BY <1>7 DEF ServiceStep, RuntimeAcquired, RuntimeRefused, SnapshotRefused,
                DisposeSettles, maps
  <2>2. Present
    BY <1>1, SamePresent DEF Connected, Typed
  <2>3. Ordinary
    BY <1>1, <1>3, <1>6, <2>1, <2>2 DEF Ordinary, Operators
  <2> QED BY <2>3, OrdinaryKeeps
<1>8. CASE Register(n)
  <2>1. Busy' /\ Named' /\ Joining'
    BY <1>1, <1>3, <1>6, BusyKept, NamedKept, JoiningKept
    DEF Attended, Operators
  <2>2. /\ live[n].stage = "snapshotting"
        /\ liveSessions' = [liveSessions EXCEPT ![live[n].session] = n]
    BY <1>8 DEF Register
  <2>3. live[n].connections = {}
    BY <2>2 DEF Attended, Listeners, Unlisted
  <2>4. Unlisted'
    BY <1>4, <1>6 DEF Attended, Listeners, Unlisted
  <2>5. NoGhostListener'
    <3> SUFFICES ASSUME NEW s \in Sessions, liveSessions'[s] # None,
                        NEW c \in live'[liveSessions'[s]].connections
                 PROVE  Connected(c)' /\ s \in conn'[c].sessionIds
      BY DEF NoGhostListener, Connected
    <3>1. liveSessions'[s] \in {n, liveSessions[s]}
          /\ liveSessions[s] \in Ids
      BY <2>2 DEF Typed
    <3>2. liveSessions'[s] # n
      BY <1>4, <2>3
    <3>3. /\ liveSessions'[s] = liveSessions[s] /\ liveSessions[s] # None
          /\ c \in live[liveSessions[s]].connections
      BY <1>4, <3>1, <3>2 DEF Ids
    <3> QED
      BY <1>1, <3>3 DEF Attended, Listeners, NoGhostListener, Connected
  <2> QED BY <2>1, <2>4, <2>5 DEF Attended, Listeners
<1> QED BY <1>7, <1>8

\* detach: the connection leaves the session and the session the connection.
LEMMA DetachAttended ==
    ASSUME Typed, MapsInv, Suspended, Attended, NEW t \in Tasks,
           NEW c \in Conns, NEW s \in Sessions, RequestDetach(t, c, s)
    PROVE  Attended'
<1> DEFINE n == liveSessions[s]
           k == [live[n] EXCEPT !.connections = @ \ {c}]
<1>1. /\ task[t].pc = "free" /\ UNCHANGED maps
      /\ conn' = [conn EXCEPT ![c].sessionIds = @ \ {s}]
  BY DEF RequestDetach, Dispatch
<1>2. /\ Stays
      /\ \A m \in Tasks : live[m].stage = "ready" => live'[m].stage = "ready"
  BY DetachUses, UsesStay
<1>3. ASSUME n # None
      PROVE  /\ n \in Tasks
             /\ \E m : /\ live' = [live EXCEPT ![n] = m]
                       /\ Leaves(live[n], m) /\ c \notin m.connections
  <2>1. n \in Tasks /\ live[n] \in LiveRecord
    BY <1>3 DEF Typed, Ids
  <2>2. /\ k \in LiveRecord /\ Leaves(live[n], k) /\ c \notin k.connections
        /\ k.disposing = live[n].disposing
    BY <2>1 DEF LiveRecord, Leaves, Attends
  <2>3. \E m \in {k, MaybeDispose(k)} : live' = [live EXCEPT ![n] = m]
    BY <1>3 DEF RequestDetach
  <2> HIDE DEF k
  <2>4. Leaves(live[n], MaybeDispose(k))
        /\ MaybeDispose(k).connections = k.connections
    BY <2>1, <2>2, DisposeLeaves, DisposeUsage
  <2> QED BY <2>1, <2>2, <2>3, <2>4
<1>4. n = None => UNCHANGED live
  BY DEF RequestDetach
<1>5. Quieter /\ Fewer
  BY <1>3, <1>4, OneLeaves, NoneLeaves
<1>6. Present
  <2> SUFFICES ASSUME NEW r \in Sessions, NEW m \in Tasks,
                      liveSessions[r] = m,
                      NEW d \in live'[m].connections \cap live[m].connections,
                      Connected(d), r \in conn[d].sessionIds
               PROVE  Connected(d)' /\ r \in conn'[d].sessionIds
    BY <1>1 DEF Present, maps
  <2>1. d \in Conns
    BY DEF Typed, LiveRecord
  <2>2. ~(d = c /\ r = s)
    BY <1>3, BoundsAssumption DEF Typed, Tasks
  <2> QED BY <1>1, <2>1, <2>2 DEF Connected, Typed, Conn
<1>7. \E p \in {"answered", "leaving", "draining"} :
        \E m : Start(t, c, s, p, m)
  BY DEF RequestDetach
<1>8. /\ \A u \in Tasks : u # t => task'[u] = task[u]
      /\ task'[t].pc \in {"answered", "leaving", "draining"}
  BY <1>7 DEF Start, Typed
<1>9. Ordinary
  BY <1>1, <1>2, <1>5, <1>6, <1>8 DEF Ordinary, Operators, maps
<1> QED BY <1>9, OrdinaryKeeps

\* A request that asks for a runtime: what it joins is of its session.
LEMMA OpenAttended ==
    ASSUME Typed, MapsInv, Suspended, Attended, NEW t \in Tasks,
           NEW s \in Sessions, live[t].stage = "unused", Open(t, s),
           UNCHANGED <<conn, liveSessions, server>>, Claimable(s),
           task[t].pc \in {"free", "releasing"},
           NEW r \in Task, task' = [task EXCEPT ![t] = r],
           r.session = s, r.pc = Acquired(t, s)[1], r.live = Acquired(t, s)[2]
    PROVE  Attended'
<1>1. /\ live' \in [Tasks -> LiveRecord]
      /\ openingSessions' \in [Sessions -> Ids]
      /\ \A n \in Tasks : n # t => live'[n] = live[n]
      /\ Opens(s) => live'[t].stage = "acquiring"
      /\ ~Opens(s) => live'[t].stage = "unused"
  BY OpenKeepsMaps DEF OpenedBy
<1>2. task'[t] = r /\ \A u \in Tasks : u # t => task'[u] = task[u]
  BY DEF Typed
<1>3. /\ r.pc \in {"opening", "answered", "releasing", "attach"}
      /\ r.pc # "answered" => r.live \in Tasks
      /\ r.pc = "attach" =>
           /\ live[r.live].stage = "ready" /\ live[r.live].session = s
           /\ ~Opens(s)
  BY AcquiredRests
<1>4. \A n \in Tasks : /\ live'[n].connections = live[n].connections
                       /\ live'[n].operations = live[n].operations
                       /\ live'[n].disposing = live[n].disposing
  <2>1. live[t] \in LiveRecord
    BY DEF Typed
  <2> DEFINE k == [live[t] EXCEPT !.stage = "acquiring", !.session = s]
  <2>2. /\ k.connections = live[t].connections
        /\ k.operations = live[t].operations
        /\ k.disposing = live[t].disposing
    BY <2>1 DEF LiveRecord
  <2>3. UNCHANGED live \/ live'[t] = k
    BY DEF Open, Typed
  <2> HIDE DEF k
  <2> QED BY <1>1, <2>2, <2>3
<1>5. Quieter /\ Fewer
  BY <1>4 DEF Quieter, Attends, Fewer
<1>6. /\ Stays
      /\ \A n \in Tasks : live[n].stage = "ready" => live'[n].stage = "ready"
  BY <1>1 DEF Stays
<1>7. Busy'
  BY <1>2, <1>3, <1>5, BusyKept DEF Attended, Operators
<1>8. Listeners'
  <2>1. Present
    BY SamePresent DEF Connected, Typed
  <2> QED
    BY <1>5, <1>6, <2>1, ListenersKept DEF Attended
<1>9. CASE Opens(s)
  <2>1. /\ live' = [live EXCEPT ![t].stage = "acquiring", ![t].session = s]
        /\ openingSessions' = [openingSessions EXCEPT ![s] = t]
    BY <1>9 DEF Open
  <2>2. live'[t].stage = "acquiring" /\ live'[t].session = s
    <3> DEFINE k == [live[t] EXCEPT !.stage = "acquiring", !.session = s]
    <3>1. k.stage = "acquiring" /\ k.session = s
      BY DEF Typed, LiveRecord
    <3>2. live'[t] = k
      BY <2>1 DEF Typed
    <3> HIDE DEF k
    <3> QED BY <3>1, <3>2
  <2>3. Named'
    <3> SUFFICES ASSUME NEW q \in Sessions, openingSessions'[q] # None
                 PROVE  LET l == live'[openingSessions'[q]] IN
                        l.stage # "unused" /\ l.session = q
      BY DEF Named
    <3>1. CASE q = s
      BY <2>1, <2>2, <3>1 DEF Typed
    <3>2. CASE q # s
      <4>1. openingSessions'[q] = openingSessions[q]
            /\ openingSessions[q] \in Tasks
        BY <2>1, <3>2 DEF Typed, Ids
      <4> QED BY <1>6, <4>1 DEF Attended, Named, Stays
    <3> QED BY <3>1, <3>2
  <2>4. r.pc = "opening" /\ r.live = t
    BY <1>9 DEF Acquired, Opens
  <2>5. Joining'
    <3> SUFFICES ASSUME NEW u \in Tasks PROVE JoinsAt(u)'
      BY DEF Joining
    <3>1. CASE u = t
      BY <1>2, <2>2, <2>4, <3>1 DEF JoinsAt
    <3>2. CASE u # t
      BY <1>2, <1>6, <3>2
      DEF JoinsAt, Attended, Joining, Stays, Suspended, RestsAt
    <3> QED BY <3>1, <3>2
  <2> QED BY <1>7, <1>8, <2>3, <2>5 DEF Attended
<1>10. CASE ~Opens(s)
  <2>1. UNCHANGED <<live, openingSessions>>
    BY <1>10 DEF Open
  <2>2. Named'
    BY <1>6, <2>1, NamedKept DEF Attended
  <2>3. r.pc = "opening" =>
          r.live = openingSessions[s] /\ openingSessions[s] # None
    <3>1. CASE liveSessions[s] = None
      BY <1>10, <3>1 DEF Acquired, Opens
    <3>2. CASE liveSessions[s] # None
      <4>1. Acquired(t, s)[1] \in {"answered", "releasing", "attach"}
        BY <3>2 DEF Acquired, Opens
      <4> QED BY <4>1
    <3> QED BY <3>1, <3>2
  <2>4. JoinsAt(t)'
    BY <1>2, <1>3, <2>1, <2>3 DEF JoinsAt, Attended, Named
  <2>5. Joining'
    BY <1>2, <2>1, <2>4 DEF JoinsAt, Attended, Joining
  <2> QED BY <1>7, <1>8, <2>2, <2>5 DEF Attended
<1> QED BY <1>9, <1>10

\* attach and create
LEMMA AttachAttended ==
    ASSUME Typed, MapsInv, Suspended, Unserved, Attended, NEW t \in Tasks,
           NEW c \in Conns, NEW s \in Sessions, RequestAttach(t, c, s)
    PROVE  Attended'
<1>1. /\ Start(t, c, s, Acquired(t, s)[1], Acquired(t, s)[2]) /\ Open(t, s)
      /\ UNCHANGED <<conn, liveSessions, server>>
  BY DEF RequestAttach
<1>2. live[t].stage = "unused" /\ task[t].pc = "free"
  BY DEF RequestAttach, Dispatch, Suspended, RestsAt
<1>3. Claimable(s)
  BY DEF RequestAttach, Dispatch, Unserved, Cleared, Claimable
<1> DEFINE r == [conn |-> c, session |-> s, pc |-> Acquired(t, s)[1],
                 live |-> Acquired(t, s)[2]]
<1>4. r \in Task /\ task' = [task EXCEPT ![t] = r]
  BY <1>1, AcquiredRests, StartRecord DEF Start, Awaits
<1>5. /\ r.session = s /\ r.pc = Acquired(t, s)[1]
      /\ r.live = Acquired(t, s)[2]
  OBVIOUS
<1> HIDE DEF r
<1> QED BY <1>1, <1>2, <1>3, <1>4, <1>5, OpenAttended

\* acquire goes round its loop again, or rethrows.
LEMMA ReleasedAttended ==
    ASSUME Typed, MapsInv, Suspended, Late, Attended, NEW t \in Tasks,
           Released(t)
    PROVE  Attended'
<1> DEFINE k == task[t]
           s == task[t].session
           l == live[task[t].live]
<1>1. /\ k.pc = "releasing" /\ Disposed(l) /\ k \in Task
      /\ s \in Sessions /\ live[t].stage = "unused"
      /\ UNCHANGED <<conn, liveSessions, server>>
  BY DEF Released, Suspended, RestsAt, Typed
<1>2. CASE l.outcome = "failed"
  <2>1. UNCHANGED <<live, openingSessions>> /\ Answer(t)
    BY <1>2 DEF Released
  <2>2. /\ \A u \in Tasks : u # t => task'[u] = task[u]
        /\ task'[t].pc = "answered"
    BY <2>1 DEF Answer, Typed, Task
  <2>3. Stays /\ Quieter /\ Fewer
    BY <2>1, NoneLeaves DEF Stays
  <2>4. Present
    BY <1>1, SamePresent DEF Connected, Typed
  <2>5. Ordinary
    BY <1>1, <2>1, <2>2, <2>3, <2>4 DEF Ordinary, Operators
  <2> QED BY <2>5, OrdinaryKeeps
<1>3. CASE l.outcome # "failed"
  <2> DEFINE r == [k EXCEPT !.pc = Acquired(t, s)[1],
                            !.live = Acquired(t, s)[2]]
  <2>1. /\ r \in Task /\ r.session = s
        /\ r.pc = Acquired(t, s)[1] /\ r.live = Acquired(t, s)[2]
    <3>1. PICK p \in {"opening", "answered", "releasing", "attach"},
               m \in Ids : p = Acquired(t, s)[1] /\ m = Acquired(t, s)[2]
      BY <1>1, AcquiredRests
    <3>2. r = [k EXCEPT !.pc = p, !.live = m]
      BY <3>1
    <3>3. /\ [k EXCEPT !.pc = p, !.live = m] \in Task
          /\ [k EXCEPT !.pc = p, !.live = m].session = s
          /\ [k EXCEPT !.pc = p, !.live = m].pc = p
          /\ [k EXCEPT !.pc = p, !.live = m].live = m
      BY <1>1 DEF Task
    <3> QED BY <3>1, <3>2, <3>3
  <2>2. task' = [task EXCEPT ![t] = r] /\ Open(t, s)
    BY <1>3 DEF Released, Typed
  <2>3. Claimable(s)
    BY <1>1 DEF Late, LateAt, Cleared, Closing, Claimable
  <2> HIDE DEF r
  <2> QED BY <1>1, <2>1, <2>2, <2>3, OpenAttended
<1> QED BY <1>2, <1>3

\* An operation is counted from its start to its end.
LEMMA OperationAttended ==
    ASSUME Typed, MapsInv, Suspended, Attended, NEW t \in Tasks,
           NEW c \in Conns, NEW s \in Sessions, RequestOperation(t, c, s)
    PROVE  Attended'
<1> DEFINE n == liveSessions[s]
<1>1. /\ n \in Tasks /\ live[n] \in LiveRecord /\ live[n].disposing = FALSE
      /\ task[t].pc = "free" /\ UNCHANGED <<conn, maps, server>>
  BY DEF Typed, Ids, RequestOperation, Dispatch, LiveRecord
<1>2. PICK p \in {live[n].phase, "turn"} :
        live' = [live EXCEPT ![n].operations = @ + 1, ![n].phase = p]
  BY <1>1 DEF RequestOperation
<1> DEFINE m == [live[n] EXCEPT !.operations = @ + 1, !.phase = p]
<1>3. /\ m.operations = live[n].operations + 1 /\ m.disposing = FALSE
      /\ m.connections = live[n].connections
  BY <1>1 DEF LiveRecord
<1>4. live'[n] = m /\ \A k \in Tasks : k # n => live'[k] = live[k]
  BY <1>1, <1>2 DEF Typed
<1> HIDE DEF m
<1>5. /\ \A u \in Tasks : u # t => task'[u] = task[u]
      /\ task'[t].pc = "operating" /\ task'[t].live = n
  BY DEF RequestOperation, Start, Typed
<1>6. /\ Stays
      /\ \A k \in Tasks : live[k].stage = "ready" => live'[k].stage = "ready"
  BY OperationUses, UsesStay
<1>7. Busy'
  <2>1. /\ t \notin Operating(n)
        /\ \A k \in Tasks : k = n => Operating(k)' = Operating(k) \cup {t}
    BY <1>1, <1>5 DEF Operating
  <2>2. \A k \in Tasks : k # n => Operating(k)' = Operating(k)
    BY <1>1, <1>5 DEF Operating
  <2>3. Cardinality(Operating(n) \cup {t}) = Cardinality(Operating(n)) + 1
    BY <2>1, OperatingFinite, FS_AddElement
  <2>4. live[n].operations = Cardinality(Operating(n))
    BY <1>1 DEF Attended, Busy
  <2>5. ASSUME NEW k \in Tasks, k = n
        PROVE  live'[k].operations = Cardinality(Operating(k))'
    BY <1>3, <1>4, <2>1, <2>3, <2>4, <2>5
  <2> QED
    BY <1>3, <1>4, <2>2, <2>5 DEF Attended, Busy
<1>8. Named' /\ Joining'
  BY <1>1, <1>5, <1>6, NamedKept, JoiningKept DEF Attended, maps
<1>9. Listeners'
  <2>1. Fewer
    BY <1>3, <1>4 DEF Fewer
  <2>2. Present
    BY <1>1, SamePresent DEF Connected, Typed
  <2> QED
    BY <1>1, <1>6, <2>1, <2>2, ListenersKept DEF Attended, maps
<1> QED BY <1>7, <1>8, <1>9 DEF Attended

LEMMA OperationEndAttended ==
    ASSUME Typed, Suspended, Attended, NEW t \in Tasks, OperationEnds(t)
    PROVE  Attended'
<1> DEFINE n == task[t].live
           k == [live[n] EXCEPT !.operations = @ - 1]
           m == MaybeDispose(k)
<1>1. /\ n \in Tasks /\ live[n] \in LiveRecord
      /\ task[t].pc \in {"operating", "reporting"}
      /\ UNCHANGED <<conn, maps, server>>
  BY DEF OperationEnds, Suspended, RestsAt, Typed
<1>2. /\ k \in LiveRecord /\ k.operations = live[n].operations - 1
      /\ k.connections = live[n].connections
      /\ k.disposing = live[n].disposing
  <2>1. live[n].operations - 1 \in Int
    BY <1>1 DEF LiveRecord
  <2> QED BY <1>1, <2>1 DEF LiveRecord
<1>3. live'[n] = m /\ \A j \in Tasks : j # n => live'[j] = live[j]
  BY <1>1 DEF OperationEnds, Typed
<1>4. /\ m.connections = live[n].connections
      /\ m.operations = live[n].operations - 1
      /\ m.disposing => live[n].disposing \/ m.operations = 0
  <2> HIDE DEF k
  <2>1. /\ MaybeDispose(k).connections = k.connections
        /\ MaybeDispose(k).operations = k.operations
        /\ MaybeDispose(k).disposing => k.disposing \/ k.operations = 0
    BY <1>2, DisposeUsage
  <2>2. ASSUME MaybeDispose(k).disposing
        PROVE  live[n].disposing \/ MaybeDispose(k).operations = 0
    BY <1>2, <2>1, <2>2, Zenon
  <2> QED BY <1>2, <2>1, <2>2
<1> HIDE DEF k, m
<1>5. /\ \A u \in Tasks : u # t => task'[u] = task[u]
      /\ task'[t].pc = "answered"
  BY DEF OperationEnds, Answer, Typed, Task
<1>6. /\ Stays
      /\ \A j \in Tasks : live[j].stage = "ready" => live'[j].stage = "ready"
  BY TaskUses, UsesStay
<1>7. Busy'
  <2>1. /\ t \in Operating(n)
        /\ \A j \in Tasks : j = n => Operating(j)' = Operating(j) \ {t}
    BY <1>1, <1>5 DEF Operating
  <2>2. \A j \in Tasks : j # n => Operating(j)' = Operating(j)
    BY <1>1, <1>5 DEF Operating
  <2>3. Cardinality(Operating(n) \ {t}) = Cardinality(Operating(n)) - 1
        /\ Operating(n) # {}
    BY <2>1, OperatingFinite, FS_RemoveElement
  <2>4. live[n].operations = Cardinality(Operating(n))
    BY <1>1 DEF Attended, Busy
  <2>5. live[n].operations # 0
    BY <2>3, <2>4, OperatingFinite, FS_EmptySet
  <2>6. ~live[n].disposing
    BY <1>1, <2>5 DEF Attended, Busy
  <2>7. ASSUME NEW j \in Tasks, j = n
        PROVE  live'[j].operations = Cardinality(Operating(j))'
    BY <1>3, <1>4, <2>1, <2>3, <2>4, <2>7
  <2>8. ASSUME NEW j \in Tasks, j = n, live'[j].disposing
        PROVE  live'[j].operations = 0
    BY <1>3, <1>4, <2>6, <2>8, Zenon
  <2> QED
    BY <1>3, <2>2, <2>7, <2>8 DEF Attended, Busy
<1>8. Named' /\ Joining'
  BY <1>1, <1>5, <1>6, NamedKept, JoiningKept DEF Attended, maps
<1>9. Listeners'
  <2>1. Fewer
    BY <1>3, <1>4 DEF Fewer
  <2>2. Present
    BY <1>1, SamePresent DEF Connected, Typed
  <2> QED
    BY <1>1, <1>6, <2>1, <2>2, ListenersKept DEF Attended, maps
<1> QED BY <1>7, <1>8, <1>9 DEF Attended

\* attach: the connection learns of the session and the session of the
\* connection in one step, unless the connection is gone by now.
LEMMA AttachingAttended ==
    ASSUME Typed, MapsInv, Suspended, Attended, NEW t \in Tasks, Attach(t)
    PROVE  Attended'
<1> DEFINE n == task[t].live
           c == task[t].conn
           k == [live[n] EXCEPT !.connections = @ \union {c}]
<1>1. /\ n \in Tasks /\ live[n] \in LiveRecord /\ live[n].stage = "ready"
      /\ c \in Conns /\ task[t].session \in Sessions
      /\ live[n].session = task[t].session
      /\ task[t].pc \in {"attach", "opening"}
      /\ UNCHANGED <<liveSessions, server>> /\ Forget(t)
  BY DEF Attach, Suspended, RestsAt, Typed, Attended, Joining, JoinsAt
<1>2. /\ Stays
      /\ \A j \in Tasks : live[j].stage = "ready" => live'[j].stage = "ready"
  BY TaskUses, UsesStay
<1>3. \A s \in Sessions : openingSessions'[s] \in {openingSessions[s], None}
  BY <1>1 DEF Forget, Typed
<1>4. /\ \A u \in Tasks : u # t => task'[u] = task[u]
      /\ task'[t].pc \in {"snapshot", "answered"}
  BY DEF Attach, Resume, Answer, Typed, Task
<1>5. Operators
  BY <1>1, <1>4 DEF Operators
<1>6. Named' /\ Joining'
  BY <1>2, <1>3, <1>4, NamedKept, JoiningKept DEF Attended
<1>7. CASE ~(conn[c].stage = "ready" /\ conn[c].open)
  <2>1. live' = [live EXCEPT ![n] = MaybeDispose(live[n])] /\ UNCHANGED conn
    BY <1>7 DEF Attach
  <2>2. Leaves(live[n], MaybeDispose(live[n]))
    BY <1>1, DisposeLeaves DEF Leaves, Attends
  <2>3. Quieter /\ Fewer
    BY <1>1, <2>1, <2>2, OneLeaves
  <2>4. Present
    BY <2>1, SamePresent DEF Connected, Typed
  <2>5. Busy' /\ Listeners'
    BY <1>1, <1>2, <1>5, <2>3, <2>4, BusyKept, ListenersKept DEF Attended
  <2> QED BY <1>6, <2>5 DEF Attended
<1>8. CASE conn[c].stage = "ready" /\ conn[c].open
  <2>1. /\ conn' = [conn EXCEPT ![c].sessionIds =
                      @ \union {task[t].session}]
        /\ live' = [live EXCEPT ![n] = k]
    BY <1>1, <1>8 DEF Attach, Typed
  <2>2. /\ k.connections = live[n].connections \cup {c}
        /\ k.operations = live[n].operations
        /\ k.disposing = live[n].disposing
    BY <1>1 DEF LiveRecord
  <2>3. live'[n] = k /\ \A j \in Tasks : j # n => live'[j] = live[j]
    BY <1>1, <2>1 DEF Typed
  <2> HIDE DEF k
  <2>4. Quieter
    BY <2>2, <2>3 DEF Quieter, Attends
  <2>5. Busy'
    BY <1>5, <2>4, BusyKept DEF Attended
  <2>6. Unlisted'
    BY <1>1, <1>2, <2>3 DEF Unlisted, Attended, Listeners
  <2>7. NoGhostListener'
    <3> SUFFICES ASSUME NEW s \in Sessions, liveSessions'[s] # None,
                        NEW d \in live'[liveSessions'[s]].connections
                 PROVE  Connected(d)' /\ s \in conn'[d].sessionIds
      BY DEF NoGhostListener, Connected
    <3>1. /\ liveSessions[s] \in Tasks /\ liveSessions'[s] = liveSessions[s]
          /\ live[liveSessions[s]].session = s
      BY <1>1 DEF Typed, Ids, Listed, MapsInv
    <3>2. CASE d \in live[liveSessions[s]].connections
      <4>1. Connected(d) /\ s \in conn[d].sessionIds /\ d \in Conns
        BY <3>1, <3>2 DEF Attended, Listeners, NoGhostListener, Typed,
                          LiveRecord
      <4> QED BY <2>1, <4>1 DEF Connected, Typed, Conn
    <3>3. CASE d \notin live[liveSessions[s]].connections
      <4>1. d = c /\ liveSessions[s] = n
        BY <2>2, <2>3, <3>1, <3>3
      <4>2. s = task[t].session
        BY <1>1, <3>1, <4>1
      <4> QED BY <1>1, <1>8, <2>1, <4>1, <4>2 DEF Connected, Typed, Conn
    <3> QED BY <3>2, <3>3
  <2> QED BY <1>6, <2>5, <2>6, <2>7 DEF Attended, Listeners
<1> QED BY <1>7, <1>8

\* What else follows the awaits of a request.
LEMMA TaskOrdinary ==
    ASSUME Typed, Suspended, NEW t \in Tasks,
           RequestEnds(t) \/ DetachReported(t) \/ OperationSucceeds(t)
    PROVE  Ordinary
<1> DEFINE n == task[t].live
<1>1. /\ Stays
      /\ \A j \in Tasks : live[j].stage = "ready" => live'[j].stage = "ready"
  BY TaskUses, UsesStay
<1>2. UNCHANGED <<conn, liveSessions>>
  BY DEF RequestEnds, DetachReported, OperationSucceeds, maps
<1>3. Present
  BY <1>2, SamePresent DEF Connected, Typed
<1>4. \A s \in Sessions : openingSessions'[s] \in {openingSessions[s], None}
  BY DEF RequestEnds, DetachReported, OperationSucceeds, maps, Forget, Typed
<1>5. Quieter /\ Fewer
  <2>1. CASE UNCHANGED live
    BY <2>1, NoneLeaves
  <2>2. CASE DetachReported(t) /\ ~UNCHANGED live
    <3>1. n \in Tasks /\ live[n] \in LiveRecord
          /\ live' = [live EXCEPT ![n] = MaybeDispose(live[n])]
      BY <2>2 DEF DetachReported, Suspended, RestsAt, Typed
    <3>2. Leaves(live[n], MaybeDispose(live[n]))
      BY <3>1, DisposeLeaves DEF Leaves, Attends
    <3> QED BY <3>1, <3>2, OneLeaves
  <2> QED BY <2>1, <2>2 DEF RequestEnds, OperationSucceeds
<1>6. /\ \A u \in Tasks : u # t => task'[u] = task[u]
      /\ \/ /\ task[t].pc = "operating" /\ task'[t].pc = "reporting"
            /\ task'[t].live = task[t].live
         \/ /\ task[t].pc \in {"opening", "draining", "snapshot", "leaving"}
            /\ task'[t].pc \in {"draining", "answered"}
  BY DEF RequestEnds, DetachReported, OperationSucceeds, Resume, Answer,
         Typed, Task
<1> QED
  BY <1>1, <1>2, <1>3, <1>4, <1>5, <1>6 DEF Ordinary, Operators

LEMMA StepAttended ==
    ASSUME IInv, Attended, [Next]_vars
    PROVE  Attended'
<1> USE DEF IInv
<1>1. ASSUME NEW t \in Tasks, Request(t) PROVE Attended'
  BY <1>1, AttachAttended, DetachAttended, OperationAttended DEF Request
<1>2. ASSUME NEW t \in Tasks, TaskStep(t) PROVE Attended'
  BY <1>2, AttachingAttended, ReleasedAttended, TaskOrdinary, OrdinaryKeeps,
     OperationEndAttended
  DEF TaskStep
<1>3. ASSUME NEW n \in Tasks, ServiceStep(n) PROVE Attended'
  BY <1>3, ServiceAttended
<1>4. ASSUME NEW n \in Tasks, RuntimeStep(n) \/ TerminateStep(n)
      PROVE  Attended'
  BY <1>4, RuntimeOrdinary, OrdinaryKeeps
<1>5. ASSUME NEW c \in Conns,
             LoseTransport(c) \/ FailProtocol(c) \/ Disconnect(c)
      PROVE  Attended'
  BY <1>5, TransportOrdinary, OrdinaryKeeps
<1>6. ASSUME Close \/ CloseStep PROVE Attended'
  BY <1>6, CloseOrdinary, OrdinaryKeeps
<1>7. CASE UNCHANGED vars
  <2>1. Ordinary
    BY <1>7, NothingOrdinary DEF vars, maps, Connected
  <2> QED BY <2>1, OrdinaryKeeps
<1>8. CASE Next
  BY <1>1, <1>2, <1>3, <1>4, <1>5, <1>6, <1>7, <1>8 DEF Next, Stopped
<1> QED BY <1>7, <1>8

LEMMA InitAttended == Init => Attended
<1> SUFFICES ASSUME Init PROVE Attended
  OBVIOUS
<1>1. \A n \in Tasks : /\ live[n].stage = "unused"
                       /\ live[n].connections = {}
                       /\ live[n].operations = 0
                       /\ live[n].disposing = FALSE
  BY DEF Init, NoRuntime
<1>2. \A t \in Tasks : task[t].pc = "free"
  BY DEF Init
<1>3. \A n \in Tasks : Operating(n) = {}
  BY <1>2 DEF Operating
<1>4. Busy
  BY <1>1, <1>3, FS_EmptySet DEF Busy
<1>5. Named /\ Joining /\ Listeners
  BY <1>1, <1>2
  DEF Init, Named, Joining, JoinsAt, Listeners, Unlisted, NoGhostListener
<1> QED BY <1>4, <1>5 DEF Attended

\* The chunk being dispatched is that of a connection.
LEMMA StepChunk ==
    ASSUME chunk \in Conns \union {None}, [Next]_vars
    PROVE  chunk' \in Conns \union {None}
<1>1. ASSUME NEW t \in Tasks, Request(t) PROVE chunk' \in Conns
  BY <1>1 DEF Request, RequestAttach, RequestDetach, RequestOperation,
              Dispatch
<1>2. ASSUME NEW t \in Tasks,
             \/ TaskStep(t) \/ ServiceStep(t) \/ RuntimeStep(t)
             \/ TerminateStep(t)
      PROVE  chunk' = None
  BY <1>2 DEF TaskStep, ServiceStep, RuntimeStep, TerminateStep, RuntimeEvent,
              RuntimeError, NewTurn
<1>3. ASSUME NEW c \in Conns,
             LoseTransport(c) \/ FailProtocol(c) \/ Disconnect(c)
      PROVE  chunk' = None
  BY <1>3 DEF LoseTransport, FailProtocol, Disconnect, NewTurn
<1>4. Close \/ CloseStep => chunk' = None
  BY DEF Close, CloseStep, NewTurn
<1>5. UNCHANGED vars => UNCHANGED chunk
  BY DEF vars
<1> QED
  BY <1>1, <1>2, <1>3, <1>4, <1>5 DEF Next, Stopped

Consistent == IInv /\ Attended /\ chunk \in Conns \union {None}

LEMMA ConsistentCorrect == Spec => []Consistent
<1>1. Init => Consistent
  BY InitInv, InitAttended DEF Init, Consistent
<1>2. Consistent /\ [Next]_vars => Consistent'
  BY StepInv, StepAttended, StepChunk DEF Consistent
<1> QED
  BY <1>1, <1>2, PTL DEF Spec

\* A session lists exactly connections that are there and know of it, and no
\* operation outlives its runtime, however disconnects, detaches, attaches
\* and operations of the same session interleave.
THEOREM ConnectionsCorrect == Spec => []ConnectionsConsistent
<1> SUFFICES ASSUME Consistent PROVE ConnectionsConsistent
  BY ConsistentCorrect, PTL
<1> USE DEF Consistent
<1>1. TypeOK
  <2>1. ASSUME NEW n \in Tasks PROVE live[n] \in Live
    <3>1. live[n].operations \in Nat
      BY OperatingFinite DEF Attended, Busy
    <3> QED BY <3>1 DEF IInv, Typed, LiveRecord, Live
  <2>2. live \in [Tasks -> Live]
    BY <2>1 DEF IInv, Typed
  <2>3. \A t \in Tasks :
          task[t].pc \notin {"free", "answered"} => task[t].live \in Tasks
    BY DEF IInv, Suspended, RestsAt
  <2> QED BY <2>2, <2>3 DEF TypeOK, IInv, Typed
<1>2. OperationsKeepRuntime
  <2> SUFFICES ASSUME NEW t \in Tasks, ~Closing,
                      task[t].pc \in {"operating", "reporting"}
               PROVE  live[task[t].live].disposals = 0
    BY DEF OperationsKeepRuntime
  <2> DEFINE n == task[t].live
  <2>1. n \in Tasks /\ live[n].stage = "ready"
    BY DEF IInv, Suspended, RestsAt
  <2>2. t \in Operating(n)
    BY DEF Operating
  <2>3. Cardinality(Operating(n)) # 0
    BY <2>2, OperatingFinite, FS_EmptySet
  <2>4. ~live[n].disposing
    BY <2>1, <2>3 DEF Attended, Busy
  <2>5. ~Cleared
    BY DEF Cleared, Closing
  <2> QED BY <2>1, <2>4, <2>5 DEF IInv, MapsInv, Counted
<1>3. NoGhostListener
  BY DEF Attended, Listeners
<1> QED BY <1>1, <1>2, <1>3 DEF ConnectionsConsistent
=============================================================================

----------------------------- MODULE ClientLeases -----------------------------
(***************************************************************************)
(* The leases a PiClient hands out on one session:                         *)
(* packages/client/src/client.ts over connection.ts and state.ts.          *)
(*                                                                         *)
(* Several parts of a program share one client.  Each calls acquireSession *)
(* or createSession, uses its lease, and releases it; the client attaches  *)
(* to the session for the first of them and detaches after the last.  An   *)
(* acquisition may have to wait for a detach under way, for the repair of  *)
(* a detach that failed, and for an attach it shares with others, while    *)
(* answers, events, removals and disconnections arrive.                    *)
(*                                                                         *)
(* `call[l].pc' is the await a call is suspended at.  Continuations run    *)
(* before the next socket event, except between the messages of one chunk; *)
(* the program's own calls may come at any moment between two of them.     *)
(*                                                                         *)
(* The network is part of the server: a message exists once the client     *)
(* handles it, so the server's state is what the client has been told so   *)
(* far.  A server that keeps the order of its messages shows the client    *)
(* nothing else.                                                           *)
(***************************************************************************)
EXTENDS Integers, FiniteSets

CONSTANTS
    Leases,         \* calls of acquireSession and createSession; the token,
                    \* the lease and the requests of a call go by its name
    Modes,          \* bound: which of the calls are of which mode
    MaxConnections, \* bound: connections
    MaxRuntimes,    \* bound: runtimes the server opens for the session
    MaxRevision,    \* bound: revision of a runtime's snapshots
    Overtaking,     \* FALSE: no session is removed while a call acquires or
                    \* releases, and no listener ends the connection between
                    \* an answer and the lease it grants
    None

ASSUME BoundsAssumption ==
    /\ MaxConnections \in Nat /\ MaxRevision \in Nat
    /\ MaxRuntimes \in Nat \ {0}
ASSUME LeasesAssumption == IsFiniteSet(Leases) /\ None \notin Leases
ASSUME ModesAssumption ==
    Modes \subseteq [Leases -> {"shared", "exclusive", "create"}]
ASSUME OvertakingAssumption == Overtaking \in BOOLEAN

VARIABLES
    connection,     \* Connection: its state and the id of the last one
    disposed,       \* PiClient.dispose was called
    known,          \* ClientState: attachment and snapshot of the session
    book,           \* count, exclusive token, generation, cleanup required
    promise,        \* the shared detachment, attachment and reconciliation
    call,           \* acquisitions, and the leases they become
    pending,        \* the request of a call that is not answered yet
    server,         \* the session at the server, for this connection
    chunk,          \* nothing has run since the last message
    late            \* a transport given up may still deliver data

vars == <<connection, disposed, known, book, promise, call, pending, server,
          chunk, late>>
-----------------------------------------------------------------------------
Snapshots == [runtime : 1..MaxRuntimes, revision : 0..MaxRevision]
Outcomes == {"waiting", "ok", "failed"}
\* A shared promise: whose request it is, and what an attach made forget.
Promises == [by : Leases, outcome : Outcomes,
             previous : Snapshots \union {None}]
\* Nothing else is None.
ASSUME NoneAssumption == None \notin Snapshots \union Promises

Connected == connection.state = "connected"

\* A call that has reserved its token and waits for its lease.
Acquiring(l) ==
    call[l].pc \in {"detachment", "reconciliation", "attachment"}
Leased(l) == call[l].pc \in {"active", "detaching", "disposing",
                             "detachRefused", "disposeRefused"}
\* The lease was given for the present generation of the session.
Current(l) == Leased(l) /\ call[l].generation = book.generation
IsActive(l) == Current(l) /\ call[l].pc = "active" /\ known.attached

\* Continuations that are ready to run.  The owner of a promise awaited it
\* first, and a failed release gives up its token before others go on.
Resumed(l) == call[l].waits # None /\ call[l].outcome # "waiting"
Refused(l) == call[l].pc \in {"detachRefused", "disposeRefused"}
Runs(l) ==
    LET owner == call[l].waits IN
    /\ Resumed(l)
    /\ owner # l => /\ ~(Resumed(owner) /\ call[owner].waits = owner)
                    /\ ~Refused(owner)
Quiet == \A l \in Leases : ~Resumed(l) /\ ~Refused(l)

\* A socket event: the continuations have run, or it is the next message of
\* the same chunk.
Message == (Quiet \/ chunk) /\ chunk' = TRUE
Received == Connected /\ Message
Turn == chunk' = FALSE
-----------------------------------------------------------------------------
(* The bookkeeping of leases *)

Exclusively(l) == call[l].mode \in {"exclusive", "create"}

\* Mutant: a shared acquisition does not look for an exclusive lease.
GrantedBesideExclusive(l) == Exclusively(l) => book.count = 0
Granted(l) ==
    IF Exclusively(l) THEN book.count = 0 ELSE book.exclusive = None

Reserved(l) ==
    [book EXCEPT !.count = @ + 1,
                 !.exclusive = IF Exclusively(l) THEN l ELSE @]

Released(b, l) ==
    [b EXCEPT !.count = IF @ <= 1 THEN 0 ELSE @ - 1,
              !.exclusive = IF @ = l THEN None ELSE @]

Invalidated(b) ==
    [count |-> 0, exclusive |-> None, cleanup |-> FALSE,
     generation |-> b.generation + 1]

AllInvalidated(b) ==
    IF b.count > 0 THEN Invalidated(b) ELSE [b EXCEPT !.cleanup = FALSE]
-----------------------------------------------------------------------------
(* The client's copy of the session *)

\* Mutant: the latest snapshot to arrive wins.
AppliedLast(k, s) == [attached |-> TRUE, snapshot |-> s]
Applied(k, s) ==
    IF k.snapshot # None /\ s.revision < k.snapshot.revision THEN k
    ELSE [attached |-> TRUE, snapshot |-> s]
-----------------------------------------------------------------------------
(* Requests and shared promises *)

\* A request of l is sent; without a connection it is rejected at once.
Request(l, command) ==
    pending' = IF Connected THEN [pending EXCEPT ![l] = command] ELSE pending
Requested(l) ==
    [by |-> l, outcome |-> IF Connected THEN "waiting" ELSE "failed",
     previous |-> None]

Await(l, pc, p) ==
    call' = [call EXCEPT ![l].pc = pc, ![l].waits = p.by,
                         ![l].outcome = p.outcome]
Goes(l, pc) ==
    call' = [call EXCEPT ![l].pc = pc, ![l].waits = None,
                         ![l].outcome = "waiting"]
\* createSessionLease.  `early' is for the properties: the lease was given
\* after a dispose had failed and before the failure was marked to be repaired.
Lease(l) ==
    call' = [call EXCEPT ![l].pc = "active", ![l].waits = None,
                         ![l].outcome = "waiting",
                         ![l].generation = book.generation,
                         ![l].early = \E k \in Leases :
                                        call[k].pc = "disposeRefused"]

\* The requests of the calls in L settle: so do the promises made of them,
\* for everybody who awaits them.  A promise settles once.
Settled(p, L, outcome) ==
    IF p # None /\ p.by \in L /\ p.outcome = "waiting"
    THEN [p EXCEPT !.outcome = outcome] ELSE p
Settle(L, outcome) ==
    /\ pending' = [l \in Leases |-> IF l \in L THEN "none" ELSE pending[l]]
    /\ call' = [l \in Leases |->
                  IF call[l].waits \in L /\ call[l].outcome = "waiting"
                  THEN [call[l] EXCEPT !.outcome = outcome] ELSE call[l]]
    /\ promise' = [k \in DOMAIN promise |-> Settled(promise[k], L, outcome)]
-----------------------------------------------------------------------------
(* Acquiring a lease *)

\* The attach is the one under way, or one of its own.  P is what `promise'
\* is by then.
JoinAttachment(l, P) ==
    LET p == IF P.attachment # None THEN P.attachment
             ELSE [Requested(l) EXCEPT !.previous = known.snapshot]
    IN
    /\ Await(l, "attachment", p)
    /\ promise' = [P EXCEPT !.attachment = p]
    /\ IF P.attachment = None
       THEN Request(l, "attach") /\ known' = [known EXCEPT !.snapshot = None]
       ELSE UNCHANGED <<pending, known>>

Proceed(l, reconciled, P) ==
    IF reconciled \/ ~known.attached THEN JoinAttachment(l, P)
    ELSE Lease(l) /\ promise' = P /\ UNCHANGED <<pending, known>>

Reconcile(l) ==
    LET p == IF promise.reconciliation # None THEN promise.reconciliation
             ELSE Requested(l)
    IN
    IF book.cleanup
    THEN /\ Await(l, "reconciliation", p)
         /\ promise' = [promise EXCEPT !.reconciliation = p]
         /\ IF promise.reconciliation = None THEN Request(l, "detach")
            ELSE UNCHANGED pending
         /\ UNCHANGED known
    ELSE Proceed(l, FALSE, promise)

\* Calls of one mode are alike until they are made: the next one takes the
\* next name.
IsNext(l) ==
    l = CHOOSE k \in Leases : call[k].pc = "idle" /\ call[k].mode = call[l].mode

\* acquireSession of a session that was listed, up to its first await; one
\* that is not granted changes nothing.
AcquireSession(l) ==
    /\ call[l].pc = "idle" /\ call[l].mode # "create" /\ ~disposed
    /\ IsNext(l)
    /\ server.exists /\ Granted(l)
    /\ book' = Reserved(l)
    /\ IF promise.detachment # None
       THEN /\ Await(l, "detachment", promise.detachment)
            /\ UNCHANGED <<promise, pending, known>>
       ELSE Reconcile(l)
    /\ Turn
    /\ UNCHANGED <<connection, disposed, server, late>>

\* The detachment is over, whether it succeeded or not.
DetachmentOver(l) ==
    /\ call[l].pc = "detachment" /\ Runs(l)
    /\ Reconcile(l)
    /\ Turn
    /\ UNCHANGED <<connection, disposed, book, server, late>>

Fail(l) == Goes(l, "over") /\ UNCHANGED <<pending, known>>

\* The repair is over; the first to learn it takes note.
ReconciliationOver(l) ==
    LET first == call[l].waits = l
        ok == call[l].outcome = "ok"
        P == IF first THEN [promise EXCEPT !.reconciliation = None]
             ELSE promise
        b == IF first /\ ok THEN [book EXCEPT !.cleanup = FALSE] ELSE book
    IN
    /\ call[l].pc = "reconciliation" /\ Runs(l)
    /\ IF ok THEN Proceed(l, TRUE, P) /\ book' = b
       ELSE Fail(l) /\ promise' = P /\ book' = Released(b, l)
    /\ Turn
    /\ UNCHANGED <<connection, disposed, server, late>>

\* The attach is over; one that failed puts the forgotten snapshot back.
AttachmentOver(l) ==
    LET p == promise.attachment
        mine == p # None /\ p.by = call[l].waits
    IN
    /\ call[l].pc = "attachment" /\ Runs(l)
    /\ promise' = [promise EXCEPT !.attachment = IF mine THEN None ELSE @]
    /\ IF call[l].outcome = "ok"
       THEN Lease(l) /\ UNCHANGED <<pending, known, book>>
       ELSE /\ Goes(l, "over")
            /\ book' = Released(book, l)
            /\ known' = IF call[l].waits = l /\ mine /\ known.snapshot = None
                        THEN [known EXCEPT !.snapshot = p.previous] ELSE known
            /\ UNCHANGED pending
    /\ Turn
    /\ UNCHANGED <<connection, disposed, server, late>>

\* createSession asks first and reserves its exclusive token after.
CreateSession(l) ==
    /\ call[l].pc = "idle" /\ call[l].mode = "create" /\ ~disposed
    /\ IsNext(l)
    /\ ~server.exists
    /\ Await(l, "creating", Requested(l))
    /\ Request(l, "create")
    /\ Turn
    /\ UNCHANGED <<connection, disposed, known, book, promise, server, late>>
SessionCreated(l) ==
    /\ call[l].pc = "creating" /\ Runs(l)
    /\ IF call[l].outcome = "ok" /\ Granted(l)
       THEN Lease(l) /\ book' = Reserved(l)
       ELSE Goes(l, "over") /\ UNCHANGED book
    /\ Turn
    /\ UNCHANGED <<connection, disposed, known, promise, pending, server,
                   late>>
-----------------------------------------------------------------------------
(* Releasing a lease: detach(), which may be retried, and dispose() *)

\* Mutant: every release detaches, whoever else holds a lease.
ReleaseForAll(l) ==
    /\ call[l].pc = "active" /\ Current(l)
    /\ Connected /\ known.attached
    /\ \E pc \in {"detaching", "disposing"} : Await(l, pc, Requested(l))
    /\ promise' = [promise EXCEPT !.detachment = Requested(l)]
    /\ Request(l, "detach")
    /\ UNCHANGED book
    /\ Turn
    /\ UNCHANGED <<connection, disposed, known, server, late>>

\* assertActive lets a release of an active lease pass.
Release(l) ==
    /\ call[l].pc = "active" /\ Current(l)
    /\ Connected /\ known.attached
    /\ IF book.count <= 1
       THEN /\ \E pc \in {"detaching", "disposing"} :
                 Await(l, pc, Requested(l))
            /\ promise' = [promise EXCEPT !.detachment = Requested(l)]
            /\ Request(l, "detach")
            /\ UNCHANGED book
       ELSE /\ Goes(l, "over")
            /\ book' = Released(book, l)
            /\ UNCHANGED <<promise, pending>>
    /\ Turn
    /\ UNCHANGED <<connection, disposed, known, server, late>>

\* The release of an invalidated lease is a no-op.
ReleaseInvalidated(l) ==
    /\ call[l].pc = "active" /\ ~Current(l)
    /\ Goes(l, "over")
    /\ Turn
    /\ UNCHANGED <<connection, disposed, known, book, promise, pending, server,
                   late>>

\* The detach is answered: the await in release goes on.
ReleaseSettles(l) ==
    /\ call[l].pc \in {"detaching", "disposing"} /\ Runs(l)
    /\ promise' = [promise EXCEPT !.detachment =
                     IF @ # None /\ @.by = l THEN None ELSE @]
    /\ IF call[l].outcome = "ok"
       THEN Goes(l, "over") /\ book' = Released(book, l)
       ELSE /\ Goes(l, IF call[l].pc = "detaching" THEN "detachRefused"
                       ELSE "disposeRefused")
            /\ UNCHANGED book
    /\ Turn
    /\ UNCHANGED <<connection, disposed, known, pending, server, late>>

\* Mutant: nobody is told to repair the failed detach.
RelinquishedForgotten(b, l) == Released(b, l)

\* dispose gives its token up and leaves the repair to the next acquisition.
Relinquished(b, l) == [Released(b, l) EXCEPT !.cleanup = TRUE]

\* The handler of the failed release, a continuation of its own.
ReleaseFails(l) ==
    /\ Refused(l)
    /\ Goes(l, IF call[l].pc = "disposeRefused" \/ ~Current(l) THEN "over"
               ELSE "active")
    /\ book' = IF call[l].pc = "disposeRefused" /\ Current(l)
               THEN Relinquished(book, l) ELSE book
    /\ Turn
    /\ UNCHANGED <<connection, disposed, known, promise, pending, server,
                   late>>
-----------------------------------------------------------------------------
(* Messages of the server *)

AtServer(attached, unsure) ==
    [server EXCEPT !.attached = attached, !.unsure = unsure]
Sent(revision) == [runtime |-> server.runtime, revision |-> revision]
Revisions == server.revision..MaxRevision \intersect
             {server.revision, server.revision + 1}

\* The session is attached; create makes it first.
AttachAnswered(l) ==
    /\ \/ pending[l] = "attach"
       \/ pending[l] = "create" /\ ~server.exists
    /\ Received
    /\ \E r \in Revisions :
         /\ server' = [AtServer(TRUE, FALSE) EXCEPT !.revision = r,
                                                    !.exists = TRUE]
         /\ known' = Applied(known, Sent(r))
    /\ Settle({l}, "ok")
    /\ UNCHANGED <<connection, disposed, book, late>>

DetachAnswered(l) ==
    /\ pending[l] = "detach"
    /\ Received
    /\ server' = AtServer(FALSE, FALSE)
    /\ known' = [known EXCEPT !.attached = FALSE]
    /\ Settle({l}, "ok")
    /\ UNCHANGED <<connection, disposed, book, late>>

\* An error: the server may have done its part before it failed (its
\* broadcastSnapshot may reject after the attachment has changed).
RequestRefused(l) ==
    /\ pending[l] # "none"
    /\ Received
    /\ \/ UNCHANGED server /\ ~(pending[l] = "attach" /\ server.attached)
       \/ /\ pending[l] # "create"
          /\ server' = AtServer(pending[l] = "attach", TRUE)
    /\ Settle({l}, "failed")
    /\ UNCHANGED <<connection, disposed, known, book, late>>

\* session_snapshot, of the present state or overtaken by a newer one; the
\* server sends one before it answers an attach.
SnapshotEvent ==
    /\ server.exists
    /\ server.attached \/ \E l \in Leases : pending[l] = "attach"
    /\ Received
    /\ \/ \E r \in Revisions :
            /\ server' = [server EXCEPT !.revision = r, !.attached = TRUE]
            /\ known' = Applied(known, Sent(r))
       \/ /\ server.attached /\ server.revision > 0
          /\ known' = Applied(known, Sent(server.revision - 1))
          /\ UNCHANGED server
    /\ UNCHANGED <<connection, disposed, book, promise, call, pending, late>>

\* While this client is not attached the runtime may be given up and another
\* one opened, whose revisions begin again.
RuntimeReplaced ==
    /\ server.exists /\ ~server.attached /\ server.runtime < MaxRuntimes
    /\ server' = [server EXCEPT !.runtime = @ + 1, !.revision = 0]
    /\ Turn
    /\ UNCHANGED <<connection, disposed, known, book, promise, call, pending,
                   late>>

\* session_removed.  Unless Overtaking, it finds no call that acquires or
\* releases.
Waiting(l) == Acquiring(l) \/ (Leased(l) /\ call[l].pc # "active")
SessionRemoved ==
    /\ server.exists /\ server.runtime < MaxRuntimes
    /\ Overtaking \/ ~\E l \in Leases : Waiting(l)
    /\ Received
    /\ server' = [AtServer(FALSE, FALSE) EXCEPT !.runtime = @ + 1,
                                                !.revision = 0]
    /\ book' = Invalidated(book)
    /\ known' = [attached |-> FALSE, snapshot |-> None]
    /\ UNCHANGED <<connection, disposed, promise, call, pending, late>>
-----------------------------------------------------------------------------
(* The connection *)

\* connect(): forgets everything, and says hello.
Connect ==
    /\ connection.state = "disconnected" /\ ~disposed
    /\ connection.id < MaxConnections
    /\ connection' = [state |-> "connecting", id |-> connection.id + 1]
    /\ known' = [attached |-> FALSE, snapshot |-> None]
    /\ Turn
    /\ UNCHANGED <<disposed, book, promise, call, pending, server, late>>

\* The server's hello opens the connection.
Hello ==
    /\ connection.state = "connecting"
    /\ Message
    /\ connection' = [connection EXCEPT !.state = "connected"]
    /\ UNCHANGED <<disposed, known, book, promise, call, pending, server,
                   late>>

\* Mutant: the requests of a lost connection stay unanswered.
ConnectionLostSilently ==
    /\ known' = [known EXCEPT !.attached = FALSE]
    /\ book' = AllInvalidated(book)
    /\ UNCHANGED <<pending, call, promise>>
ConnectionLost ==
    /\ known' = [known EXCEPT !.attached = FALSE]
    /\ book' = AllInvalidated(book)
    /\ Settle({l \in Leases : pending[l] # "none"}, "failed")

\* A call that has been answered and has not made its lease yet.
Granting(l) ==
    /\ call[l].pc \in {"attachment", "creating"}
    /\ Resumed(l) /\ call[l].outcome = "ok"

\* disconnect(), also from a listener, the loss of the transport, or a protocol
\* error.  Unless Overtaking, it does not come between an answer and the lease.
Disconnect ==
    /\ connection.state # "disconnected"
    /\ Overtaking \/ ~\E l \in Leases : Granting(l)
    /\ connection' = [connection EXCEPT !.state = "disconnected"]
    /\ ConnectionLost
    /\ server' = AtServer(FALSE, FALSE)
    /\ late' = server.attached
    /\ Turn
    /\ UNCHANGED disposed

\* Mutant: the data of a transport given up is handled.
LateDataHandled ==
    /\ late /\ late' = FALSE
    /\ known' = IF Connected THEN Applied(known, Sent(0)) ELSE known
    /\ UNCHANGED <<connection, disposed, book, promise, call, pending, server,
                   chunk>>
\* A transport given up delivers another snapshot; handleData drops it.
LateData ==
    /\ late /\ late' = FALSE
    /\ UNCHANGED <<connection, disposed, known, book, promise, call, pending,
                   server, chunk>>

Dispose ==
    /\ ~disposed /\ disposed' = TRUE
    /\ Overtaking \/ ~\E l \in Leases : Granting(l)
    /\ connection' = [connection EXCEPT !.state = "disconnected"]
    /\ known' = [attached |-> FALSE, snapshot |-> None]
    /\ book' = AllInvalidated(book)
    /\ Settle({l \in Leases : pending[l] # "none"}, "failed")
    /\ server' = AtServer(FALSE, FALSE)
    /\ Turn
    /\ UNCHANGED late
-----------------------------------------------------------------------------
Init ==
    /\ connection = [state |-> "disconnected", id |-> 0]
    /\ disposed = FALSE
    /\ known = [attached |-> FALSE, snapshot |-> None]
    /\ book = [count |-> 0, exclusive |-> None, cleanup |-> FALSE,
               generation |-> 0]
    /\ promise = [k \in {"detachment", "attachment", "reconciliation"} |->
                    None]
    /\ \E mode \in Modes :
         call = [l \in Leases |->
                   [pc |-> "idle", mode |-> mode[l], generation |-> 0,
                    waits |-> None, outcome |-> "waiting", early |-> FALSE]]
    /\ pending = [l \in Leases |-> "none"]
    /\ \E exists \in BOOLEAN :
         server = [exists |-> exists, attached |-> FALSE, unsure |-> FALSE,
                   runtime |-> 1, revision |-> 0]
    /\ chunk = FALSE /\ late = FALSE

Continue(l) ==
    \/ DetachmentOver(l) \/ ReconciliationOver(l) \/ AttachmentOver(l)
    \/ SessionCreated(l) \/ ReleaseSettles(l) \/ ReleaseFails(l)
Answered(l) == AttachAnswered(l) \/ DetachAnswered(l) \/ RequestRefused(l)
Next ==
    \/ \E l \in Leases :
         \/ AcquireSession(l) \/ CreateSession(l)
         \/ Release(l) \/ ReleaseInvalidated(l)
         \/ Continue(l) \/ Answered(l)
    \/ SnapshotEvent \/ RuntimeReplaced \/ SessionRemoved
    \/ Connect \/ Hello \/ Disconnect \/ LateData \/ Dispose

Spec == Init /\ [][Next]_vars

\* Continuations run.  The server answers every request, and no answer is put
\* off for ever by the messages and the continuations that come before it.  An
\* attach or a detach is the only one under way, and a creation is asked once
\* by each call: whichever is answered, each is.
FairSpec ==
    /\ Spec
    /\ WF_vars(\E l \in Leases : Continue(l))
    /\ SF_vars(\E l \in Leases : pending[l] = "create" /\ Answered(l))
    /\ SF_vars(\E l \in Leases : pending[l] # "create" /\ Answered(l))
-----------------------------------------------------------------------------
(* Properties *)

TypeOK ==
    /\ connection \in [state : {"disconnected", "connecting", "connected"},
                       id : 0..MaxConnections]
    /\ disposed \in BOOLEAN /\ chunk \in BOOLEAN /\ late \in BOOLEAN
    /\ known \in [attached : BOOLEAN, snapshot : Snapshots \union {None}]
    /\ book.count \in 0..Cardinality(Leases)
    /\ book.exclusive \in Leases \union {None}
    /\ book.cleanup \in BOOLEAN /\ book.generation \in Nat
    /\ \A k \in DOMAIN promise : promise[k] \in Promises \union {None}
    /\ pending \in [Leases -> {"none", "attach", "detach", "create"}]
    /\ server \in [exists : BOOLEAN, attached : BOOLEAN, unsure : BOOLEAN,
                   runtime : 1..MaxRuntimes, revision : 0..MaxRevision]
    /\ \A l \in Leases :
         /\ call[l].generation \in 0..book.generation
         /\ call[l].waits \in Leases \union {None}

\* An exclusive lease is the only one (README of the client, acquireSession).
LeasesExclusive ==
    \A l, k \in Leases :
        IsActive(l) /\ IsActive(k) /\ l # k => ~Exclusively(l)

\* While connected, the count is that of the tokens that are out, and the
\* exclusive token is one of them: none is lost when an acquisition fails
\* half way, a release fails or a connection comes and goes.
Holds(l) == Acquiring(l) \/ Current(l)
TokensCounted ==
    Connected =>
      /\ book.count = Cardinality({l \in Leases : Holds(l)})
      /\ {book.exclusive} \ {None} =
           {l \in Leases : Holds(l) /\ Exclusively(l)}

\* Nothing of a lost connection is left once its requests have been rejected:
\* no lease could come to life on the next one.
NothingOutlivesConnection ==
    ~Connected /\ Quiet =>
      /\ \A l \in Leases : ~Holds(l)
      /\ \A k \in DOMAIN promise : promise[k] = None
      /\ book.count = 0 /\ ~known.attached

\* Unless the server failed half way, it and the client agree on whether the
\* session is attached.
AttachmentAgrees ==
    Connected /\ ~server.unsure => known.attached = server.attached

\* What an attached client shows is the newest state of the present runtime
\* it was told of, whichever runtime it knew before.
SnapshotIsCurrent ==
    Connected /\ ~server.unsure /\ known.attached =>
      known.snapshot = Sent(server.revision)

\* An attachment nobody uses is given up, is being given up, or is recorded
\* for the next acquisition to give up.
NoForgottenAttachment ==
    Connected /\ Quiet /\ server.attached /\ ~server.unsure =>
      \/ book.cleanup
      \/ \E l \in Leases : Holds(l) \/ pending[l] # "none"

\* At most one attach or detach is under way, so their effects at the server
\* come in the order of the requests.
RequestsSerialized ==
    Cardinality({l \in Leases : pending[l] \in {"attach", "detach"}}) <= 1

\* The client's books are right: its tokens, requests and attachment.
BooksBalance ==
    /\ TypeOK /\ TokensCounted /\ NothingOutlivesConnection
    /\ AttachmentAgrees /\ RequestsSerialized

\* The session is detached after the final lease only (README of the client): a
\* detach is never sent while another lease is in use, save that the repair of
\* a failed dispose ends a lease given before the failure was marked.
DetachLeavesNobody ==
    [][\A l, k \in Leases :
         /\ pending[l] # "detach" /\ pending'[l] = "detach" /\ k # l
         /\ IsActive(k)
         => call[k].early /\ call'[l].pc = "reconciliation"]_vars

\* Every acquisition and every release settles, whatever is refused, lost or
\* disposed meanwhile.
CallsSettle ==
    \A l \in Leases :
      Acquiring(l) \/ call[l].pc \in {"creating", "detaching", "disposing"}
        ~> call[l].pc \in {"active", "over"}
=============================================================================

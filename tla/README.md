# TLA+ verification of Meldra

Meldra is an agent framework built from Pi: a stateful agent that drives a
model/tool loop, a coding agent around it, a session log that persists what
happened, and a server and client that share live sessions. This directory
holds TLA+ models of its core, the TLC instances that check them and TLAPS
proofs about them. Paths below are relative to `src/packages/`.

## Inventory

### Agent and agent loop (`agent/src/agent.ts`, `agent/src/agent-loop.ts`)

*State.* `Agent._state` (transcript `messages`, `streamingMessage`,
`pendingToolCalls`, `errorMessage`), two `PendingMessageQueue`s (steering and
follow-up, each draining one message or all), `activeRun` with its abort
controller, and the locals of one run of the loop: `currentContext.messages`,
`newMessages`, the pending messages and the batch of tool calls in progress.

*Operations.* `prompt`, `continue`, `steer`, `followUp`, the clear methods,
`abort`, `reset`, the mode setters; the loop's awaits; `processEvents`, which
first reduces an event into the state and then awaits every listener.

*Interaction.* The loop is one asynchronous procedure. At each of its awaits the
embedder, an extension or a listener of the very event being delivered can call
any public method. A parallel batch runs its tools under one `Promise.all`.

*What is hard.* The transcript is kept twice (state and loop context). A queued
message may arrive on either side of a poll. A listener, a hook or the provider
may throw at any await, after which the locals are lost and
`handleRunFailure` emits its own ending. `Promise.all` rejects with the first
failure while the other executions go on, into the next run. An abort leaves tool
calls without results.

*What makes it correct.* The provider is asked with the transcript the agent
shows; results follow their calls in order; nothing queued is lost, duplicated,
reordered or overlooked; the pending set is exact; a run settles.

### AgentSession (`coding-agent/src/core/agent-session.ts`)

*State.* The transcript of its `Agent` and, beside it, the current branch of the
session manager; the texts shown as queued (`_steeringMessages`,
`_followUpMessages`), asides for the next prompt, deferred results of the user's
shell commands; the last reply, the count of retries and whether an overflow
recovery has been tried; `_isAgentRunActive` and the promise of those who wait for
idle.

*Operations.* `prompt` with its preflight (a check for compaction before the
message is sent), `steer`, `followUp`, `sendCustomMessage`, `clearQueue`,
`recordBashResult`, `abort`, `waitForIdle`, `abortRetry`, `compact`,
`navigateTree`; after each run of the agent `_handlePostAgentRun`, which retries,
recovers from an overflow, compacts, or goes on with what is queued.

*What is hard.* Retries, recoveries and compactions take failed replies off the
transcript and put them back from the branch. The displayed queues are copies,
trimmed by text. A retry sleeps, a compaction summarizes, and messages, aborts and
navigations arrive meanwhile. `agent.continue()` throws where the transcript ends
with a reply.

*What makes it correct.* The provider sees what a resumed session would see; results
follow their calls; nothing is shown as queued that is not; a request is repeated a
bounded number of times; a run settles with nothing left behind and nobody waits for
a session that has settled.

### Live sessions of the server (`server/src/sessions.ts`, `server.ts`, `connection.ts`, `snapshots.ts`)

*State.* A `ConnectionState` per connection (stage, transport, the ids of the
sessions it is attached to); per live session its runtime, the set of connections,
the number of running operations, `terminal` and the promise `disposing`; the
manager's maps `liveSessions` and `openingSessions`; `closing`.

*Operations.* Requests to create, attach, detach, prompt, steer, abort and so on;
the events of a runtime; the end of a transport; a protocol failure; `close()`.

*Interaction.* The service acquires, snapshots and disposes runtimes
asynchronously. Every request is a procedure of its own, so any number of them are
suspended between a look at the maps and its use.

*What is hard.* Requests of one session overlap its opening, its use and its
disposal; the last use may be a detach, a disconnect, the end of an operation or of
a turn; a runtime fails while connections come and go; `close()` collects openings
and sessions while requests resume in between.

*What makes it correct.* One runtime per session at a time, given up exactly once,
when nobody uses it; none forgotten; no listener that has left; every request
answered; nothing left after `close()`.

### Remote client (`client/src`: `client.ts`, `connection.ts`, `state.ts`)

*State.* The connection and its transport; the requests without an answer; per
session the attachment and the newest snapshot, the count of leases, the token of an
exclusive one, a generation, the promises of an attach or a detach under way and
whether a failed detach must be repaired.

*Operations.* `acquireSession`, `createSession`, the `detach` and `dispose` of a
lease, `connect`, `disconnect`, `dispose`; answers, events and the end of a
transport.

*What is hard.* An acquisition may wait for a detach, then for a repair, then for an
attach it shares, with its token out all that time. Snapshots arrive out of order,
over several runtimes. A refused detach leaves ownership to be given back later. A
transport that was given up may still deliver.

*What makes it correct.* An exclusive lease excludes every other; tokens are counted
exactly; the client's attachment is the server's; a detach leaves nobody behind; every
call ends.

### Credentials (`coding-agent/src/core/auth-storage.ts`, `ai/src/auth/resolve.ts`, `ai/src/models.ts`)

*State.* `auth.json` and the lock directory beside it, shared by processes; in each
process a cached copy with the revision of the file it was read from, and the reload
its readers share.

*Operations.* `getAuth`, which refreshes a token about to expire, `login`, `logout`,
the construction of a storage, cancellation of any of them, the death of a process.

*What is hard.* A provider that rotates refresh tokens takes each one once. The lock
is a directory whose age decides whether its holder is alive, judged by different
limits in different places. A process may die between the provider's answer and the
write, or in the middle of the write.

*What makes it correct.* Refreshes exclude each other; what the provider issued is
stored; a refresh, a login and a logout do not undo each other; the cached copy is the
file's; a call is aborted by its own caller only; nobody waits for ever.

### Harness session log (`agent/src/harness/session`: `state.ts`, `memory.ts`, `jsonl/storage.ts`, `jsonl/repo.ts`)

*State.* `SessionState` projects a log of mutations: the tree of entries, the lanes
with their leaves, the operations open on each lane, the name and the labels, the ids
in use and the sequence number. `InMemorySessionStorage` holds one;
`JsonlSessionStorage` holds one beside its file and the promise `tail` its writes are
chained to.

*Operations.* `createLane`, `moveLane`, `appendEntry`, `appendRecord`, `setName`,
`setLabel`; `fork`; `load`, which replays the file and repairs its end; queries.

*Interaction.* Any number of callers write to one storage at once. A repository opens
files and loads the source of a fork again, from the same file.

*What is hard.* The JSONL storage checks a write, appends its line and applies it in
memory, with an await in between: a crash inside the line or before its newline, a
failed append that leaves part of its line, a fork or another load in the middle.

*What makes it correct.* An acknowledged write survives; one that was not is restored
whole or not at all; memory agrees with the file; the tree has no dangling pointer; a
lane has at most one open operation; a fork is a faithful copy.

### Harness reducer and event bus (`agent/src/harness/reducer.ts`, `events.ts`)

A fold of entries into the state of a harness, and delivery of its events to
subscribers that come and go during delivery.

### File mutation queue (`agent/src/harness/tools/file-mutation-queue.ts`)

Edits and writes of one file are serialized by a chain of promises in a map keyed
by the file's resolved path. Hard: two names of one file, cleanup of the map's
entry while another caller joins.

### The rest

Provider adapters and the generated model catalog (`ai/src`), login flows
(`ai/src/auth/oauth`), protocol framing and CBOR
(`protocol/src`), the SQLite backend (`session-backends/sqlite-node`), the
coding agent's session manager, settings, runtime replacement, packages and
extensions (`coding-agent/src/core`), profiles and workspaces
(`coding-agent/src/meldra`), the user interfaces (`tui/src`, `coding-agent/src/modes`),
telemetry, evals and scripts. `PROJECT.json` lists each with its status.

## Plan

The order was that of the product's core: the agent and its loop, the sessions the
server shares, the session log and its file, the client's leases, the session of the
coding agent, and the credentials every request needs. All six are done, each with an
MC module, a run and proofs: a first module of theorems per component proved its types
and the invariants nearest to the code, then came the refinement, what needs more than
one inductive invariant, and the action properties. What was planned beyond them and is
not reached is listed under "Not modelled".

Two abstract specifications are stated: `SessionLog`, which `JsonlStorage`
implements, and the exclusive use of a runtime and of a lease, which are properties of
`LiveSessions` and `ClientLeases`. Each component stands for itself; where two of them
meet, one is modelled as what the other's source lets it see: the agent's run inside
`AgentSession`, the server's side of an attachment inside `ClientLeases`, the service
behind `LiveSessions`.

## Modules

| module | models |
| --- | --- |
| `Agent` | `agent.ts` and `agent-loop.ts`: the agent, one run of its loop, its embedder |
| `MCAgent` | drain-mode sets for the instances of `Agent` |
| `AgentProofs` | type correctness of `Agent`, its inductive invariants and seven theorems from them |
| `LiveSessions` | `sessions.ts`, and of `server.ts` requests, disconnects, protocol failures and `close()` |
| `MCLiveSessions` | the instance of `LiveSessions` |
| `LiveSessionsProofs` | the inductive invariants of `LiveSessions` and five theorems from them |
| `SessionState` | `state.ts` as operators: mutations, projections, checks, forks |
| `SessionLog` | `memory.ts`: a session as a log and its projection, the abstract specification of a storage |
| `MCSessionLog` | the symmetry of ids |
| `SessionStateProofs` | lemmas on the operators of `SessionState` and on replays, which the next two proofs share |
| `SessionLogProofs` | the inductive invariant of `SessionLog`, with forks, and five theorems from it |
| `JsonlStorage` | `jsonl/storage.ts`: queue, file, crashes, loads and repairs |
| `MCJsonlStorage` | the requests of its instances |
| `JsonlStorageProofs` | the inductive invariant of `JsonlStorage`, two theorems from it and the refinement of `SessionLog` |
| `ClientLeases` | `client.ts` with the parts of `connection.ts` and `state.ts` it drives: the leases of one session over connections and runtimes |
| `MCClientLeases` | the instance of `ClientLeases` |
| `ClientLeasesProofs` | an inductive invariant of `ClientLeases`, a stronger one of the requests and the copy of the session, and the theorems from them |
| `AgentSession` | `agent-session.ts`: prompts, queues, retries, recoveries, compactions, navigation, idle waiting; the parts of `session-manager.ts` and `compaction.ts` it uses |
| `MCAgentSession` | the texts of its messages |
| `AgentSessionProofs` | the inductive invariants of `AgentSession` and six theorems from them |
| `AuthStorage` | `auth-storage.ts`, `resolve.ts` and the login and logout of `models.ts`: one credential shared by processes |
| `MCAuthStorage` | the symmetry of processes |
| `AuthStorageProofs` | the inductive invariant of `AuthStorage`, three more beside it and five theorems from them |

### How `Agent` corresponds to the code

`pc` names the await a run is suspended at: `"idle"` is no `activeRun`, and there
is one label for each `await emit(...)`, poll, hook group and tool await of
`runLoop` and its callees. An action named `Emit...` does what `processEvents`
does before its first listener, awaits the listeners (`Deliver`) and then runs the
loop's code up to the next await. Each await may `Throw` instead: the locals go and
`pc` becomes `"failStart"`, the `catch` of `runWithLifecycle`; executions of a
parallel batch still running become `orphans`, delivered by `OrphanEnds` at any later
time. Public methods of `Agent` are actions of the embedder, enabled between any two
awaits; `DropFailedReply` is the assignment to `state.messages` that
`AgentSession._prepareRetry` makes.

A message is its number and what the properties tell apart. The provider
(`FinalMessages`), the tools and hooks are nondeterministic within the contracts
`types.ts` states. Numbers of messages, turns, runs and throws are bounded by
constants in the guards; `base`, `ended`, `afterEnd` and `late` are history
variables that no action's guard reads.

### How `LiveSessions` corresponds to the code

A request is a task; `task[t].pc` names the await of `executeCommand`, `acquire`,
`attach` or `runOperation` it is suspended at. A request asks the service for at most
one runtime, so runtime `n` is the one request `n` opened, and `live[n]` is its
`LiveSession` with what the service knows of it (`stage`, `disposals`, `outcome`).
`create` is folded into `attach`: its fresh id is one nobody else asks for yet.

Node runs every ready promise reaction before the next socket event. `Ready` and
`Quiet` say so: a request, the end of a transport, `close()` and the events of a
runtime begin a turn of their own (`NewTurn`), except that the requests of one chunk
are dispatched back to back (`chunk`). A promise of the service may settle at any
point, and reactions that are ready run in any order; both allow more than Node does.

Connections have completed their handshake. Snapshots and their broadcasts are awaits
that settle or reject; what they carry is left out, and so is `list`. The service's
side of the contract (`types.ts`) is nondeterministic: an acquisition, a snapshot
or a disposal may fail.

### How `SessionState` and `SessionLog` correspond to the code

`Accepts` is what a write operation checks, `MutationOf` the mutation it makes,
`Valid` what `applyMutation` insists on and `Applied` what it changes; the code has
each of them in a different place, and `AcceptedIsValid` relates the first and the
third. Payloads, timestamps and the statistics are left out, and so are records that
neither start nor finish an operation: they take an id and a sequence number, as does
a record that finishes an operation nobody started, which the code allows. `Fork` goes
on with the forked session instead of the source, so a fork of a fork is covered.

### How `JsonlStorage` corresponds to the code

A write waits in `storage.queue` until `storage.phase` is `"idle"`; `Begin` makes the
checks and starts the append, which passes through `"none"`, `"partial"`, `"whole"`
(text without newline) and `"line"`. `AppendFails` may end it at any phase in
`FailureLeaves`. `file` is a sequence of lines and whether the last one is ended; a
line that was cut off, or has more text behind it, is `Torn`, which is all `load` can
tell of it. `load` is a procedure with an await at the read, at each file operation of
the repair (`publishFileAtomically` empties the temporary file, writes it and renames
it) and at the newline it appends. `Crash` keeps the files and drops everything else.
A file that was renamed away is still written to by whoever had it open (`displaced`,
`orphan`). `durable` is what a load of the file would restore; it is a history
variable, and the log that the refinement maps to.

With `Serialized` nobody loads the file while somebody else loads or writes it. That
is what the comment of `publishFileAtomically` asks of callers; the repository does
not arrange it, see the disagreements. Reading the file is one step. Nothing is said
about a loss of power: the code does not call `fsync`.

### How `ClientLeases` corresponds to the code

A call of `acquireSession` or `createSession`, the lease it becomes and the requests it
sends go by one name, an element of `Leases`; `call[l].pc` is the await it is suspended
at. `book` is what the client keeps per session (`sessionLeases`, the exclusive token,
the generation, the cleanup mark), `promise` its shared detachment, attachment and
reconciliation, `known` the part of `ClientState` about the session. A continuation
whose promise has settled runs before the next socket event, except between the
messages of one chunk (`chunk`); the program's own calls come at any moment, which is
more than Node allows only where two awaits settle in one turn.

The network is part of the server: a message exists from the moment the client
handles it, so `server` is what the client has been told so far. A server that keeps
the order of its messages, as `server.ts` does, can show a client nothing else. A
request may be refused after it took effect (`server.unsure`). `RuntimeReplaced` stands
for a session that was given up and opened again between two attaches, where revisions
start over. `late` lets a transport that was given up deliver one more time.

Unless `Overtaking`, two things do not happen that the code admits: nobody disconnects
or disposes of the client between the answer to an attach or a creation and the lease
it grants, which only a listener could do, and the session is not removed while any
call acquires or releases. The passing run and the proofs exclude both, see the
disagreements. The shipped server never sends `session_removed`; the client handles it
at any time, and so does the model with `Overtaking`. Acquisitions, creations and
releases come at any moment in either case, also between the failure of a dispose and
its mark (`client.ts:246` and `259`); a lease given there is `early`.

### How `AgentSession` corresponds to the code

`pc` is where the owner of the run, `prompt` or `_runAgentPrompt`, is suspended:
`"preflight"` and `"promptCompacts"` before the message is sent, `"running"` while the
agent runs, then the steps of `_handlePostAgentRun` (`"post"`, `"sleeping"`,
`"retryCancelled"`, `"check"`, `"compacting"`). `phase` is what the session can tell of
the agent's run: delivering prompts or queued messages, polling, requesting, running
tools, ended. `operation` is a `compact` or `navigateTree` in progress; everything else
a program can call is an action enabled between two awaits.

The branch is a sequence of entries. `Context` is `buildSessionContext`, a compaction
is the index of the first entry it keeps, and `CutPoints` are all the entries
`findCutPoint` may choose, whose budget of tokens is left out. A reply has one of six
stop reasons as far as the session tells them apart, `"overflow"` being an error that
`isContextOverflow` recognizes. Automatic compaction is a setting: any check may find it
disabled and leave the reply alone. `automatic`, `cancelled` and `rejected` are history.
Awaits that only let a microtask pass are merged.

Callers take turns (`Free`): the code does not guard against a second `prompt` while
one is in its preflight, a `prompt` during a navigation that summarizes, or a message
that triggers a turn during a manual compaction, and what happens then is not modelled.

### How `AuthStorage` corresponds to the code

A call is `getAuth`, `login` or `logout`; a reload is the one promise the readers of a
process share. `op[o].pc` follows `withLockAsync`: `"locking"`, `"locked"` (before the
file is read), `"refreshing"` and `"replying"` (the provider has not, or has, taken the
token), `"releasing"` and `"returning"`. A credential is the number of its refresh
token; `valid` are those the provider takes, and a refresh exchanges one for the next.
The lock is its owner and its age. `shown` is what the provider exchanged for `cred`; the
code does not keep it, and no action reads it. A stale lock is replaced in one step
(`Acquire`, `Construct`), where the lock library, which is external, looks at the
directory, removes it and makes it anew; what two processes can do to each other between
these is not modelled.

Time is counted in ticks of five seconds, in which the limits of the code are whole: a
lock is stale after 2 for `reload()`, which leaves the library its default, and after 6
for everybody else; the holder touches it every 3; a waiter gives up after 6; a refresh
times out after 3. What an operation does without waiting takes less than a tick
(`Patient`). `LateStarts` lets a storage be constructed, and so take the lock, while
another process has been refreshing for two ticks or more. A crash keeps the
lock directory and may leave the file empty or torn; what that loses is `lost`.

## Runs

| run | what it checks | bounds | distinct states |
| --- | --- | --- | --- |
| `agent_transcript` | `ContextMatchesTranscript`, `CallsAnsweredInOrder`, `NoStalePendingCalls`, `NoSilentLoss` | 2 messages, 2 calls a reply, 2 turns with calls, 2 runs, 1 throw | 1.8 million |
| `agent_queues` | `QueuesAreFifo`, `NothingOverlooked`, `FollowUpsWaitForStop`, and `AbortSettles` under `FairSpec` | 3 messages, both drain modes, 2 runs | 0.7 million |
| `live_shared` | `OneRuntimePerSession`, `NoRuntimeLeaks`, `DisposedOnce`, `NothingLiveAfterClose`, `ConnectionsConsistent`, and `EverythingSettles` under `FairSpec` | 2 connections, 1 session, 2 requests | 46 thousand |
| `live_attached` | a tested promise the code does not keep | 2 connections, 2 requests | - |
| `session_log` | `OneOpenOperation`, `TreeIntact`, `LogReplays`, `ForkFaithful` | 2 lanes, 3 ids, 1 name, 4 mutations | 24 thousand |
| `jsonl_crash` | `AcknowledgedSurvives`, `StorageConsistent`, `ImplementsSessionLog`, `EverythingSettles` | 8 different requests, 3 made, 2 crashes | 22 thousand |
| `jsonl_failed_append` | a promise the code does not keep | smallest that shows it | - |
| `client_leases` | `LeasesExclusive`, `BooksBalance`, `SnapshotIsCurrent`, `NoForgottenAttachment`, `DetachLeavesNobody`, and `CallsSettle` under `FairSpec` | 3 leases, 2 connections, 2 runtimes, 2 revisions | 160 thousand |
| `session_run` | `ResultsFollowCalls`, `ContextMatchesSession`, `DisplayedIsPending`, `RepetitionsBounded`, `CallsConsistent`, `SettlesWhenDone` | 2 messages, 2 turns that do not stop, 1 retry, 1 shell command, 1 compaction, 1 other call | 3.1 million |
| `session_continue` | a comment the code does not keep | smallest that shows it | - |
| `auth_refresh` | `RotationSafe`, `StoredIsUsable`, `CacheIsCurrent`, `CallsHonest`, `NoUpdateUndone`, and `CallsEnd` under `FairSpec` | 2 processes, 2 calls, 2 reloads, 3 tokens, 1 crash | 0.4 million |
| `auth_stolen` | a documented promise the code does not keep | 2 processes, 2 calls | - |

Several properties are conjunctions of named parts, each with a comment of its own in
the module: `CallsAnsweredInOrder`, `ConnectionsConsistent`, `EverythingSettles` (of
`LiveSessions` and of `JsonlStorage`), `LogReplays`, `StorageConsistent`,
`BooksBalance`, `CallsConsistent`, `RotationSafe`, `CallsHonest`. The type invariants of
`Agent`, `SessionLog` and `AuthStorage` are such parts, of `NoStalePendingCalls`,
`LogReplays` and `CallsHonest`.

### Bounds

Two calls in one reply are the least that lets a parallel batch complete out of
order and one call outlive the failure of another; two runs are the least that lets
an orphan of one end in the other; three messages are the least for which
one-at-a-time draining leaves a middle. The runs end where the bounds are exhausted
and the agent is idle, so deadlock is not checked.

Two requests of `live_shared` overlap in an opening, a use or a disposal; the other
steps (disconnects, protocol failures, runtime errors, failures of the service,
`close()`) are not bounded. Liveness keeps the run at two requests; with three the safety properties were checked
too (`SPECIFICATION Spec`, `MaxRequests = 3`: 0.7 million states), and four of them are
proved for any number. Sessions share no state but the
progress of `close()`, so one is enough. Deadlock is checked: the only legal stop is
`Stopped`, a closed server with every request answered.

Four mutations are the least with an entry, a child of it, a lane at the child and a
label, or with two operations of which one is finished; three ids are the least for
which a record's and an entry's can be confused beside a third. The requests of
`jsonl_crash` depend on each other (a lane and an entry on it, an entry and its label,
an operation and its end, one id used twice), so that each is refused in some orders;
two crashes are the least with one in the repair of the other. A session may stop
being written to, so deadlock is not checked.

Three leases are the least of which one fails to dispose, one is given meanwhile and
one repairs; each call is made once. Two connections let something of the first come to
life in the second; a second runtime lets revisions start over. `MCModes` has the calls
be all shared, one of each kind, or two creating and one exclusive. Without liveness
(`SPECIFICATION Spec`) the safety properties were also checked for every choice of the
kinds (`Modes <- AllModes`: 0.5 million states) and with three connections (0.3 million).
Calls of one kind are alike until they are made, so they are made in the order of their
names (`IsNext`).

In `session_run` two messages of one text meet in either queue, so that a copy in the
other queue can be taken for the one that was delivered (`MCText` gives another text to
the third message only, which larger bounds would reach); one retry and one recovery are the least that follow each other; the compaction may be
automatic or manual, and the other call a navigation, an abort or a wait. It drains all
queued messages at once.

In `auth_refresh` the two calls may be of one process or of two, and the second
reload is one for a reader that comes after another gave up. A refresh may take the
whole of its timeout, so that the lock is touched; a process starts in the middle of a
slow one only in `auth_stolen` (`LateStarts`). The runs end when the calls are used up.
Processes are alike, so `auth_stolen` takes one of each symmetric pair of states;
`auth_refresh` checks liveness, for which that is not sound, and does not.

### Fairness

`AbortSettles` needs fairness of `Run` only: the runtime resumes a settled await,
and the contracts of the stream function and of tools make streams and executions
settle. Nothing is assumed of the embedder. The run is an action of one process, so
weak fairness of the whole is enough: it is never disabled while a run is active.

`FairSpec` of `LiveSessions` assumes of the runtime that it resumes a settled await, of
the service that acquisitions, snapshots and disposals settle and that a turn ends with
an event, and of a closed transport that its end is reported. It assumes nothing of
clients, of runtime errors or of `close()` being called.

`JsonlStorage` assumes that file operations return (weak fairness of the writes and of
each load) and nothing of callers.

`FairSpec` of `ClientLeases` assumes that settled awaits are resumed (weak fairness of
the continuations) and that a request is answered as long as its connection is
connected. The latter is strong fairness, because continuations run before the next
message and disable it, again and again but not for ever. Fairness is of any
continuation, of any creation's answer and of any other answer: who runs or is answered
next is left open, but a call continues only finitely often, at most one attach or detach
is under way, and a creation is asked once by each call, so nobody is passed over for
ever. It assumes nothing of the program: a lease need not be released, nor a lost
connection be opened again.

`FairSpec` of `AuthStorage` assumes that time passes and that some operation goes on as
long as one can. Neither is fair to a single operation: the limits of the code are what
makes each wait end. The bounds of `TypeOK` on the timers, proved with `CallsHonest`, say
that nobody waits longer than its limit. Nothing is assumed of the user, of the provider,
which may never answer, or of other processes, which may die with the lock.

`AgentSession` states no fairness. That a settled session leaves nobody waiting is
`NoLostWaiter`.

### Disagreements with the documentation

Four of them are runs that expect a violation:

- `AttachedClientsControlRuntime` (`live_attached`). `server/test/sessions.test.ts:260`
  says every attached client controls the singleton live runtime. Two requests share one
  opening; the first one's connection has closed when it succeeds, so its `attach()`
  gives the session up, and the second one's `attach()`, which runs right after it, does
  not look at `disposing`. Its client is told it is attached; its operations fail, or
  reach a later runtime that sends it no events.
- `AcknowledgedSurvives`, when an append may fail after writing part of its line
  (`jsonl_failed_append`). `storage.ts:86` calls a torn tail unacknowledged. After such a
  failure the next append continues the same line, is acknowledged, and is dropped as a
  torn tail by the next load (or makes the file unreadable, if more follows).
- `ContinuationsAccepted` (`session_continue`). After a recovery from an overflow,
  `agent-session.ts:2242` takes the failed reply off the rebuilt transcript, because
  `agent.continue()` would refuse it. A reply that failed and was retried before the
  overflow is still in the session; the transcript then ends with two of them, one is
  taken off, and `prompt` rejects instead of continuing.
- `MutualExclusion` (`auth_stolen`). `ai/src/auth/types.ts:82` promises mutual exclusion
  across processes. `reload()` considers a lock stale after ten seconds, its holders touch
  it every fifteen (`auth-storage.ts:70`): a process that starts during a slow refresh
  removes the lock, and the next operation enters.

The modules show others, at the bounds named, without a run of their own:

- `NoToolEventAfterAgentEnd` (`Agent`, one-at-a-time draining, one message, two calls,
  one turn, one run, one throw). `agent.ts:540` says no further loop events follow
  `agent_end`. When one listener of a parallel batch throws, executions of the batch
  that are still running end after the failed run's `agent_end`, or in the next run.
- `AcknowledgedSurvives` (`JsonlStorage`, `Loaders = {"fork"}`, `Serialized = FALSE`, one
  request `MCOneWrite`, no crash). The repository reads the source of a fork outside of
  the queue of its storage (`agent/docs/harness.md:868` has it queue the snapshot with
  the writes). It may meet half a line that is being appended and repairs it away, by
  then acknowledged.
- `LeasesExclusive` and `DetachLeavesNobody` (`ClientLeases`, `Overtaking = TRUE`).
  `client/README.md:30` has an exclusive acquisition fail while any lease exists, line 32
  a removal or disconnection invalidate every lease. Between the answer to an attach and
  the lease it grants, a listener may disconnect or the session be removed; the lease
  granted then is not invalidated, and another may be granted beside it.
- `DetachLeavesNobody`, were it stated without its exception (`ClientLeases`, the bounds
  of `client_leases`). `client/README.md:32` has the client send the detach request after
  the final lease is released. A last lease is disposed and its detach refused; the
  detach leaves the map (`client.ts:246`) before the handler sets the cleanup mark
  (`client.ts:259`). An acquisition in between finds neither and gets its lease at once.
  The next acquisition finds the mark, and the detach of its repair (`client.ts:367`) ends
  the lease that is in use. The property allows this case and no other.
- `CancelledRetryNotSent` (`AgentSession`, the bounds of `session_run`).
  `coding-agent/docs/rpc.md:443` says `abort_retry` stops retrying. When a follow-up was
  queued before the abort, `_handlePostAgentRun` continues the agent for its sake
  (`agent-session.ts:1133`), and `agent.continue()` first asks the provider for what it
  had failed to answer: the retry is sent after all.

Read in the code and modelled, but not checked as properties: a listener of
`agent_end` that throws makes `handleRunFailure` emit a second ending of the run
(`agent.ts:241` calls `agent_end` the final event); the early returns of the loop emit
`agent_end` with the queues undrained (`agent-session.ts:1131` assumes otherwise); an
open and a fork of one torn file may both publish a repair of it (`storage.ts:30` asks
callers not to).

## Proofs

TLAPS proves, for every value of the constants that satisfies `ModesAssumption` and
`BoundsAssumption`:

- `TypeCorrect`: `Spec => []TypeOK`. `TypeOK` is not inductive: that `Head(inject)`
  is a message, or that `LastOf(context)` is one, depends on where the run is
  suspended. `Shape` says what each label implies of the locals, and
  `TypedShape == TypeOK /\ Shape` is inductive. Each event of `processEvents` has a
  typing lemma, as have a delivered event (`DeliverTyped`) and a throw
  (`ThrowTyped`); each action then has one step per part of the invariant.
- `PendingCallsCorrect`: `Spec => []NoStalePendingCalls`. Beside `TypedShape`, the invariant
  `PendingCallsOpen` bounds the pending set by the open calls of the batch and the
  call being announced, and says that a sequential batch has no open call between
  two of its calls. A failed run may leave pending calls; only `finishRun` clears
  them, which is why the failure labels are exempt.
- `ContextCorrect`: `Spec => []ContextMatchesTranscript`. The invariant
  `ContextInStep` states, for each group of labels, how far the loop's context is
  ahead of the transcript (the prompts not yet emitted, the message being streamed)
  or behind it (the results of the batch).
- `NothingLost`: `Spec => NoSilentLoss`. The invariant `Holding` says where a message is
  while it is in none of the queues: what is being injected was drained by this run, and
  nothing is injected while a reply, a batch or the end of a run is handled. Each step
  then is of one of seven kinds (`Moved`): it keeps all messages where they are or moves
  the head of what is injected to the transcript, drops what a throwing run had drained,
  adds to the transcript what is no user's message, drains one of the queues, accepts a
  message, or clears. `MovedKeepsHeld` and, for the next theorem, `MovedInOrder` treat
  each kind once.
- `QueuesCorrect`: `Spec => []QueuesAreFifo`. The invariant `QueuesInOrder` states the
  order of what was delivered and of what waits together, with every identifier at most
  the last one given out. Identifiers in a queue are therefore new ones, and a drain in
  either mode takes a prefix (`FifoOf`, with lemmas for the append, the drain and the drop
  of a prefix).
- `PollsCorrect`: `Spec => []NothingOverlooked`. `PollsCover` says for each label behind a
  poll that came back empty that the queue it looked at holds late messages only.
- `FollowUpsCorrect`: `Spec => []FollowUpsWaitForStop`. `InjectionsFit` says which kind of
  messages `inject` holds, and when they are follow-ups, after which message; it rests on
  `QueuesInOrder`, because a drain must not mix the kinds, and on `Holding`.
- `TranscriptCorrect`: `Spec => []CallsAnsweredInOrder`. `BatchShape` counts calls reached
  and results emitted of the batch, and says that only an abort leaves calls unreached;
  `RepliesAnswered` extends the property to the reply in progress, whose results are a
  prefix of its calls. A request is sent from a label where the prefix is the whole.

From `BoundsAssumption` and `SessionsAssumption`, for any number of connections,
sessions and requests:

- `ExclusiveCorrect`, `NoLeakCorrect`, `DisposedOnceCorrect` and `ClosedCorrect`:
  `Spec => []` of `OneRuntimePerSession`, `NoRuntimeLeaks`, `DisposedOnce` and
  `NothingLiveAfterClose`. All four follow from one inductive invariant, `IInv`.
  `OneRuntimePerSession` alone is not inductive: a request opens a session when
  neither map has it, so the maps must cover every runtime that has a claim
  (`Placed`, `Registered`, `Listed`, `Counted`, `Exclusive`). `close()` clears one of
  the maps, after which only `Awaited` (it waited for every opening that could still
  register) and `Unserved` (no connection is served) keep a new claim from meeting an
  old one. The one request that can still open a session then is one that was waiting
  for a disposal: `Late` says that it meets only runtimes that will be discarded,
  because in the turn that called `close()` no such request was ready, and a disposal
  that settles later ends the only claim there was.
  Most steps only use a runtime or begin its disposal (`Used`); `UsesKeepMaps` treats
  them together, and the other steps have a lemma each.
- `ConnectionsCorrect`: `Spec => []ConnectionsConsistent`, from `Attended` beside `IInv`.
  `Busy` makes the counter of operations the cardinality of the set of requests that
  operate, which is why it is never negative, and why a session that `maybeDispose` finds
  unused has none. A ghost listener could only come from an attach that adds a connection
  to a runtime of another session than the one the connection records, so `Named` and
  `Joining` follow the session of a runtime from the request that opens it to the ones
  that join the opening; and from a disconnect that does not find the session, which the
  invariant itself excludes. `Unlisted` is for the step that puts a runtime into the map.
  Most steps are `Ordinary`: they begin and end no operation, open and register nothing
  and attach nobody; the others have a lemma each.

From `MainAssumption` and `NoneAssumption`, for any lanes, ids and names, any number of
writes and any number of forks on the way (`ForkSpec`, which `Spec` implies by
`WritesAlone`):

- `SessionTypeCorrect`, `OneOpenOperationCorrect` and `TreeIntactCorrect`:
  `ForkSpec => []` of `TypeOK`, `OneOpenOperation` and `TreeIntact` of `SessionLog`. The
  inductive invariant is `IInv`: the log is well formed, it replays, and the state is
  its replay. Everything but the open operations is then shown of the replay of any such
  log, by induction over the log (`ReplayIsSound`), so that a fork, which replaces the
  log, needs nothing of its own. That an entry's id is new follows from its not being in
  use, which needs the ids of entries to be among those in use; `TreeOK` adds that. A
  bound on a cardinality does not say what a set loses or gains, so `AtMostOne` says
  instead that a lane's open operations are none or one named id; `applyMutation` does
  not look at them, so a log could have more, and this is not a fact about replays.
- `LogReplaysCorrect`: `ForkSpec => []LogReplays`, of which `TypeOK` is a part. The projections are updated mutation
  by mutation, the property reads the log as a whole. `LanesRead` and `LabelsRead` name
  the last mutation of a lane or label, `OpenRead` says which operations were started
  and not finished since; each has a lemma for one more mutation, and `ReplayReadsLog`
  the induction. `AcceptedValid` compares the checks of an operation with those of
  `applyMutation`, case by case.
- `ForkFaithfulCorrect`: `ForkSpec => []ForkFaithful`. What is copied is `Copyable`: its
  ids are unique and each entry has its parent before it. For the whole tree that is
  `TreeOK`; for a branch it is an induction over the position of its last entry, which
  also shows that the walk to the root ends (`BranchIs`), because a parent comes earlier
  (`ParentIsEarlier`). `ForkWrites` says which mutations `createForkMutations` makes of
  it, `CopyStep` that its entries are accepted one after the other, `FinishStep` that the
  lanes, the name and the labels after them are, and `FinishedFork` that nothing was left
  out. That the main lane is never removed and that a session has finitely many lanes,
  of any number that could be created, is `LanesOK`.

From these, `ParametersAssumption`, `WritesAssumption` and the hypothesis `Careful` of
`JsonlStorageProofs`, for any set of requests and any number of writes, loads and crashes:

- `AcknowledgedSurvivesCorrect` and `StorageConsistentCorrect`: `Spec => []` of
  `AcknowledgedSurvives` and `StorageConsistent`. The inductive invariant is `IInv`. It
  says what a file can be: a log that replays, as whole lines (`Complete`), without the
  last newline (`Unended`) or with a torn line behind it (`TornAfter`), and which of the
  three at which phase of an append and stage of a load. That what is acknowledged is in
  the file needs the moment at which a write is in the file and not yet in memory, which
  `Ahead` describes; that a repair drops nothing needs that it repairs the file as it
  still is, and that nobody appends meanwhile (`LoadFits`). `Room` counts the requests,
  so that the log stays within the bound of the abstract specification.
- `ImplementsSessionLogCorrect`: `Spec => ImplementsSessionLog`. The step that completes
  the text of a line is the write at the head of the queue (`WriteIsWrite`); every other
  step leaves alone what a load would restore (`StepRefines`).

`Careful` says that a failed append leaves nothing of its line, and that a fork, if there
are any, loads the file while nobody else uses it. The repository arranges neither, and
without them the properties are false: `jsonl_failed_append` and the disagreements show
it. A program that forks no session needs only the first.

What a log replays to is defined by recursion over the log. The lemmas of
`SessionStateProofs` reduce it to one mutation (`ReplayEmpty`, `ReplayAppend`), by an
induction over the set of the prefixes for which the claim holds: `SetInduction` is proved
from the well-foundedness of `<` on the naturals, and `CourseExists` shows that a function
exists that is defined in this way.

From `BoundsAssumption`, `NoneAssumption` and `~LateStarts`, for any number of
processes, calls, reloads, refresh tokens and crashes:

- `RotationIsSafe` and `StoredStaysUsable`: `Spec => []` of `RotationSafe` and
  `StoredIsUsable` of `AuthStorage`. The inductive invariant is `IInv`. That two
  operations do not hold the lock says nothing of why a third cannot take it: `Locked`
  adds that whoever works under it owns the directory and has touched it in time, so that
  it is not stale for anybody. That no token is spent twice needs to know where each
  token is: `Issued` (all of them were issued), `Fresh` (a login brings one that nobody
  else has), `Brings`, `Shows` (what is shown to the provider is what is stored) and
  `Stored` (what is stored can be used, or its replacement is on its way under the lock,
  or an answer was lost). Most steps move operations in one of four ways and touch neither
  file nor provider (`Quiet`); `QuietStep` treats them together, and the steps that write,
  exchange a token or crash have a lemma each. Without the condition `MutualExclusion` is
  false, as `auth_stolen` shows.
- `CopiesAreCurrent`: `Spec => []CacheIsCurrent`. The invariant `Copies` says the same of
  every copy that has a revision, the ones that are on their way from an operation to the
  cache included (`Noted`). Every step keeps such a copy, drops it, or makes it of the file
  in the same turn (`Notes`, `Copied`), and whatever is written has a new revision
  (`Revised`); `CopiesStep` shows that this is enough.
- `CallsAreHonest`: `Spec => []CallsHonest`. That a call is aborted by its own caller only
  is not inductive, because an aborted reload takes its readers with it. `Cancelling` adds
  that a reload which is cancelled has no readers and gets none (`Joined`): the reader that
  cancels it is the last, and leaves the slot of its process at the same time, so that who
  comes next begins another reload. Each process's slot holds a reload of its own, and a
  reader knows the slot of its reload (`Awaits`). A step tells an operation only what is
  its own (`Tells`); `TellsStep` shows that this is enough where no reload is joined, and
  `GetAuthTells` and `CancelReaderTells` treat the joining and the leaving.
- `UpdatesStand`: `Spec => NoUpdateUndone`. `Exchanged` says of every refresh between the
  provider's answer and its write that what it showed is what is stored. Only `Rotate`
  brings a refresh there (`Asked`), and `Shows` says that it shows what is stored; whoever
  writes, or dies while it writes, is alone under the lock (`OneHolds`).

From `RetriesAssumption`, `ModeAssumption`, `BoundsAssumption` and `NoneAssumption` of
`AgentSession`, for any number of retries, messages, shell commands and compactions:

- `WaitersAreReleased`, `RequestsAreBounded` and `SettlesOnlyWhenDone`: `Spec => []` of
  `CallsConsistent` and `RepetitionsBounded`, and `Spec => SettlesWhenDone`. The three
  need one inductive invariant, `IInv`, because of `agent.continue()`: it throws on a
  transcript that ends with a reply when nothing is queued (`session_continue` shows that
  it can), and that must not happen while a retry is counted. So `Transcript` says at each
  suspension whether the transcript ends with a reply, and that it does not end with two
  of them, `LastReplySaved` that the branch a compaction rebuilds it from ends with one, and `Suspended` and `Operating` who
  may be suspended where, so that no manual compaction or navigation touches either while
  the session decides. `Counts` is the reason why the repetitions are bounded: until the
  reply is recorded they are at most the retries counted, plus those of the time before
  the recovery. Each action has a lemma; the steps after a run (`PrepareRetry` to
  `CompactionFails`) share `StaysInv`, `ContinueInv`, `GoOnInv` and `SettleInv`, one for
  each way on, and each shows that the session goes on or is done.
- `ResultsStayWithCalls` and `ContextIsSession`: `Spec => []` of `ResultsFollowCalls` and
  `ContextMatchesSession`. `Recorded` is inductive beside `IInv`. `Records` relates the
  transcript, the branch and the message whose `message_end` is being delivered: results
  follow their calls in the first two, what every compaction of the branch keeps lies
  before it and does not start with a result (so that the context cannot either,
  `FollowsContext`), and both have the same messages that last. `Cuts` says that of the
  compaction in progress, `Calls` that the reply whose tools run is the last message of
  both, `Deferred` that only results of shell commands wait for the end of the run.
  `Replying` is what makes it safe to take a reply off: the last message of the transcript
  is the reply that `_handlePostAgentRun` looks at, which a retry or a recovery has found
  to have failed.
- `DisplayIsHonest`: `Spec => []DisplayedIsPending`, if no text is empty (`TextsShown`;
  what happens otherwise is said under *Not modelled*). `Backed` counts, for each text,
  what the display shows and what is still to be delivered (`Hits`), and says that a run
  which is past its deliveries, or not begun, holds nothing that the display shows: else
  a prompt or the next poll would overwrite it.

These three speak of sequences of any length, one of them filtered by a recursive
function (`Lasting`). The library's induction theorems cannot be used, since they take an
operator as parameter, but induction over a set can: `SetInduction` and
`SequenceInduction` are proved from the well-foundedness of `<` on the naturals, and
a proof defines the set of the sequences for which its claim holds. That `Lasting` is
what its definition says, step by step, follows from the existence of such a function
(`FiltersExist`).

From `BoundsAssumption`, `LeasesAssumption`, `ModesAssumption`, `NoneAssumption` and
`~Overtaking` of `ClientLeases`, for any finite set of calls of any modes and any number
of connections, runtimes and revisions:

- `ExclusiveLeaseIsSole`, `CountIsThatOfTokens` and `ConnectionsAreSeparate`: `Spec => []`
  of `LeasesExclusive` and of two parts of `BooksBalance`, `TokensCounted` and
  `NothingOutlivesConnection`. The inductive invariant is `IInv`. That an exclusive lease
  is the only one follows from the count only while the count is that of the calls that
  hold a token, so `Tokens` says which calls these are, connected or not: the tokens of
  calls that fail after a disconnection are given back to books that have forgotten them,
  which must not reach below zero nor take what a later call reserved. `Suspended` and
  `PromisesKept` tie every shared promise to the call that made it and to its request,
  `Offline` says that without a connection every such call is about to fail, and
  `Releases` that a release keeps its token until it is over. A step of one call
  `Changed`s that call only; those that reserve a token, keep it or give it up
  (`HolderLeaves`) have a lemma each. With `Overtaking` the theorems do not hold
  (Disagreements).

From the same assumptions:

- `BalancedBooks`, `CopyIsCurrent` and `NothingForgotten`: `Spec => []` of `BooksBalance`,
  `SnapshotIsCurrent` and `NoForgottenAttachment`, and `DetachIsLast`: `Spec =>
  DetachLeavesNobody`. (`AgreedAttachment` and `OneRequestAtATime` state two parts of
  `BooksBalance` alone.) `IInv` counts the tokens but does not say which requests are
  under way, so `JInv` adds the order among the calls. `Ordered`: a request that is not
  answered is awaited by the call that sent it, and who awaits the request of another
  learns of it with that call and runs after it. `SoleRelease`: a release is that of the
  only holder, and everybody who comes awaits it; so no attach and no other detach is
  sent beside it. Once a dispose has failed, who comes before that is marked awaits the
  repair of an earlier failure or is given a lease that is `Early`. `Repairs`: while a
  repair is due every holder awaits a detachment or the repair, or is `Early`, which is why
  the repair's detach ends no other lease; it stays due until the first call to learn of
  it has run. `Creation`: nobody holds a lease on a session that is
  not there, and who made it is the first to know. `Copy`: the client's attachment and
  snapshot are the server's, while an attach is under way the older snapshot is forgotten,
  and an attachment has a holder, a creator about to lease it, or a repair that is due. Each action has a lemma; the calls' own steps share those of one
  call that moves on (`Step`, `Advances`) or is over (`OverKeeps`), and all messages and
  disconnections that of answers being handed out (`AnswersKeepOrdered`).

Only model-checked:

- liveness under fairness (`AbortSettles`, `EverythingSettles` of `LiveSessions` and of
  `JsonlStorage`, `CallsSettle`, `CallsEnd`), which is not within reach of the prover.
  Every other property of a passing run is stated by a theorem.

## Not modelled

The modules cover the code whose correctness lies in the order of steps: what happens
between awaits, connections, processes and crashes. That is a small part of the
repository. Most of its 167 thousand lines are of other kinds, which a model would only
repeat: the terminal interface and its components, the providers' wire formats and
generated catalogs, extensions, profiles and examples, tools that edit text or run
commands, build scripts. A specification of them would be a second implementation, so
most of the code stays without one, whatever is added here.

Left out of what is modelled:

- `Agent`: token-level updates of a streaming message, the listener set,
  `prepareNextTurn` replacing the context, model or thinking level, the two
  `EventStream` wrappers of the loop.
- `LiveSessions`: the handshake of a connection and its timeout, the order of responses
  and events on one connection, snapshot revisions, `list`.
- `SessionLog` and `JsonlStorage`: queries and statistics of a session, the crash of a
  creation before its header is whole, the publication of a JSONL fork, the repository
  (`jsonl/repo.ts`) with its list of sessions, their deletion and the claims on new ids,
  the codec.
- `ClientLeases`: listeners other than those a lease relies on, the list of sessions, the
  encoding of messages, and what a snapshot contains.
- `AgentSession`: callers that overlap in a preflight, a navigation or a manual
  compaction; a run whose `prompt` rejects; navigation to another branch; steering text
  that is only an image, which the displayed queue keeps for ever; a custom message that
  triggers no turn during a run; messages steered while the session is idle, which wait
  for the next run; disposal, profiles, models, tools and extensions.
- `AuthStorage`: API keys and ambient credentials, other providers in the same file, the
  in-memory and read-only storages, login flows, callers without a signal, the creation of
  the file (`ensureFileExists` writes it outside of the lock; the model starts with the
  file there), the refresh of `models.ts` without a timeout, and a computer that sleeps.

Not reached: the runtime replacement of the coding agent, its session manager's file, the
harness's event bus and reducer, the file mutation queue, the SQLite backend, settings
and trust, the retry of provider streams, package management, and the protocol's framing.
`PROJECT.json` has a line on each.

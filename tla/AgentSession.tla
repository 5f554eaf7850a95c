---------------------------- MODULE AgentSession ----------------------------
(***************************************************************************)
(* The session of the coding agent                                         *)
(* (packages/coding-agent/src/core/agent-session.ts): it drives the agent, *)
(* records what the agent says in the session manager's current branch,    *)
(* retries failed replies, compacts the context, shows what is queued and  *)
(* defers the results of the user's own shell commands.                    *)
(*                                                                         *)
(* `pc' is where the call that owns the run is suspended, `phase' where    *)
(* the agent's run is (module Agent has its steps in full; here a run is   *)
(* what its session can tell apart).  Anything else may be called between  *)
(* two awaits: steer, followUp, sendCustomMessage, clearQueue, abort,      *)
(* waitForIdle, abortRetry, a shell command, compact, navigateTree.        *)
(*                                                                         *)
(* Two awaits that settle in the same turn of the event loop are one step: *)
(* _handlePostAgentRun deciding to go on and agent.continue(), or deciding *)
(* to stop and the finally block of _runAgentPrompt.                       *)
(*                                                                         *)
(* A message is its role and a number; a reply has its stop reason: here   *)
(* "error" is retryable, "fatal" is not, "overflow" is an error saying     *)
(* that the context is too long, "length" a reply cut below its limit.     *)
(***************************************************************************)
EXTENDS Integers, Sequences, SequencesExt, FiniteSets

CONSTANTS
    Text,           \* the text of each submitted message, by its number
    QueueMode,      \* drain mode of both queues
    MaxRetries,     \* settings.retry.maxRetries (0: retries are disabled)
    MaxSent,        \* bound: messages submitted
    MaxTurns,       \* bound: replies that do not simply stop
    MaxBash,        \* bound: shell commands recorded
    MaxCompactions, \* bound: compactions started
    MaxOthers,      \* bound: calls of navigateTree, abort and waitForIdle
    None

ASSUME RetriesAssumption == MaxRetries \in Nat
ASSUME BoundsAssumption == MaxSent \in Nat
ASSUME ModeAssumption == QueueMode \in {"all", "one-at-a-time"}

VARIABLES
    \* Agent
    messages,           \* state.messages
    phase,              \* of the run; "idle": no activeRun
    inject,             \* messages given to the run and not yet delivered
    steering, followUp, \* its queues
    aborted,            \* signal of the active run
    unsaved,            \* message whose message_end is being delivered
    \* SessionManager
    branch,             \* entries from the root to the leaf
    \* AgentSession
    streaming,          \* _isAgentRunActive
    steeringMessages, followUpMessages, \* texts shown as queued
    pendingBash,        \* _pendingBashMessages
    nextTurn,           \* _pendingNextTurnMessages
    lastAssistant,      \* _lastAssistantMessage
    retryAttempt,
    overflowAttempted,  \* _overflowRecoveryAttempted
    waiters,            \* callers that await _idleWaitPromise
    \* suspended calls
    pc,                 \* of prompt() and _runAgentPrompt()
    reply,              \* the reply _handlePostAgentRun looks at
    compaction,         \* the auto-compaction in progress
    operation,          \* the compact() or navigateTree() in progress
    settling,           \* agent_settled events being delivered
    \* bounds and history
    sent, turn, bashes, compactions, others,
    automatic,          \* requests repeated by a retry or a recovery
    cancelled,          \* a retry was cancelled, nothing delivered since
    rejected            \* agent.continue() has thrown

agentVars == <<phase, inject, aborted>>
queueVars == <<steering, followUp>>
shownVars == <<steeringMessages, followUpMessages>>
logVars   == <<messages, branch>>
retryVars == <<lastAssistant, retryAttempt, overflowAttempted>>
callVars  == <<pc, reply, compaction>>
idleVars  == <<streaming, waiters, settling>>
boundVars == <<sent, turn, bashes, compactions, others>>
historyVars == <<automatic, cancelled, rejected>>
vars == <<agentVars, queueVars, shownVars, logVars, retryVars, callVars,
          idleVars, boundVars, historyVars, unsaved, pendingBash, nextTurn,
          operation>>
-----------------------------------------------------------------------------
(* Messages and the session's branch *)

User(n, via) == [role |-> "user", n |-> n, via |-> via]
Custom(n, via) == [role |-> "custom", n |-> n, via |-> via]
Assistant(n, stop) == [role |-> "assistant", n |-> n, stop |-> stop]
Result(n) == [role |-> "toolResult", n |-> n]
Bash(n) == [role |-> "bashExecution", n |-> n]
BranchSummary == [role |-> "branchSummary"]
\* The reply numbered `at' was the latest when the summary was written.
Compaction(kept, at) == [role |-> "compaction", kept |-> kept, at |-> at]

EndsWith(s, role) == s # <<>> /\ Last(s).role = role

Drained(q) == IF QueueMode = "all" \/ q = <<>> THEN q ELSE <<Head(q)>>
Remaining(q) == IF QueueMode = "all" \/ q = <<>> THEN <<>> ELSE Tail(q)

\* Error replies, as far as the session is concerned.
Errors == {"error", "fatal", "overflow"}
Recoverable == {"overflow", "length"}
Stops == Errors \cup {"stop", "toolUse", "length", "aborted"}

Submitted == [role : {"user", "custom"}, n : 1..MaxSent,
              via : {"prompt", "steer", "followUp", "nextTurn", "record"}]
AssistantMessages == [role : {"assistant"}, n : Nat \ {0}, stop : Stops]
Messages ==
    Submitted \cup AssistantMessages \cup {BranchSummary}
    \cup [role : {"toolResult", "bashExecution"}, n : Nat \ {0}]
    \cup [role : {"compaction"}, kept : Nat \ {0}, at : Nat]

\* Nothing else is None.
ASSUME NoneAssumption ==
    /\ None \notin Messages
    /\ None \notin [kept : Nat, retry : BOOLEAN]
    /\ None \notin [kind : {"waits", "prepares", "summarizes", "navigates"},
                    at : Nat]

CompactionsOf(b) == {i \in DOMAIN b : b[i].role = "compaction"}
Latest(b) == CHOOSE i \in CompactionsOf(b) : \A j \in CompactionsOf(b) : j <= i

\* buildSessionContext: the latest summary, what it kept, what followed it.
Context(b) ==
    IF CompactionsOf(b) = {} THEN b
    ELSE LET i == Latest(b) IN
         <<b[i]>> \o SubSeq(b, b[i].kept, i - 1) \o SubSeq(b, i + 1, Len(b))

\* prepareCompaction: what can be the first entry to keep, so that something
\* before it is summarized.  The budget of tokens decides which one it is.
FirstEntry(b) == IF CompactionsOf(b) = {} THEN 1 ELSE b[Latest(b)].kept
CutPoints(b) ==
    IF EndsWith(b, "compaction") THEN {}
    ELSE {k \in FirstEntry(b) + 1..Len(b) :
            /\ b[k].role \notin {"toolResult", "compaction"}
            /\ \E i \in FirstEntry(b)..k - 1 : b[i].role # "compaction"}

\* A reply older than the latest compaction must not start another one.
Outdated(m) ==
    CompactionsOf(branch) # {} /\ m.n <= branch[Latest(branch)].at
-----------------------------------------------------------------------------
Init ==
    /\ messages = <<>> /\ branch = <<>> /\ unsaved = None
    /\ phase = "idle" /\ inject = <<>> /\ aborted = FALSE
    /\ steering = <<>> /\ followUp = <<>>
    /\ steeringMessages = <<>> /\ followUpMessages = <<>>
    /\ pendingBash = <<>> /\ nextTurn = <<>>
    /\ lastAssistant = None /\ retryAttempt = 0 /\ overflowAttempted = FALSE
    /\ streaming = FALSE /\ waiters = {} /\ settling = 0
    /\ pc = "none" /\ reply = None /\ compaction = None /\ operation = None
    /\ sent = 0 /\ turn = 0 /\ bashes = 0 /\ compactions = 0 /\ others = 0
    /\ automatic = 0 /\ cancelled = FALSE /\ rejected = FALSE

\* Who calls prompt(), compact() or navigateTree() waits for the one before,
\* unless that is a run in progress.
Free == pc = "none" /\ operation = None

Submit == sent < MaxSent /\ sent' = sent + 1
KeepBounds == UNCHANGED <<turn, bashes, compactions, others>>
-----------------------------------------------------------------------------
(* What may be called at any time *)

\* steer, followUp, and prompt with a streamingBehavior during a run.
QueueUser ==
    /\ Submit
    /\ \/ /\ steering' = Append(steering, User(sent + 1, "steer"))
          /\ steeringMessages' = Append(steeringMessages, Text[sent + 1])
          /\ UNCHANGED <<followUp, followUpMessages>>
       \/ /\ followUp' = Append(followUp, User(sent + 1, "followUp"))
          /\ followUpMessages' = Append(followUpMessages, Text[sent + 1])
          /\ UNCHANGED <<steering, steeringMessages>>
    /\ KeepBounds
    /\ UNCHANGED <<agentVars, logVars, retryVars, callVars, idleVars, unsaved,
                   pendingBash, nextTurn, operation, historyVars>>

\* sendCustomMessage, queued: the display does not show it.
QueueCustom ==
    /\ streaming /\ Submit
    /\ \/ /\ steering' = Append(steering, Custom(sent + 1, "steer"))
          /\ UNCHANGED followUp
       \/ /\ followUp' = Append(followUp, Custom(sent + 1, "followUp"))
          /\ UNCHANGED steering
    /\ KeepBounds
    /\ UNCHANGED <<agentVars, shownVars, logVars, retryVars, callVars,
                   idleVars, unsaved, pendingBash, nextTurn, operation,
                   historyVars>>

\* sendCustomMessage with deliverAs "nextTurn".
QueueNextTurn ==
    /\ Submit
    /\ nextTurn' = Append(nextTurn, Custom(sent + 1, "nextTurn"))
    /\ KeepBounds
    /\ UNCHANGED <<agentVars, queueVars, shownVars, logVars, retryVars,
                   callVars, idleVars, unsaved, pendingBash, operation,
                   historyVars>>

\* sendCustomMessage without a turn, of an extension that waits for idle.
RecordCustom ==
    /\ ~streaming /\ Submit
    /\ messages' = Append(messages, Custom(sent + 1, "record"))
    /\ branch' = Append(branch, Custom(sent + 1, "record"))
    /\ KeepBounds
    /\ UNCHANGED <<agentVars, queueVars, shownVars, retryVars, callVars,
                   idleVars, unsaved, pendingBash, nextTurn, operation,
                   historyVars>>

ClearQueue ==
    /\ steering' = <<>> /\ followUp' = <<>>
    /\ steeringMessages' = <<>> /\ followUpMessages' = <<>>
    /\ UNCHANGED <<agentVars, logVars, retryVars, callVars, idleVars,
                   boundVars, unsaved, pendingBash, nextTurn, operation,
                   historyVars>>

\* Mutant: the result is recorded at once, also during a run.
RecordBashAtOnce ==
    /\ bashes < MaxBash /\ bashes' = bashes + 1
    /\ messages' = Append(messages, Bash(bashes + 1))
    /\ branch' = Append(branch, Bash(bashes + 1))
    /\ UNCHANGED <<agentVars, queueVars, shownVars, retryVars, callVars,
                   idleVars, sent, turn, compactions, others, unsaved,
                   pendingBash, nextTurn, operation, historyVars>>

RecordBashResult ==
    /\ bashes < MaxBash /\ bashes' = bashes + 1
    /\ IF streaming
       THEN /\ pendingBash' = Append(pendingBash, Bash(bashes + 1))
            /\ UNCHANGED logVars
       ELSE /\ messages' = Append(messages, Bash(bashes + 1))
            /\ branch' = Append(branch, Bash(bashes + 1))
            /\ UNCHANGED pendingBash
    /\ UNCHANGED <<agentVars, queueVars, shownVars, retryVars, callVars,
                   idleVars, sent, turn, compactions, others, unsaved,
                   nextTurn, operation, historyVars>>

CancelRetry == pc' = IF pc = "sleeping" THEN "retryCancelled" ELSE pc
AbortAgent == aborted' = (phase # "idle")
\* Mutant: an idle session makes its callers wait as well.
WaitForever(who) == waiters' = waiters \cup {who}

WaitForIdle(who) ==
    waiters' = IF streaming THEN waiters \cup {who} ELSE waiters

\* abort() and waitForIdle(); both return at once where nothing runs.
Abort ==
    /\ streaming /\ others < MaxOthers /\ others' = others + 1
    /\ CancelRetry /\ AbortAgent /\ WaitForIdle("abort")
    /\ UNCHANGED <<queueVars, shownVars, logVars, retryVars, streaming,
                   settling, sent, turn, bashes, compactions, phase, inject,
                   reply, compaction, unsaved, pendingBash, nextTurn,
                   operation, historyVars>>

Wait ==
    /\ streaming /\ others < MaxOthers /\ others' = others + 1
    /\ WaitForIdle("waitForIdle")
    /\ UNCHANGED <<agentVars, queueVars, shownVars, logVars, retryVars,
                   callVars, streaming, settling, sent, turn, bashes,
                   compactions, unsaved, pendingBash, nextTurn, operation,
                   historyVars>>

AbortRetry ==
    /\ pc = "sleeping" /\ CancelRetry
    /\ UNCHANGED <<agentVars, queueVars, shownVars, logVars, retryVars,
                   idleVars, boundVars, reply, compaction, unsaved,
                   pendingBash, nextTurn, operation, historyVars>>
-----------------------------------------------------------------------------
(* The agent's run, as Agent has it, and _handleAgentEvent *)

StartAgent(label, prompts) ==
    phase' = label /\ inject' = prompts /\ aborted' = FALSE

Step == unsaved = None

\* Mutant: only the displayed steering messages are looked at.
TrimSteering(m) ==
    /\ steeringMessages' = IF m.role # "user" THEN steeringMessages
                           ELSE RemoveFirst(steeringMessages, Text[m.n])
    /\ UNCHANGED followUpMessages

\* A user message that starts leaves the displayed queues, found by its text.
Trim(m) ==
    IF m.role # "user" \/ Text[m.n] = "" THEN UNCHANGED shownVars
    ELSE IF Contains(steeringMessages, Text[m.n])
    THEN /\ steeringMessages' = RemoveFirst(steeringMessages, Text[m.n])
         /\ UNCHANGED followUpMessages
    ELSE /\ followUpMessages' = RemoveFirst(followUpMessages, Text[m.n])
         /\ UNCHANGED steeringMessages

DeliverMessage ==
    /\ phase \in {"prompts", "inject"} /\ Step
    /\ LET m == Head(inject) IN
       /\ Trim(m)
       /\ overflowAttempted' = (overflowAttempted /\ m.role # "user")
       /\ messages' = Append(messages, m) /\ unsaved' = m
    /\ inject' = Tail(inject)
    /\ phase' = IF Tail(inject) # <<>> THEN phase
                ELSE IF phase = "prompts" THEN "initialPoll" ELSE "request"
    /\ automatic' = 0 /\ cancelled' = FALSE
    /\ UNCHANGED <<aborted, queueVars, branch, lastAssistant, retryAttempt,
                   callVars, idleVars, boundVars, pendingBash, nextTurn,
                   operation, rejected>>

\* The loop polls: for steering messages first, for follow-ups when it would
\* stop.
Poll ==
    /\ phase \in {"initialPoll", "toolPoll", "poll"} /\ Step
    /\ \/ /\ steering # <<>>
          /\ phase' = "inject" /\ inject' = Drained(steering)
          /\ steering' = Remaining(steering) /\ UNCHANGED followUp
       \/ /\ steering = <<>> /\ phase # "poll"
          /\ phase' = "request" /\ UNCHANGED <<inject, queueVars>>
       \/ /\ steering = <<>> /\ phase = "poll" /\ followUp # <<>>
          /\ phase' = "inject" /\ inject' = Drained(followUp)
          /\ followUp' = Remaining(followUp) /\ UNCHANGED steering
       \/ /\ steering = <<>> /\ phase = "poll" /\ followUp = <<>>
          /\ phase' = "ended" /\ UNCHANGED <<inject, queueVars>>
    /\ UNCHANGED <<aborted, shownVars, logVars, retryVars, callVars, idleVars,
                   boundVars, unsaved, pendingBash, nextTurn, operation,
                   historyVars>>

\* What a provider may answer; from some turn on it only stops.
Answers ==
    IF turn < MaxTurns THEN IF aborted THEN Stops ELSE Stops \ {"aborted"}
    ELSE IF aborted THEN {"aborted"} ELSE {"stop"}

Reply ==
    /\ phase = "request" /\ Step
    /\ turn' = turn + 1
    /\ \E stop \in Answers :
       /\ messages' = Append(messages, Assistant(turn + 1, stop))
       /\ unsaved' = Assistant(turn + 1, stop)
       /\ phase' = CASE stop \in Errors \cup {"aborted"} -> "ended"
                     [] stop = "toolUse" -> "tools"
                     [] OTHER -> "poll"
    /\ UNCHANGED <<inject, aborted, queueVars, shownVars, branch, retryVars,
                   callVars, idleVars, sent, bashes, compactions, others,
                   pendingBash, nextTurn, operation, historyVars>>

ToolReturns ==
    /\ phase = "tools" /\ Step
    /\ messages' = Append(messages, Result(turn)) /\ unsaved' = Result(turn)
    /\ phase' = "toolPoll"
    /\ UNCHANGED <<inject, aborted, queueVars, shownVars, branch, retryVars,
                   callVars, idleVars, boundVars, pendingBash, nextTurn,
                   operation, historyVars>>

\* message_end: extensions have been told, the session appends the message.
Save ==
    /\ unsaved # None /\ unsaved' = None
    /\ branch' = Append(branch, unsaved)
    /\ IF unsaved.role # "assistant" THEN UNCHANGED <<retryVars, automatic>>
       ELSE /\ lastAssistant' = unsaved
            /\ overflowAttempted' =
                 (overflowAttempted /\ unsaved.stop \in Errors \cup {"length"})
            /\ IF unsaved.stop \in Errors THEN UNCHANGED retryAttempt
               ELSE retryAttempt' = 0
            /\ IF unsaved.stop \in Errors \cup {"length"}
               THEN UNCHANGED automatic ELSE automatic' = 0
    /\ UNCHANGED <<agentVars, queueVars, shownVars, messages, callVars,
                   idleVars, boundVars, pendingBash, nextTurn, operation,
                   cancelled, rejected>>

\* agent_end is delivered and agent.prompt() or agent.continue() resolves.
AgentEnds ==
    /\ phase = "ended" /\ Step
    /\ StartAgent("idle", <<>>)
    /\ pc' = "post"
    /\ UNCHANGED <<queueVars, shownVars, logVars, retryVars, reply, compaction,
                   idleVars, boundVars, unsaved, pendingBash, nextTurn,
                   operation, historyVars>>

AgentRun ==
    DeliverMessage \/ Poll \/ Reply \/ ToolReturns \/ Save \/ AgentEnds
-----------------------------------------------------------------------------
(* prompt() up to _runAgentPrompt *)

\* A prompt submitted while nothing runs; its checks take several awaits.
Prompt ==
    /\ Free /\ Submit
    /\ pc' = "preflight"
    /\ inject' = <<User(sent + 1, "prompt")>>
    /\ KeepBounds
    /\ UNCHANGED <<phase, aborted, queueVars, shownVars, logVars, retryVars,
                   reply, compaction, idleVars, unsaved, pendingBash, nextTurn,
                   operation, historyVars>>

\* No model, no credentials, or an input handler has dealt with it.
PromptRefused ==
    /\ pc = "preflight"
    /\ pc' = "none" /\ inject' = <<>>
    /\ UNCHANGED <<phase, aborted, queueVars, shownVars, logVars, retryVars,
                   reply, compaction, idleVars, boundVars, unsaved,
                   pendingBash, nextTurn, operation, historyVars>>

\* The messages of the run; before_agent_start is awaited.
Build ==
    /\ pc' = "starting"
    /\ inject' = inject \o nextTurn /\ nextTurn' = <<>>

WithoutReply ==
    IF EndsWith(messages, "assistant") THEN Front(messages) ELSE messages

RecoveryDue(m) == m.stop \in Recoverable /\ ~overflowAttempted

\* _runAutoCompaction up to the summary; Unprepared where it returns early.
Prepare(msgs, retry) ==
    /\ compactions < MaxCompactions /\ compactions' = compactions + 1
    /\ \E k \in CutPoints(branch) :
         compaction' = [kept |-> k, retry |-> retry]
    /\ messages' = msgs
Unprepared(msgs) == messages' = msgs /\ UNCHANGED <<compaction, compactions>>

Replies == {i \in DOMAIN messages : messages[i].role = "assistant"}
LastReply == messages[CHOOSE i \in Replies : \A j \in Replies : j <= i]

\* The check before the prompt is sent looks at the last reply, also an
\* aborted one, unless it is older than the latest compaction.
Checkable == Replies # {} /\ ~Outdated(LastReply)

PromptRecovers ==
    /\ pc = "preflight" /\ Checkable /\ RecoveryDue(LastReply)
    /\ overflowAttempted' = TRUE
    /\ \/ /\ Prepare(WithoutReply, TRUE)
          /\ pc' = "promptCompacts" /\ UNCHANGED <<inject, nextTurn>>
       \/ Unprepared(WithoutReply) /\ Build
    /\ UNCHANGED <<phase, aborted, queueVars, shownVars, branch, lastAssistant,
                   retryAttempt, reply, idleVars, sent, turn,
                   bashes, others, unsaved, pendingBash, operation,
                   historyVars>>

\* Also a reply that calls for recovery is left alone while compaction is
\* disabled, a setting that may change between any two checks.
PromptChecked ==
    /\ pc = "preflight"
    /\ \/ /\ Checkable /\ LastReply.stop \notin Recoverable
          /\ Prepare(messages, FALSE)
          /\ pc' = "promptCompacts" /\ UNCHANGED <<inject, nextTurn>>
       \/ Unprepared(messages) /\ Build
    /\ UNCHANGED <<phase, aborted, queueVars, shownVars, branch, retryVars,
                   reply, idleVars, sent, turn, bashes, others, unsaved,
                   pendingBash, operation, historyVars>>

\* The summary is appended and the context rebuilt from the branch.
Compacted == Append(branch, Compaction(compaction.kept, turn))
\* The failed reply that the rebuilt context may end with is taken off again.
Rebuilt ==
    LET msgs == Context(Compacted) IN
    IF /\ compaction.retry /\ EndsWith(msgs, "assistant")
       /\ Last(msgs).stop \in Errors \cup {"length"}
    THEN Front(msgs) ELSE msgs

PromptCompacted ==
    /\ pc = "promptCompacts"
    /\ \/ messages' = Rebuilt /\ branch' = Compacted
       \/ UNCHANGED logVars    \* cancelled, or the summary failed
    /\ compaction' = None
    /\ Build
    /\ UNCHANGED <<phase, aborted, queueVars, shownVars, retryVars, reply,
                   idleVars, boundVars, unsaved, pendingBash, operation,
                   historyVars>>

PromptStarts ==
    /\ pc = "starting"
    /\ pc' = "running" /\ streaming' = TRUE
    /\ StartAgent("prompts", inject)
    /\ UNCHANGED <<queueVars, shownVars, logVars, retryVars, reply, compaction,
                   waiters, settling, boundVars, unsaved, pendingBash,
                   nextTurn, operation, historyVars>>

\* sendCustomMessage with triggerTurn goes straight to _runAgentPrompt.
PromptCustom ==
    /\ Free /\ Submit
    /\ pc' = "running" /\ streaming' = TRUE
    /\ StartAgent("prompts", <<Custom(sent + 1, "prompt")>>)
    /\ KeepBounds
    /\ UNCHANGED <<queueVars, shownVars, logVars, retryVars, reply, compaction,
                   waiters, settling, unsaved, pendingBash, nextTurn,
                   operation, historyVars>>

Preflight ==
    \/ PromptRefused \/ PromptRecovers \/ PromptChecked \/ PromptCompacted
    \/ PromptStarts
-----------------------------------------------------------------------------
(* _handlePostAgentRun, _prepareRetry, _checkCompaction, _runAutoCompaction  *)
(* and the finally block of _runAgentPrompt                                  *)

Queued == steering # <<>> \/ followUp # <<>>

\* The run is over: the deferred results of shell commands are appended.
Settle(msgs, entries) ==
    /\ pc' = "none" /\ streaming' = FALSE /\ settling' = settling + 1
    /\ messages' = msgs \o pendingBash /\ branch' = entries \o pendingBash
    /\ pendingBash' = <<>> /\ cancelled' = FALSE
    /\ UNCHANGED <<agentVars, queueVars, waiters, automatic>>

\* agent.continue(): it refuses a transcript that ends with a reply, unless
\* something is queued.  It counts as `repeats' repetitions of a request.
Continue(msgs, entries, repeats) ==
    \/ /\ msgs = <<>> \/ (EndsWith(msgs, "assistant") /\ ~Queued)
       /\ rejected' = TRUE
       /\ Settle(msgs, entries)
    \/ /\ EndsWith(msgs, "assistant") /\ Queued
       /\ IF steering # <<>>
          THEN /\ StartAgent("inject", Drained(steering))
               /\ steering' = Remaining(steering) /\ UNCHANGED followUp
          ELSE /\ StartAgent("prompts", Drained(followUp))
               /\ followUp' = Remaining(followUp) /\ UNCHANGED steering
       /\ pc' = "running" /\ messages' = msgs /\ branch' = entries
       /\ UNCHANGED <<historyVars, idleVars, pendingBash>>
    \/ /\ msgs # <<>> /\ ~EndsWith(msgs, "assistant")
       /\ StartAgent("initialPoll", <<>>)
       /\ automatic' = automatic + repeats
       /\ pc' = "running" /\ messages' = msgs /\ branch' = entries
       /\ UNCHANGED <<cancelled, rejected, queueVars, idleVars, pendingBash>>

\* Mutant: what was queued after the last poll of the run is left behind.
SettleAnyway(msgs, entries) == Settle(msgs, entries) /\ UNCHANGED rejected

GoOnIfQueued(msgs, entries) ==
    IF Queued THEN Continue(msgs, entries, 0)
    ELSE Settle(msgs, entries) /\ UNCHANGED rejected

\* Mutant: one retry too many.
RetryableOnceMore(m) == m.stop = "error" /\ retryAttempt <= MaxRetries

Retryable(m) == m.stop = "error" /\ retryAttempt < MaxRetries

\* The reply is taken; a retryable one leaves the context and is asked again
\* after a delay.
PrepareRetry ==
    /\ pc = "post" /\ Retryable(lastAssistant)
    /\ reply' = lastAssistant /\ lastAssistant' = None
    /\ retryAttempt' = retryAttempt + 1
    /\ messages' = WithoutReply
    /\ pc' = "sleeping"
    /\ UNCHANGED <<agentVars, queueVars, shownVars, branch, overflowAttempted,
                   compaction, idleVars, boundVars, unsaved,
                   pendingBash, nextTurn, operation, historyVars>>

NoRetry ==
    /\ pc = "post" /\ ~Retryable(lastAssistant)
    /\ reply' = lastAssistant /\ lastAssistant' = None
    /\ retryAttempt' =
         IF lastAssistant.stop \in Errors THEN 0 ELSE retryAttempt
    /\ pc' = "check"
    /\ UNCHANGED <<agentVars, queueVars, shownVars, logVars, overflowAttempted,
                   compaction, idleVars, boundVars, unsaved,
                   pendingBash, nextTurn, operation, historyVars>>

RetryDue ==
    /\ pc = "sleeping"
    /\ Continue(messages, branch, 1)
    /\ reply' = None
    /\ UNCHANGED <<shownVars, lastAssistant, retryAttempt, overflowAttempted,
                   compaction, boundVars, unsaved, nextTurn, operation>>

RetryCancelled ==
    /\ pc = "retryCancelled"
    /\ retryAttempt' = 0 /\ automatic' = 0 /\ cancelled' = TRUE
    /\ pc' = "check"
    /\ UNCHANGED <<agentVars, queueVars, shownVars, logVars, lastAssistant,
                   overflowAttempted, reply, compaction, idleVars, boundVars,
                   unsaved, pendingBash, nextTurn, operation, rejected>>

\* Overflow or a reply cut short: compact and ask again, once.
Recover ==
    /\ pc = "check" /\ RecoveryDue(reply)
    /\ overflowAttempted' = TRUE
    /\ \/ /\ Prepare(WithoutReply, TRUE)
          /\ pc' = "compacting"
          /\ UNCHANGED <<agentVars, queueVars, branch, reply, historyVars,
                         idleVars, pendingBash>>
       \/ /\ GoOnIfQueued(WithoutReply, branch)
          /\ reply' = None /\ UNCHANGED <<compaction, compactions>>
    /\ UNCHANGED <<shownVars, lastAssistant, retryAttempt, sent, turn, bashes,
                   others, unsaved, nextTurn, operation>>

\* A long context is compacted; an aborted reply, or the second one to need
\* recovery, is left alone, and any reply while compaction is disabled.
Checked ==
    /\ pc = "check"
    /\ \/ /\ reply.stop \notin Recoverable \cup {"aborted"}
          /\ Prepare(messages, FALSE)
          /\ pc' = "compacting"
          /\ UNCHANGED <<agentVars, queueVars, branch, reply, historyVars,
                         idleVars, pendingBash>>
       \/ /\ GoOnIfQueued(messages, branch)
          /\ reply' = None /\ UNCHANGED <<compaction, compactions>>
    /\ UNCHANGED <<shownVars, lastAssistant, retryAttempt, overflowAttempted,
                   sent, turn, bashes, others, unsaved, nextTurn, operation>>

CompactionSucceeds ==
    /\ pc = "compacting"
    /\ IF compaction.retry THEN Continue(Rebuilt, Compacted, 1)
       ELSE GoOnIfQueued(Rebuilt, Compacted)
    /\ reply' = None /\ compaction' = None
    /\ UNCHANGED <<shownVars, lastAssistant, retryAttempt, overflowAttempted,
                   boundVars, unsaved, nextTurn, operation>>

\* Cancelled by an extension or abortCompaction, or the summary failed.
CompactionFails ==
    /\ pc = "compacting"
    /\ GoOnIfQueued(messages, branch)
    /\ reply' = None /\ compaction' = None
    /\ UNCHANGED <<shownVars, lastAssistant, retryAttempt, overflowAttempted,
                   boundVars, unsaved, nextTurn, operation>>

PostRun ==
    \/ PrepareRetry \/ NoRetry \/ RetryDue \/ RetryCancelled \/ Recover
    \/ Checked \/ CompactionSucceeds \/ CompactionFails

\* agent_settled has been delivered: idle waiters go on, unless a new run has
\* started meanwhile.
Settled ==
    /\ settling > 0 /\ settling' = settling - 1
    /\ waiters' = IF streaming THEN waiters ELSE {}
    /\ operation' = IF ~streaming /\ "compact" \in waiters
                    THEN [kind |-> "prepares", at |-> 0] ELSE operation
    /\ UNCHANGED <<agentVars, queueVars, shownVars, logVars, retryVars,
                   callVars, streaming, boundVars, unsaved, pendingBash,
                   nextTurn, historyVars>>
-----------------------------------------------------------------------------
(* compact() and navigateTree() *)

\* compact() aborts the run and waits for it to settle.
Compact ==
    /\ operation = None /\ (streaming \/ pc = "none")
    /\ compactions < MaxCompactions
    /\ compactions' = compactions + 1
    /\ CancelRetry /\ AbortAgent /\ WaitForIdle("compact")
    /\ operation' = [kind |-> IF streaming THEN "waits" ELSE "prepares",
                     at |-> 0]
    /\ UNCHANGED <<queueVars, shownVars, logVars, retryVars, streaming,
                   settling, sent, turn, bashes, others, phase, inject, reply,
                   compaction, unsaved, pendingBash, nextTurn, historyVars>>

OperationKeeps == UNCHANGED <<agentVars, queueVars, shownVars, retryVars,
    callVars, idleVars, sent, turn, bashes, compactions, unsaved, pendingBash,
    nextTurn, historyVars>>

CompactPrepares ==
    /\ operation # None /\ operation.kind = "prepares"
    /\ \/ \E k \in CutPoints(branch) :
            operation' = [kind |-> "summarizes", at |-> k]
       \/ operation' = None
    /\ OperationKeeps /\ UNCHANGED <<logVars, others>>

CompactEnds ==
    /\ operation # None /\ operation.kind = "summarizes"
    /\ \/ /\ branch' = Append(branch, Compaction(operation.at, turn))
          /\ messages' = Context(branch')
       \/ UNCHANGED logVars
    /\ operation' = None
    /\ OperationKeeps /\ UNCHANGED others

\* The new leaf after a navigation: the parent of an entry that goes back to
\* the editor, or an earlier entry itself.
Editable == {"user", "custom"}
Leaves == {k \in 0..Len(branch) - 1 :
             \/ branch[k + 1].role \in Editable
             \/ k > 0 /\ branch[k].role \notin Editable}

NavigateTree ==
    /\ Free /\ others < MaxOthers /\ others' = others + 1
    /\ \E k \in Leaves :
         operation' = [kind |-> "navigates", at |-> k]
    /\ OperationKeeps /\ UNCHANGED logVars

\* Mutant: the agent keeps the messages of the branch that was left.
NavigationForgotten ==
    /\ operation # None /\ operation.kind = "navigates"
    /\ \/ \E summary \in {<<>>, <<BranchSummary>>} :
               branch' = SubSeq(branch, 1, operation.at) \o summary
       \/ UNCHANGED branch
    /\ operation' = None
    /\ OperationKeeps /\ UNCHANGED <<messages, others>>

NavigationEnds ==
    /\ operation # None /\ operation.kind = "navigates"
    /\ \/ /\ \E summary \in {<<>>, <<BranchSummary>>} :
               branch' = SubSeq(branch, 1, operation.at) \o summary
          /\ messages' = Context(branch')
       \/ UNCHANGED logVars
    /\ operation' = None
    /\ OperationKeeps /\ UNCHANGED others

Operation == CompactPrepares \/ CompactEnds \/ NavigationEnds
-----------------------------------------------------------------------------
Caller ==
    \/ QueueUser \/ QueueCustom \/ QueueNextTurn \/ RecordCustom \/ ClearQueue
    \/ RecordBashResult \/ Abort \/ Wait \/ AbortRetry \/ Prompt
    \/ PromptCustom \/ Compact \/ NavigateTree

Run == AgentRun \/ Preflight \/ PostRun

Next == Caller \/ Run \/ Settled \/ Operation

Spec == Init /\ [][Next]_vars
-----------------------------------------------------------------------------
(* Correctness *)

\* The type invariant of the session, its agent and its suspended calls.
TypeOK ==
    /\ messages \in Seq(Messages) /\ branch \in Seq(Messages)
    /\ unsaved \in Messages \cup {None}
    /\ phase \in {"idle", "prompts", "inject", "initialPoll", "toolPoll",
                  "poll", "request", "tools", "ended"}
    /\ inject \in Seq(Submitted) /\ aborted \in BOOLEAN
    /\ steering \in Seq(Submitted) /\ followUp \in Seq(Submitted)
    /\ pendingBash \in Seq(Messages) /\ nextTurn \in Seq(Submitted)
    /\ lastAssistant \in AssistantMessages \cup {None}
    /\ reply \in AssistantMessages \cup {None}
    /\ retryAttempt \in 0..MaxRetries /\ overflowAttempted \in BOOLEAN
    /\ streaming \in BOOLEAN /\ settling \in Nat
    /\ waiters \in SUBSET {"abort", "waitForIdle", "compact"}
    /\ pc \in {"none", "preflight", "promptCompacts", "starting", "running",
               "post", "sleeping", "retryCancelled", "check", "compacting"}
    /\ automatic \in Nat /\ cancelled \in BOOLEAN /\ rejected \in BOOLEAN

\* A tool result directly follows the reply that made the call, in the
\* agent's transcript and in the context a resumed session starts from: what
\* else is recorded meanwhile is deferred (recordBashResult).
ResultsFollowCalls ==
    \A s \in {messages, Context(branch)} : \A i \in DOMAIN s :
        s[i].role = "toolResult" =>
            i > 1 /\ s[i - 1] = Assistant(s[i].n, "toolUse")

\* The agent shows the provider what a resumed session would show, failed
\* replies apart, whatever retries, recoveries, compactions and navigations
\* have done to the two.
Lasts(m) == ~(m.role = "assistant" /\ m.stop \in Errors \cup {"length"})
Lasting(s) ==
    LET upTo[i \in 0..Len(s)] ==
          IF i = 0 THEN <<>>
          ELSE IF Lasts(s[i]) THEN Append(upTo[i - 1], s[i]) ELSE upTo[i - 1]
    IN upTo[Len(s)]
ContextMatchesSession ==
    LET saving == IF unsaved = None THEN <<>> ELSE <<unsaved>> IN
    Lasting(messages) = Lasting(Context(branch) \o saving)

\* Nothing is shown as queued that is not pending in the agent, although the
\* displayed queues are trimmed by text and texts may be equal.
Copies(s, t) == Cardinality({i \in DOMAIN s : s[i] = t})
Pending(s, t) ==
    Cardinality({i \in DOMAIN s :
        s[i].role = "user" /\ s[i].via # "prompt" /\ Text[s[i].n] = t})
DisplayedIsPending ==
    \A t \in {Text[n] : n \in 1..MaxSent} :
        Copies(steeringMessages \o followUpMessages, t)
            <= Pending(inject \o steering \o followUp, t)

\* isStreaming is given up only when the agent is idle, no retry is counted,
\* every message of the run is saved and nothing queued is left behind.
SettlesWhenDone ==
    [][streaming /\ ~streaming' =>
          /\ phase' = "idle" /\ unsaved' = None /\ retryAttempt' = 0
          /\ steering' = <<>> /\ followUp' = <<>> /\ pendingBash' = <<>>]_vars

\* Retries and the recovery together repeat a request a bounded number of
\* times until the provider answers it, somebody sends another message or the
\* retry is cancelled: the recovery, after which the retries are counted anew,
\* is attempted once.
RepetitionsBounded ==
    automatic <= MaxRetries + IF overflowAttempted THEN MaxRetries + 1 ELSE 0

\* Nobody waits for a session that has settled: a waiter is released by the
\* end of the run in progress or by the settling that is being announced.
NoLostWaiter == waiters # {} => streaming \/ settling > 0

\* What the suspended calls rely on.
CallsConsistent == TypeOK /\ NoLostWaiter

\* A cancelled retry is not sent (rpc.md: "cancel the delay and stop
\* retrying"): the provider is asked again only with another message.
CancelledRetryNotSent == phase = "request" => ~cancelled

\* _runAutoCompaction takes the failed reply off the rebuilt context so that
\* agent.continue() does not reject it.
ContinuationsAccepted == ~rejected
=============================================================================

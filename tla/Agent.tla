------------------------------- MODULE Agent -------------------------------
(***************************************************************************)
(* The stateful agent (packages/agent/src/agent.ts) driving one run of the *)
(* agent loop (packages/agent/src/agent-loop.ts).                          *)
(*                                                                         *)
(* The loop is a single asynchronous procedure: `pc' names the await it is *)
(* suspended at.  Between two awaits its embedder (a user interface, an    *)
(* RPC peer, an extension or a listener of the very event being delivered) *)
(* may queue messages, clear queues, abort or try to start another run;    *)
(* tool executions of a parallel batch complete in any order.  An awaited  *)
(* call (a listener, a hook, the provider stream) may throw: the run then  *)
(* goes through handleRunFailure.                                          *)
(*                                                                         *)
(* A user message is its submission number and the way it was submitted;   *)
(* an assistant message its number, its stop reason and how many tool      *)
(* calls it carries; a tool result its call and the `terminate' hint.      *)
(***************************************************************************)
EXTENDS Integers, Sequences, FiniteSets

CONSTANTS
    QueueModes,     \* drain modes the embedder may select
    ToolExecution,  \* "parallel" or "sequential": Agent.toolExecution
    MaxSent,        \* bound: user messages submitted
    MaxCalls,       \* bound: tool calls of one assistant message
    MaxTurns,       \* bound: assistant messages that may still call tools
    MaxRuns,        \* bound: runs started
    MaxThrows       \* bound: awaited calls that throw

ASSUME ModesAssumption == QueueModes \subseteq {"all", "one-at-a-time"}
ASSUME BoundsAssumption ==
    /\ MaxSent \in Nat /\ MaxCalls \in Nat /\ MaxTurns \in Nat
    /\ MaxRuns \in Nat /\ MaxThrows \in Nat

VARIABLES
    messages, streamingMessage, pendingToolCalls, errorMessage,  \* Agent._state
    steeringQueue, followUpQueue, steeringMode, followUpMode,
    aborted,        \* signal of the active run
    pc,             \* where the run is suspended; "idle": no activeRun
    context,        \* currentContext.messages of the loop
    newMessages,    \* messages this run added, the payload of agent_end
    inject,         \* prompts or pendingMessages not yet emitted
    skipPoll,       \* skipInitialSteeringPoll
    turn,           \* number of the latest assistant message
    execution,      \* how the current batch runs its calls
    batch,          \* calls of the current batch reached so far
    results,        \* executedToolBatch.messages
    orphans,        \* executions that outlived their run
    \* bounds and history
    sent, runs, throws,
    base,           \* Len(messages) when the run started
    ended,          \* this run has emitted agent_end
    afterEnd,       \* types of the events delivered since that agent_end
    late            \* messages queued since the latest turn_end

agentVars  == <<messages, streamingMessage, pendingToolCalls, errorMessage>>
queueVars  == <<steeringQueue, followUpQueue>>
modeVars   == <<steeringMode, followUpMode>>
loopVars   == <<context, newMessages, inject, skipPoll>>
batchVars  == <<execution, batch, results>>
eventVars  == <<ended, afterEnd>>
boundVars  == <<sent, runs>>
vars == <<agentVars, queueVars, modeVars, loopVars, batchVars, eventVars,
          boundVars, aborted, pc, turn, orphans, throws, base, late>>
-----------------------------------------------------------------------------
(* Messages *)

User(n, via) == [role |-> "user", id |-> n, via |-> via]
Assistant(n, stop, k) ==
    [role |-> "assistant", id |-> n, stop |-> stop, calls |-> k]
Result(n, i, t) ==
    [role |-> "toolResult", id |-> n, call |-> i, terminate |-> t]
NoMessage == [role |-> "none"]

Vias == {"prompt", "steer", "followUp"}
UserMessages == [role : {"user"}, id : 1..MaxSent, via : Vias]
StopReasons == {"partial", "stop", "toolUse", "length", "error", "aborted"}
AssistantMessages ==
    [role : {"assistant"}, id : Nat \ {0}, stop : StopReasons, calls : Nat]
ResultMessages ==
    [role : {"toolResult"}, id : Nat \ {0}, call : Nat \ {0},
     terminate : BOOLEAN]
Messages == UserMessages \cup AssistantMessages \cup ResultMessages

LastOf(s) == s[Len(s)]
ReplaceLast(s, x) == [s EXCEPT ![Len(s)] = x]
Front(s) == SubSeq(s, 1, Len(s) - 1)

\* The final message a provider stream may produce.  Content with tool calls
\* is offered only while turn < MaxTurns, so that a run can be exhausted.
FinalMessages(n) ==
    {m \in {Assistant(n, s, k) : s \in StopReasons \ {"partial"},
                                 k \in 0..MaxCalls} :
        /\ m.stop = "stop" => m.calls = 0
        /\ m.stop \in {"toolUse", "length"} => m.calls > 0
        /\ m.stop = "aborted" => aborted
        /\ n > MaxTurns => m.calls = 0}
-----------------------------------------------------------------------------
(* PendingMessageQueue *)

\* Mutant: draining keeps the queue.
RemainingKeeps(q, mode) == q

Drained(q, mode) ==
    IF mode = "all" \/ q = <<>> THEN q ELSE <<Head(q)>>
Remaining(q, mode) ==
    IF mode = "all" \/ q = <<>> THEN <<>> ELSE Tail(q)
-----------------------------------------------------------------------------
(* Suspension points of a run *)

Goto(label) == pc' = label /\ UNCHANGED <<throws, orphans>>

DiscardLocals ==
    /\ context' = <<>> /\ newMessages' = <<>> /\ inject' = <<>>
    /\ skipPoll' = FALSE
    /\ execution' = "none" /\ batch' = <<>> /\ results' = <<>>

RunningCalls ==
    {<<turn, i>> : i \in {j \in DOMAIN batch : batch[j].state = "running"}}

\* The awaited call (of one tool of a parallel batch: \{c}) rejects and the
\* loop unwinds.  Promise.all rejects with the first of its executions, so
\* the others keep running.
ThrowFrom(calls) ==
    /\ throws < MaxThrows
    /\ throws' = throws + 1
    /\ pc' = "failStart"
    /\ orphans' = orphans \cup (RunningCalls \ calls)
    /\ DiscardLocals

Throw == ThrowFrom(RunningCalls)
-----------------------------------------------------------------------------
(* processEvents: the state each event reduces to *)

Event(type) ==
    /\ ended' = (type = "agent_end" \/ (ended /\ type # "agent_start"))
    /\ afterEnd' = IF type = "agent_start" THEN {}
                   ELSE IF ended THEN afterEnd \cup {type} ELSE afterEnd

StartMessage(m) ==
    /\ Event("message_start")
    /\ streamingMessage' = m
    /\ UNCHANGED <<messages, pendingToolCalls, errorMessage>>

EndMessage(m) ==
    /\ Event("message_end")
    /\ streamingMessage' = NoMessage
    /\ messages' = Append(messages, m)
    /\ UNCHANGED <<pendingToolCalls, errorMessage>>

StartTool(c) ==
    /\ Event("tool_execution_start")
    /\ pendingToolCalls' = pendingToolCalls \cup {c}
    /\ UNCHANGED <<messages, streamingMessage, errorMessage>>

\* Mutant: a finished call stays pending.
EndToolKeepsCall(c) == Event("tool_execution_end") /\ UNCHANGED agentVars

EndTool(c) ==
    /\ Event("tool_execution_end")
    /\ pendingToolCalls' = pendingToolCalls \ {c}
    /\ UNCHANGED <<messages, streamingMessage, errorMessage>>

\* A turn ended by an error or an abort carries an error message.
EndTurn(failed) ==
    /\ Event("turn_end")
    /\ errorMessage' = (errorMessage \/ failed)
    /\ late' = {}
    /\ UNCHANGED <<messages, streamingMessage, pendingToolCalls>>

EndAgent ==
    /\ Event("agent_end")
    /\ streamingMessage' = NoMessage
    /\ UNCHANGED <<messages, pendingToolCalls, errorMessage>>

Announce(type) == Event(type) /\ UNCHANGED agentVars

NoEvent == UNCHANGED <<eventVars, agentVars>>
-----------------------------------------------------------------------------
(* The public methods of Agent *)

Init ==
    /\ messages = <<>> /\ streamingMessage = NoMessage
    /\ pendingToolCalls = {} /\ errorMessage = FALSE
    /\ steeringQueue = <<>> /\ followUpQueue = <<>>
    /\ steeringMode \in QueueModes /\ followUpMode \in QueueModes
    /\ aborted = FALSE /\ pc = "idle"
    /\ context = <<>> /\ newMessages = <<>> /\ inject = <<>>
    /\ skipPoll = FALSE
    /\ turn = 0 /\ execution = "none" /\ batch = <<>> /\ results = <<>>
    /\ orphans = {}
    /\ sent = 0 /\ runs = 0 /\ throws = 0
    /\ base = 0 /\ ended = FALSE /\ afterEnd = {} /\ late = {}

Idle == pc = "idle"

Steer ==
    /\ sent < MaxSent
    /\ sent' = sent + 1
    /\ steeringQueue' = Append(steeringQueue, User(sent + 1, "steer"))
    /\ late' = late \cup {sent + 1}
    /\ UNCHANGED <<agentVars, followUpQueue, modeVars, loopVars, batchVars,
                   eventVars, runs, aborted, pc, turn, orphans, throws, base>>

FollowUp ==
    /\ sent < MaxSent
    /\ sent' = sent + 1
    /\ followUpQueue' = Append(followUpQueue, User(sent + 1, "followUp"))
    /\ late' = late \cup {sent + 1}
    /\ UNCHANGED <<agentVars, steeringQueue, modeVars, loopVars, batchVars,
                   eventVars, runs, aborted, pc, turn, orphans, throws, base>>

\* clearSteeringQueue, clearFollowUpQueue; clearAllQueues is both in turn.
ClearQueue ==
    /\ \/ steeringQueue # <<>> /\ steeringQueue' = <<>>
          /\ UNCHANGED followUpQueue
       \/ followUpQueue # <<>> /\ followUpQueue' = <<>>
          /\ UNCHANGED steeringQueue
    /\ UNCHANGED <<agentVars, modeVars, loopVars, batchVars, eventVars,
                   boundVars, aborted, pc, turn, orphans, throws, base, late>>

SetQueueMode ==
    /\ steeringMode' \in QueueModes /\ followUpMode' \in QueueModes
    /\ modeVars' # modeVars
    /\ UNCHANGED <<agentVars, queueVars, loopVars, batchVars, eventVars,
                   boundVars, aborted, pc, turn, orphans, throws, base, late>>

Abort ==
    /\ ~Idle /\ ~aborted
    /\ aborted' = TRUE
    /\ UNCHANGED <<agentVars, queueVars, modeVars, loopVars, batchVars,
                   eventVars, boundVars, pc, turn, orphans, throws, base, late>>

Reset ==
    /\ Idle
    /\ messages # <<>> \/ steeringQueue # <<>> \/ followUpQueue # <<>>
    /\ messages' = <<>> /\ streamingMessage' = NoMessage
    /\ pendingToolCalls' = {} /\ errorMessage' = FALSE
    /\ steeringQueue' = <<>> /\ followUpQueue' = <<>>
    /\ UNCHANGED <<modeVars, loopVars, batchVars, eventVars, boundVars,
                   aborted, pc, turn, orphans, throws, base, late>>

\* The embedder assigns state.messages without the failed reply (the retry of
\* AgentSession), so that continue() can ask again.
DropFailedReply ==
    /\ Idle /\ messages # <<>>
    /\ LastOf(messages).role = "assistant" /\ LastOf(messages).stop = "error"
    /\ messages' = Front(messages)
    /\ UNCHANGED <<streamingMessage, pendingToolCalls, errorMessage,
                   queueVars, modeVars, loopVars, batchVars, eventVars,
                   boundVars, aborted, pc, turn, orphans, throws, base, late>>

\* runWithLifecycle up to its first await, with the context snapshot.
StartRun(prompts, skip) ==
    /\ Idle /\ runs < MaxRuns
    /\ runs' = runs + 1
    /\ pc' = "agentStart" /\ aborted' = FALSE
    /\ streamingMessage' = NoMessage /\ errorMessage' = FALSE
    /\ context' = messages \o prompts
    /\ newMessages' = prompts /\ inject' = prompts /\ skipPoll' = skip
    /\ base' = Len(messages)
    /\ UNCHANGED <<messages, pendingToolCalls, modeVars, batchVars, eventVars,
                   turn, orphans, throws, late>>

Prompt ==
    /\ sent < MaxSent
    /\ sent' = sent + 1
    /\ StartRun(<<User(sent + 1, "prompt")>>, FALSE)
    /\ UNCHANGED queueVars

ContinueWithSteering ==
    /\ messages # <<>> /\ LastOf(messages).role = "assistant"
    /\ steeringQueue # <<>>
    /\ StartRun(Drained(steeringQueue, steeringMode), TRUE)
    /\ steeringQueue' = Remaining(steeringQueue, steeringMode)
    /\ UNCHANGED <<followUpQueue, sent>>

ContinueWithFollowUp ==
    /\ messages # <<>> /\ LastOf(messages).role = "assistant"
    /\ steeringQueue = <<>> /\ followUpQueue # <<>>
    /\ StartRun(Drained(followUpQueue, followUpMode), FALSE)
    /\ followUpQueue' = Remaining(followUpQueue, followUpMode)
    /\ UNCHANGED <<steeringQueue, sent>>

ContinueTranscript ==
    /\ messages # <<>> /\ LastOf(messages).role # "assistant"
    /\ StartRun(<<>>, FALSE)
    /\ UNCHANGED <<queueVars, sent>>

Embedder ==
    \/ Steer \/ FollowUp \/ ClearQueue \/ SetQueueMode \/ Abort \/ Reset
    \/ DropFailedReply \/ Prompt \/ ContinueWithSteering
    \/ ContinueWithFollowUp \/ ContinueTranscript
-----------------------------------------------------------------------------
(* The agent loop: runAgentLoop, runAgentLoopContinue, runLoop *)

Frame == UNCHANGED <<modeVars, boundVars, aborted, base>>
KeepLocals == UNCHANGED <<loopVars, batchVars>>
Keep == UNCHANGED <<queueVars, turn>>

\* The listeners of the event just reduced settle, or one throws.
Deliver(label) == (Goto(label) /\ KeepLocals) \/ Throw

\* Mutant: a push does not reach the loop's context.
PushNewMessagesOnly(s) ==
    newMessages' = newMessages \o s /\ UNCHANGED context

\* currentContext.messages.push and newMessages.push
Push(s) == context' = context \o s /\ newMessages' = newMessages \o s

EmitAgentStart ==
    /\ pc = "agentStart"
    /\ Announce("agent_start")
    /\ Deliver("firstTurnStart")
    /\ Frame /\ Keep /\ UNCHANGED late

EmitFirstTurnStart ==
    /\ pc = "firstTurnStart"
    /\ Announce("turn_start")
    /\ Deliver(IF inject = <<>> THEN "initialPoll" ELSE "promptStart")
    /\ Frame /\ Keep /\ UNCHANGED late

EmitPromptStart ==
    /\ pc = "promptStart"
    /\ StartMessage(Head(inject))
    /\ Deliver("promptEnd")
    /\ Frame /\ Keep /\ UNCHANGED late

EmitPromptEnd ==
    /\ pc = "promptEnd"
    /\ EndMessage(Head(inject))
    /\ \/ /\ Goto(IF Tail(inject) = <<>> THEN "initialPoll" ELSE "promptStart")
          /\ inject' = Tail(inject)
          /\ UNCHANGED <<context, newMessages, skipPoll, batchVars>>
       \/ Throw
    /\ Frame /\ Keep /\ UNCHANGED late

\* The steering poll before the first turn; the first turn_start is out.
InitialPoll ==
    /\ pc = "initialPoll"
    /\ NoEvent
    /\ skipPoll' = FALSE
    /\ IF skipPoll
       THEN inject' = <<>> /\ UNCHANGED steeringQueue
       ELSE /\ inject' = Drained(steeringQueue, steeringMode)
            /\ steeringQueue' = Remaining(steeringQueue, steeringMode)
    /\ Goto(IF inject' = <<>> THEN "request" ELSE "injectStart")
    /\ Frame
    /\ UNCHANGED <<context, newMessages, batchVars, followUpQueue, turn, late>>

EmitTurnStart ==
    /\ pc = "turnStart"
    /\ Announce("turn_start")
    /\ Deliver(IF inject = <<>> THEN "request" ELSE "injectStart")
    /\ Frame /\ Keep /\ UNCHANGED late

EmitInjectStart ==
    /\ pc = "injectStart"
    /\ StartMessage(Head(inject))
    /\ Deliver("injectEnd")
    /\ Frame /\ Keep /\ UNCHANGED late

EmitInjectEnd ==
    /\ pc = "injectEnd"
    /\ EndMessage(Head(inject))
    /\ \/ /\ Goto(IF Tail(inject) = <<>> THEN "request" ELSE "injectStart")
          /\ inject' = Tail(inject)
          /\ Push(<<Head(inject)>>)
          /\ UNCHANGED <<skipPoll, batchVars>>
       \/ Throw
    /\ Frame /\ Keep /\ UNCHANGED late

\* transformContext, convertToLlm, getApiKey or the stream function throws,
\* outside what their contract allows.
RequestFails ==
    /\ pc = "request"
    /\ NoEvent /\ Throw
    /\ Frame /\ Keep /\ UNCHANGED late

StreamStart ==
    /\ pc = "request"
    /\ turn' = turn + 1
    /\ LET partial == Assistant(turn + 1, "partial", 0) IN
       /\ StartMessage(partial)
       /\ \/ /\ Goto("streaming")
             /\ context' = Append(context, partial)
             /\ UNCHANGED <<newMessages, inject, skipPoll, batchVars>>
          \/ Throw
    /\ Frame /\ UNCHANGED <<queueVars, late>>

\* A stream that ends before a "start" event.
StreamEndsAtOnce ==
    /\ pc = "request"
    /\ turn' = turn + 1
    /\ \E m \in FinalMessages(turn + 1) :
       /\ StartMessage(m)
       /\ \/ /\ Goto("assistantEnd")
             /\ context' = Append(context, m)
             /\ UNCHANGED <<newMessages, inject, skipPoll, batchVars>>
          \/ Throw
    /\ Frame /\ UNCHANGED <<queueVars, late>>

StreamEnds ==
    /\ pc = "streaming"
    /\ NoEvent
    /\ \E m \in FinalMessages(turn) : context' = ReplaceLast(context, m)
    /\ Goto("assistantEnd")
    /\ Frame /\ Keep
    /\ UNCHANGED <<newMessages, inject, skipPoll, batchVars, late>>

\* The stream iterator or a listener of a message_update throws.
StreamThrows ==
    /\ pc = "streaming"
    /\ NoEvent /\ Throw
    /\ Frame /\ Keep /\ UNCHANGED late

\* executeToolCalls: one sequential tool makes the whole batch sequential.
Executions(m) ==
    IF m.calls = 0 THEN {"none"}
    ELSE IF m.stop = "length" THEN {"truncated"}
    ELSE IF ToolExecution = "sequential" THEN {"sequential"}
    ELSE {"sequential", "parallel"}

EmitAssistantEnd ==
    /\ pc = "assistantEnd"
    /\ LET m == LastOf(context) IN
       /\ EndMessage(m)
       /\ \/ /\ Goto(CASE m.stop \in {"error", "aborted"} -> "failedTurnEnd"
                       [] m.stop \notin {"error", "aborted"} /\ m.calls > 0
                            -> "callStart"
                       [] OTHER -> "turnEnd")
             /\ newMessages' = Append(newMessages, m)
             /\ execution' \in Executions(m)
             /\ batch' = <<>> /\ results' = <<>>
             /\ UNCHANGED <<context, inject, skipPoll>>
          \/ Throw
    /\ Frame /\ Keep /\ UNCHANGED late

EmitFailedTurnEnd ==
    /\ pc = "failedTurnEnd"
    /\ EndTurn(TRUE)
    /\ Deliver("agentReturn")
    /\ Frame /\ Keep
-----------------------------------------------------------------------------
(* Tool calls: failToolCallsFromTruncatedMessage, executeToolCallsSequential *)
(* and executeToolCallsParallel                                             *)

Calls == LastOf(context).calls
NextCallId == <<turn, Len(batch) + 1>>
Entry(state, terminate) == [state |-> state, terminate |-> terminate]
Finalize(i, t) == [batch EXCEPT ![i] = Entry("finalized", t)]

EmitToolStart ==
    /\ pc = "callStart"
    /\ StartTool(NextCallId)
    /\ \/ /\ execution = "truncated"
          /\ batch' = Append(batch, Entry("finalized", FALSE))
          /\ Goto("callEnd")
          /\ UNCHANGED <<loopVars, execution, results>>
       \/ /\ execution # "truncated"
          /\ Goto("prepare") /\ KeepLocals
       \/ Throw
    /\ Frame /\ Keep /\ UNCHANGED late

\* prepareToolCall: an unknown tool, invalid arguments, a hook that throws or
\* blocks, or an abort give the result at once; otherwise the call is prepared.
Prepare ==
    /\ pc = "prepare"
    /\ NoEvent
    /\ \/ \E t \in IF aborted THEN {FALSE} ELSE BOOLEAN :
          /\ batch' = Append(batch, Entry("finalized", t))
          /\ Goto("callEnd")
       \/ /\ ~aborted /\ execution = "sequential"
          /\ batch' = Append(batch, Entry("running", FALSE))
          /\ Goto("execute")
       \/ /\ ~aborted /\ execution = "parallel"
          /\ batch' = Append(batch, Entry("prepared", FALSE))
          /\ Goto("nextCall")
    /\ Frame /\ Keep /\ UNCHANGED <<loopVars, execution, results, late>>

\* The tool returns or throws, afterToolCall included; what throws out of here
\* is a listener of a tool_execution_update.
Execute ==
    /\ pc = "execute"
    /\ NoEvent
    /\ \/ /\ \E t \in BOOLEAN : batch' = Finalize(Len(batch), t)
          /\ Goto("callEnd")
          /\ UNCHANGED <<loopVars, execution, results>>
       \/ Throw
    /\ Frame /\ Keep /\ UNCHANGED late

EmitToolEnd ==
    /\ pc = "callEnd"
    /\ EndTool(<<turn, Len(batch)>>)
    /\ Deliver(IF execution = "parallel" THEN "nextCall" ELSE "resultStart")
    /\ Frame /\ Keep /\ UNCHANGED late

NextCall ==
    /\ pc = "nextCall"
    /\ NoEvent
    /\ \/ /\ Len(batch) < Calls /\ (aborted => execution = "truncated")
          /\ Goto("callStart")
          /\ UNCHANGED batch
       \/ /\ Len(batch) = Calls \/ (aborted /\ execution # "truncated")
          /\ IF execution = "parallel"
             THEN /\ batch' = [i \in DOMAIN batch |->
                                 IF batch[i].state = "prepared"
                                 THEN Entry("running", FALSE) ELSE batch[i]]
                  /\ Goto("join")
             ELSE UNCHANGED batch /\ Goto("turnEnd")
    /\ Frame /\ Keep /\ UNCHANGED <<loopVars, execution, results, late>>

\* One execution of Promise.all completes and its tool_execution_end is
\* delivered; its listener may throw.
RunningCallEnds(i) ==
    /\ pc = "join" /\ batch[i].state = "running"
    /\ EndTool(<<turn, i>>)
    /\ \/ /\ \E t \in BOOLEAN : batch' = Finalize(i, t)
          /\ Goto("join")
          /\ UNCHANGED <<loopVars, execution, results>>
       \/ ThrowFrom({<<turn, i>>})
    /\ Frame /\ Keep /\ UNCHANGED late

\* A listener of one of its tool_execution_update events threw.
RunningCallFails(i) ==
    /\ pc = "join" /\ batch[i].state = "running"
    /\ NoEvent /\ ThrowFrom({<<turn, i>>})
    /\ Frame /\ Keep /\ UNCHANGED late

\* Mutant: the executions of a batch that is aborted are not waited for.
JoinedUnlessAborted ==
    /\ pc = "join" /\ ~aborted
    /\ \A i \in DOMAIN batch : batch[i].state = "finalized"
    /\ NoEvent
    /\ Goto("resultStart")
    /\ Frame /\ Keep /\ KeepLocals /\ UNCHANGED late

Joined ==
    /\ pc = "join" /\ \A i \in DOMAIN batch : batch[i].state = "finalized"
    /\ NoEvent
    /\ Goto("resultStart")
    /\ Frame /\ Keep /\ KeepLocals /\ UNCHANGED late

\* Mutant: results come out in the reverse order.
ReversedResult ==
    LET i == Len(batch) - Len(results) IN Result(turn, i, batch[i].terminate)

NextResult ==
    LET i == IF execution = "parallel" THEN Len(results) + 1 ELSE Len(batch)
    IN  Result(turn, i, batch[i].terminate)

EmitResultStart ==
    /\ pc = "resultStart"
    /\ StartMessage(NextResult)
    /\ Deliver("resultEnd")
    /\ Frame /\ Keep /\ UNCHANGED late

EmitResultEnd ==
    /\ pc = "resultEnd"
    /\ EndMessage(NextResult)
    /\ \/ /\ results' = Append(results, NextResult)
          /\ Goto(CASE execution # "parallel" -> "nextCall"
                    [] execution = "parallel" /\ Len(results') < Len(batch)
                         -> "resultStart"
                    [] OTHER -> "turnEnd")
          /\ UNCHANGED <<loopVars, execution, batch>>
       \/ Throw
    /\ Frame /\ Keep /\ UNCHANGED late

\* An execution whose run failed completes later: its event is delivered into
\* whatever run is active; with none processEvents reduces the state and then
\* throws, into the already rejected Promise.all.
OrphanEnds(c) ==
    /\ c \in orphans
    /\ orphans' = orphans \ {c}
    /\ IF Idle
       THEN /\ pendingToolCalls' = pendingToolCalls \ {c}
            /\ UNCHANGED <<messages, streamingMessage, errorMessage, eventVars>>
       ELSE EndTool(c)
    /\ Frame /\ Keep /\ KeepLocals /\ UNCHANGED <<pc, throws, late>>
-----------------------------------------------------------------------------
(* The end of a turn and of the run *)

\* Mutant: every batch ends the agent's work.
NoMoreToolCalls == FALSE

HasMoreToolCalls ==
    /\ batch # <<>>
    /\ execution = "truncated" \/ \E i \in DOMAIN batch : ~batch[i].terminate

EmitTurnEnd ==
    /\ pc = "turnEnd"
    /\ EndTurn(FALSE)
    /\ \/ /\ Goto("afterTurn")
          /\ Push(results)
          /\ UNCHANGED <<inject, skipPoll, batchVars>>
       \/ Throw
    /\ Frame /\ Keep

\* prepareNextTurn keeps the transcript; shouldStopAfterTurn may end the run.
AfterTurn ==
    /\ pc = "afterTurn"
    /\ NoEvent
    /\ Deliver("poll") \/ Deliver("agentReturn")
    /\ Frame /\ Keep /\ UNCHANGED late

PollSteering ==
    /\ pc = "poll"
    /\ NoEvent
    /\ inject' = Drained(steeringQueue, steeringMode)
    /\ steeringQueue' = Remaining(steeringQueue, steeringMode)
    /\ Goto(IF HasMoreToolCalls \/ inject' # <<>>
            THEN "turnStart" ELSE "pollFollowUp")
    /\ Frame
    /\ UNCHANGED <<context, newMessages, skipPoll, batchVars, followUpQueue,
                   turn, late>>

\* Mutant: a drained follow-up does not start another turn.
PollFollowUpsOnce ==
    /\ pc = "pollFollowUp"
    /\ NoEvent
    /\ inject' = Drained(followUpQueue, followUpMode)
    /\ followUpQueue' = Remaining(followUpQueue, followUpMode)
    /\ Goto("agentEnd")
    /\ Frame
    /\ UNCHANGED <<context, newMessages, skipPoll, batchVars, steeringQueue,
                   turn, late>>

PollFollowUps ==
    /\ pc = "pollFollowUp"
    /\ NoEvent
    /\ inject' = Drained(followUpQueue, followUpMode)
    /\ followUpQueue' = Remaining(followUpQueue, followUpMode)
    /\ Goto(IF inject' # <<>> THEN "turnStart" ELSE "agentEnd")
    /\ Frame
    /\ UNCHANGED <<context, newMessages, skipPoll, batchVars, steeringQueue,
                   turn, late>>

\* "agentEnd": both polls came back empty; "agentReturn": an early return.
EmitAgentEnd ==
    /\ pc \in {"agentEnd", "agentReturn"}
    /\ EndAgent
    /\ Deliver("finish")
    /\ Frame /\ Keep /\ UNCHANGED late
-----------------------------------------------------------------------------
(* handleRunFailure and finishRun *)

\* A listener may throw again: the exception leaves runWithLifecycle after
\* its finally block.
DeliverFailure(label) ==
    /\ \/ pc' = label /\ UNCHANGED throws
       \/ throws < MaxThrows /\ throws' = throws + 1 /\ pc' = "finish"
    /\ UNCHANGED <<orphans, loopVars, batchVars>>

EmitFailureStart ==
    /\ pc = "failStart"
    /\ turn' = turn + 1
    /\ StartMessage(Assistant(turn + 1, IF aborted THEN "aborted" ELSE "error",
                              0))
    /\ DeliverFailure("failEnd")
    /\ Frame /\ UNCHANGED <<queueVars, late>>

EmitFailureEnd ==
    /\ pc = "failEnd"
    /\ EndMessage(streamingMessage)
    /\ DeliverFailure("failTurnEnd")
    /\ Frame /\ Keep /\ UNCHANGED late

EmitFailureTurnEnd ==
    /\ pc = "failTurnEnd"
    /\ EndTurn(TRUE)
    /\ DeliverFailure("failAgentEnd")
    /\ Frame /\ Keep

EmitFailureAgentEnd ==
    /\ pc = "failAgentEnd"
    /\ EndAgent
    /\ DeliverFailure("finish")
    /\ Frame /\ Keep /\ UNCHANGED late

FinishRun ==
    /\ pc = "finish"
    /\ pc' = "idle" /\ aborted' = FALSE /\ base' = 0
    /\ streamingMessage' = NoMessage /\ pendingToolCalls' = {}
    /\ DiscardLocals
    /\ UNCHANGED <<messages, errorMessage, queueVars, modeVars, eventVars,
                   boundVars, turn, orphans, throws, late>>
-----------------------------------------------------------------------------
Turn ==
    \/ EmitAgentStart \/ EmitFirstTurnStart \/ EmitPromptStart \/ EmitPromptEnd
    \/ InitialPoll \/ EmitTurnStart \/ EmitInjectStart \/ EmitInjectEnd
    \/ StreamStart \/ StreamEndsAtOnce \/ StreamEnds \/ EmitAssistantEnd
    \/ RequestFails \/ StreamThrows \/ EmitFailedTurnEnd
    \/ EmitTurnEnd \/ AfterTurn \/ PollSteering \/ PollFollowUps \/ EmitAgentEnd

Tools ==
    \/ EmitToolStart \/ Prepare \/ Execute \/ EmitToolEnd \/ NextCall
    \/ \E i \in DOMAIN batch : RunningCallEnds(i) \/ RunningCallFails(i)
    \/ Joined \/ EmitResultStart \/ EmitResultEnd

Failure ==
    \/ EmitFailureStart \/ EmitFailureEnd \/ EmitFailureTurnEnd
    \/ EmitFailureAgentEnd

Run == Turn \/ Tools \/ Failure \/ FinishRun

Next == Embedder \/ Run \/ \E c \in orphans : OrphanEnds(c)

Spec == Init /\ [][Next]_vars

\* The runtime resumes a settled await, and by the contracts of StreamFn and
\* of tools every stream and every execution settles.
FairSpec == Spec /\ WF_vars(Run)
-----------------------------------------------------------------------------
(* Correctness *)

Labels == {"idle", "agentStart", "firstTurnStart", "promptStart", "promptEnd",
           "initialPoll", "turnStart", "injectStart", "injectEnd", "request",
           "streaming", "assistantEnd", "failedTurnEnd", "callStart",
           "prepare", "execute", "callEnd", "nextCall", "join", "resultStart",
           "resultEnd", "turnEnd", "afterTurn", "poll", "pollFollowUp",
           "agentEnd", "agentReturn", "failStart", "failEnd", "failTurnEnd",
           "failAgentEnd", "finish"}
EventTypes == {"agent_start", "turn_start", "message_start", "message_end",
               "tool_execution_start", "tool_execution_end", "turn_end",
               "agent_end"}
CallIds == (Nat \ {0}) \X (Nat \ {0})

Entries == [state : {"prepared", "running", "finalized"}, terminate : BOOLEAN]

AgentTypeOK ==
    /\ messages \in Seq(Messages)
    /\ streamingMessage \in Messages \cup {NoMessage}
    /\ pendingToolCalls \in SUBSET CallIds /\ errorMessage \in BOOLEAN
    /\ ended \in BOOLEAN /\ afterEnd \in SUBSET EventTypes
EmbedderTypeOK ==
    /\ steeringQueue \in Seq(UserMessages) /\ followUpQueue \in Seq(UserMessages)
    /\ steeringMode \in QueueModes /\ followUpMode \in QueueModes
    /\ aborted \in BOOLEAN
LoopTypeOK ==
    /\ pc \in Labels /\ orphans \in SUBSET CallIds
    /\ context \in Seq(Messages) /\ newMessages \in Seq(Messages)
    /\ inject \in Seq(UserMessages) /\ skipPoll \in BOOLEAN
    /\ execution \in {"none", "truncated", "sequential", "parallel"}
    /\ batch \in Seq(Entries) /\ results \in Seq(ResultMessages)
CountTypeOK ==
    /\ turn \in Nat /\ base \in Nat
    /\ sent \in 0..MaxSent /\ runs \in 0..MaxRuns /\ throws \in 0..MaxThrows
    /\ late \in SUBSET (1..MaxSent)

\* The type invariant of the agent's state and of the loop's locals.
TypeOK == AgentTypeOK /\ EmbedderTypeOK /\ LoopTypeOK /\ CountTypeOK

\* Each request is built from the transcript the agent shows: the loop keeps
\* its own currentContext.messages while processEvents keeps state.messages,
\* and the two agree whenever the provider is asked.
ContextMatchesTranscript == pc = "request" => context = messages

\* Tool results follow the assistant message that made the calls, in source
\* order and with no steering message between them, in whatever order the
\* executions of a parallel batch complete.
ToolResultsFollowCalls ==
    \A i \in DOMAIN messages : messages[i].role = "toolResult" =>
        LET r == messages[i] IN
        /\ i > r.call
        /\ LET m == messages[i - r.call] IN
           m.role = "assistant" /\ m.id = r.id /\ r.call <= m.calls
        /\ r.call > 1 => /\ messages[i - 1].role = "toolResult"
                         /\ messages[i - 1].call = r.call - 1

\* Unless the run is being aborted, the provider is never asked again while a
\* call it made in this run has no result.
CallsAnsweredBeforeRequest ==
    pc = "request" /\ ~aborted =>
        \A i \in base + 1..Len(messages) :
            messages[i].role = "assistant" =>
                \A j \in 1..messages[i].calls :
                    /\ i + j <= Len(messages)
                    /\ messages[i + j].role = "toolResult"
                    /\ messages[i + j].id = messages[i].id
                    /\ messages[i + j].call = j

\* The calls of a reply are answered, all of them and in source order, before
\* the provider sees them: a transcript it would otherwise refuse.
CallsAnsweredInOrder == ToolResultsFollowCalls /\ CallsAnsweredBeforeRequest

\* Every message of one queue is delivered once and in the order it was
\* queued, whatever the drain mode and the polls it waited for.
Delivered == messages \o inject
InOrder(s, via) ==
    \A i, j \in DOMAIN s :
        i < j /\ s[i].role = "user" /\ s[j].role = "user"
        /\ s[i].via = via /\ s[j].via = via => s[i].id < s[j].id
QueuesAreFifo ==
    /\ InOrder(Delivered \o steeringQueue, "steer")
    /\ InOrder(Delivered \o followUpQueue, "followUp")

\* A queued or prompted message leaves the agent only by an explicit clear or
\* reset, or with a run that throws after draining it.
Held(s) == {s[i].id : i \in {j \in DOMAIN s : s[j].role = "user"}}
HeldMessages ==
    Held(steeringQueue) \cup Held(followUpQueue) \cup Held(Delivered)
NoSilentLoss ==
    [][HeldMessages \subseteq HeldMessages'
       \/ ClearQueue \/ Reset \/ throws' > throws]_vars

\* When the loop ends because both polls came back empty, what is still
\* queued was queued after the last turn ended.
NothingOverlooked ==
    pc = "agentEnd" =>
        Held(steeringQueue) \cup Held(followUpQueue) \subseteq late

\* The loop injects a follow-up only where the agent would otherwise stop:
\* after a reply that leaves nothing to do, or after another follow-up.
FollowUpsWaitForStop ==
    pc = "injectStart" /\ Head(inject).via = "followUp" =>
        LET m == LastOf(messages) IN
        \/ m.role = "user" /\ m.via = "followUp"
        \/ m.role = "assistant" /\ m.calls = 0
        \/ m.role = "toolResult" /\ m.terminate

\* The calls shown as pending are calls of a reply, and whenever no batch is in
\* progress there is none, also when an earlier run failed with executions
\* still under way.
NoStalePendingCalls ==
    /\ TypeOK
    /\ pc \in {"idle", "turnStart", "request", "turnEnd", "agentEnd"} =>
         pendingToolCalls = {}

\* An aborted run settles.
AbortSettles == aborted ~> Idle

\* processEvents: agent_end means no further loop events will be emitted.
NoToolEventAfterAgentEnd == "tool_execution_end" \notin afterEnd
=============================================================================

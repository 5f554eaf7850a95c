---------------------------- MODULE AgentProofs -----------------------------
(***************************************************************************)
(* Safety theorems about Agent, for every value of its constants.  Each    *)
(* rests on an inductive invariant over TypedShape, a conjunction          *)
(* of named parts:                                                         *)
(*   PendingCallsOpen  what a pending call is at every suspension point    *)
(*   ContextInStep     the loop's context against the transcript           *)
(*   Holding           where messages wait for injection, and the reply    *)
(*   QueuesInOrder     the queues against what was delivered of them       *)
(*   PollsCover        what the polls at the end of a turn have seen       *)
(*   InjectionsFit     what is injected, and after which message           *)
(*   BatchShape        calls reached and results emitted of a batch        *)
(*   RepliesAnswered   results against the replies that made the calls     *)
(***************************************************************************)
EXTENDS Agent, SequenceTheorems, TLAPS

-----------------------------------------------------------------------------
(* Where a run is suspended, and what that says about its locals *)

PromptLabels == {"agentStart", "firstTurnStart", "promptStart", "promptEnd"}
InjectLabels == {"initialPoll", "turnStart", "injectStart", "injectEnd"}
StreamLabels == {"streaming", "assistantEnd"}
CallLabels == {"callStart", "prepare", "execute", "callEnd", "nextCall",
               "join"}
ResultLabels == {"resultStart", "resultEnd"}
BatchLabels == CallLabels \cup ResultLabels \cup {"turnEnd"}
TailLabels == {"afterTurn", "poll", "pollFollowUp", "agentEnd",
               "failedTurnEnd", "agentReturn"}
FailLabels == {"failStart", "failEnd", "failTurnEnd", "failAgentEnd"}

\* What the suspension point says about the loop's locals.
Shape ==
    /\ pc \in {"promptStart", "promptEnd", "injectStart", "injectEnd"}
         => inject # <<>>
    /\ pc \in StreamLabels => context # <<>>
    /\ pc \in StreamLabels \cup BatchLabels \/ batch # <<>> => turn > 0
    /\ pc \in {"execute", "callEnd", "nextCall", "join"} \cup ResultLabels
         => batch # <<>>
    /\ pc \in CallLabels /\ execution = "parallel" => results = <<>>
    /\ pc \in ResultLabels /\ execution = "parallel"
         => Len(results) < Len(batch)
    /\ pc = "failEnd" => streamingMessage \in Messages

-----------------------------------------------------------------------------
(* Messages are what their constructors build *)

LEMMA UserTyping ==
    ASSUME NEW n \in 1..MaxSent, NEW via \in Vias
    PROVE  User(n, via) \in UserMessages
BY DEF User, UserMessages

LEMMA AssistantTyping ==
    ASSUME NEW n \in Nat \ {0}, NEW stop \in StopReasons, NEW k \in Nat
    PROVE  Assistant(n, stop, k) \in Messages
BY DEF Assistant, AssistantMessages, Messages

LEMMA ResultTyping ==
    ASSUME NEW n \in Nat \ {0}, NEW i \in Nat \ {0}, NEW t \in BOOLEAN
    PROVE  Result(n, i, t) \in ResultMessages
BY DEF Result, ResultMessages

LEMMA MessageKinds ==
    /\ UserMessages \subseteq Messages
    /\ ResultMessages \subseteq Messages
BY DEF Messages

LEMMA FinalTyping ==
    ASSUME NEW n \in Nat \ {0}
    PROVE  FinalMessages(n) \subseteq Messages
BY AssistantTyping, BoundsAssumption DEF FinalMessages, StopReasons

LEMMA DrainTyping ==
    ASSUME NEW q \in Seq(UserMessages), NEW mode \in {"all", "one-at-a-time"}
    PROVE  /\ Drained(q, mode) \in Seq(UserMessages)
           /\ Remaining(q, mode) \in Seq(UserMessages)
           /\ q # <<>> => Drained(q, mode) # <<>>
BY DEF Drained, Remaining

LEMMA ConcatTyping ==
    /\ \A s \in Seq(Messages), t \in Seq(UserMessages) : s \o t \in Seq(Messages)
    /\ \A s \in Seq(Messages), t \in Seq(ResultMessages) :
          s \o t \in Seq(Messages)
    /\ Seq(UserMessages) \subseteq Seq(Messages)
<1>1. Seq(UserMessages) \subseteq Seq(Messages)
  BY MessageKinds, SeqMonotonic
<1>2. Seq(ResultMessages) \subseteq Seq(Messages)
  BY MessageKinds, SeqMonotonic
<1> QED
  BY <1>1, <1>2, ConcatProperties

LEMMA EmptyTyping ==
    /\ <<>> \in Seq(UserMessages) /\ <<>> \in Seq(Messages)
    /\ <<>> \in Seq(ResultMessages) /\ <<>> \in Seq(Entries)
BY EmptySeq

LEMMA FrontTyping ==
    ASSUME NEW s \in Seq(Messages), s # <<>>
    PROVE  Front(s) \in Seq(Messages)
BY SubSeqProperties, LenProperties, ElementOfSeq, EmptySeq DEF Front
-----------------------------------------------------------------------------
(* Type correctness *)

TypedShape == TypeOK /\ Shape

LEMMA HeadTyping ==
    ASSUME NEW s \in Seq(UserMessages), s # <<>>
    PROVE  Head(s) \in Messages /\ Tail(s) \in Seq(UserMessages)
BY HeadTailProperties, MessageKinds

LEMMA LastTyping ==
    ASSUME NEW s \in Seq(Messages), s # <<>>
    PROVE  LastOf(s) \in Messages
BY LenProperties, ElementOfSeq, EmptySeq DEF LastOf

LEMMA ReplaceTyping ==
    ASSUME NEW s \in Seq(Messages), s # <<>>, NEW m \in Messages
    PROVE  ReplaceLast(s, m) \in Seq(Messages) /\ ReplaceLast(s, m) # <<>>
BY LenProperties, ExceptSeq, EmptySeq DEF ReplaceLast

LEMMA EntryTyping ==
    ASSUME NEW state \in {"prepared", "running", "finalized"},
           NEW t \in BOOLEAN
    PROVE  Entry(state, t) \in Entries
BY DEF Entry, Entries

LEMMA RunningTyping == TypedShape => RunningCalls \subseteq CallIds
BY LenProperties, EmptySeq
   DEF TypedShape, TypeOK, LoopTypeOK, CountTypeOK, Shape, RunningCalls, CallIds

LEMMA InitTyped == Init => TypedShape
<1> SUFFICES ASSUME Init PROVE TypedShape
  OBVIOUS
<1>1. AgentTypeOK
  BY EmptyTyping DEF Init, AgentTypeOK
<1>2. EmbedderTypeOK
  BY ModesAssumption, EmptyTyping DEF Init, EmbedderTypeOK
<1>3. LoopTypeOK
  BY EmptyTyping DEF Init, LoopTypeOK, Labels
<1>4. CountTypeOK
  BY BoundsAssumption DEF Init, CountTypeOK
<1>5. Shape
  BY DEF Init, Shape, StreamLabels, BatchLabels, CallLabels, ResultLabels
<1> QED
  BY <1>1, <1>2, <1>3, <1>4, <1>5 DEF TypedShape, TypeOK

\* What processEvents reduces stays typed, event by event.
LEMMA StartMessageTyped ==
    ASSUME AgentTypeOK, NEW m \in Messages, StartMessage(m)
    PROVE  AgentTypeOK'
BY DEF AgentTypeOK, StartMessage, Event, EventTypes

LEMMA EndMessageTyped ==
    ASSUME AgentTypeOK, NEW m \in Messages, EndMessage(m)
    PROVE  AgentTypeOK'
BY DEF AgentTypeOK, EndMessage, Event, EventTypes

LEMMA StartToolTyped ==
    ASSUME AgentTypeOK, NEW c \in CallIds, StartTool(c)
    PROVE  AgentTypeOK'
BY DEF AgentTypeOK, StartTool, Event, EventTypes

LEMMA EndToolTyped ==
    ASSUME AgentTypeOK, NEW c, EndTool(c)
    PROVE  AgentTypeOK'
BY DEF AgentTypeOK, EndTool, Event, EventTypes

LEMMA EndTurnTyped ==
    ASSUME AgentTypeOK, NEW failed \in BOOLEAN, EndTurn(failed)
    PROVE  AgentTypeOK'
BY DEF AgentTypeOK, EndTurn, Event, EventTypes

LEMMA EndAgentTyped ==
    ASSUME AgentTypeOK, EndAgent
    PROVE  AgentTypeOK'
BY DEF AgentTypeOK, EndAgent, Event, EventTypes

LEMMA AnnounceTyped ==
    ASSUME AgentTypeOK, NEW type \in EventTypes, Announce(type)
    PROVE  AgentTypeOK'
BY DEF AgentTypeOK, Announce, Event, agentVars

LEMMA NoEventTyped ==
    ASSUME AgentTypeOK, NoEvent
    PROVE  AgentTypeOK'
BY DEF AgentTypeOK, NoEvent, agentVars, eventVars

\* An exception leaves no locals behind, wherever it is thrown.
LEMMA ThrowTyped ==
    ASSUME TypedShape, NEW calls, ThrowFrom(calls)
    PROVE  /\ LoopTypeOK' /\ Shape'
           /\ throws' \in 0..MaxThrows /\ pc' = "failStart"
<1>1. pc' = "failStart" /\ orphans' \in SUBSET CallIds
  BY RunningTyping DEF ThrowFrom, TypedShape, TypeOK, LoopTypeOK
<1>2. /\ context' = <<>> /\ newMessages' = <<>> /\ inject' = <<>>
      /\ skipPoll' = FALSE /\ execution' = "none" /\ batch' = <<>>
      /\ results' = <<>>
  BY DEF ThrowFrom, DiscardLocals
<1>3. LoopTypeOK'
  BY <1>1, <1>2, EmptyTyping DEF LoopTypeOK, Labels
<1>4. Shape'
  BY <1>1, <1>2 DEF Shape, StreamLabels, BatchLabels, CallLabels, ResultLabels
<1>5. throws' \in 0..MaxThrows
  BY BoundsAssumption DEF ThrowFrom, TypedShape, TypeOK, CountTypeOK
<1> QED
  BY <1>1, <1>3, <1>4, <1>5

LEMMA DeliverTyped ==
    ASSUME TypedShape, NEW label \in Labels, Deliver(label)
    PROVE  /\ LoopTypeOK' /\ throws' \in 0..MaxThrows
           /\ pc' # label => Shape'
           /\ pc' = label => UNCHANGED <<context, inject, batch, results, execution>>
                             \/ label = "failStart"
<1>1. CASE Throw
  BY <1>1, ThrowTyped DEF Throw
<1>2. CASE Goto(label) /\ KeepLocals
  <2>1. UNCHANGED <<context, newMessages, inject, skipPoll, execution, batch,
                    results, orphans, throws>> /\ pc' = label
    BY <1>2 DEF Goto, KeepLocals, loopVars, batchVars
  <2>2. LoopTypeOK'
    BY <2>1 DEF TypedShape, TypeOK, LoopTypeOK
  <2>3. throws' \in 0..MaxThrows
    BY <2>1 DEF TypedShape, TypeOK, CountTypeOK
  <2> QED
    BY <2>1, <2>2, <2>3
<1> QED
  BY <1>1, <1>2 DEF Deliver

LEMMA FailureDelivered ==
    ASSUME TypedShape, NEW label \in Labels, DeliverFailure(label)
    PROVE  /\ LoopTypeOK' /\ throws' \in 0..MaxThrows
           /\ pc' \in {label, "finish"}
           /\ UNCHANGED <<context, inject, batch, results, execution>>
<1>1. pc' \in {label, "finish"}
  BY DEF DeliverFailure
<1>2. UNCHANGED <<context, newMessages, inject, skipPoll, execution, batch,
                  results, orphans>>
  BY DEF DeliverFailure, loopVars, batchVars
<1>3. LoopTypeOK'
  BY <1>1, <1>2 DEF TypedShape, TypeOK, LoopTypeOK, Labels
<1>4. throws' \in 0..MaxThrows
  BY BoundsAssumption DEF DeliverFailure, TypedShape, TypeOK, CountTypeOK
<1> QED
  BY <1>1, <1>2, <1>3, <1>4

LEMMA FrameTyped ==
    ASSUME EmbedderTypeOK, Frame, UNCHANGED queueVars
    PROVE  EmbedderTypeOK'
BY DEF EmbedderTypeOK, Frame, queueVars, modeVars

LEMMA CountTyped ==
    ASSUME CountTypeOK, Frame, turn' \in Nat, throws' \in 0..MaxThrows,
           late' \in SUBSET (1..MaxSent)
    PROVE  CountTypeOK'
BY DEF CountTypeOK, Frame, boundVars

LEMMA AppendTyping ==
    ASSUME NEW s \in Seq(Messages), NEW m \in Messages
    PROVE  Append(s, m) \in Seq(Messages) /\ Append(s, m) # <<>>
BY AppendProperties

LEMMA PushTyping ==
    /\ \A s \in Seq(Messages), t \in Seq(ResultMessages) :
          s \o t \in Seq(Messages)
    /\ \A s \in Seq(Messages), m \in Messages : s \o <<m>> \in Seq(Messages)
<1>1. \A m \in Messages : <<m>> \in Seq(Messages)
  OBVIOUS
<1> QED
  BY <1>1, ConcatTyping, ConcatProperties

LEMMA AppendEntryTyping ==
    ASSUME NEW s \in Seq(Entries), NEW e \in Entries
    PROVE  Append(s, e) \in Seq(Entries) /\ Append(s, e) # <<>>
BY AppendProperties

LEMMA AppendResultTyping ==
    ASSUME NEW s \in Seq(ResultMessages), NEW r \in ResultMessages
    PROVE  /\ Append(s, r) \in Seq(ResultMessages)
           /\ Len(Append(s, r)) = Len(s) + 1
BY AppendProperties

LEMMA FinalizeTyping ==
    ASSUME LoopTypeOK, NEW i \in DOMAIN batch, NEW t \in BOOLEAN
    PROVE  Finalize(i, t) \in Seq(Entries) /\ Finalize(i, t) # <<>>
<1>1. i \in 1..Len(batch) /\ batch # <<>>
  BY LenProperties, EmptySeq DEF LoopTypeOK
<1> QED
  BY <1>1, EntryTyping, ExceptSeq, EmptySeq, LenProperties
  DEF Finalize, LoopTypeOK

LEMMA LastEntryTyping ==
    ASSUME LoopTypeOK, batch # <<>>
    PROVE  Len(batch) \in DOMAIN batch
BY LenProperties, EmptySeq DEF LoopTypeOK

LEMMA NextCallTyping ==
    ASSUME TypedShape, pc = "callStart"
    PROVE  NextCallId \in CallIds
BY LenProperties
   DEF TypedShape, TypeOK, LoopTypeOK, CountTypeOK, Shape, BatchLabels,
       CallLabels, NextCallId, CallIds

LEMMA NextResultTyping ==
    ASSUME TypedShape, pc \in ResultLabels
    PROVE  NextResult \in ResultMessages
<1> DEFINE i == IF execution = "parallel" THEN Len(results) + 1 ELSE Len(batch)
<1>1. i \in 1..Len(batch) /\ turn \in Nat \ {0}
  BY LenProperties, EmptySeq
  DEF TypedShape, TypeOK, LoopTypeOK, CountTypeOK, Shape, ResultLabels,
      BatchLabels
<1>2. batch[i] \in Entries
  BY <1>1, ElementOfSeq DEF TypedShape, TypeOK, LoopTypeOK
<1>3. batch[i].terminate \in BOOLEAN
  BY <1>2 DEF Entries
<1>4. i \in Nat \ {0}
  BY <1>1, LenProperties DEF TypedShape, TypeOK, LoopTypeOK
<1> HIDE DEF i
<1>5. Result(turn, i, batch[i].terminate) \in ResultMessages
  BY <1>1, <1>3, <1>4, ResultTyping
<1> QED
  BY <1>5 DEF NextResult, i

\* What NextCall turns a fully prepared batch into.
Started ==
    [i \in DOMAIN batch |-> IF batch[i].state = "prepared"
                            THEN Entry("running", FALSE) ELSE batch[i]]

LEMMA StartedTyping ==
    ASSUME LoopTypeOK
    PROVE  Started \in Seq(Entries) /\ (batch # <<>> => Started # <<>>)
<1>1. DOMAIN batch = 1..Len(batch) /\ Len(batch) \in Nat
  BY LenProperties DEF LoopTypeOK
<1>2. Started \in [1..Len(batch) -> Entries]
  BY <1>1, ElementOfSeq, EntryTyping DEF Started, LoopTypeOK
<1>3. Started \in Seq(Entries) /\ DOMAIN Started = DOMAIN batch
  BY <1>1, <1>2, SeqDef
<1> QED
  BY <1>1, <1>3, EmptySeq, LenProperties DEF LoopTypeOK

LEMMA TurnTyped == TypedShape /\ Turn => TypedShape'
<1> SUFFICES ASSUME TypedShape, Turn PROVE TypedShape'
  OBVIOUS
<1> USE DEF TypedShape, TypeOK
<1>1. CASE EmitAgentStart
  <2>1. AgentTypeOK'
    BY <1>1, AnnounceTyped DEF EmitAgentStart, EventTypes
  <2>2. EmbedderTypeOK'
    BY <1>1, FrameTyped DEF EmitAgentStart, Keep
  <2>3. LoopTypeOK' /\ throws' \in 0..MaxThrows
    BY <1>1, DeliverTyped DEF EmitAgentStart, Labels
  <2>4. Shape'
    BY <1>1, DeliverTyped
    DEF EmitAgentStart, Labels, Keep, Shape, StreamLabels, BatchLabels,
        CallLabels, ResultLabels
  <2>5. CountTypeOK'
    BY <1>1, <2>3, CountTyped DEF EmitAgentStart, Keep, CountTypeOK
  <2> QED
    BY <2>1, <2>2, <2>3, <2>4, <2>5
<1>2. CASE EmitFirstTurnStart
  <2>1. AgentTypeOK'
    BY <1>2, AnnounceTyped DEF EmitFirstTurnStart, EventTypes
  <2>2. EmbedderTypeOK'
    BY <1>2, FrameTyped DEF EmitFirstTurnStart, Keep
  <2>3. LoopTypeOK' /\ throws' \in 0..MaxThrows
    BY <1>2, DeliverTyped DEF EmitFirstTurnStart, Labels
  <2>4. Shape'
    BY <1>2, DeliverTyped
    DEF EmitFirstTurnStart, Labels, Keep, Shape, StreamLabels, BatchLabels,
        CallLabels, ResultLabels
  <2>5. CountTypeOK'
    BY <1>2, <2>3, CountTyped DEF EmitFirstTurnStart, Keep, CountTypeOK
  <2> QED
    BY <2>1, <2>2, <2>3, <2>4, <2>5
<1>3. CASE EmitPromptStart
  <2>1. AgentTypeOK'
    BY <1>3, StartMessageTyped, HeadTyping
    DEF EmitPromptStart, LoopTypeOK, Shape
  <2>2. EmbedderTypeOK'
    BY <1>3, FrameTyped DEF EmitPromptStart, Keep
  <2>3. LoopTypeOK' /\ throws' \in 0..MaxThrows
    BY <1>3, DeliverTyped DEF EmitPromptStart, Labels
  <2>4. Shape'
    BY <1>3, DeliverTyped
    DEF EmitPromptStart, Labels, Keep, Shape, StreamLabels, BatchLabels,
        CallLabels, ResultLabels
  <2>5. CountTypeOK'
    BY <1>3, <2>3, CountTyped DEF EmitPromptStart, Keep, CountTypeOK
  <2> QED
    BY <2>1, <2>2, <2>3, <2>4, <2>5
<1>4. CASE EmitPromptEnd
  <2>1. AgentTypeOK'
    BY <1>4, EndMessageTyped, HeadTyping DEF EmitPromptEnd, LoopTypeOK, Shape
  <2>2. EmbedderTypeOK'
    BY <1>4, FrameTyped DEF EmitPromptEnd, Keep
  <2>3. ~Throw => LoopTypeOK'
    BY <1>4, HeadTyping
    DEF EmitPromptEnd, Goto, Labels, LoopTypeOK, loopVars, batchVars, Shape
  <2>4. ~Throw => Shape'
    BY <1>4, HeadTyping
    DEF EmitPromptEnd, Goto, Keep, LoopTypeOK, loopVars, batchVars, Shape,
        StreamLabels, BatchLabels, CallLabels, ResultLabels
  <2>5. throws' \in 0..MaxThrows
    BY <1>4, ThrowTyped DEF EmitPromptEnd, Throw, Goto, CountTypeOK
  <2>6. CountTypeOK'
    BY <1>4, <2>5, CountTyped DEF EmitPromptEnd, Keep, CountTypeOK
  <2> QED
    BY <2>1, <2>2, <2>3, <2>4, <2>5, <2>6, ThrowTyped DEF Throw
<1>5. CASE InitialPoll
  <2>1. AgentTypeOK'
    BY <1>5, NoEventTyped DEF InitialPoll
  <2>2. EmbedderTypeOK'
    BY <1>5, DrainTyping, ModesAssumption
    DEF InitialPoll, Frame, modeVars, EmbedderTypeOK
  <2>3. LoopTypeOK'
    BY <1>5, DrainTyping, EmptyTyping, ModesAssumption
    DEF InitialPoll, Goto, Labels, LoopTypeOK, loopVars, batchVars,
        EmbedderTypeOK
  <2>4. Shape'
    BY <1>5, DrainTyping, EmptyTyping, ModesAssumption
    DEF InitialPoll, Goto, Keep, loopVars, batchVars, LoopTypeOK, Shape,
        StreamLabels, BatchLabels, CallLabels, ResultLabels, EmbedderTypeOK
  <2>5. throws' \in 0..MaxThrows
    BY <1>5 DEF InitialPoll, Goto, CountTypeOK
  <2>6. CountTypeOK'
    BY <1>5, <2>5, CountTyped DEF InitialPoll, Keep, CountTypeOK
  <2> QED
    BY <2>1, <2>2, <2>3, <2>4, <2>5, <2>6
<1>6. CASE EmitTurnStart
  <2>1. AgentTypeOK'
    BY <1>6, AnnounceTyped DEF EmitTurnStart, EventTypes
  <2>2. EmbedderTypeOK'
    BY <1>6, FrameTyped DEF EmitTurnStart, Keep
  <2>3. LoopTypeOK' /\ throws' \in 0..MaxThrows
    BY <1>6, DeliverTyped DEF EmitTurnStart, Labels
  <2>4. Shape'
    BY <1>6, DeliverTyped
    DEF EmitTurnStart, Labels, Keep, Shape, StreamLabels, BatchLabels,
        CallLabels, ResultLabels
  <2>5. CountTypeOK'
    BY <1>6, <2>3, CountTyped DEF EmitTurnStart, Keep, CountTypeOK
  <2> QED
    BY <2>1, <2>2, <2>3, <2>4, <2>5
<1>7. CASE EmitInjectStart
  <2>1. AgentTypeOK'
    BY <1>7, StartMessageTyped, HeadTyping
    DEF EmitInjectStart, LoopTypeOK, Shape
  <2>2. EmbedderTypeOK'
    BY <1>7, FrameTyped DEF EmitInjectStart, Keep
  <2>3. LoopTypeOK' /\ throws' \in 0..MaxThrows
    BY <1>7, DeliverTyped DEF EmitInjectStart, Labels
  <2>4. Shape'
    BY <1>7, DeliverTyped
    DEF EmitInjectStart, Labels, Keep, Shape, StreamLabels, BatchLabels,
        CallLabels, ResultLabels
  <2>5. CountTypeOK'
    BY <1>7, <2>3, CountTyped DEF EmitInjectStart, Keep, CountTypeOK
  <2> QED
    BY <2>1, <2>2, <2>3, <2>4, <2>5
<1>8. CASE EmitInjectEnd
  <2>1. AgentTypeOK'
    BY <1>8, EndMessageTyped, HeadTyping DEF EmitInjectEnd, LoopTypeOK, Shape
  <2>2. EmbedderTypeOK'
    BY <1>8, FrameTyped DEF EmitInjectEnd, Keep
  <2>3. ~Throw => LoopTypeOK'
    BY <1>8, HeadTyping, PushTyping
    DEF EmitInjectEnd, Goto, Labels, LoopTypeOK, loopVars, batchVars, Push,
        Shape
  <2>4. ~Throw => Shape'
    BY <1>8, HeadTyping, PushTyping
    DEF EmitInjectEnd, Goto, Keep, LoopTypeOK, loopVars, batchVars, Shape,
        StreamLabels, BatchLabels, CallLabels, ResultLabels, Push
  <2>5. throws' \in 0..MaxThrows
    BY <1>8, ThrowTyped DEF EmitInjectEnd, Throw, Goto, CountTypeOK
  <2>6. CountTypeOK'
    BY <1>8, <2>5, CountTyped DEF EmitInjectEnd, Keep, CountTypeOK
  <2> QED
    BY <2>1, <2>2, <2>3, <2>4, <2>5, <2>6, ThrowTyped DEF Throw
<1>9. CASE RequestFails
  <2>1. AgentTypeOK'
    BY <1>9, NoEventTyped DEF RequestFails
  <2>2. EmbedderTypeOK'
    BY <1>9, FrameTyped DEF RequestFails, Keep
  <2>3. LoopTypeOK' /\ Shape' /\ throws' \in 0..MaxThrows
    BY <1>9, ThrowTyped DEF RequestFails, Throw
  <2>4. CountTypeOK'
    BY <1>9, <2>3, CountTyped DEF RequestFails, Keep, CountTypeOK
  <2> QED
    BY <2>1, <2>2, <2>3, <2>4
<1>10. CASE StreamStart
  <2>1. AgentTypeOK'
    BY <1>10, StartMessageTyped, AssistantTyping
    DEF StreamStart, CountTypeOK, StopReasons
  <2>2. EmbedderTypeOK'
    BY <1>10, FrameTyped DEF StreamStart
  <2>3. ~Throw => LoopTypeOK'
    <3>1. turn + 1 \in Nat \ {0}
      BY DEF CountTypeOK
    <3>2. Append(context, Assistant(turn + 1, "partial", 0)) \in Seq(Messages)
      BY <3>1, AssistantTyping, AppendTyping DEF LoopTypeOK, StopReasons
    <3> QED
      BY <1>10, <3>2 DEF StreamStart, Goto, Labels, LoopTypeOK, batchVars
  <2>4. ~Throw => Shape'
    BY SMTT(40), <1>10, AssistantTyping, AppendTyping
    DEF StreamStart, Goto, Keep, LoopTypeOK, loopVars, batchVars, Shape,
        StreamLabels, BatchLabels, CallLabels, ResultLabels, CountTypeOK,
        StopReasons
  <2>5. throws' \in 0..MaxThrows
    BY <1>10, ThrowTyped DEF StreamStart, Throw, Goto, CountTypeOK
  <2>6. CountTypeOK'
    BY <1>10, <2>5, CountTyped DEF StreamStart, CountTypeOK
  <2> QED
    BY <2>1, <2>2, <2>3, <2>4, <2>5, <2>6, ThrowTyped DEF Throw
<1>11. CASE StreamEndsAtOnce
  <2>1. AgentTypeOK'
    BY <1>11, StartMessageTyped, FinalTyping DEF StreamEndsAtOnce, CountTypeOK
  <2>2. EmbedderTypeOK'
    BY <1>11, FrameTyped DEF StreamEndsAtOnce
  <2>3. ~Throw => LoopTypeOK'
    <3>1. turn + 1 \in Nat \ {0}
      BY DEF CountTypeOK
    <3>2. \A m \in FinalMessages(turn + 1) : Append(context, m) \in Seq(Messages)
      BY <3>1, FinalTyping, AppendTyping DEF LoopTypeOK
    <3> QED
      BY <1>11, <3>2 DEF StreamEndsAtOnce, Goto, Labels, LoopTypeOK, batchVars
  <2>4. ~Throw => Shape'
    BY SMTT(40), <1>11, FinalTyping, AppendTyping
    DEF StreamEndsAtOnce, Goto, Keep, LoopTypeOK, loopVars, batchVars, Shape,
        StreamLabels, BatchLabels, CallLabels, ResultLabels, CountTypeOK
  <2>5. throws' \in 0..MaxThrows
    BY <1>11, ThrowTyped DEF StreamEndsAtOnce, Throw, Goto, CountTypeOK
  <2>6. CountTypeOK'
    BY <1>11, <2>5, CountTyped DEF StreamEndsAtOnce, CountTypeOK
  <2> QED
    BY <2>1, <2>2, <2>3, <2>4, <2>5, <2>6, ThrowTyped DEF Throw
<1>12. CASE StreamEnds
  <2>1. AgentTypeOK'
    BY <1>12, NoEventTyped DEF StreamEnds
  <2>2. EmbedderTypeOK'
    BY <1>12, FrameTyped DEF StreamEnds, Keep
  <2>3. LoopTypeOK'
    BY <1>12, FinalTyping, ReplaceTyping
    DEF StreamEnds, Goto, Labels, LoopTypeOK, loopVars, batchVars, CountTypeOK,
        Shape, StreamLabels
  <2>4. Shape'
    BY <1>12, FinalTyping, ReplaceTyping
    DEF StreamEnds, Goto, Keep, loopVars, batchVars, LoopTypeOK, Shape,
        StreamLabels, BatchLabels, CallLabels, ResultLabels, CountTypeOK,
        Shape, StreamLabels
  <2>5. throws' \in 0..MaxThrows
    BY <1>12 DEF StreamEnds, Goto, CountTypeOK
  <2>6. CountTypeOK'
    BY <1>12, <2>5, CountTyped DEF StreamEnds, Keep, CountTypeOK
  <2> QED
    BY <2>1, <2>2, <2>3, <2>4, <2>5, <2>6
<1>13. CASE StreamThrows
  <2>1. AgentTypeOK'
    BY <1>13, NoEventTyped DEF StreamThrows
  <2>2. EmbedderTypeOK'
    BY <1>13, FrameTyped DEF StreamThrows, Keep
  <2>3. LoopTypeOK' /\ Shape' /\ throws' \in 0..MaxThrows
    BY <1>13, ThrowTyped DEF StreamThrows, Throw
  <2>4. CountTypeOK'
    BY <1>13, <2>3, CountTyped DEF StreamThrows, Keep, CountTypeOK
  <2> QED
    BY <2>1, <2>2, <2>3, <2>4
<1>14. CASE EmitAssistantEnd
  <2>1. AgentTypeOK'
    BY <1>14, EndMessageTyped, LastTyping
    DEF EmitAssistantEnd, LoopTypeOK, Shape, StreamLabels
  <2>2. EmbedderTypeOK'
    BY <1>14, FrameTyped DEF EmitAssistantEnd, Keep
  <2>3. ~Throw => LoopTypeOK'
    BY <1>14, LastTyping, AppendTyping, EmptyTyping
    DEF EmitAssistantEnd, Goto, Labels, LoopTypeOK, loopVars, batchVars, Shape,
        StreamLabels, Executions
  <2>4. ~Throw => Shape'
    BY <1>14, LastTyping, AppendTyping, EmptyTyping
    DEF EmitAssistantEnd, Goto, Keep, LoopTypeOK, loopVars, batchVars, Shape,
        StreamLabels, BatchLabels, CallLabels, ResultLabels, Executions
  <2>5. throws' \in 0..MaxThrows
    BY <1>14, ThrowTyped DEF EmitAssistantEnd, Throw, Goto, CountTypeOK
  <2>6. CountTypeOK'
    BY <1>14, <2>5, CountTyped DEF EmitAssistantEnd, Keep, CountTypeOK
  <2> QED
    BY <2>1, <2>2, <2>3, <2>4, <2>5, <2>6, ThrowTyped DEF Throw
<1>15. CASE EmitFailedTurnEnd
  <2>1. AgentTypeOK'
    BY <1>15, EndTurnTyped DEF EmitFailedTurnEnd
  <2>2. EmbedderTypeOK'
    BY <1>15, FrameTyped DEF EmitFailedTurnEnd, Keep
  <2>3. LoopTypeOK' /\ throws' \in 0..MaxThrows
    BY <1>15, DeliverTyped DEF EmitFailedTurnEnd, Labels
  <2>4. Shape'
    BY <1>15, DeliverTyped
    DEF EmitFailedTurnEnd, Labels, Keep, Shape, StreamLabels, BatchLabels,
        CallLabels, ResultLabels
  <2>5. CountTypeOK'
    BY <1>15, <2>3, CountTyped
    DEF EmitFailedTurnEnd, Keep, CountTypeOK, EndTurn
  <2> QED
    BY <2>1, <2>2, <2>3, <2>4, <2>5
<1>16. CASE EmitTurnEnd
  <2>1. AgentTypeOK'
    BY <1>16, EndTurnTyped DEF EmitTurnEnd
  <2>2. EmbedderTypeOK'
    BY <1>16, FrameTyped DEF EmitTurnEnd, Keep
  <2>3. ~Throw => LoopTypeOK'
    BY <1>16, PushTyping
    DEF EmitTurnEnd, Goto, Labels, LoopTypeOK, loopVars, batchVars, Push
  <2>4. ~Throw => Shape'
    BY <1>16, PushTyping
    DEF EmitTurnEnd, Goto, Keep, LoopTypeOK, loopVars, batchVars, Shape,
        StreamLabels, BatchLabels, CallLabels, ResultLabels, Push
  <2>5. throws' \in 0..MaxThrows
    BY <1>16, ThrowTyped DEF EmitTurnEnd, Throw, Goto, CountTypeOK
  <2>6. CountTypeOK'
    BY <1>16, <2>5, CountTyped DEF EmitTurnEnd, Keep, CountTypeOK, EndTurn
  <2> QED
    BY <2>1, <2>2, <2>3, <2>4, <2>5, <2>6, ThrowTyped DEF Throw
<1>17. CASE AfterTurn
  <2>1. AgentTypeOK'
    BY <1>17, NoEventTyped DEF AfterTurn
  <2>2. EmbedderTypeOK'
    BY <1>17, FrameTyped DEF AfterTurn, Keep
  <2>3. LoopTypeOK' /\ throws' \in 0..MaxThrows
    BY <1>17, DeliverTyped DEF AfterTurn, Labels
  <2>4. Shape'
    BY <1>17, DeliverTyped
    DEF AfterTurn, Labels, Keep, Shape, StreamLabels, BatchLabels, CallLabels,
        ResultLabels
  <2>5. CountTypeOK'
    BY <1>17, <2>3, CountTyped DEF AfterTurn, Keep, CountTypeOK
  <2> QED
    BY <2>1, <2>2, <2>3, <2>4, <2>5
<1>18. CASE PollSteering
  <2>1. AgentTypeOK'
    BY <1>18, NoEventTyped DEF PollSteering
  <2>2. EmbedderTypeOK'
    BY <1>18, DrainTyping, ModesAssumption
    DEF PollSteering, Frame, modeVars, EmbedderTypeOK
  <2>3. LoopTypeOK'
    BY <1>18, DrainTyping, ModesAssumption
    DEF PollSteering, Goto, Labels, LoopTypeOK, loopVars, batchVars,
        EmbedderTypeOK
  <2>4. Shape'
    BY <1>18, DrainTyping, ModesAssumption
    DEF PollSteering, Goto, Keep, loopVars, batchVars, LoopTypeOK, Shape,
        StreamLabels, BatchLabels, CallLabels, ResultLabels, EmbedderTypeOK
  <2>5. throws' \in 0..MaxThrows
    BY <1>18 DEF PollSteering, Goto, CountTypeOK
  <2>6. CountTypeOK'
    BY <1>18, <2>5, CountTyped DEF PollSteering, Keep, CountTypeOK
  <2> QED
    BY <2>1, <2>2, <2>3, <2>4, <2>5, <2>6
<1>19. CASE PollFollowUps
  <2>1. AgentTypeOK'
    BY <1>19, NoEventTyped DEF PollFollowUps
  <2>2. EmbedderTypeOK'
    BY <1>19, DrainTyping, ModesAssumption
    DEF PollFollowUps, Frame, modeVars, EmbedderTypeOK
  <2>3. LoopTypeOK'
    BY <1>19, DrainTyping, ModesAssumption
    DEF PollFollowUps, Goto, Labels, LoopTypeOK, loopVars, batchVars,
        EmbedderTypeOK
  <2>4. Shape'
    BY <1>19, DrainTyping, ModesAssumption
    DEF PollFollowUps, Goto, Keep, loopVars, batchVars, LoopTypeOK, Shape,
        StreamLabels, BatchLabels, CallLabels, ResultLabels, EmbedderTypeOK
  <2>5. throws' \in 0..MaxThrows
    BY <1>19 DEF PollFollowUps, Goto, CountTypeOK
  <2>6. CountTypeOK'
    BY <1>19, <2>5, CountTyped DEF PollFollowUps, Keep, CountTypeOK
  <2> QED
    BY <2>1, <2>2, <2>3, <2>4, <2>5, <2>6
<1>20. CASE EmitAgentEnd
  <2>1. AgentTypeOK'
    BY <1>20, EndAgentTyped DEF EmitAgentEnd
  <2>2. EmbedderTypeOK'
    BY <1>20, FrameTyped DEF EmitAgentEnd, Keep
  <2>3. LoopTypeOK' /\ throws' \in 0..MaxThrows
    BY <1>20, DeliverTyped DEF EmitAgentEnd, Labels
  <2>4. Shape'
    BY <1>20, DeliverTyped
    DEF EmitAgentEnd, Labels, Keep, Shape, StreamLabels, BatchLabels,
        CallLabels, ResultLabels
  <2>5. CountTypeOK'
    BY <1>20, <2>3, CountTyped DEF EmitAgentEnd, Keep, CountTypeOK
  <2> QED
    BY <2>1, <2>2, <2>3, <2>4, <2>5
<1> QED
  BY <1>1, <1>2, <1>3, <1>4, <1>5, <1>6, <1>7, <1>8, <1>9, <1>10, <1>11, <1>12,
     <1>13, <1>14, <1>15, <1>16, <1>17, <1>18, <1>19, <1>20
  DEF Turn

LEMMA ToolsTyped == TypedShape /\ Tools => TypedShape'
<1> SUFFICES ASSUME TypedShape, Tools PROVE TypedShape'
  OBVIOUS
<1> USE DEF TypedShape, TypeOK
<1>1. CASE EmitToolStart
  <2>1. AgentTypeOK'
    BY <1>1, StartToolTyped, NextCallTyping DEF EmitToolStart
  <2>2. EmbedderTypeOK'
    BY <1>1, FrameTyped DEF EmitToolStart, Keep
  <2>3. ~Throw => LoopTypeOK'
    <3>1. Append(batch, Entry("finalized", FALSE)) \in Seq(Entries)
      BY EntryTyping, AppendEntryTyping DEF LoopTypeOK
    <3> QED
      BY <1>1, <3>1
      DEF EmitToolStart, Goto, KeepLocals, Labels, LoopTypeOK, loopVars,
          batchVars
  <2>4. ~Throw => Shape'
    <3>1. Append(batch, Entry("finalized", FALSE)) # <<>>
      BY EntryTyping, AppendEntryTyping DEF LoopTypeOK
    <3> QED
      BY <1>1, <3>1
      DEF EmitToolStart, Goto, Keep, KeepLocals, loopVars, batchVars, Shape,
          StreamLabels, BatchLabels, CallLabels, ResultLabels
  <2>5. throws' \in 0..MaxThrows
    BY <1>1, ThrowTyped DEF EmitToolStart, Throw, Goto, CountTypeOK
  <2>6. CountTypeOK'
    BY <1>1, <2>5, CountTyped DEF EmitToolStart, Keep, CountTypeOK
  <2> QED
    BY <2>1, <2>2, <2>3, <2>4, <2>5, <2>6, ThrowTyped DEF Throw
<1>2. CASE Prepare
  <2>1. AgentTypeOK'
    BY <1>2, NoEventTyped DEF Prepare
  <2>2. EmbedderTypeOK'
    BY <1>2, FrameTyped DEF Prepare, Keep
  <2>3. LoopTypeOK'
    BY <1>2, EntryTyping, AppendEntryTyping
    DEF Prepare, Goto, Labels, LoopTypeOK, loopVars, batchVars
  <2>4. Shape'
    BY <1>2, EntryTyping, AppendEntryTyping
    DEF Prepare, Goto, Keep, loopVars, batchVars, LoopTypeOK, Shape,
        StreamLabels, BatchLabels, CallLabels, ResultLabels
  <2>5. throws' \in 0..MaxThrows
    BY <1>2 DEF Prepare, Goto, CountTypeOK
  <2>6. CountTypeOK'
    BY <1>2, <2>5, CountTyped DEF Prepare, Keep, CountTypeOK
  <2> QED
    BY <2>1, <2>2, <2>3, <2>4, <2>5, <2>6
<1>3. CASE Execute
  <2>1. AgentTypeOK'
    BY <1>3, NoEventTyped DEF Execute
  <2>2. EmbedderTypeOK'
    BY <1>3, FrameTyped DEF Execute, Keep
  <2>3. ~Throw => LoopTypeOK'
    BY <1>3, FinalizeTyping, LastEntryTyping
    DEF Execute, Goto, Labels, LoopTypeOK, loopVars, batchVars, Shape,
        ResultLabels
  <2>4. ~Throw => Shape'
    BY <1>3, FinalizeTyping, LastEntryTyping
    DEF Execute, Goto, Keep, LoopTypeOK, loopVars, batchVars, Shape,
        StreamLabels, BatchLabels, CallLabels, ResultLabels
  <2>5. throws' \in 0..MaxThrows
    BY <1>3, ThrowTyped DEF Execute, Throw, Goto, CountTypeOK
  <2>6. CountTypeOK'
    BY <1>3, <2>5, CountTyped DEF Execute, Keep, CountTypeOK
  <2> QED
    BY <2>1, <2>2, <2>3, <2>4, <2>5, <2>6, ThrowTyped DEF Throw
<1>4. CASE EmitToolEnd
  <2>1. AgentTypeOK'
    BY <1>4, EndToolTyped DEF EmitToolEnd
  <2>2. EmbedderTypeOK'
    BY <1>4, FrameTyped DEF EmitToolEnd, Keep
  <2>3. LoopTypeOK' /\ throws' \in 0..MaxThrows
    BY <1>4, DeliverTyped DEF EmitToolEnd, Labels
  <2>4. Shape'
    BY <1>4, DeliverTyped
    DEF EmitToolEnd, Labels, Keep, Shape, StreamLabels, BatchLabels,
        CallLabels, ResultLabels
  <2>5. CountTypeOK'
    BY <1>4, <2>3, CountTyped DEF EmitToolEnd, Keep, CountTypeOK
  <2> QED
    BY <2>1, <2>2, <2>3, <2>4, <2>5
<1>5. CASE NextCall
  <2>1. AgentTypeOK'
    BY <1>5, NoEventTyped DEF NextCall
  <2>2. EmbedderTypeOK'
    BY <1>5, FrameTyped DEF NextCall, Keep
  <2>3. LoopTypeOK'
    <3>1. batch' = batch \/ batch' = Started
      BY <1>5 DEF NextCall, Started
    <3> QED
      BY <1>5, <3>1, StartedTyping
      DEF NextCall, Goto, Labels, LoopTypeOK, loopVars
  <2>4. Shape'
    <3>1. batch # <<>> /\ batch' # <<>>
      BY <1>5, StartedTyping DEF NextCall, Started, Shape
    <3> QED
      BY <1>5, <3>1
      DEF NextCall, Goto, Keep, loopVars, Shape, StreamLabels, BatchLabels,
          CallLabels, ResultLabels
  <2>5. throws' \in 0..MaxThrows
    BY <1>5 DEF NextCall, Goto, CountTypeOK
  <2>6. CountTypeOK'
    BY <1>5, <2>5, CountTyped DEF NextCall, Keep, CountTypeOK
  <2> QED
    BY <2>1, <2>2, <2>3, <2>4, <2>5, <2>6
<1>6. ASSUME NEW i \in DOMAIN batch,  RunningCallEnds(i) PROVE TypedShape'
  <2>1. AgentTypeOK'
    BY <1>6, EndToolTyped DEF RunningCallEnds
  <2>2. EmbedderTypeOK'
    BY <1>6, FrameTyped DEF RunningCallEnds, Keep
  <2>3. ~ThrowFrom({<<turn, i>>}) => LoopTypeOK'
    BY <1>6, FinalizeTyping
    DEF RunningCallEnds, Goto, Labels, LoopTypeOK, loopVars, batchVars
  <2>4. ~ThrowFrom({<<turn, i>>}) => Shape'
    BY <1>6, FinalizeTyping
    DEF RunningCallEnds, Goto, Keep, LoopTypeOK, loopVars, batchVars, Shape,
        StreamLabels, BatchLabels, CallLabels, ResultLabels
  <2>5. throws' \in 0..MaxThrows
    BY <1>6, ThrowTyped DEF RunningCallEnds, Throw, Goto, CountTypeOK
  <2>6. CountTypeOK'
    BY <1>6, <2>5, CountTyped DEF RunningCallEnds, Keep, CountTypeOK
  <2> QED
    BY <2>1, <2>2, <2>3, <2>4, <2>5, <2>6, ThrowTyped DEF Throw
<1>7. ASSUME NEW i \in DOMAIN batch,  RunningCallFails(i) PROVE TypedShape'
  <2>1. AgentTypeOK'
    BY <1>7, NoEventTyped DEF RunningCallFails
  <2>2. EmbedderTypeOK'
    BY <1>7, FrameTyped DEF RunningCallFails, Keep
  <2>3. LoopTypeOK' /\ Shape' /\ throws' \in 0..MaxThrows
    BY <1>7, ThrowTyped DEF RunningCallFails, Throw
  <2>4. CountTypeOK'
    BY <1>7, <2>3, CountTyped DEF RunningCallFails, Keep, CountTypeOK
  <2> QED
    BY <2>1, <2>2, <2>3, <2>4
<1>8. CASE Joined
  <2>1. AgentTypeOK'
    BY <1>8, NoEventTyped DEF Joined
  <2>2. EmbedderTypeOK'
    BY <1>8, FrameTyped DEF Joined, Keep
  <2>3. LoopTypeOK'
    BY <1>8
    DEF Joined, Goto, Labels, LoopTypeOK, loopVars, batchVars, KeepLocals
  <2>4. Shape'
    BY <1>8
    DEF Joined, Goto, Keep, loopVars, batchVars, LoopTypeOK, Shape,
        StreamLabels, BatchLabels, CallLabels, ResultLabels, KeepLocals
  <2>5. throws' \in 0..MaxThrows
    BY <1>8 DEF Joined, Goto, CountTypeOK
  <2>6. CountTypeOK'
    BY <1>8, <2>5, CountTyped DEF Joined, Keep, CountTypeOK
  <2> QED
    BY <2>1, <2>2, <2>3, <2>4, <2>5, <2>6
<1>9. CASE EmitResultStart
  <2>1. AgentTypeOK'
    BY <1>9, StartMessageTyped, NextResultTyping, MessageKinds
    DEF EmitResultStart, ResultLabels
  <2>2. EmbedderTypeOK'
    BY <1>9, FrameTyped DEF EmitResultStart, Keep
  <2>3. LoopTypeOK' /\ throws' \in 0..MaxThrows
    BY <1>9, DeliverTyped DEF EmitResultStart, Labels
  <2>4. Shape'
    BY <1>9, DeliverTyped
    DEF EmitResultStart, Labels, Keep, Shape, StreamLabels, BatchLabels,
        CallLabels, ResultLabels
  <2>5. CountTypeOK'
    BY <1>9, <2>3, CountTyped DEF EmitResultStart, Keep, CountTypeOK
  <2> QED
    BY <2>1, <2>2, <2>3, <2>4, <2>5
<1>10. CASE EmitResultEnd
  <2>1. AgentTypeOK'
    BY <1>10, EndMessageTyped, NextResultTyping, MessageKinds
    DEF EmitResultEnd, ResultLabels
  <2>2. EmbedderTypeOK'
    BY <1>10, FrameTyped DEF EmitResultEnd, Keep
  <2>3. ~Throw => LoopTypeOK'
    <3>1. Append(results, NextResult) \in Seq(ResultMessages)
      BY <1>10, NextResultTyping, AppendResultTyping
      DEF EmitResultEnd, ResultLabels, LoopTypeOK
    <3> QED
      BY <1>10, <3>1 DEF EmitResultEnd, Goto, Labels, LoopTypeOK, loopVars
  <2>4. ~Throw => Shape'
    BY <1>10, NextResultTyping, AppendResultTyping
    DEF EmitResultEnd, Goto, Keep, LoopTypeOK, loopVars, batchVars, Shape,
        StreamLabels, BatchLabels, CallLabels, ResultLabels
  <2>5. throws' \in 0..MaxThrows
    BY <1>10, ThrowTyped DEF EmitResultEnd, Throw, Goto, CountTypeOK
  <2>6. CountTypeOK'
    BY <1>10, <2>5, CountTyped DEF EmitResultEnd, Keep, CountTypeOK
  <2> QED
    BY <2>1, <2>2, <2>3, <2>4, <2>5, <2>6, ThrowTyped DEF Throw
<1> QED
  BY <1>1, <1>2, <1>3, <1>4, <1>5, <1>6, <1>7, <1>8, <1>9, <1>10 DEF Tools

LEMMA FailureTyped == TypedShape /\ Failure => TypedShape'
<1> SUFFICES ASSUME TypedShape, Failure PROVE TypedShape'
  OBVIOUS
<1> USE DEF TypedShape, TypeOK
<1>1. CASE EmitFailureStart
  <2>1. AgentTypeOK'
    BY <1>1, StartMessageTyped, AssistantTyping
    DEF EmitFailureStart, CountTypeOK, StopReasons
  <2>2. EmbedderTypeOK'
    BY <1>1, FrameTyped DEF EmitFailureStart
  <2>3. LoopTypeOK' /\ throws' \in 0..MaxThrows
    BY <1>1, FailureDelivered DEF EmitFailureStart, Labels
  <2>4. Shape'
    <3>1. turn' > 0
      BY <1>1 DEF EmitFailureStart, CountTypeOK
    <3>2. streamingMessage' \in Messages
      BY <1>1, AssistantTyping
      DEF EmitFailureStart, StartMessage, CountTypeOK, StopReasons
    <3> QED
      BY <1>1, <3>1, <3>2, FailureDelivered
      DEF EmitFailureStart, Labels, Shape, StreamLabels, BatchLabels,
          CallLabels, ResultLabels
  <2>5. CountTypeOK'
    BY <1>1, <2>3, CountTyped DEF EmitFailureStart, CountTypeOK
  <2> QED
    BY <2>1, <2>2, <2>3, <2>4, <2>5
<1>2. CASE EmitFailureEnd
  <2>1. AgentTypeOK'
    BY <1>2, EndMessageTyped DEF EmitFailureEnd, Shape
  <2>2. EmbedderTypeOK'
    BY <1>2, FrameTyped DEF EmitFailureEnd, Keep
  <2>3. LoopTypeOK' /\ throws' \in 0..MaxThrows
    BY <1>2, FailureDelivered DEF EmitFailureEnd, Labels
  <2>4. Shape'
    BY <1>2, FailureDelivered
    DEF EmitFailureEnd, Labels, Shape, StreamLabels, BatchLabels, CallLabels,
        ResultLabels, Keep
  <2>5. CountTypeOK'
    BY <1>2, <2>3, CountTyped DEF EmitFailureEnd, Keep, CountTypeOK
  <2> QED
    BY <2>1, <2>2, <2>3, <2>4, <2>5
<1>3. CASE EmitFailureTurnEnd
  <2>1. AgentTypeOK'
    BY <1>3, EndTurnTyped DEF EmitFailureTurnEnd
  <2>2. EmbedderTypeOK'
    BY <1>3, FrameTyped DEF EmitFailureTurnEnd, Keep
  <2>3. LoopTypeOK' /\ throws' \in 0..MaxThrows
    BY <1>3, FailureDelivered DEF EmitFailureTurnEnd, Labels
  <2>4. Shape'
    BY <1>3, FailureDelivered
    DEF EmitFailureTurnEnd, Labels, Shape, StreamLabels, BatchLabels, CallLabels,
        ResultLabels, Keep
  <2>5. CountTypeOK'
    BY <1>3, <2>3, CountTyped
    DEF EmitFailureTurnEnd, Keep, CountTypeOK, EndTurn
  <2> QED
    BY <2>1, <2>2, <2>3, <2>4, <2>5
<1>4. CASE EmitFailureAgentEnd
  <2>1. AgentTypeOK'
    BY <1>4, EndAgentTyped DEF EmitFailureAgentEnd
  <2>2. EmbedderTypeOK'
    BY <1>4, FrameTyped DEF EmitFailureAgentEnd, Keep
  <2>3. LoopTypeOK' /\ throws' \in 0..MaxThrows
    BY <1>4, FailureDelivered DEF EmitFailureAgentEnd, Labels
  <2>4. Shape'
    BY <1>4, FailureDelivered
    DEF EmitFailureAgentEnd, Labels, Shape, StreamLabels, BatchLabels, CallLabels,
        ResultLabels, Keep
  <2>5. CountTypeOK'
    BY <1>4, <2>3, CountTyped DEF EmitFailureAgentEnd, Keep, CountTypeOK
  <2> QED
    BY <2>1, <2>2, <2>3, <2>4, <2>5
<1> QED
  BY <1>1, <1>2, <1>3, <1>4 DEF Failure

\* A step that leaves the loop alone keeps its locals typed.
LEMMA LoopUntouched ==
    ASSUME TypedShape,
           UNCHANGED <<loopVars, batchVars, pc, turn, orphans, streamingMessage>>
    PROVE  LoopTypeOK' /\ Shape'
<1>1. UNCHANGED <<context, newMessages, inject, skipPoll, execution, batch,
                  results, pc, turn, orphans, streamingMessage>>
  BY DEF loopVars, batchVars
<1>2. LoopTypeOK'
  BY <1>1 DEF TypedShape, TypeOK, LoopTypeOK
<1>3. Shape'
  BY <1>1
  DEF TypedShape, Shape, StreamLabels, BatchLabels, CallLabels, ResultLabels
<1> QED
  BY <1>2, <1>3

LEMMA StartRunTyped ==
    ASSUME TypedShape, NEW prompts \in Seq(UserMessages), NEW skip \in BOOLEAN,
           StartRun(prompts, skip)
    PROVE  /\ AgentTypeOK' /\ LoopTypeOK' /\ Shape'
           /\ sent' \in 0..MaxSent => CountTypeOK'
           /\ UNCHANGED modeVars /\ aborted' = FALSE
<1> USE DEF TypedShape, TypeOK
<1>1. AgentTypeOK'
  BY DEF StartRun, AgentTypeOK, eventVars
<1>2. LoopTypeOK'
  <2>1. messages \o prompts \in Seq(Messages) /\ prompts \in Seq(Messages)
    BY ConcatTyping DEF AgentTypeOK
  <2> QED
    BY <2>1 DEF StartRun, LoopTypeOK, Labels, batchVars
<1>3. Shape'
  BY DEF StartRun, Shape, StreamLabels, BatchLabels, CallLabels, ResultLabels,
         batchVars
<1>4. sent' \in 0..MaxSent => CountTypeOK'
  BY LenProperties, BoundsAssumption DEF StartRun, CountTypeOK, AgentTypeOK
<1> QED
  BY <1>1, <1>2, <1>3, <1>4 DEF StartRun

LEMMA AppendUserTyping ==
    ASSUME NEW q \in Seq(UserMessages), NEW m \in UserMessages
    PROVE  Append(q, m) \in Seq(UserMessages)
BY AppendProperties

LEMMA EmbedderTyped == TypedShape /\ Embedder => TypedShape'
<1> SUFFICES ASSUME TypedShape, Embedder PROVE TypedShape'
  OBVIOUS
<1> USE DEF TypedShape, TypeOK
<1>1. CASE Steer
  <2>1. AgentTypeOK'
    BY <1>1 DEF Steer, AgentTypeOK, agentVars, eventVars
  <2>2. User(sent + 1, "steer") \in UserMessages
    BY <1>1, UserTyping, BoundsAssumption DEF Steer, Vias, CountTypeOK
  <2>3. EmbedderTypeOK'
    BY <1>1, <2>2, AppendUserTyping
    DEF Steer, EmbedderTypeOK, queueVars, modeVars
  <2>4. LoopTypeOK' /\ Shape'
    BY <1>1, LoopUntouched DEF Steer, agentVars
  <2>5. CountTypeOK'
    BY <1>1, BoundsAssumption DEF Steer, CountTypeOK, boundVars
  <2> QED
    BY <2>1, <2>2, <2>3, <2>4, <2>5
<1>2. CASE FollowUp
  <2>1. AgentTypeOK'
    BY <1>2 DEF FollowUp, AgentTypeOK, agentVars, eventVars
  <2>2. User(sent + 1, "followUp") \in UserMessages
    BY <1>2, UserTyping, BoundsAssumption DEF FollowUp, Vias, CountTypeOK
  <2>3. EmbedderTypeOK'
    BY <1>2, <2>2, AppendUserTyping
    DEF FollowUp, EmbedderTypeOK, queueVars, modeVars
  <2>4. LoopTypeOK' /\ Shape'
    BY <1>2, LoopUntouched DEF FollowUp, agentVars
  <2>5. CountTypeOK'
    BY <1>2, BoundsAssumption DEF FollowUp, CountTypeOK, boundVars
  <2> QED
    BY <2>1, <2>2, <2>3, <2>4, <2>5
<1>3. CASE ClearQueue
  <2>1. AgentTypeOK'
    BY <1>3 DEF ClearQueue, AgentTypeOK, agentVars, eventVars
  <2>2. EmbedderTypeOK'
    BY <1>3, EmptyTyping DEF ClearQueue, EmbedderTypeOK, queueVars, modeVars
  <2>3. LoopTypeOK' /\ Shape'
    BY <1>3, LoopUntouched DEF ClearQueue, agentVars
  <2>4. CountTypeOK'
    BY <1>3 DEF ClearQueue, CountTypeOK, boundVars
  <2> QED
    BY <2>1, <2>2, <2>3, <2>4
<1>4. CASE SetQueueMode
  <2>1. AgentTypeOK'
    BY <1>4 DEF SetQueueMode, AgentTypeOK, agentVars, eventVars
  <2>2. EmbedderTypeOK'
    BY <1>4 DEF SetQueueMode, EmbedderTypeOK, queueVars, modeVars
  <2>3. LoopTypeOK' /\ Shape'
    BY <1>4, LoopUntouched DEF SetQueueMode, agentVars
  <2>4. CountTypeOK'
    BY <1>4 DEF SetQueueMode, CountTypeOK, boundVars
  <2> QED
    BY <2>1, <2>2, <2>3, <2>4
<1>5. CASE Abort
  <2>1. AgentTypeOK'
    BY <1>5 DEF Abort, AgentTypeOK, agentVars, eventVars
  <2>2. EmbedderTypeOK'
    BY <1>5 DEF Abort, EmbedderTypeOK, queueVars, modeVars
  <2>3. LoopTypeOK' /\ Shape'
    BY <1>5, LoopUntouched DEF Abort, agentVars
  <2>4. CountTypeOK'
    BY <1>5 DEF Abort, CountTypeOK, boundVars
  <2> QED
    BY <2>1, <2>2, <2>3, <2>4
<1>6. CASE Reset
  <2>1. AgentTypeOK'
    BY <1>6, EmptyTyping DEF Reset, AgentTypeOK, agentVars, eventVars
  <2>2. EmbedderTypeOK'
    BY <1>6, EmptyTyping DEF Reset, EmbedderTypeOK, queueVars, modeVars
  <2>3. LoopTypeOK' /\ Shape'
    BY <1>6
    DEF Reset, Idle, LoopTypeOK, loopVars, batchVars, Shape, StreamLabels,
        BatchLabels, CallLabels, ResultLabels
  <2>4. CountTypeOK'
    BY <1>6 DEF Reset, CountTypeOK, boundVars
  <2> QED
    BY <2>1, <2>2, <2>3, <2>4
<1>7. CASE DropFailedReply
  <2>1. AgentTypeOK'
    BY <1>7, FrontTyping DEF DropFailedReply, AgentTypeOK, agentVars, eventVars
  <2>2. EmbedderTypeOK'
    BY <1>7 DEF DropFailedReply, EmbedderTypeOK, queueVars, modeVars
  <2>3. LoopTypeOK' /\ Shape'
    BY <1>7, LoopUntouched DEF DropFailedReply, agentVars
  <2>4. CountTypeOK'
    BY <1>7 DEF DropFailedReply, CountTypeOK, boundVars
  <2> QED
    BY <2>1, <2>2, <2>3, <2>4
<1>8. CASE Prompt
  <2>1. <<User(sent + 1, "prompt")>> \in Seq(UserMessages) /\ sent' \in 0..MaxSent
    BY <1>8, UserTyping, BoundsAssumption DEF Prompt, Vias, CountTypeOK
  <2>2. AgentTypeOK' /\ LoopTypeOK' /\ Shape' /\ CountTypeOK'
    BY <1>8, <2>1, StartRunTyped DEF Prompt
  <2>3. EmbedderTypeOK'
    BY <1>8, <2>1, StartRunTyped
    DEF Prompt, EmbedderTypeOK, queueVars, modeVars
  <2> QED
    BY <2>2, <2>3
<1>9. CASE ContinueWithSteering
  <2>1. /\ Drained(steeringQueue, steeringMode) \in Seq(UserMessages)
        /\ steeringQueue' \in Seq(UserMessages) /\ sent' \in 0..MaxSent
    BY <1>9, DrainTyping, ModesAssumption
    DEF ContinueWithSteering, EmbedderTypeOK, CountTypeOK
  <2>2. AgentTypeOK' /\ LoopTypeOK' /\ Shape' /\ CountTypeOK'
    BY <1>9, <2>1, StartRunTyped DEF ContinueWithSteering
  <2>3. EmbedderTypeOK'
    BY <1>9, <2>1, StartRunTyped
    DEF ContinueWithSteering, EmbedderTypeOK, queueVars, modeVars
  <2> QED
    BY <2>2, <2>3
<1>10. CASE ContinueWithFollowUp
  <2>1. /\ Drained(followUpQueue, followUpMode) \in Seq(UserMessages)
        /\ followUpQueue' \in Seq(UserMessages) /\ sent' \in 0..MaxSent
    BY <1>10, DrainTyping, ModesAssumption
    DEF ContinueWithFollowUp, EmbedderTypeOK, CountTypeOK
  <2>2. AgentTypeOK' /\ LoopTypeOK' /\ Shape' /\ CountTypeOK'
    BY <1>10, <2>1, StartRunTyped DEF ContinueWithFollowUp
  <2>3. EmbedderTypeOK'
    BY <1>10, <2>1, StartRunTyped
    DEF ContinueWithFollowUp, EmbedderTypeOK, queueVars, modeVars
  <2> QED
    BY <2>2, <2>3
<1>11. CASE ContinueTranscript
  <2>1. <<>> \in Seq(UserMessages) /\ sent' \in 0..MaxSent
    BY <1>11, EmptyTyping DEF ContinueTranscript, CountTypeOK
  <2>2. AgentTypeOK' /\ LoopTypeOK' /\ Shape' /\ CountTypeOK'
    BY <1>11, <2>1, StartRunTyped DEF ContinueTranscript
  <2>3. EmbedderTypeOK'
    BY <1>11, <2>1, StartRunTyped
    DEF ContinueTranscript, EmbedderTypeOK, queueVars, modeVars
  <2> QED
    BY <2>2, <2>3
<1> QED
  BY <1>1, <1>2, <1>3, <1>4, <1>5, <1>6, <1>7, <1>8, <1>9, <1>10, <1>11
  DEF Embedder

LEMMA FinishTyped == TypedShape /\ FinishRun => TypedShape'
<1> SUFFICES ASSUME TypedShape, FinishRun PROVE TypedShape'
  OBVIOUS
<1> USE DEF TypedShape, TypeOK
<1>1. AgentTypeOK'
  BY DEF FinishRun, AgentTypeOK, eventVars
<1>2. EmbedderTypeOK'
  BY DEF FinishRun, EmbedderTypeOK, queueVars, modeVars
<1>3. LoopTypeOK'
  BY EmptyTyping DEF FinishRun, DiscardLocals, LoopTypeOK, Labels
<1>4. Shape'
  BY DEF FinishRun, DiscardLocals, Shape, StreamLabels, BatchLabels, CallLabels,
         ResultLabels
<1>5. CountTypeOK'
  BY DEF FinishRun, CountTypeOK, boundVars
<1> QED
  BY <1>1, <1>2, <1>3, <1>4, <1>5

LEMMA OrphanTyped ==
    ASSUME TypedShape, NEW c \in orphans, OrphanEnds(c)
    PROVE  TypedShape'
<1> USE DEF TypedShape, TypeOK
<1>1. AgentTypeOK' /\ UNCHANGED streamingMessage
  BY EndToolTyped DEF OrphanEnds, EndTool, AgentTypeOK, eventVars
<1>2. EmbedderTypeOK'
  BY FrameTyped DEF OrphanEnds, Keep
<1>3. LoopTypeOK'
  BY DEF OrphanEnds, KeepLocals, LoopTypeOK, loopVars, batchVars
<1>4. Shape'
  BY <1>1 DEF OrphanEnds, Keep, KeepLocals, loopVars, batchVars, Shape,
              StreamLabels, BatchLabels, CallLabels, ResultLabels
<1>5. CountTypeOK'
  BY CountTyped DEF OrphanEnds, Keep, CountTypeOK
<1> QED
  BY <1>1, <1>2, <1>3, <1>4, <1>5

LEMMA StutterTyped == TypedShape /\ UNCHANGED vars => TypedShape'
<1> SUFFICES ASSUME TypedShape, UNCHANGED vars PROVE TypedShape'
  OBVIOUS
<1> USE DEF TypedShape, TypeOK, vars
<1>1. AgentTypeOK' /\ UNCHANGED streamingMessage
  BY DEF AgentTypeOK, agentVars, eventVars
<1>2. EmbedderTypeOK'
  BY DEF EmbedderTypeOK, queueVars, modeVars
<1>3. LoopTypeOK' /\ Shape'
  BY <1>1, LoopUntouched
<1>4. CountTypeOK'
  BY DEF CountTypeOK, boundVars
<1> QED
  BY <1>1, <1>2, <1>3, <1>4

LEMMA StepTyped == TypedShape /\ [Next]_vars => TypedShape'
BY EmbedderTyped, TurnTyped, ToolsTyped, FailureTyped, FinishTyped, OrphanTyped,
   StutterTyped DEF Next, Run

\* The agent's state and the locals of its loop keep their types, in every
\* interleaving of the embedder with the run, whatever throws.
THEOREM TypeCorrect == Spec => []TypeOK
<1>1. Spec => []TypedShape
  BY InitTyped, StepTyped, PTL DEF Spec
<1>2. TypedShape => TypeOK
  BY DEF TypedShape
<1> QED
  BY <1>1, <1>2, PTL

-----------------------------------------------------------------------------
(* Pending calls *)

\* Calls of a batch b of turn n that are not finalized.
OpenOf(n, b) ==
    {<<n, i>> : i \in {j \in DOMAIN b : b[j].state # "finalized"}}

\* The call being announced, before or after its entry is in the batch.
CurrentCall ==
    CASE pc = "prepare" -> {<<turn, Len(batch) + 1>>}
      [] pc = "callEnd" -> {<<turn, Len(batch)>>}
      [] OTHER -> {}

\* A pending call belongs to the batch in progress, unless the run is failing;
\* only a parallel batch has open calls while another one is handled.
PendingCallsOpen ==
    /\ pc \in CallLabels
         => pendingToolCalls \subseteq OpenOf(turn, batch) \cup CurrentCall
    /\ pc \notin CallLabels \cup FailLabels \cup {"finish"}
         => pendingToolCalls = {}
    /\ pc \in (CallLabels \ {"execute"}) \cup ResultLabels
       /\ execution # "parallel" => OpenOf(turn, batch) = {}
    /\ pc = "execute" =>
           /\ OpenOf(turn, batch) \subseteq {<<turn, Len(batch)>>}
           /\ execution # "parallel"
    /\ pc = "join" => execution = "parallel"

LEMMA OpenAppended ==
    ASSUME NEW n, NEW b \in Seq(Entries), NEW e \in Entries
    PROVE  OpenOf(n, Append(b, e)) =
             OpenOf(n, b) \cup
               (IF e.state = "finalized" THEN {} ELSE {<<n, Len(b) + 1>>})
<1>1. /\ DOMAIN b = 1..Len(b) /\ Len(b) \in Nat
      /\ DOMAIN Append(b, e) = 1..(Len(b) + 1)
      /\ \A i \in 1..Len(b) : Append(b, e)[i] = b[i]
      /\ Append(b, e)[Len(b) + 1] = e
  BY AppendProperties, LenProperties
<1> QED
  BY <1>1 DEF OpenOf

LEMMA FinalizedAppended ==
    ASSUME NEW n, NEW b \in Seq(Entries), NEW e \in Entries,
           e.state = "finalized"
    PROVE  OpenOf(n, Append(b, e)) = OpenOf(n, b)
<1>1. /\ DOMAIN b = 1..Len(b) /\ Len(b) \in Nat
      /\ DOMAIN Append(b, e) = 1..(Len(b) + 1)
      /\ \A i \in 1..Len(b) : Append(b, e)[i] = b[i]
      /\ Append(b, e)[Len(b) + 1] = e
  BY AppendProperties, LenProperties
<1> QED
  BY <1>1 DEF OpenOf

LEMMA OpenReached ==
    ASSUME LoopTypeOK, NEW n,
           NEW state \in {"prepared", "running", "finalized"}, NEW t \in BOOLEAN
    PROVE  /\ OpenOf(n, Append(batch, Entry(state, t))) =
                OpenOf(n, batch) \cup
                  (IF state = "finalized" THEN {} ELSE {<<n, Len(batch) + 1>>})
           /\ Len(Append(batch, Entry(state, t))) = Len(batch) + 1
<1> DEFINE e == Entry(state, t)
<1>1. e \in Entries
  BY EntryTyping
<1>2. e.state = state
  BY DEF Entry
<1> HIDE DEF e
<1>3. Len(Append(batch, e)) = Len(batch) + 1
  BY <1>1, AppendProperties DEF LoopTypeOK
<1>4. OpenOf(n, Append(batch, e)) =
        OpenOf(n, batch) \cup
          (IF state = "finalized" THEN {} ELSE {<<n, Len(batch) + 1>>})
  BY <1>1, <1>2, OpenAppended DEF LoopTypeOK
<1> QED
  BY <1>3, <1>4 DEF e

LEMMA OpenFinalized ==
    ASSUME LoopTypeOK, NEW n, NEW i \in DOMAIN batch, NEW t \in BOOLEAN
    PROVE  /\ OpenOf(n, Finalize(i, t)) = OpenOf(n, batch) \ {<<n, i>>}
           /\ Len(Finalize(i, t)) = Len(batch)
<1>1. OpenOf(n, Finalize(i, t)) = OpenOf(n, batch) \ {<<n, i>>}
  BY DEF OpenOf, Finalize, Entry, LoopTypeOK
<1>2. i \in 1..Len(batch)
  BY LenProperties DEF LoopTypeOK
<1>3. Len(Finalize(i, t)) = Len(batch)
  BY <1>2, EntryTyping, ExceptSeq DEF Finalize, LoopTypeOK
<1> QED
  BY <1>1, <1>3

LEMMA OpenStarted ==
    ASSUME LoopTypeOK, NEW n
    PROVE  OpenOf(n, Started) = OpenOf(n, batch)
BY DEF OpenOf, Started, Entry, LoopTypeOK

\* A step outside the calls of a batch, one that fails the run.
LEMMA PendingElsewhere ==
    ASSUME PendingCallsOpen, UNCHANGED pendingToolCalls,
           pc \notin CallLabels \cup ResultLabels \cup FailLabels
                     \cup {"finish"},
           pc' \notin CallLabels \cup ResultLabels
    PROVE  PendingCallsOpen'
BY DEF PendingCallsOpen, CallLabels, ResultLabels, FailLabels

LEMMA PendingFailing ==
    ASSUME pc' \in FailLabels \cup {"finish"}
    PROVE  PendingCallsOpen'
BY DEF PendingCallsOpen, CallLabels, ResultLabels, FailLabels

\* Every step of Turn ends outside a batch, or in the empty batch of a reply.
LEMMA TurnPending == PendingCallsOpen /\ Turn => PendingCallsOpen'
<1> SUFFICES ASSUME PendingCallsOpen, Turn PROVE PendingCallsOpen'
  OBVIOUS
<1>1. UNCHANGED pendingToolCalls
  BY DEF Turn, NoEvent, Announce, StartMessage, EndMessage, EndTurn, EndAgent,
         agentVars, EmitAgentStart, EmitFirstTurnStart, EmitPromptStart,
         EmitPromptEnd, InitialPoll, EmitTurnStart, EmitInjectStart,
         EmitInjectEnd, RequestFails, StreamStart, StreamEndsAtOnce,
         StreamEnds, StreamThrows, EmitAssistantEnd, EmitFailedTurnEnd,
         EmitTurnEnd, AfterTurn, PollSteering, PollFollowUps, EmitAgentEnd
<1>2. CASE EmitAssistantEnd
  <2>1. CASE batch' = <<>> /\ pc' \in {"failedTurnEnd", "callStart", "turnEnd"}
    <3>1. pendingToolCalls' = {} /\ OpenOf(turn', batch') = {}
      BY <1>1, <1>2, <2>1
      DEF EmitAssistantEnd, PendingCallsOpen, CallLabels, FailLabels, OpenOf
    <3> QED
      BY <2>1, <3>1 DEF PendingCallsOpen, CallLabels, ResultLabels
  <2>2. CASE pc' = "failStart"
    BY <2>2, PendingFailing DEF FailLabels
  <2> QED
    BY <1>2, <2>1, <2>2 DEF EmitAssistantEnd, Goto, Throw, ThrowFrom
<1>3. CASE ~EmitAssistantEnd
  <2>1. pc \notin CallLabels \cup ResultLabels \cup FailLabels \cup {"finish"}
    BY <1>3 DEF Turn, CallLabels, ResultLabels, FailLabels, EmitAgentStart,
        EmitFirstTurnStart, EmitPromptStart, EmitPromptEnd, InitialPoll,
        EmitTurnStart, EmitInjectStart, EmitInjectEnd, RequestFails,
        StreamStart, StreamEndsAtOnce, StreamEnds, StreamThrows,
        EmitFailedTurnEnd, EmitTurnEnd, AfterTurn, PollSteering, PollFollowUps,
        EmitAgentEnd
  <2>2. pc' \notin CallLabels \cup ResultLabels
    BY <1>3 DEF Turn, CallLabels, ResultLabels, Deliver, Goto, Throw,
        ThrowFrom, EmitAgentStart, EmitFirstTurnStart, EmitPromptStart,
        EmitPromptEnd, InitialPoll, EmitTurnStart, EmitInjectStart,
        EmitInjectEnd, RequestFails, StreamStart, StreamEndsAtOnce, StreamEnds,
        StreamThrows, EmitFailedTurnEnd, EmitTurnEnd, AfterTurn, PollSteering,
        PollFollowUps, EmitAgentEnd
  <2> QED
    BY <1>1, <2>1, <2>2, PendingElsewhere
<1> QED
  BY <1>2, <1>3

LEMMA ToolsPending ==
    TypedShape /\ PendingCallsOpen /\ Tools => PendingCallsOpen'
<1> SUFFICES ASSUME TypedShape, PendingCallsOpen, Tools PROVE PendingCallsOpen'
  OBVIOUS
<1> USE DEF TypedShape, TypeOK
<1>0. pc' = "failStart" => PendingCallsOpen'
  BY PendingFailing DEF FailLabels
<1>1. CASE EmitToolStart
  <2>1. /\ pendingToolCalls' = pendingToolCalls \cup {<<turn, Len(batch) + 1>>}
        /\ turn' = turn
    BY <1>1 DEF EmitToolStart, StartTool, NextCallId, Keep
  <2>2. CASE /\ batch' = Append(batch, Entry("finalized", FALSE))
             /\ pc' = "callEnd" /\ UNCHANGED execution
    <3> DEFINE e == Entry("finalized", FALSE)
    <3>1. /\ batch \in Seq(Entries) /\ e \in Entries
          /\ e.state = "finalized"
      BY EntryTyping DEF LoopTypeOK, Entry
    <3> HIDE DEF e
    <3>2. OpenOf(turn, Append(batch, e)) = OpenOf(turn, batch)
      BY ONLY <3>1, FinalizedAppended
    <3>3. Len(Append(batch, e)) = Len(batch) + 1
      BY <3>1, AppendProperties
    <3>4. batch' = Append(batch, e)
      BY <2>2 DEF e
    <3>5. /\ OpenOf(turn, batch') = OpenOf(turn, batch)
          /\ Len(batch') = Len(batch) + 1
      BY <3>2, <3>3, <3>4
    <3> QED
      BY <1>1, <2>1, <2>2, <3>5
      DEF EmitToolStart, PendingCallsOpen, CallLabels, ResultLabels,
          CurrentCall
  <2>3. CASE UNCHANGED <<batch, execution>> /\ pc' = "prepare"
    BY <1>1, <2>1, <2>3
    DEF EmitToolStart, PendingCallsOpen, CallLabels, ResultLabels, CurrentCall
  <2> QED
    BY <1>0, <1>1, <2>2, <2>3
    DEF EmitToolStart, Goto, KeepLocals, batchVars, Throw, ThrowFrom
<1>2. CASE Prepare
  <2>1. UNCHANGED <<pendingToolCalls, turn, execution>>
    BY <1>2 DEF Prepare, NoEvent, agentVars, Keep
  <2>2. PICK state \in {"prepared", "running", "finalized"}, t \in BOOLEAN :
          /\ batch' = Append(batch, Entry(state, t))
          /\ state = "finalized" => pc' = "callEnd"
          /\ state = "running" => pc' = "execute" /\ execution = "sequential"
          /\ state = "prepared" => pc' = "nextCall" /\ execution = "parallel"
    BY <1>2 DEF Prepare, Goto
  <2>3. /\ OpenOf(turn, batch') = OpenOf(turn, batch) \cup
              (IF state = "finalized" THEN {} ELSE {<<turn, Len(batch) + 1>>})
        /\ Len(batch') = Len(batch) + 1
    BY <2>2, OpenReached
  <2>4. /\ pendingToolCalls \subseteq
              OpenOf(turn, batch) \cup {<<turn, Len(batch) + 1>>}
        /\ execution # "parallel" => OpenOf(turn, batch) = {}
    BY <1>2
    DEF Prepare, PendingCallsOpen, CallLabels, ResultLabels, CurrentCall
  <2> QED
    BY <2>1, <2>2, <2>3, <2>4
    DEF PendingCallsOpen, CallLabels, ResultLabels, CurrentCall
<1>3. CASE Execute
  <2>1. CASE /\ \E t \in BOOLEAN : batch' = Finalize(Len(batch), t)
             /\ pc' = "callEnd"
    <3>1. UNCHANGED <<pendingToolCalls, turn>>
      BY <1>3 DEF Execute, NoEvent, agentVars, Keep
    <3>2. Len(batch) \in DOMAIN batch
      BY <1>3, LastEntryTyping DEF Execute, Shape, ResultLabels
    <3>3. OpenOf(turn, batch') = {} /\ Len(batch') = Len(batch)
      BY <1>3, <2>1, <3>2, OpenFinalized DEF Execute, PendingCallsOpen
    <3> QED
      BY <1>3, <2>1, <3>1, <3>3
      DEF Execute, PendingCallsOpen, CallLabels, ResultLabels, CurrentCall
  <2> QED
    BY <1>0, <1>3, <2>1 DEF Execute, Goto, Throw, ThrowFrom
<1>4. CASE EmitToolEnd
  <2>1. pendingToolCalls' = pendingToolCalls \ {<<turn, Len(batch)>>}
    BY <1>4 DEF EmitToolEnd, EndTool
  <2>2. pendingToolCalls' \subseteq OpenOf(turn, batch)
    BY <1>4, <2>1 DEF EmitToolEnd, PendingCallsOpen, CallLabels, CurrentCall
  <2>3. CASE /\ UNCHANGED <<turn, batch, execution>>
         /\ pc' = IF execution = "parallel" THEN "nextCall" ELSE "resultStart"
    BY <1>4, <2>2, <2>3
    DEF EmitToolEnd, PendingCallsOpen, CallLabels, ResultLabels, FailLabels,
        CurrentCall
  <2> QED
    BY <1>0, <1>4, <2>3
    DEF EmitToolEnd, Deliver, Goto, Keep, KeepLocals, batchVars, Throw,
        ThrowFrom
<1>5. CASE NextCall
  <2>1. UNCHANGED <<pendingToolCalls, turn, execution>>
    BY <1>5 DEF NextCall, NoEvent, agentVars, Keep
  <2>2. /\ pendingToolCalls \subseteq OpenOf(turn, batch)
        /\ execution # "parallel" => OpenOf(turn, batch) = {}
    BY <1>5 DEF NextCall, PendingCallsOpen, CallLabels, ResultLabels,
        CurrentCall
  <2>3. OpenOf(turn, batch') = OpenOf(turn, batch)
    BY <1>5, OpenStarted DEF NextCall, Started
  <2>4. \/ pc' = "callStart"
        \/ pc' = "join" /\ execution = "parallel"
        \/ pc' = "turnEnd" /\ execution # "parallel"
    BY <1>5 DEF NextCall, Goto
  <2> QED
    BY <2>1, <2>2, <2>3, <2>4
    DEF PendingCallsOpen, CallLabels, ResultLabels, CurrentCall
<1>6. ASSUME NEW i \in DOMAIN batch, RunningCallEnds(i) PROVE PendingCallsOpen'
  <2>1. /\ pendingToolCalls' = pendingToolCalls \ {<<turn, i>>} /\ turn' = turn
        /\ pendingToolCalls \subseteq OpenOf(turn, batch)
        /\ execution = "parallel"
    BY <1>6
    DEF RunningCallEnds, EndTool, PendingCallsOpen, CallLabels, CurrentCall,
        Keep
  <2>2. CASE /\ \E t \in BOOLEAN : batch' = Finalize(i, t)
             /\ pc' = "join" /\ UNCHANGED execution
    <3>1. OpenOf(turn, batch') = OpenOf(turn, batch) \ {<<turn, i>>}
      BY <2>2, OpenFinalized
    <3> QED
      BY <2>1, <2>2, <3>1
      DEF PendingCallsOpen, CallLabels, ResultLabels, CurrentCall
  <2> QED
    BY <1>0, <1>6, <2>2 DEF RunningCallEnds, Goto, ThrowFrom
<1>7. ASSUME NEW i \in DOMAIN batch, RunningCallFails(i)
      PROVE  PendingCallsOpen'
  BY <1>0, <1>7 DEF RunningCallFails, ThrowFrom
<1>8. CASE Joined
  <2>1. OpenOf(turn, batch) = {}
    BY <1>8 DEF Joined, OpenOf
  <2>2. pendingToolCalls = {} /\ execution = "parallel"
    BY <1>8, <2>1 DEF Joined, PendingCallsOpen, CallLabels, CurrentCall
  <2>3. UNCHANGED <<pendingToolCalls, turn, batch, execution>>
        /\ pc' = "resultStart"
    BY <1>8
    DEF Joined, NoEvent, agentVars, Keep, KeepLocals, batchVars, Goto
  <2> QED
    BY <2>1, <2>2, <2>3 DEF PendingCallsOpen, CallLabels, ResultLabels
<1>9. CASE EmitResultStart
  <2>1. CASE UNCHANGED <<pendingToolCalls, turn, batch, execution>>
             /\ pc' = "resultEnd"
    BY <1>9, <2>1
    DEF EmitResultStart, PendingCallsOpen, CallLabels, ResultLabels, FailLabels
  <2> QED
    BY <1>0, <1>9, <2>1
    DEF EmitResultStart, StartMessage, Deliver, Goto, Keep, KeepLocals,
        batchVars,
        Throw, ThrowFrom
<1>10. CASE EmitResultEnd
  <2>1. CASE /\ UNCHANGED <<pendingToolCalls, turn, batch, execution>>
             /\ \/ pc' = "nextCall" /\ execution # "parallel"
                \/ pc' \in {"resultStart", "turnEnd"} /\ execution = "parallel"
    BY <1>10, <2>1
    DEF EmitResultEnd, PendingCallsOpen, CallLabels, ResultLabels, FailLabels,
        CurrentCall
  <2> QED
    BY <1>0, <1>10, <2>1
    DEF EmitResultEnd, EndMessage, Goto, Keep, Throw, ThrowFrom
<1> QED
  BY <1>1, <1>2, <1>3, <1>4, <1>5, <1>6, <1>7, <1>8, <1>9, <1>10 DEF Tools

LEMMA PendingUntouched ==
    ASSUME PendingCallsOpen, pendingToolCalls' \subseteq pendingToolCalls,
           UNCHANGED <<pc, turn, batch, execution>>
    PROVE  PendingCallsOpen'
BY DEF PendingCallsOpen, CurrentCall

LEMMA EmbedderPending == PendingCallsOpen /\ Embedder => PendingCallsOpen'
<1> SUFFICES ASSUME PendingCallsOpen, Embedder PROVE PendingCallsOpen'
  OBVIOUS
<1>1. CASE Steer \/ FollowUp \/ ClearQueue \/ SetQueueMode \/ Abort \/ Reset
           \/ DropFailedReply
  <2>1. UNCHANGED <<pc, turn, batch, execution>>
        /\ pendingToolCalls' \subseteq pendingToolCalls
    BY <1>1 DEF Steer, FollowUp, ClearQueue, SetQueueMode, Abort, Reset,
                DropFailedReply, batchVars, agentVars
  <2> QED
    BY <2>1, PendingUntouched
<1>2. CASE Prompt \/ ContinueWithSteering \/ ContinueWithFollowUp
           \/ ContinueTranscript
  <2>1. UNCHANGED pendingToolCalls /\ pc = "idle" /\ pc' = "agentStart"
    BY <1>2 DEF Prompt, ContinueWithSteering, ContinueWithFollowUp,
                ContinueTranscript, StartRun, Idle
  <2> QED
    BY <2>1, PendingElsewhere DEF CallLabels, ResultLabels, FailLabels
<1> QED
  BY <1>1, <1>2 DEF Embedder

LEMMA StepPending ==
    TypedShape /\ PendingCallsOpen /\ [Next]_vars => PendingCallsOpen'
<1> SUFFICES ASSUME TypedShape, PendingCallsOpen, [Next]_vars
             PROVE  PendingCallsOpen'
  OBVIOUS
<1>1. CASE Failure
  <2>1. pc' \in FailLabels \cup {"finish"}
    BY <1>1 DEF Failure, EmitFailureStart, EmitFailureEnd, EmitFailureTurnEnd,
                EmitFailureAgentEnd, DeliverFailure, FailLabels
  <2> QED
    BY <2>1, PendingFailing
<1>2. CASE FinishRun
  BY <1>2 DEF FinishRun, PendingCallsOpen, CallLabels, ResultLabels
<1>3. ASSUME NEW c \in orphans, OrphanEnds(c) PROVE PendingCallsOpen'
  <2>1. UNCHANGED <<pc, turn, batch, execution>>
        /\ pendingToolCalls' \subseteq pendingToolCalls
    BY <1>3 DEF OrphanEnds, EndTool, Keep, KeepLocals, batchVars
  <2> QED
    BY <2>1, PendingUntouched
<1>4. CASE UNCHANGED vars
  BY <1>4, PendingUntouched DEF vars, agentVars, batchVars
<1> QED
  BY <1>1, <1>2, <1>3, <1>4, EmbedderPending, TurnPending, ToolsPending
  DEF Next, Run

\* No call is shown as pending between batches, however the executions of
\* earlier batches, in this run or in a failed one, complete.
THEOREM PendingCallsCorrect == Spec => []NoStalePendingCalls
<1>1. Init => PendingCallsOpen
  BY DEF Init, PendingCallsOpen, CallLabels, ResultLabels
<1>2. Spec => [](TypedShape /\ PendingCallsOpen)
  BY <1>1, InitTyped, StepTyped, StepPending, PTL DEF Spec
<1>3. TypedShape /\ PendingCallsOpen => NoStalePendingCalls
  BY DEF TypedShape, PendingCallsOpen, NoStalePendingCalls, CallLabels,
         FailLabels
<1> QED
  BY <1>2, <1>3, PTL

-----------------------------------------------------------------------------
(* The loop's context and the transcript *)

\* How far the loop's context is ahead of, or behind, the transcript.
ContextInStep ==
    /\ pc \in PromptLabels => context = messages \o inject
    /\ pc \in InjectLabels \cup {"request"} \cup TailLabels
         => context = messages
    /\ pc \in StreamLabels => context = Append(messages, LastOf(context))
    /\ pc \in BatchLabels => messages = context \o results

LEMMA HeadMoves ==
    ASSUME NEW s \in Seq(Messages), NEW t \in Seq(UserMessages), t # <<>>
    PROVE  s \o t = Append(s, Head(t)) \o Tail(t)
<1>1. s \in Seq(Messages) /\ t \in Seq(Messages) /\ Head(t) \in Messages
      /\ Tail(t) \in Seq(Messages)
  BY HeadTyping, ConcatTyping
<1>2. Append(s, Head(t)) = s \o <<Head(t)>>
  BY <1>1, AppendIsConcat
<1>3. t = <<Head(t)>> \o Tail(t)
  BY <1>1, HeadTailProperties, ConcatProperties
<1>4. <<Head(t)>> \in Seq(Messages)
  BY <1>1
<1> QED
  BY <1>1, <1>2, <1>3, <1>4, ConcatAssociative

LEMMA ConcatEmpty ==
    ASSUME NEW s \in Seq(Messages)
    PROVE  s \o <<>> = s
BY ConcatEmptySeq

LEMMA LastAppended ==
    ASSUME NEW s \in Seq(Messages), NEW m \in Messages
    PROVE  LastOf(Append(s, m)) = m
BY AppendProperties DEF LastOf

LEMMA LastReplaced ==
    ASSUME NEW s \in Seq(Messages), NEW m \in Messages, NEW x \in Messages
    PROVE  ReplaceLast(Append(s, x), m) = Append(s, m)
<1>1. /\ Append(s, x) \in Seq(Messages) /\ Append(s, m) \in Seq(Messages)
      /\ Len(Append(s, x)) = Len(s) + 1 /\ Len(Append(s, m)) = Len(s) + 1
      /\ \A i \in 1..Len(s) : Append(s, x)[i] = s[i] /\ Append(s, m)[i] = s[i]
      /\ Append(s, m)[Len(s) + 1] = m
  BY AppendProperties
<1> DEFINE a == Append(s, x)
<1> HIDE DEF a
<1>2. Len(s) \in Nat /\ Len(a) = Len(s) + 1 /\ a \in Seq(Messages)
  BY <1>1, LenProperties DEF a
<1>3. Len(a) \in 1..Len(a)
  BY <1>2
<1>4. /\ ReplaceLast(a, m) \in Seq(Messages)
      /\ Len(ReplaceLast(a, m)) = Len(a)
      /\ \A j \in 1..Len(a) :
            ReplaceLast(a, m)[j] = IF j = Len(a) THEN m ELSE a[j]
  BY <1>2, <1>3, ExceptSeq DEF ReplaceLast
<1>5. \A j \in 1..Len(a) : ReplaceLast(a, m)[j] = Append(s, m)[j]
  BY <1>1, <1>2, <1>4 DEF a
<1> QED
  BY <1>1, <1>2, <1>4, <1>5, SeqEqual DEF a

LEMMA ResultAppended ==
    ASSUME NEW s \in Seq(Messages), NEW t \in Seq(ResultMessages),
           NEW r \in ResultMessages
    PROVE  Append(s \o t, r) = s \o Append(t, r)
<1>1. t \in Seq(Messages) /\ r \in Messages
  BY MessageKinds, SeqMonotonic
<1>2. Append(s \o t, r) = (s \o t) \o <<r>> /\ Append(t, r) = t \o <<r>>
  BY <1>1, ConcatProperties, AppendIsConcat
<1>3. <<r>> \in Seq(Messages)
  BY <1>1
<1> QED
  BY <1>1, <1>2, <1>3, ConcatAssociative

\* A step that fails the run needs nothing; one that keeps its place, its
\* context and the transcript keeps the relation.
LEMMA ContextFailing ==
    ASSUME pc' \in FailLabels \cup {"finish", "idle"}
    PROVE  ContextInStep'
BY DEF ContextInStep, PromptLabels, InjectLabels, TailLabels, StreamLabels,
       BatchLabels, CallLabels, ResultLabels, FailLabels

LEMMA ContextUntouched ==
    ASSUME ContextInStep,
           UNCHANGED <<pc, messages, context, inject, results>>
    PROVE  ContextInStep'
BY DEF ContextInStep

\* The transcript and the context stay equal.
LEMMA ContextEqual ==
    ASSUME context' = messages',
           pc' \in InjectLabels \cup {"request"} \cup TailLabels
    PROVE  ContextInStep'
BY DEF ContextInStep, PromptLabels, InjectLabels, TailLabels, StreamLabels,
       BatchLabels, CallLabels, ResultLabels

\* A step within a batch leaves results, context and transcript alone.
LEMMA ContextInBatch ==
    ASSUME ContextInStep, pc \in BatchLabels, pc' \in BatchLabels,
           UNCHANGED <<messages, context, results>>
    PROVE  ContextInStep'
BY DEF ContextInStep, PromptLabels, InjectLabels, TailLabels, StreamLabels,
       BatchLabels, CallLabels, ResultLabels

LEMMA TurnContext == TypedShape /\ ContextInStep /\ Turn => ContextInStep'
<1> SUFFICES ASSUME TypedShape, ContextInStep, Turn PROVE ContextInStep'
  OBVIOUS
<1> USE DEF TypedShape, TypeOK
<1>0. pc' = "failStart" => ContextInStep'
  BY ContextFailing DEF FailLabels
<1>1. CASE EmitAgentStart \/ EmitFirstTurnStart \/ EmitPromptStart
  <2>1. CASE /\ UNCHANGED <<messages, context, inject>> /\ pc \in PromptLabels
             /\ \/ pc' \in PromptLabels
                \/ inject = <<>> /\ pc' = "initialPoll"
    <3>1. context = messages \o inject /\ (inject = <<>> => context = messages)
      BY <2>1, ConcatEmpty DEF ContextInStep, AgentTypeOK
    <3> QED
      BY <2>1, <3>1
      DEF ContextInStep, PromptLabels, InjectLabels, TailLabels, StreamLabels,
          BatchLabels, CallLabels, ResultLabels
  <2> QED
    BY <1>0, <1>1, <2>1
    DEF EmitAgentStart, EmitFirstTurnStart, EmitPromptStart, Announce, agentVars,
        StartMessage, Deliver, Goto, KeepLocals, loopVars, Throw, ThrowFrom,
        PromptLabels
<1>2. CASE EmitPromptEnd
  <2>1. CASE /\ inject' = Tail(inject) /\ UNCHANGED context
             /\ pc' = IF Tail(inject) = <<>> THEN "initialPoll" ELSE "promptStart"
    <3>1. inject # <<>> /\ messages' = Append(messages, Head(inject))
          /\ context = messages \o inject
      BY <1>2 DEF EmitPromptEnd, EndMessage, Shape, ContextInStep, PromptLabels
    <3>2. context' = messages' \o inject'
      BY <2>1, <3>1, HeadMoves DEF AgentTypeOK, LoopTypeOK
    <3>3. messages' \in Seq(Messages)
      BY <3>1, HeadTyping, AppendTyping DEF AgentTypeOK, LoopTypeOK
    <3>4. inject' = <<>> => context' = messages'
      BY <3>2, <3>3, ConcatEmpty
    <3> QED
      BY <2>1, <3>2, <3>4
      DEF ContextInStep, PromptLabels, InjectLabels, TailLabels, StreamLabels,
          BatchLabels, CallLabels, ResultLabels
  <2> QED
    BY <1>0, <1>2, <2>1 DEF EmitPromptEnd, Goto, Throw, ThrowFrom
<1>3. CASE InitialPoll \/ EmitTurnStart \/ EmitInjectStart \/ AfterTurn
           \/ PollSteering \/ PollFollowUps \/ EmitFailedTurnEnd
  <2>1. context = messages /\ UNCHANGED messages
    BY <1>3
    DEF InitialPoll, EmitTurnStart, EmitInjectStart, AfterTurn, PollSteering,
        PollFollowUps, EmitFailedTurnEnd, ContextInStep, InjectLabels, TailLabels,
        NoEvent, Announce, StartMessage, EndTurn, agentVars
  <2>2. \/ pc' = "failStart"
        \/ /\ UNCHANGED context
           /\ pc' \in InjectLabels \cup {"request"} \cup TailLabels
    BY <1>3
    DEF InitialPoll, EmitTurnStart, EmitInjectStart, AfterTurn, PollSteering,
        PollFollowUps, EmitFailedTurnEnd, InjectLabels, TailLabels, Deliver, Goto,
        KeepLocals, loopVars, Throw, ThrowFrom
  <2> QED
    BY <1>0, <2>1, <2>2, ContextEqual
<1>4. CASE EmitInjectEnd
  <2>1. CASE /\ context' = context \o <<Head(inject)>>
             /\ pc' \in {"request", "injectStart"}
    <3>1. /\ messages' = Append(messages, Head(inject)) /\ context = messages
          /\ Head(inject) \in Messages
      BY <1>4, HeadTyping
      DEF EmitInjectEnd, EndMessage, ContextInStep, InjectLabels, Shape,
          LoopTypeOK
    <3>2. context' = messages'
      BY <2>1, <3>1, AppendIsConcat DEF AgentTypeOK
    <3> QED
      BY <2>1, <3>2, ContextEqual DEF InjectLabels
  <2> QED
    BY <1>0, <1>4, <2>1 DEF EmitInjectEnd, Push, Goto, Throw, ThrowFrom
<1>5. CASE RequestFails \/ StreamThrows
  BY <1>0, <1>5 DEF RequestFails, StreamThrows, Throw, ThrowFrom
<1>6. CASE StreamStart \/ StreamEndsAtOnce
  <2>1. CASE /\ \E m \in Messages : context' = Append(context, m)
             /\ pc' \in StreamLabels
    <3>1. context = messages /\ UNCHANGED messages
      BY <1>6
      DEF StreamStart, StreamEndsAtOnce, StartMessage, ContextInStep, InjectLabels
    <3>2. context' = Append(messages', LastOf(context'))
      BY <2>1, <3>1, LastAppended DEF AgentTypeOK
    <3> QED
      BY <2>1, <3>2
      DEF ContextInStep, PromptLabels, InjectLabels, TailLabels, StreamLabels,
          BatchLabels, CallLabels, ResultLabels
  <2>2. turn + 1 \in Nat \ {0}
    BY DEF CountTypeOK
  <2>3. /\ Assistant(turn + 1, "partial", 0) \in Messages
        /\ FinalMessages(turn + 1) \subseteq Messages
    BY <2>2, AssistantTyping, FinalTyping DEF StopReasons
  <2> QED
    BY <1>0, <1>6, <2>1, <2>3
    DEF StreamStart, StreamEndsAtOnce, Goto, Throw, ThrowFrom, StreamLabels
<1>7. CASE StreamEnds
  <2>1. turn \in Nat \ {0}
    BY <1>7 DEF StreamEnds, Shape, StreamLabels, CountTypeOK
  <2>2. PICK m \in Messages : context' = ReplaceLast(context, m)
    BY <1>7, <2>1, FinalTyping DEF StreamEnds
  <2>3. context = Append(messages, LastOf(context)) /\ LastOf(context) \in Messages
    BY <1>7, LastTyping
    DEF StreamEnds, ContextInStep, Shape, StreamLabels, LoopTypeOK
  <2>4. context' = Append(messages, m)
    BY <2>2, <2>3, LastReplaced DEF AgentTypeOK
  <2>5. context' = Append(messages', LastOf(context')) /\ pc' = "assistantEnd"
    BY <1>7, <2>4, LastAppended
    DEF StreamEnds, NoEvent, agentVars, Goto, AgentTypeOK
  <2> QED
    BY <2>5
    DEF ContextInStep, PromptLabels, InjectLabels, TailLabels, StreamLabels,
        BatchLabels, CallLabels, ResultLabels
<1>8. CASE EmitAssistantEnd
  <2>1. CASE /\ UNCHANGED context /\ results' = <<>>
             /\ pc' \in {"failedTurnEnd", "callStart", "turnEnd"}
    <3>1. messages' = context
      BY <1>8 DEF EmitAssistantEnd, EndMessage, ContextInStep, StreamLabels
    <3>2. messages' = context' \o results' /\ context' = messages'
      BY <2>1, <3>1, ConcatEmpty DEF LoopTypeOK
    <3> QED
      BY <2>1, <3>2
      DEF ContextInStep, PromptLabels, InjectLabels, TailLabels, StreamLabels,
          BatchLabels, CallLabels, ResultLabels
  <2> QED
    BY <1>0, <1>8, <2>1 DEF EmitAssistantEnd, Goto, Throw, ThrowFrom
<1>9. CASE EmitTurnEnd
  <2>1. CASE context' = context \o results /\ pc' = "afterTurn"
    <3>1. context' = messages'
      BY <1>9, <2>1 DEF EmitTurnEnd, EndTurn, ContextInStep, BatchLabels
    <3> QED
      BY <2>1, <3>1, ContextEqual DEF TailLabels
  <2> QED
    BY <1>0, <1>9, <2>1 DEF EmitTurnEnd, Push, Goto, Throw, ThrowFrom
<1>10. CASE EmitAgentEnd
  BY <1>0, <1>10, ContextFailing
  DEF EmitAgentEnd, Deliver, Goto, Throw, ThrowFrom, FailLabels
<1> QED
  BY <1>1, <1>2, <1>3, <1>4, <1>5, <1>6, <1>7, <1>8, <1>9, <1>10 DEF Turn

LEMMA ToolsContext == TypedShape /\ ContextInStep /\ Tools => ContextInStep'
<1> SUFFICES ASSUME TypedShape, ContextInStep, Tools PROVE ContextInStep'
  OBVIOUS
<1> USE DEF TypedShape, TypeOK
<1>0. pc' = "failStart" => ContextInStep'
  BY ContextFailing DEF FailLabels
<1>1. CASE EmitResultEnd
  <2>1. CASE /\ results' = Append(results, NextResult) /\ UNCHANGED context
             /\ pc' \in BatchLabels
    <3>1. /\ messages = context \o results
          /\ messages' = Append(messages, NextResult)
          /\ NextResult \in ResultMessages
      BY <1>1, NextResultTyping
      DEF EmitResultEnd, EndMessage, ContextInStep, BatchLabels, ResultLabels
    <3>2. messages' = context' \o results'
      BY <2>1, <3>1, ResultAppended DEF LoopTypeOK
    <3> QED
      BY <2>1, <3>2
      DEF ContextInStep, PromptLabels, InjectLabels, TailLabels, StreamLabels,
          BatchLabels, CallLabels, ResultLabels
  <2> QED
    BY <1>0, <1>1, <2>1
    DEF EmitResultEnd, Goto, Throw, ThrowFrom, loopVars, BatchLabels, CallLabels,
        ResultLabels
<1>2. CASE ~EmitResultEnd
  <2>1. pc \in BatchLabels /\ UNCHANGED messages
    BY <1>2
    DEF Tools, EmitToolStart, Prepare, Execute, EmitToolEnd, NextCall,
        RunningCallEnds, RunningCallFails, Joined, EmitResultStart, NoEvent,
        agentVars, StartTool, EndTool, StartMessage, BatchLabels, CallLabels,
        ResultLabels
  <2>2. \/ pc' = "failStart"
        \/ pc' \in BatchLabels /\ UNCHANGED <<context, results>>
    BY <1>2
    DEF Tools, EmitToolStart, Prepare, Execute, EmitToolEnd, NextCall,
        RunningCallEnds, RunningCallFails, Joined, EmitResultStart, Deliver, Goto,
        KeepLocals, loopVars, batchVars, Throw, ThrowFrom, BatchLabels,
        CallLabels, ResultLabels
  <2> QED
    BY <1>0, <2>1, <2>2, ContextInBatch
<1> QED
  BY <1>1, <1>2

LEMMA EmbedderContext == ContextInStep /\ Embedder => ContextInStep'
<1> SUFFICES ASSUME ContextInStep, Embedder PROVE ContextInStep'
  OBVIOUS
<1>1. CASE Steer \/ FollowUp \/ ClearQueue \/ SetQueueMode \/ Abort
  <2>1. UNCHANGED <<pc, messages, context, inject, results>>
    BY <1>1 DEF Steer, FollowUp, ClearQueue, SetQueueMode, Abort, agentVars,
                loopVars, batchVars
  <2> QED
    BY <2>1, ContextUntouched
<1>2. CASE Reset \/ DropFailedReply
  BY <1>2, ContextFailing DEF Reset, DropFailedReply, Idle
<1>3. CASE Prompt \/ ContinueWithSteering \/ ContinueWithFollowUp
           \/ ContinueTranscript
  <2>1. pc' = "agentStart" /\ context' = messages' \o inject'
    BY <1>3 DEF Prompt, ContinueWithSteering, ContinueWithFollowUp,
                ContinueTranscript, StartRun
  <2> QED
    BY <2>1
    DEF ContextInStep, PromptLabels, InjectLabels, TailLabels, StreamLabels,
        BatchLabels, CallLabels, ResultLabels
<1> QED
  BY <1>1, <1>2, <1>3 DEF Embedder

LEMMA StepContext == TypedShape /\ ContextInStep /\ [Next]_vars => ContextInStep'
<1> SUFFICES ASSUME TypedShape, ContextInStep, [Next]_vars
             PROVE  ContextInStep'
  OBVIOUS
<1>1. CASE Failure \/ FinishRun
  <2>1. pc' \in FailLabels \cup {"finish", "idle"}
    BY <1>1
    DEF Failure, EmitFailureStart, EmitFailureEnd, EmitFailureTurnEnd,
        EmitFailureAgentEnd, DeliverFailure, FinishRun, FailLabels
  <2> QED
    BY <2>1, ContextFailing
<1>2. ASSUME NEW c \in orphans, OrphanEnds(c) PROVE ContextInStep'
  BY <1>2, ContextUntouched
  DEF OrphanEnds, EndTool, KeepLocals, loopVars, batchVars
<1>3. CASE UNCHANGED vars
  BY <1>3, ContextUntouched DEF vars, agentVars, loopVars, batchVars
<1> QED
  BY <1>1, <1>2, <1>3, EmbedderContext, TurnContext, ToolsContext DEF Next, Run

\* Every request the loop makes is built from exactly the transcript the agent
\* shows, though the two are kept by different code.
THEOREM ContextCorrect == Spec => []ContextMatchesTranscript
<1>1. Init => ContextInStep
  BY ContextFailing
  DEF Init, ContextInStep, PromptLabels, InjectLabels, TailLabels, StreamLabels,
      BatchLabels, CallLabels, ResultLabels
<1>2. Spec => [](TypedShape /\ ContextInStep)
  BY <1>1, InitTyped, StepTyped, StepContext, PTL DEF Spec
<1>3. ContextInStep => ContextMatchesTranscript
  BY DEF ContextInStep, ContextMatchesTranscript
<1> QED
  BY <1>2, <1>3, PTL

-----------------------------------------------------------------------------
(* Sequences of messages *)

HoldLabels == PromptLabels \cup {"turnStart", "injectStart", "injectEnd"}

\* The numbers of the messages of s submitted in one of the given ways.
IdsOf(s, vias) ==
    {s[i].id : i \in {j \in DOMAIN s : s[j].role = "user" /\ s[j].via \in vias}}

Precede(A, B) == \A a \in A, b \in B : a < b

LEMMA ConcatPositions ==
    ASSUME NEW s \in Seq(Messages), NEW t \in Seq(Messages)
    PROVE  /\ DOMAIN s = 1..Len(s) /\ DOMAIN t = 1..Len(t)
           /\ Len(s) \in Nat /\ Len(t) \in Nat
           /\ DOMAIN (s \o t) = 1..(Len(s) + Len(t))
           /\ \A i \in DOMAIN s : (s \o t)[i] = s[i]
           /\ \A i \in DOMAIN t : (s \o t)[Len(s) + i] = t[i]
           /\ \A i \in DOMAIN (s \o t) \ DOMAIN s :
                 i - Len(s) \in DOMAIN t /\ (s \o t)[i] = t[i - Len(s)]
<1>1. /\ Len(s \o t) = Len(s) + Len(t) /\ s \o t \in Seq(Messages)
      /\ \A i \in 1..Len(s) + Len(t) :
            (s \o t)[i] = IF i <= Len(s) THEN s[i] ELSE t[i - Len(s)]
  BY ConcatProperties
<1>2. /\ DOMAIN s = 1..Len(s) /\ DOMAIN t = 1..Len(t)
      /\ Len(s) \in Nat /\ Len(t) \in Nat
      /\ DOMAIN (s \o t) = 1..(Len(s) + Len(t))
  BY <1>1, LenProperties
<1>3. ASSUME NEW i \in DOMAIN s PROVE (s \o t)[i] = s[i]
  BY <1>1, <1>2
<1>4. ASSUME NEW i \in DOMAIN t PROVE (s \o t)[Len(s) + i] = t[i]
  <2>1. Len(s) + i \in 1..Len(s) + Len(t) /\ ~(Len(s) + i <= Len(s))
        /\ (Len(s) + i) - Len(s) = i
    BY <1>2
  <2> QED
    BY <1>1, <2>1
<1>5. ASSUME NEW i \in DOMAIN (s \o t) \ DOMAIN s
      PROVE  i - Len(s) \in DOMAIN t /\ (s \o t)[i] = t[i - Len(s)]
  BY <1>1, <1>2
<1> QED
  BY <1>2, <1>3, <1>4, <1>5

LEMMA IdsOfConcat ==
    ASSUME NEW s \in Seq(Messages), NEW t \in Seq(Messages), NEW vias
    PROVE  IdsOf(s \o t, vias) = IdsOf(s, vias) \cup IdsOf(t, vias)
<1>1. ASSUME NEW x \in IdsOf(s \o t, vias)
      PROVE  x \in IdsOf(s, vias) \cup IdsOf(t, vias)
  <2>1. PICK i \in DOMAIN (s \o t) :
           /\ (s \o t)[i].role = "user" /\ (s \o t)[i].via \in vias
           /\ x = (s \o t)[i].id
    BY DEF IdsOf
  <2>2. CASE i \in DOMAIN s
    BY <2>1, <2>2, ConcatPositions DEF IdsOf
  <2>3. CASE i \notin DOMAIN s
    <3>1. i - Len(s) \in DOMAIN t /\ (s \o t)[i] = t[i - Len(s)]
      BY <2>1, <2>3, ConcatPositions
    <3> QED
      BY <2>1, <3>1 DEF IdsOf
  <2> QED
    BY <2>2, <2>3
<1>2. ASSUME NEW x \in IdsOf(s, vias) PROVE x \in IdsOf(s \o t, vias)
  <2>1. PICK i \in DOMAIN s :
           s[i].role = "user" /\ s[i].via \in vias /\ x = s[i].id
    BY DEF IdsOf
  <2>2. i \in DOMAIN (s \o t) /\ (s \o t)[i] = s[i]
    BY <2>1, ConcatPositions
  <2> QED
    BY <2>1, <2>2 DEF IdsOf
<1>3. ASSUME NEW x \in IdsOf(t, vias) PROVE x \in IdsOf(s \o t, vias)
  <2>1. PICK i \in DOMAIN t :
           t[i].role = "user" /\ t[i].via \in vias /\ x = t[i].id
    BY DEF IdsOf
  <2>2. Len(s) + i \in DOMAIN (s \o t) /\ (s \o t)[Len(s) + i] = t[i]
    BY <2>1, ConcatPositions
  <2> QED
    BY <2>1, <2>2 DEF IdsOf
<1> QED
  BY <1>1, <1>2, <1>3

LEMMA IdsOfSingle ==
    ASSUME NEW m, NEW vias
    PROVE  IdsOf(<<m>>, vias) = IF m.role = "user" /\ m.via \in vias
                                THEN {m.id} ELSE {}
<1>1. DOMAIN <<m>> = {1} /\ <<m>>[1] = m
  OBVIOUS
<1> QED
  BY <1>1 DEF IdsOf

LEMMA IdsOfEmpty ==
    ASSUME NEW vias
    PROVE  IdsOf(<<>>, vias) = {}
BY DEF IdsOf

LEMMA InOrderConcat ==
    ASSUME NEW s \in Seq(Messages), NEW t \in Seq(Messages), NEW via
    PROVE  InOrder(s \o t, via)
             <=> /\ InOrder(s, via) /\ InOrder(t, via)
                 /\ Precede(IdsOf(s, {via}), IdsOf(t, {via}))
<1> DEFINE st == s \o t
<1>0. /\ DOMAIN s = 1..Len(s) /\ DOMAIN t = 1..Len(t)
      /\ Len(s) \in Nat /\ Len(t) \in Nat
      /\ DOMAIN st = 1..(Len(s) + Len(t))
      /\ \A i \in DOMAIN s : st[i] = s[i]
      /\ \A i \in DOMAIN t : st[Len(s) + i] = t[i]
      /\ \A i \in DOMAIN st \ DOMAIN s :
            i - Len(s) \in DOMAIN t /\ st[i] = t[i - Len(s)]
  BY ConcatPositions
<1> HIDE DEF st
<1>1. ASSUME InOrder(st, via)
      PROVE  /\ InOrder(s, via) /\ InOrder(t, via)
             /\ Precede(IdsOf(s, {via}), IdsOf(t, {via}))
  <2>1. InOrder(s, via)
    BY <1>0, <1>1 DEF InOrder
  <2>2. InOrder(t, via)
    <3>1. ASSUME NEW i \in DOMAIN t, NEW j \in DOMAIN t, i < j,
                 t[i].role = "user", t[j].role = "user",
                 t[i].via = via, t[j].via = via
          PROVE  t[i].id < t[j].id
      <4>1. /\ Len(s) + i \in DOMAIN st /\ Len(s) + j \in DOMAIN st
            /\ Len(s) + i < Len(s) + j
            /\ st[Len(s) + i] = t[i] /\ st[Len(s) + j] = t[j]
        BY <1>0, <3>1
      <4> QED
        BY <1>1, <3>1, <4>1 DEF InOrder
    <3> QED
      BY <3>1 DEF InOrder
  <2>3. ASSUME NEW i \in DOMAIN s, NEW j \in DOMAIN t,
               s[i].role = "user", t[j].role = "user",
               s[i].via = via, t[j].via = via
        PROVE  s[i].id < t[j].id
    <3>1. /\ i \in DOMAIN st /\ Len(s) + j \in DOMAIN st /\ i < Len(s) + j
          /\ st[i] = s[i] /\ st[Len(s) + j] = t[j]
      BY <1>0
    <3> QED
      BY <1>1, <2>3, <3>1 DEF InOrder
  <2> QED
    BY <2>1, <2>2, <2>3 DEF Precede, IdsOf
<1>2. ASSUME InOrder(s, via), InOrder(t, via),
             Precede(IdsOf(s, {via}), IdsOf(t, {via})),
             NEW i \in DOMAIN st, NEW j \in DOMAIN st, i < j,
             st[i].role = "user", st[j].role = "user",
             st[i].via = via, st[j].via = via
      PROVE  st[i].id < st[j].id
  <2>1. CASE j \in DOMAIN s
    <3>1. i \in DOMAIN s
      BY <1>0, <1>2, <2>1
    <3> QED
      BY <1>0, <1>2, <2>1, <3>1 DEF InOrder
  <2>2. CASE i \in DOMAIN s /\ j \notin DOMAIN s
    <3>1. /\ j - Len(s) \in DOMAIN t /\ st[j] = t[j - Len(s)] /\ st[i] = s[i]
      BY <1>0, <2>2
    <3>2. st[i].id \in IdsOf(s, {via}) /\ st[j].id \in IdsOf(t, {via})
      BY <1>2, <2>2, <3>1 DEF IdsOf
    <3> QED
      BY <1>2, <3>2 DEF Precede
  <2>3. CASE i \notin DOMAIN s
    <3>1. j \notin DOMAIN s
      BY <1>0, <1>2, <2>3
    <3>2. /\ i - Len(s) \in DOMAIN t /\ st[i] = t[i - Len(s)]
          /\ j - Len(s) \in DOMAIN t /\ st[j] = t[j - Len(s)]
          /\ i - Len(s) < j - Len(s)
      BY <1>0, <1>2, <2>3, <3>1
    <3> QED
      BY <1>2, <3>2 DEF InOrder
  <2> QED
    BY <2>1, <2>2, <2>3
<1>3. InOrder(st, via)
        <=> /\ InOrder(s, via) /\ InOrder(t, via)
            /\ Precede(IdsOf(s, {via}), IdsOf(t, {via}))
  BY <1>1, <1>2 DEF InOrder
<1> QED
  BY <1>3 DEF st

LEMMA InOrderSingle ==
    ASSUME NEW m, NEW via
    PROVE  InOrder(<<m>>, via) /\ InOrder(<<>>, via)
BY DEF InOrder

LEMMA DrainSplits ==
    ASSUME NEW q \in Seq(UserMessages), NEW mode
    PROVE  /\ q = Drained(q, mode) \o Remaining(q, mode)
           /\ Drained(q, mode) \in Seq(UserMessages)
           /\ Remaining(q, mode) \in Seq(UserMessages)
           /\ Drained(q, mode) = <<>> => q = <<>> /\ Remaining(q, mode) = <<>>
<1>1. CASE mode = "all" \/ q = <<>>
  BY <1>1, ConcatEmptySeq, EmptyTyping DEF Drained, Remaining
<1>2. CASE ~(mode = "all" \/ q = <<>>)
  <2>1. Drained(q, mode) = <<Head(q)>> /\ Remaining(q, mode) = Tail(q)
    BY <1>2 DEF Drained, Remaining
  <2>2. /\ Head(q) \in UserMessages /\ Tail(q) \in Seq(UserMessages)
        /\ q = <<Head(q)>> \o Tail(q)
    BY <1>2, HeadTailProperties, ConcatProperties
  <2> QED
    BY <2>1, <2>2
<1> QED
  BY <1>1, <1>2

-----------------------------------------------------------------------------
(* What a run holds at each suspension point *)

\* What the loop holds at each suspension point: messages still to inject only
\* where they are being injected, and the reply whose calls are under way.
Holding ==
    /\ pc \notin HoldLabels => inject = <<>>
    /\ pc \in StreamLabels \cup BatchLabels =>
           /\ context # <<>>
           /\ LastOf(context).role = "assistant" /\ LastOf(context).id = turn
    /\ pc = "failEnd" => streamingMessage.role = "assistant"

LEMMA FinalReply ==
    ASSUME NEW n \in Nat \ {0}, NEW m \in FinalMessages(n)
    PROVE  /\ m \in Messages /\ m.role = "assistant" /\ m.id = n
           /\ m.calls \in Nat
BY FinalTyping DEF FinalMessages, Assistant, BoundsAssumption

LEMMA HoldingFailing ==
    ASSUME pc' = "failStart", inject' = <<>>
    PROVE  Holding'
BY DEF Holding, StreamLabels, BatchLabels, CallLabels, ResultLabels

\* A step that keeps what is held, outside a reply or within one.
LEMMA HoldingElsewhere ==
    ASSUME pc' \in HoldLabels \/ inject' = <<>>,
           pc' \notin StreamLabels \cup BatchLabels, pc' # "failEnd"
    PROVE  Holding'
BY DEF Holding

LEMMA HoldingReply ==
    ASSUME Holding, pc \in StreamLabels \cup BatchLabels,
           UNCHANGED <<context, inject, turn>>,
           pc' \notin HoldLabels, pc' # "failEnd"
    PROVE  Holding'
BY DEF Holding, HoldLabels, StreamLabels, BatchLabels, CallLabels, ResultLabels,
       PromptLabels

LEMMA HoldingUntouched ==
    ASSUME Holding, UNCHANGED <<pc, inject, context, turn, streamingMessage>>
    PROVE  Holding'
BY DEF Holding

LEMMA TurnHolding == TypedShape /\ Holding /\ Turn => Holding'
<1> SUFFICES ASSUME TypedShape, Holding, Turn PROVE Holding'
  OBVIOUS
<1> USE DEF TypedShape, TypeOK
<1>1. CASE pc' = "failStart"
  <2>1. inject' = <<>>
    BY <1>1
    DEF Turn, EmitAgentStart, EmitFirstTurnStart, EmitPromptStart,
        EmitPromptEnd, InitialPoll, EmitTurnStart, EmitInjectStart,
        EmitInjectEnd, RequestFails, StreamStart, StreamEndsAtOnce, StreamEnds,
        StreamThrows, EmitAssistantEnd, EmitFailedTurnEnd, EmitTurnEnd,
        AfterTurn, PollSteering, PollFollowUps, EmitAgentEnd, Deliver, Goto,
        Throw, ThrowFrom, DiscardLocals
  <2> QED
    BY <1>1, <2>1, HoldingFailing
<1>2. CASE pc' # "failStart"
  <2>1. CASE EmitAgentStart \/ EmitFirstTurnStart \/ EmitPromptStart
             \/ EmitPromptEnd \/ InitialPoll \/ EmitTurnStart \/ EmitInjectStart
             \/ EmitInjectEnd \/ PollSteering \/ PollFollowUps
    <3>1. /\ pc' \in HoldLabels \/ inject' = <<>>
          /\ pc' \in HoldLabels \cup {"initialPoll", "request", "pollFollowUp",
                                      "agentEnd"}
      BY <1>2, <2>1
      DEF EmitAgentStart, EmitFirstTurnStart, EmitPromptStart, EmitPromptEnd,
          InitialPoll, EmitTurnStart, EmitInjectStart, EmitInjectEnd,
          PollSteering, PollFollowUps, Deliver, Goto, Throw, ThrowFrom,
          KeepLocals, loopVars, HoldLabels, PromptLabels
    <3> QED
      BY <3>1, HoldingElsewhere
      DEF HoldLabels, PromptLabels, StreamLabels, BatchLabels, CallLabels,
          ResultLabels
  <2>2. CASE RequestFails \/ StreamThrows
    BY <1>2, <2>2 DEF RequestFails, StreamThrows, Throw, ThrowFrom
  <2>3. CASE StreamStart \/ StreamEndsAtOnce
    <3>1. turn' = turn + 1 /\ turn' \in Nat \ {0}
      BY <2>3 DEF StreamStart, StreamEndsAtOnce, CountTypeOK
    <3>2. /\ Assistant(turn', "partial", 0) \in Messages
          /\ Assistant(turn', "partial", 0).role = "assistant"
          /\ Assistant(turn', "partial", 0).id = turn'
      BY <3>1, AssistantTyping DEF StopReasons, Assistant
    <3>3. PICK m \in Messages : /\ context' = Append(context, m)
                                /\ m.role = "assistant" /\ m.id = turn'
      BY <1>2, <2>3, <3>1, <3>2, FinalReply
      DEF StreamStart, StreamEndsAtOnce, Throw, ThrowFrom
    <3>4. context' # <<>> /\ LastOf(context') = m
      BY <3>3, LastAppended, AppendTyping DEF LoopTypeOK
    <3>5. inject' = <<>> /\ pc' \in StreamLabels
      BY <1>2, <2>3
      DEF StreamStart, StreamEndsAtOnce, Throw, ThrowFrom, Goto, StreamLabels,
          Holding, HoldLabels, PromptLabels
    <3> QED
      BY <3>3, <3>4, <3>5 DEF Holding, StreamLabels
  <2>4. CASE StreamEnds
    <3>1. turn' = turn /\ turn \in Nat \ {0} /\ pc \in StreamLabels
      BY <2>4 DEF StreamEnds, Keep, Shape, StreamLabels, CountTypeOK
    <3>2. PICK m \in FinalMessages(turn) : context' = ReplaceLast(context, m)
      BY <2>4 DEF StreamEnds
    <3>3. m \in Messages /\ m.role = "assistant" /\ m.id = turn
      BY <3>1, FinalReply
    <3>4. context \in Seq(Messages) /\ context # <<>>
      BY <3>1 DEF Holding, LoopTypeOK
    <3>5. context' # <<>> /\ LastOf(context') = m
      <4>1. Len(context) \in 1..Len(context)
        BY <3>4, LenProperties
      <4>2. /\ Len(context') = Len(context)
            /\ context'[Len(context)] = m
        BY <3>2, <3>3, <3>4, <4>1, ExceptSeq DEF ReplaceLast
      <4>3. context' # <<>>
        BY <3>2, <3>3, <3>4, ReplaceTyping
      <4> QED
        BY <4>2, <4>3 DEF LastOf
    <3>6. inject' = <<>> /\ pc' = "assistantEnd"
      BY <2>4, <3>1
      DEF StreamEnds, Goto, Holding, HoldLabels, PromptLabels, StreamLabels
    <3> QED
      BY <3>1, <3>3, <3>5, <3>6 DEF Holding
  <2>5. CASE EmitAssistantEnd
    <3>1. /\ UNCHANGED <<context, inject, turn>> /\ pc \in StreamLabels
          /\ pc' \in {"failedTurnEnd", "callStart", "turnEnd"}
      BY <1>2, <2>5
      DEF EmitAssistantEnd, Goto, Throw, ThrowFrom, Keep, StreamLabels
    <3> QED
      BY <3>1, HoldingReply DEF HoldLabels, PromptLabels
  <2>6. CASE EmitFailedTurnEnd \/ EmitTurnEnd \/ AfterTurn \/ EmitAgentEnd
    <3>1. inject' = <<>>
      BY <1>2, <2>6
      DEF EmitFailedTurnEnd, EmitTurnEnd, AfterTurn, EmitAgentEnd, Deliver,
          Goto, KeepLocals, loopVars, Throw, ThrowFrom, Holding, HoldLabels,
          PromptLabels
    <3>2. pc' \in {"agentReturn", "afterTurn", "poll", "finish"}
      BY <1>2, <2>6
      DEF EmitFailedTurnEnd, EmitTurnEnd, AfterTurn, EmitAgentEnd, Deliver,
          Goto, Throw, ThrowFrom
    <3> QED
      BY <3>1, <3>2, HoldingElsewhere
      DEF StreamLabels, BatchLabels, CallLabels, ResultLabels
  <2> QED
    BY <2>1, <2>2, <2>3, <2>4, <2>5, <2>6 DEF Turn
<1> QED
  BY <1>1, <1>2

LEMMA ToolsHolding == Holding /\ Tools => Holding'
<1> SUFFICES ASSUME Holding, Tools PROVE Holding'
  OBVIOUS
<1>1. pc \in CallLabels \cup ResultLabels
  BY DEF Tools, EmitToolStart, Prepare, Execute, EmitToolEnd, NextCall,
         RunningCallEnds, RunningCallFails, Joined, EmitResultStart,
         EmitResultEnd, CallLabels, ResultLabels
<1>2. \/ pc' = "failStart" /\ inject' = <<>>
      \/ /\ pc' \in BatchLabels
         /\ UNCHANGED <<context, inject, turn>>
  BY DEF Tools, EmitToolStart, Prepare, Execute, EmitToolEnd, NextCall,
         RunningCallEnds, RunningCallFails, Joined, EmitResultStart,
         EmitResultEnd, Deliver, Goto, Keep, KeepLocals, loopVars, Throw,
         ThrowFrom, DiscardLocals, BatchLabels, CallLabels, ResultLabels
<1>3. CASE pc' = "failStart" /\ inject' = <<>>
  BY <1>3, HoldingFailing
<1>4. CASE pc' \in BatchLabels /\ UNCHANGED <<context, inject, turn>>
  BY <1>1, <1>4, HoldingReply
  DEF HoldLabels, PromptLabels, BatchLabels, CallLabels, ResultLabels
<1> QED
  BY <1>2, <1>3, <1>4

LEMMA EmbedderHolding == Holding /\ Embedder => Holding'
<1> SUFFICES ASSUME Holding, Embedder PROVE Holding'
  OBVIOUS
<1>1. CASE Steer \/ FollowUp \/ ClearQueue \/ SetQueueMode \/ Abort
  BY <1>1, HoldingUntouched
  DEF Steer, FollowUp, ClearQueue, SetQueueMode, Abort, agentVars, loopVars
<1>2. CASE Reset \/ DropFailedReply
  <2>1. pc = "idle" /\ UNCHANGED <<pc, inject>>
    BY <1>2 DEF Reset, DropFailedReply, Idle, loopVars
  <2> QED
    BY <2>1 DEF Holding, StreamLabels, BatchLabels, CallLabels, ResultLabels,
                HoldLabels, PromptLabels
<1>3. CASE Prompt \/ ContinueWithSteering \/ ContinueWithFollowUp
           \/ ContinueTranscript
  <2>1. pc' = "agentStart"
    BY <1>3 DEF Prompt, ContinueWithSteering, ContinueWithFollowUp,
                ContinueTranscript, StartRun
  <2> QED
    BY <2>1, HoldingElsewhere
    DEF HoldLabels, PromptLabels, StreamLabels, BatchLabels, CallLabels,
        ResultLabels
<1> QED
  BY <1>1, <1>2, <1>3 DEF Embedder

LEMMA StepHolding == TypedShape /\ Holding /\ [Next]_vars => Holding'
<1> SUFFICES ASSUME TypedShape, Holding, [Next]_vars PROVE Holding'
  OBVIOUS
<1>1. CASE Failure
  <2>1. /\ inject' = <<>> /\ pc' \in FailLabels \cup {"finish"}
        /\ pc' = "failEnd" => EmitFailureStart
    BY <1>1
    DEF Failure, EmitFailureStart, EmitFailureEnd, EmitFailureTurnEnd,
        EmitFailureAgentEnd, DeliverFailure, loopVars, FailLabels, Holding,
        HoldLabels, PromptLabels
  <2>2. EmitFailureStart => streamingMessage'.role = "assistant"
    BY DEF EmitFailureStart, StartMessage, Assistant
  <2> QED
    BY <2>1, <2>2
    DEF Holding, FailLabels, StreamLabels, BatchLabels, CallLabels, ResultLabels
<1>2. CASE FinishRun
  BY <1>2, HoldingElsewhere
  DEF FinishRun, DiscardLocals, StreamLabels, BatchLabels, CallLabels,
      ResultLabels
<1>3. ASSUME NEW c \in orphans, OrphanEnds(c) PROVE Holding'
  BY <1>3, HoldingUntouched
  DEF OrphanEnds, EndTool, Keep, KeepLocals, loopVars
<1>4. CASE UNCHANGED vars
  BY <1>4, HoldingUntouched DEF vars, agentVars, loopVars
<1> QED
  BY <1>1, <1>2, <1>3, <1>4, EmbedderHolding, TurnHolding, ToolsHolding
  DEF Next, Run

-----------------------------------------------------------------------------
(* What a step does to the messages the agent holds *)

\* What one step does to the messages the agent holds.
Kept == Delivered' = Delivered /\ UNCHANGED <<queueVars, sent>>

Dropped ==
    /\ \E t \in Seq(Messages) : /\ Delivered = Delivered' \o t
                                /\ throws' > throws \/ IdsOf(t, Vias) = {}
    /\ UNCHANGED <<queueVars, sent>>

Replied ==
    /\ \E m \in Messages : m.role # "user" /\ Delivered' = Append(Delivered, m)
    /\ UNCHANGED <<queueVars, sent>>

SteeringDrained ==
    /\ Delivered' = Delivered \o Drained(steeringQueue, steeringMode)
    /\ steeringQueue' = Remaining(steeringQueue, steeringMode)
    /\ UNCHANGED <<followUpQueue, sent>>

FollowUpsDrained ==
    /\ Delivered' = Delivered \o Drained(followUpQueue, followUpMode)
    /\ followUpQueue' = Remaining(followUpQueue, followUpMode)
    /\ UNCHANGED <<steeringQueue, sent>>

Submitted ==
    /\ sent' = sent + 1 /\ sent' \in 1..MaxSent
    /\ \/ /\ Delivered' = Append(Delivered, User(sent', "prompt"))
          /\ UNCHANGED queueVars
       \/ /\ steeringQueue' = Append(steeringQueue, User(sent', "steer"))
          /\ Delivered' = Delivered /\ UNCHANGED followUpQueue
       \/ /\ followUpQueue' = Append(followUpQueue, User(sent', "followUp"))
          /\ Delivered' = Delivered /\ UNCHANGED steeringQueue

Cleared ==
    /\ ClearQueue \/ Reset
    /\ Delivered' \in {Delivered, <<>>}
    /\ steeringQueue' \in {steeringQueue, <<>>}
    /\ followUpQueue' \in {followUpQueue, <<>>}
    /\ sent' = sent

Moved ==
    \/ Kept \/ Dropped \/ Replied \/ SteeringDrained \/ FollowUpsDrained
    \/ Submitted \/ Cleared

LEMMA DeliveredAlone ==
    ASSUME TypeOK, inject = <<>>
    PROVE  Delivered = messages
BY ConcatEmpty DEF Delivered, TypeOK, AgentTypeOK

LEMMA DropsInject ==
    ASSUME TypeOK, UNCHANGED <<messages, queueVars, sent>>, inject' = <<>>,
           throws' > throws
    PROVE  Dropped
<1>1. Delivered' = messages
  BY ConcatEmpty DEF Delivered, TypeOK, AgentTypeOK
<1>2. inject \in Seq(Messages) /\ Delivered = Delivered' \o inject
  BY <1>1, ConcatTyping DEF Delivered, TypeOK, LoopTypeOK
<1> QED
  BY <1>2 DEF Dropped

\* The next message to inject reaches the transcript, with or without its
\* listener throwing.
LEMMA HeadDelivered ==
    ASSUME TypeOK, inject # <<>>, messages' = Append(messages, Head(inject)),
           \/ inject' = Tail(inject)
           \/ inject' = <<>> /\ throws' > throws,
           UNCHANGED <<queueVars, sent>>
    PROVE  Kept \/ Dropped
<1>1. /\ messages \in Seq(Messages) /\ inject \in Seq(UserMessages)
      /\ Head(inject) \in Messages /\ Tail(inject) \in Seq(UserMessages)
      /\ Append(messages, Head(inject)) \in Seq(Messages)
  BY HeadTyping, AppendTyping DEF TypeOK, AgentTypeOK, LoopTypeOK
<1>2. Delivered = messages' \o Tail(inject)
  BY <1>1, HeadMoves DEF Delivered
<1>3. CASE inject' = Tail(inject)
  BY <1>2, <1>3 DEF Kept, Delivered
<1>4. CASE inject' = <<>> /\ throws' > throws
  <2>1. Delivered' = messages'
    BY <1>1, <1>4, ConcatEmpty DEF Delivered
  <2>2. Delivered = Delivered' \o Tail(inject)
    BY <1>2, <2>1
  <2>3. Tail(inject) \in Seq(Messages)
    BY <1>1, ConcatTyping
  <2> QED
    BY <1>4, <2>2, <2>3 DEF Dropped
<1> QED
  BY <1>3, <1>4

LEMMA ReplyDelivered ==
    ASSUME TypeOK, inject = <<>>, inject' = <<>>,
           NEW m \in Messages, m.role # "user", messages' = Append(messages, m),
           UNCHANGED <<queueVars, sent>>
    PROVE  Replied
<1>1. messages \in Seq(Messages) /\ messages' \in Seq(Messages)
  BY AppendTyping DEF TypeOK, AgentTypeOK
<1>2. Delivered = messages /\ Delivered' = messages'
  BY <1>1, ConcatEmpty DEF Delivered
<1> QED
  BY <1>2 DEF Replied

LEMMA TurnMoves == TypedShape /\ Holding /\ Turn => Moved
<1> SUFFICES ASSUME TypedShape, Holding, Turn PROVE Moved
  OBVIOUS
<1> USE DEF TypedShape
<1>0. throws \in Nat
  BY DEF TypeOK, CountTypeOK, BoundsAssumption
<1>1. CASE EmitPromptEnd \/ EmitInjectEnd
  <2>1. /\ inject # <<>> /\ messages' = Append(messages, Head(inject))
        /\ UNCHANGED <<queueVars, sent>>
    BY <1>1
    DEF EmitPromptEnd, EmitInjectEnd, EndMessage, Shape, Frame, Keep, boundVars
  <2>2. \/ inject' = Tail(inject)
        \/ inject' = <<>> /\ throws' > throws
    BY <1>0, <1>1
    DEF EmitPromptEnd, EmitInjectEnd, Throw, ThrowFrom, DiscardLocals
  <2> QED
    BY <2>1, <2>2, HeadDelivered DEF Moved
<1>2. CASE InitialPoll \/ PollSteering \/ PollFollowUps
  <2>1. /\ inject = <<>> /\ Delivered = messages /\ sent' = sent
        /\ Delivered' = Delivered \o inject'
    <3>1. inject = <<>> /\ messages' = messages /\ sent' = sent
      BY <1>2
      DEF InitialPoll, PollSteering, PollFollowUps, Holding, HoldLabels,
          PromptLabels, NoEvent, agentVars, Frame, boundVars
    <3> QED
      BY <3>1, DeliveredAlone DEF Delivered
  <2>2. CASE InitialPoll /\ skipPoll
    <3>1. inject' = <<>> /\ UNCHANGED queueVars
      BY <2>2 DEF InitialPoll, queueVars
    <3> QED
      BY <2>1, <3>1 DEF Moved, Kept, Delivered
  <2> QED
    BY <1>2, <2>1, <2>2
    DEF InitialPoll, PollSteering, PollFollowUps, Moved, SteeringDrained,
        FollowUpsDrained
<1>3. CASE EmitAssistantEnd
  <2>1. LastOf(context) \in Messages /\ LastOf(context).role = "assistant"
    BY <1>3, LastTyping
    DEF EmitAssistantEnd, Holding, StreamLabels, TypeOK, LoopTypeOK
  <2>2. /\ messages' = Append(messages, LastOf(context))
        /\ inject = <<>> /\ inject' = <<>> /\ UNCHANGED <<queueVars, sent>>
    BY <1>3
    DEF EmitAssistantEnd, EndMessage, Throw, ThrowFrom, DiscardLocals, Holding,
        HoldLabels, PromptLabels, Frame, Keep, boundVars
  <2> QED
    BY <2>1, <2>2, ReplyDelivered DEF Moved
<1>4. CASE EmitAgentStart \/ EmitFirstTurnStart \/ EmitPromptStart
           \/ EmitTurnStart \/ EmitInjectStart \/ StreamStart
           \/ StreamEndsAtOnce \/ StreamEnds \/ RequestFails \/ StreamThrows
           \/ EmitFailedTurnEnd \/ EmitTurnEnd \/ AfterTurn \/ EmitAgentEnd
  <2>1. UNCHANGED <<messages, queueVars, sent>>
    BY <1>4
    DEF EmitAgentStart, EmitFirstTurnStart, EmitPromptStart, EmitTurnStart,
        EmitInjectStart, StreamStart, StreamEndsAtOnce, StreamEnds,
        RequestFails, StreamThrows, EmitFailedTurnEnd, EmitTurnEnd, AfterTurn,
        EmitAgentEnd, Announce, StartMessage, EndTurn, EndAgent, NoEvent,
        agentVars, Frame, Keep, boundVars
  <2>2. \/ inject' = inject
        \/ inject' = <<>> /\ throws' = throws + 1
    BY <1>4
    DEF EmitAgentStart, EmitFirstTurnStart, EmitPromptStart, EmitTurnStart,
        EmitInjectStart, StreamStart, StreamEndsAtOnce, StreamEnds,
        RequestFails, StreamThrows, EmitFailedTurnEnd, EmitTurnEnd, AfterTurn,
        EmitAgentEnd, Deliver, KeepLocals, loopVars, Throw, ThrowFrom,
        DiscardLocals
  <2>3. inject' = inject => Kept
    BY <2>1 DEF Kept, Delivered
  <2>4. throws' = throws + 1 => throws' > throws
    BY <1>0
  <2> QED
    BY <2>1, <2>2, <2>3, <2>4, DropsInject DEF Moved
<1> QED
  BY <1>1, <1>2, <1>3, <1>4 DEF Turn

LEMMA ToolsMoves == TypedShape /\ Holding /\ Tools => Moved
<1> SUFFICES ASSUME TypedShape, Holding, Tools PROVE Moved
  OBVIOUS
<1> USE DEF TypedShape
<1>1. inject = <<>> /\ inject' = <<>> /\ UNCHANGED <<queueVars, sent>>
  BY DEF Tools, EmitToolStart, Prepare, Execute, EmitToolEnd, NextCall,
         RunningCallEnds, RunningCallFails, Joined, EmitResultStart,
         EmitResultEnd, Holding, HoldLabels, PromptLabels, Deliver, KeepLocals,
         loopVars, Throw, ThrowFrom, DiscardLocals, Frame, Keep, boundVars
<1>2. CASE EmitResultEnd
  <2>1. NextResult \in ResultMessages
    BY <1>2, NextResultTyping DEF EmitResultEnd, ResultLabels
  <2>2. NextResult \in Messages /\ NextResult.role # "user"
    BY <2>1, MessageKinds DEF ResultMessages
  <2>3. messages' = Append(messages, NextResult)
    BY <1>2 DEF EmitResultEnd, EndMessage
  <2> QED
    BY <1>1, <2>2, <2>3, ReplyDelivered DEF Moved
<1>3. CASE ~EmitResultEnd
  <2>1. messages' = messages
    BY <1>3
    DEF Tools, EmitToolStart, Prepare, Execute, EmitToolEnd, NextCall,
        RunningCallEnds, RunningCallFails, Joined, EmitResultStart, NoEvent,
        agentVars, StartTool, EndTool, StartMessage
  <2> QED
    BY <1>1, <2>1 DEF Moved, Kept, Delivered
<1> QED
  BY <1>2, <1>3

LEMMA StartMoves ==
    ASSUME TypeOK, inject = <<>>, NEW prompts \in Seq(UserMessages),
           NEW skip, StartRun(prompts, skip)
    PROVE  Delivered' = Delivered \o prompts
BY DeliveredAlone DEF StartRun, Delivered

LEMMA FrontLast ==
    ASSUME NEW s \in Seq(Messages), s # <<>>
    PROVE  s = Front(s) \o <<LastOf(s)>>
<1>1. Len(s) \in Nat /\ Len(s) >= 1 /\ 1 \in 1..Len(s) /\ Len(s) \in 1..Len(s)
  BY LenProperties, EmptySeq
<1>2. s = SubSeq(s, 1, Len(s))
  BY SubSeqFull
<1> QED
  BY <1>1, <1>2, SubSeqRecursiveSecond DEF Front, LastOf

LEMMA EmbedderMoves == TypedShape /\ Holding /\ Embedder => Moved
<1> SUFFICES ASSUME TypedShape, Holding, Embedder PROVE Moved
  OBVIOUS
<1> USE DEF TypedShape
<1>1. /\ sent \in 0..MaxSent /\ MaxSent \in Nat
      /\ messages \in Seq(Messages)
      /\ Idle => inject = <<>>
  BY BoundsAssumption
  DEF TypeOK, CountTypeOK, AgentTypeOK, Idle, Holding, HoldLabels, PromptLabels
<1>2. CASE Steer \/ FollowUp
  <2>1. sent' = sent + 1 /\ sent' \in 1..MaxSent
    BY <1>1, <1>2 DEF Steer, FollowUp
  <2>2. Delivered' = Delivered
    BY <1>2 DEF Steer, FollowUp, agentVars, loopVars, Delivered
  <2> QED
    BY <1>2, <2>1, <2>2 DEF Steer, FollowUp, Moved, Submitted
<1>3. CASE ClearQueue
  BY <1>3
  DEF ClearQueue, agentVars, loopVars, boundVars, Delivered, Moved, Cleared
<1>4. CASE SetQueueMode \/ Abort
  BY <1>4
  DEF SetQueueMode, Abort, agentVars, loopVars, boundVars, Delivered, Moved,
      Kept
<1>5. CASE Reset
  <2>1. messages' = <<>> /\ inject' = <<>>
    BY <1>1, <1>5 DEF Reset, loopVars
  <2>2. Delivered' = <<>>
    BY <2>1, ConcatEmpty, EmptyTyping DEF Delivered
  <2> QED
    BY <1>5, <2>2 DEF Reset, boundVars, Moved, Cleared
<1>6. CASE DropFailedReply
  <2> DEFINE m == LastOf(messages)
  <2>1. /\ messages # <<>> /\ messages' = Front(messages)
        /\ m.role = "assistant"
        /\ inject = <<>> /\ inject' = <<>> /\ UNCHANGED <<queueVars, sent>>
    BY <1>1, <1>6 DEF DropFailedReply, loopVars, boundVars
  <2>2. /\ m \in Messages /\ Front(messages) \in Seq(Messages)
        /\ messages = Front(messages) \o <<m>>
    BY <1>1, <2>1, FrontTyping, LastTyping, FrontLast
  <2> HIDE DEF m
  <2>3. /\ Delivered = Front(messages) \o <<m>> /\ Delivered' = Front(messages)
    BY <1>1, <2>1, <2>2, ConcatEmpty, AppendIsConcat DEF Delivered
  <2>4. <<m>> \in Seq(Messages)
    BY <2>2
  <2>5. m.role # "user"
    BY <2>1
  <2>6. IdsOf(<<m>>, Vias) = {}
    BY <2>5, IdsOfSingle
  <2> QED
    BY <2>1, <2>3, <2>4, <2>6 DEF Moved, Dropped
<1>7. CASE Prompt
  <2> DEFINE u == User(sent + 1, "prompt")
  <2>1. sent + 1 \in 1..MaxSent /\ sent' = sent + 1 /\ UNCHANGED queueVars
    BY <1>1, <1>7 DEF Prompt
  <2>2. u \in UserMessages /\ u \in Messages
    BY <2>1, UserTyping, MessageKinds DEF Vias
  <2>3. StartRun(<<u>>, FALSE) /\ inject = <<>>
    BY <1>1, <1>7 DEF Prompt, StartRun
  <2> HIDE DEF u
  <2>4. <<u>> \in Seq(UserMessages)
    BY <2>2
  <2>5. Delivered' = Append(Delivered, u)
    BY <1>1, <2>2, <2>3, <2>4, StartMoves, DeliveredAlone, AppendIsConcat
  <2> QED
    BY <2>1, <2>5 DEF u, Moved, Submitted
<1>8. CASE ContinueWithSteering
  <2>1. /\ StartRun(Drained(steeringQueue, steeringMode), TRUE) /\ inject = <<>>
    BY <1>1, <1>8 DEF ContinueWithSteering, StartRun
  <2>2. Drained(steeringQueue, steeringMode) \in Seq(UserMessages)
    BY DrainSplits DEF TypeOK, EmbedderTypeOK
  <2>3. Delivered' = Delivered \o Drained(steeringQueue, steeringMode)
    BY <2>1, <2>2, StartMoves
  <2> QED
    BY <1>8, <2>3 DEF ContinueWithSteering, Moved, SteeringDrained
<1>9. CASE ContinueWithFollowUp
  <2>1. /\ StartRun(Drained(followUpQueue, followUpMode), FALSE)
        /\ inject = <<>>
    BY <1>1, <1>9 DEF ContinueWithFollowUp, StartRun
  <2>2. Drained(followUpQueue, followUpMode) \in Seq(UserMessages)
    BY DrainSplits DEF TypeOK, EmbedderTypeOK
  <2>3. Delivered' = Delivered \o Drained(followUpQueue, followUpMode)
    BY <2>1, <2>2, StartMoves
  <2> QED
    BY <1>9, <2>3 DEF ContinueWithFollowUp, Moved, FollowUpsDrained
<1>10. CASE ContinueTranscript
  <2>1. inject = <<>> /\ inject' = <<>> /\ messages' = messages
        /\ UNCHANGED <<queueVars, sent>>
    BY <1>1, <1>10 DEF ContinueTranscript, StartRun
  <2> QED
    BY <2>1 DEF Moved, Kept, Delivered
<1> QED
  BY <1>2, <1>3, <1>4, <1>5, <1>6, <1>7, <1>8, <1>9, <1>10 DEF Embedder

LEMMA StepMoves == TypedShape /\ Holding /\ [Next]_vars => Moved
<1> SUFFICES ASSUME TypedShape, Holding, [Next]_vars PROVE Moved
  OBVIOUS
<1>1. CASE EmitFailureEnd
  <2>1. /\ streamingMessage \in Messages /\ streamingMessage.role # "user"
        /\ messages' = Append(messages, streamingMessage)
        /\ inject = <<>> /\ inject' = <<>> /\ UNCHANGED <<queueVars, sent>>
    BY <1>1
    DEF EmitFailureEnd, EndMessage, TypedShape, Shape, Holding, HoldLabels,
        PromptLabels, DeliverFailure, loopVars, Frame, Keep, boundVars
  <2> QED
    BY <2>1, ReplyDelivered DEF TypedShape, Moved
<1>2. CASE EmitFailureStart \/ EmitFailureTurnEnd \/ EmitFailureAgentEnd
  BY <1>2
  DEF EmitFailureStart, EmitFailureTurnEnd, EmitFailureAgentEnd, StartMessage,
      EndTurn, EndAgent, DeliverFailure, loopVars, Frame, Keep, boundVars,
      Moved, Kept, Delivered
<1>3. CASE FinishRun
  <2>1. inject = <<>> /\ inject' = <<>> /\ UNCHANGED <<messages, queueVars, sent>>
    BY <1>3
    DEF FinishRun, DiscardLocals, boundVars, Holding, HoldLabels, PromptLabels
  <2> QED
    BY <2>1 DEF Moved, Kept, Delivered
<1>4. ASSUME NEW c \in orphans, OrphanEnds(c) PROVE Moved
  BY <1>4
  DEF OrphanEnds, EndTool, Frame, Keep, KeepLocals, loopVars, boundVars, Moved,
      Kept, Delivered
<1>5. CASE UNCHANGED vars
  BY <1>5
  DEF vars, agentVars, queueVars, loopVars, boundVars, Moved, Kept, Delivered
<1> QED
  BY <1>1, <1>2, <1>3, <1>4, <1>5, EmbedderMoves, TurnMoves, ToolsMoves
  DEF Next, Run, Failure

-----------------------------------------------------------------------------
(* Queues: nothing lost, first in first out *)

LEMMA IdsOfWidens ==
    ASSUME NEW s, NEW vias, NEW wider, vias \subseteq wider
    PROVE  IdsOf(s, vias) \subseteq IdsOf(s, wider)
BY DEF IdsOf

LEMMA HeldIsIdsOf ==
    ASSUME NEW s \in Seq(Messages)
    PROVE  Held(s) = IdsOf(s, Vias)
<1>1. ASSUME NEW j \in DOMAIN s, s[j].role = "user" PROVE s[j].via \in Vias
  <2>1. s[j] \in Messages
    BY ElementOfSeq, LenProperties
  <2> QED
    BY <1>1, <2>1
    DEF Messages, UserMessages, AssistantMessages, ResultMessages
<1> QED
  BY <1>1 DEF Held, IdsOf

LEMMA QueuesTyped ==
    TypeOK => /\ Delivered \in Seq(Messages)
              /\ steeringQueue \in Seq(Messages)
              /\ followUpQueue \in Seq(Messages)
BY ConcatTyping DEF Delivered, TypeOK, AgentTypeOK, EmbedderTypeOK, LoopTypeOK

\* A step moves messages between queues, injection and transcript; what it
\* takes away, a clear, a reset or an exception takes away.
LEMMA MovedKeepsHeld ==
    TypeOK /\ TypeOK' /\ Moved =>
        \/ HeldMessages \subseteq HeldMessages'
        \/ ClearQueue \/ Reset \/ throws' > throws
<1> SUFFICES ASSUME TypeOK, TypeOK', Moved, ~ClearQueue, ~Reset,
                    ~(throws' > throws)
             PROVE  HeldMessages \subseteq HeldMessages'
  OBVIOUS
<1> DEFINE d == Delivered
           sq == steeringQueue
           fq == followUpQueue
<1>1. /\ d \in Seq(Messages) /\ d' \in Seq(Messages)
      /\ sq \in Seq(Messages) /\ sq' \in Seq(Messages)
      /\ fq \in Seq(Messages) /\ fq' \in Seq(Messages)
  BY ConcatTyping
  DEF Delivered, TypeOK, AgentTypeOK, EmbedderTypeOK, LoopTypeOK
<1>2. /\ HeldMessages = IdsOf(sq, Vias) \cup IdsOf(fq, Vias) \cup IdsOf(d, Vias)
      /\ HeldMessages'
           = IdsOf(sq', Vias) \cup IdsOf(fq', Vias) \cup IdsOf(d', Vias)
  BY <1>1, HeldIsIdsOf DEF HeldMessages
<1>3. CASE Kept
  BY <1>2, <1>3 DEF Kept, queueVars
<1>4. CASE Dropped
  <2>1. PICK t \in Seq(Messages) : d = d' \o t /\ IdsOf(t, Vias) = {}
    BY <1>4 DEF Dropped
  <2>2. IdsOf(d' \o t, Vias) = IdsOf(d', Vias) \cup IdsOf(t, Vias)
    BY <1>1, IdsOfConcat
  <2>3. IdsOf(d, Vias) = IdsOf(d', Vias)
    BY <2>1, <2>2
  <2> QED
    BY <1>2, <1>4, <2>3 DEF Dropped, queueVars
<1>5. CASE Replied
  <2>1. PICK m \in Messages : d' = Append(d, m)
    BY <1>5 DEF Replied
  <2> DEFINE e == <<m>>
  <2>2. e \in Seq(Messages) /\ d' = d \o e
    BY <1>1, <2>1, AppendIsConcat
  <2> HIDE DEF e
  <2>3. IdsOf(d \o e, Vias) = IdsOf(d, Vias) \cup IdsOf(e, Vias)
    BY <1>1, <2>2, IdsOfConcat
  <2> QED
    BY <1>2, <1>5, <2>2, <2>3 DEF Replied, queueVars
<1>6. CASE SteeringDrained
  <2> DEFINE a == Drained(sq, steeringMode)
  <2>1. a \in Seq(Messages) /\ sq = a \o sq' /\ d' = d \o a
    BY <1>6, DrainSplits, ConcatTyping
    DEF SteeringDrained, TypeOK, EmbedderTypeOK
  <2> HIDE DEF a
  <2>2. /\ IdsOf(sq, Vias) = IdsOf(a, Vias) \cup IdsOf(sq', Vias)
        /\ IdsOf(d', Vias) = IdsOf(d, Vias) \cup IdsOf(a, Vias)
    BY <1>1, <2>1, IdsOfConcat
  <2> QED
    BY <1>2, <1>6, <2>2 DEF SteeringDrained
<1>7. CASE FollowUpsDrained
  <2> DEFINE a == Drained(fq, followUpMode)
  <2>1. a \in Seq(Messages) /\ fq = a \o fq' /\ d' = d \o a
    BY <1>7, DrainSplits, ConcatTyping
    DEF FollowUpsDrained, TypeOK, EmbedderTypeOK
  <2> HIDE DEF a
  <2>2. /\ IdsOf(fq, Vias) = IdsOf(a, Vias) \cup IdsOf(fq', Vias)
        /\ IdsOf(d', Vias) = IdsOf(d, Vias) \cup IdsOf(a, Vias)
    BY <1>1, <2>1, IdsOfConcat
  <2> QED
    BY <1>2, <1>7, <2>2 DEF FollowUpsDrained
<1>8. CASE Submitted
  <2> DEFINE u(via) == User(sent', via)
  <2>1. \A via \in Vias : u(via) \in Messages /\ <<u(via)>> \in Seq(Messages)
    BY <1>8, UserTyping, MessageKinds DEF Submitted
  <2> HIDE DEF u
  <2>2. ASSUME NEW s \in Seq(Messages), NEW via \in Vias
        PROVE  IdsOf(s, Vias) \subseteq IdsOf(Append(s, u(via)), Vias)
    <3>1. Append(s, u(via)) = s \o <<u(via)>>
      BY <2>1, AppendIsConcat
    <3>2. IdsOf(s \o <<u(via)>>, Vias)
            = IdsOf(s, Vias) \cup IdsOf(<<u(via)>>, Vias)
      BY <2>1, IdsOfConcat
    <3> QED
      BY <3>1, <3>2
  <2> QED
    BY <1>1, <1>2, <1>8, <2>2 DEF u, Submitted, queueVars, Vias
<1> QED
  BY <1>3, <1>4, <1>5, <1>6, <1>7, <1>8 DEF Moved, Cleared

LEMMA InitHolding == Init => Holding
BY DEF Init, Holding, StreamLabels, BatchLabels, CallLabels, ResultLabels

\* No message that was submitted disappears: it waits in its queue, is being
\* injected or is in the transcript, until the embedder clears or resets or
\* the run that drained it throws.
THEOREM NothingLost == Spec => NoSilentLoss
<1>1. Init => TypedShape /\ Holding
  BY InitTyped, InitHolding
<1>2. TypedShape /\ Holding /\ [Next]_vars => (TypedShape /\ Holding)'
  BY StepTyped, StepHolding
<1>3. TypedShape /\ Holding /\ [Next]_vars
        => [\/ HeldMessages \subseteq HeldMessages'
            \/ ClearQueue \/ Reset \/ throws' > throws]_vars
  BY StepTyped, StepMoves, MovedKeepsHeld DEF TypedShape
<1> QED
  BY <1>1, <1>2, <1>3, PTL DEF Spec, NoSilentLoss

\* One queue and what was delivered of it: d is in the order of the numbers,
\* so is q, what is delivered comes before what waits, n is the latest number.
FifoOf(d, q, via, n) ==
    /\ InOrder(d, via) /\ InOrder(q, via)
    /\ Precede(IdsOf(d, {via}), IdsOf(q, {via}))
    /\ IdsOf(d, Vias) \cup IdsOf(q, Vias) \subseteq 1..n
    /\ IdsOf(q, Vias \ {via}) = {}

QueueVias == {"steer", "followUp"}

LEMMA FifoDrops ==
    ASSUME NEW d \in Seq(Messages), NEW t \in Seq(Messages), NEW q, NEW n,
           NEW via, FifoOf(d \o t, q, via, n)
    PROVE  FifoOf(d, q, via, n)
<1>1. \A vias : IdsOf(d, vias) \subseteq IdsOf(d \o t, vias)
  BY IdsOfConcat
<1> QED
  BY <1>1, InOrderConcat DEF FifoOf, Precede

LEMMA FifoDelivers ==
    ASSUME NEW d \in Seq(Messages), NEW a \in Seq(Messages),
           NEW b \in Seq(Messages), NEW n, NEW via,
           FifoOf(d, a \o b, via, n)
    PROVE  FifoOf(d \o a, b, via, n)
<1>1. /\ InOrder(a, via) /\ InOrder(b, via)
      /\ Precede(IdsOf(a, {via}), IdsOf(b, {via}))
  BY InOrderConcat DEF FifoOf
<1>2. \A vias : /\ IdsOf(a \o b, vias) = IdsOf(a, vias) \cup IdsOf(b, vias)
                /\ IdsOf(d \o a, vias) = IdsOf(d, vias) \cup IdsOf(a, vias)
  BY IdsOfConcat
<1>3. Precede(IdsOf(d, {via}), IdsOf(a, {via}) \cup IdsOf(b, {via}))
  BY <1>2 DEF FifoOf
<1>4. InOrder(d \o a, via)
  <2>1. Precede(IdsOf(d, {via}), IdsOf(a, {via}))
    BY <1>3 DEF Precede
  <2> QED
    BY <1>1, <2>1, InOrderConcat DEF FifoOf
<1>5. Precede(IdsOf(d \o a, {via}), IdsOf(b, {via}))
  BY <1>1, <1>2, <1>3 DEF Precede
<1> QED
  BY <1>1, <1>2, <1>4, <1>5 DEF FifoOf

\* Messages of another kind go into the transcript.
LEMMA FifoOthers ==
    ASSUME NEW d \in Seq(Messages), NEW a \in Seq(Messages), NEW q, NEW n,
           NEW k, NEW via, FifoOf(d, q, via, n), 1..n \subseteq 1..k,
           IdsOf(a, {via}) = {}, IdsOf(a, Vias) \subseteq 1..k, InOrder(a, via)
    PROVE  FifoOf(d \o a, q, via, k)
<1>1. \A vias : IdsOf(d \o a, vias) = IdsOf(d, vias) \cup IdsOf(a, vias)
  BY IdsOfConcat
<1>2. InOrder(d \o a, via)
  BY InOrderConcat DEF FifoOf, Precede
<1> QED
  BY <1>1, <1>2 DEF FifoOf, Precede

\* What is drained from a queue holds nothing of the other queue.
LEMMA OthersDrained ==
    ASSUME NEW d, NEW a \in Seq(Messages), NEW b \in Seq(Messages), NEW n,
           NEW via, FifoOf(d, a \o b, via, n), NEW other \in Vias \ {via}
    PROVE  /\ IdsOf(a, {other}) = {} /\ IdsOf(a, Vias) \subseteq 1..n
           /\ InOrder(a, other)
<1>1. \A vias : IdsOf(a \o b, vias) = IdsOf(a, vias) \cup IdsOf(b, vias)
  BY IdsOfConcat
<1>2. IdsOf(a, Vias \ {via}) = {} /\ IdsOf(a, Vias) \subseteq 1..n
  BY <1>1 DEF FifoOf
<1>3. IdsOf(a, {other}) = {}
  <2>1. {other} \subseteq Vias \ {via}
    OBVIOUS
  <2> QED
    BY <1>2, <2>1, IdsOfWidens
<1>4. InOrder(a, other)
  BY <1>3 DEF IdsOf, InOrder
<1> QED
  BY <1>2, <1>3, <1>4

LEMMA NumbersPrecede ==
    ASSUME NEW n \in Nat, NEW A, A \subseteq 1..n
    PROVE  Precede(A, {n + 1})
<1>1. ASSUME NEW a \in A PROVE a < n + 1
  OBVIOUS
<1> QED
  BY <1>1 DEF Precede

LEMMA FifoQueued ==
    ASSUME NEW d \in Seq(Messages), NEW q \in Seq(Messages), NEW n \in Nat,
           NEW via \in QueueVias, FifoOf(d, q, via, n),
           n + 1 \in 1..MaxSent
    PROVE  FifoOf(d, Append(q, User(n + 1, via)), via, n + 1)
<1> DEFINE u == User(n + 1, via)
<1>1. /\ u \in Messages /\ u.role = "user" /\ u.via = via /\ u.id = n + 1
      /\ via \in Vias
  BY UserTyping, MessageKinds DEF Vias, QueueVias, User
<1> HIDE DEF u
<1>2. <<u>> \in Seq(Messages) /\ Append(q, u) = q \o <<u>>
  BY <1>1, AppendIsConcat
<1>3. \A vias : IdsOf(q \o <<u>>, vias) = IdsOf(q, vias) \cup IdsOf(<<u>>, vias)
  BY <1>2, IdsOfConcat
<1>4. /\ IdsOf(<<u>>, {via}) = {n + 1} /\ IdsOf(<<u>>, Vias) = {n + 1}
      /\ IdsOf(<<u>>, Vias \ {via}) = {}
  BY <1>1, IdsOfSingle
<1>5. /\ IdsOf(d, {via}) \subseteq 1..n /\ IdsOf(q, {via}) \subseteq 1..n
  BY <1>1, IdsOfWidens DEF FifoOf
<1>6. InOrder(q \o <<u>>, via)
  <2>1. Precede(IdsOf(q, {via}), {n + 1})
    BY <1>5, NumbersPrecede
  <2> QED
    BY <1>2, <1>4, <2>1, InOrderConcat, InOrderSingle DEF FifoOf
<1>7. Precede(IdsOf(d, {via}), IdsOf(q, {via}) \cup {n + 1})
  <2>1. Precede(IdsOf(d, {via}), {n + 1})
    BY <1>5, NumbersPrecede
  <2> QED
    BY <2>1 DEF FifoOf, Precede
<1>8. 1..n \subseteq 1..n + 1 /\ n + 1 \in 1..n + 1
  OBVIOUS
<1>9. FifoOf(d, q \o <<u>>, via, n + 1)
  BY <1>3, <1>4, <1>6, <1>7, <1>8 DEF FifoOf
<1> QED
  BY <1>2, <1>9 DEF u

LEMMA FifoGrows ==
    ASSUME NEW d, NEW q, NEW n \in Nat, NEW via, FifoOf(d, q, via, n)
    PROVE  FifoOf(d, q, via, n + 1)
<1>1. 1..n \subseteq 1..n + 1
  OBVIOUS
<1> QED
  BY <1>1 DEF FifoOf

LEMMA FifoCleared ==
    ASSUME NEW d, NEW q, NEW n, NEW via, FifoOf(d, q, via, n),
           NEW e \in {d, <<>>}, NEW r \in {q, <<>>}
    PROVE  FifoOf(e, r, via, n)
<1>1. \A vias : IdsOf(<<>>, vias) = {}
  BY IdsOfEmpty
<1>2. InOrder(<<>>, via)
  BY InOrderSingle
<1> QED
  BY <1>1, <1>2 DEF FifoOf, Precede

QueuesInOrder ==
    /\ FifoOf(Delivered, steeringQueue, "steer", sent)
    /\ FifoOf(Delivered, followUpQueue, "followUp", sent)

LEMMA MovedInOrder ==
    TypeOK /\ TypeOK' /\ QueuesInOrder /\ Moved => QueuesInOrder'
<1> SUFFICES ASSUME TypeOK, TypeOK', QueuesInOrder, Moved
             PROVE  QueuesInOrder'
  OBVIOUS
<1> DEFINE d == Delivered
           sq == steeringQueue
           fq == followUpQueue
<1>1. /\ d \in Seq(Messages) /\ d' \in Seq(Messages)
      /\ sq \in Seq(Messages) /\ sq' \in Seq(Messages)
      /\ fq \in Seq(Messages) /\ fq' \in Seq(Messages)
  BY ConcatTyping
  DEF Delivered, TypeOK, AgentTypeOK, EmbedderTypeOK, LoopTypeOK
<1>2. sent \in Nat
  BY BoundsAssumption DEF TypeOK, CountTypeOK
<1>3. /\ FifoOf(d, sq, "steer", sent) /\ FifoOf(d, fq, "followUp", sent)
  BY DEF QueuesInOrder
<1>4. SUFFICES /\ FifoOf(d', sq', "steer", sent')
               /\ FifoOf(d', fq', "followUp", sent')
  BY DEF QueuesInOrder
<1>5. CASE Kept
  BY <1>3, <1>5 DEF Kept, queueVars
<1>6. CASE Dropped
  <2>1. PICK t \in Seq(Messages) : d = d' \o t
    BY <1>6 DEF Dropped
  <2>2. UNCHANGED <<sq, fq, sent>>
    BY <1>6 DEF Dropped, queueVars
  <2> QED
    BY <1>1, <1>3, <2>1, <2>2, FifoDrops
<1>7. CASE Replied
  <2>1. PICK m \in Messages : m.role # "user" /\ d' = Append(d, m)
    BY <1>7 DEF Replied
  <2> DEFINE e == <<m>>
  <2>2. /\ e \in Seq(Messages) /\ d' = d \o e /\ InOrder(e, "steer")
        /\ InOrder(e, "followUp") /\ \A vias : IdsOf(e, vias) = {}
    <3>1. e \in Seq(Messages) /\ d' = d \o e
      BY <1>1, <2>1, AppendIsConcat
    <3>2. InOrder(e, "steer") /\ InOrder(e, "followUp")
      BY InOrderSingle
    <3>3. \A vias : IdsOf(e, vias) = {}
      BY <2>1, IdsOfSingle
    <3> QED
      BY <3>1, <3>2, <3>3
  <2> HIDE DEF e
  <2>3. UNCHANGED <<sq, fq, sent>>
    BY <1>7 DEF Replied, queueVars
  <2> QED
    BY <1>1, <1>3, <2>2, <2>3, FifoOthers
<1>8. CASE SteeringDrained
  <2> DEFINE a == Drained(sq, steeringMode)
  <2>1. a \in Seq(Messages) /\ sq = a \o sq' /\ d' = d \o a
    BY <1>8, DrainSplits, ConcatTyping
    DEF SteeringDrained, TypeOK, EmbedderTypeOK
  <2> HIDE DEF a
  <2>2. fq' = fq /\ sent' = sent
    BY <1>8 DEF SteeringDrained
  <2>3. FifoOf(d', sq', "steer", sent')
    BY <1>1, <1>3, <2>1, <2>2, FifoDelivers
  <2>4. FifoOf(d', fq', "followUp", sent')
    <3>0. FifoOf(d, a \o sq', "steer", sent) /\ "followUp" \in Vias \ {"steer"}
      BY <1>3, <2>1 DEF Vias
    <3>1. /\ IdsOf(a, {"followUp"}) = {} /\ IdsOf(a, Vias) \subseteq 1..sent
          /\ InOrder(a, "followUp")
      BY <1>1, <2>1, <3>0, OthersDrained
    <3> QED
      BY <1>1, <1>3, <2>1, <2>2, <3>1, FifoOthers
  <2> QED
    BY <2>3, <2>4
<1>9. CASE FollowUpsDrained
  <2> DEFINE a == Drained(fq, followUpMode)
  <2>1. a \in Seq(Messages) /\ fq = a \o fq' /\ d' = d \o a
    BY <1>9, DrainSplits, ConcatTyping
    DEF FollowUpsDrained, TypeOK, EmbedderTypeOK
  <2> HIDE DEF a
  <2>2. sq' = sq /\ sent' = sent
    BY <1>9 DEF FollowUpsDrained
  <2>3. FifoOf(d', fq', "followUp", sent')
    BY <1>1, <1>3, <2>1, <2>2, FifoDelivers
  <2>4. FifoOf(d', sq', "steer", sent')
    <3>0. FifoOf(d, a \o fq', "followUp", sent) /\ "steer" \in Vias \ {"followUp"}
      BY <1>3, <2>1 DEF Vias
    <3>1. /\ IdsOf(a, {"steer"}) = {} /\ IdsOf(a, Vias) \subseteq 1..sent
          /\ InOrder(a, "steer")
      BY <1>1, <2>1, <3>0, OthersDrained
    <3> QED
      BY <1>1, <1>3, <2>1, <2>2, <3>1, FifoOthers
  <2> QED
    BY <2>3, <2>4
<1>10. CASE Submitted
  <2>1. sent' = sent + 1 /\ sent' \in 1..MaxSent
    BY <1>10 DEF Submitted
  <2>2. CASE d' = Append(d, User(sent', "prompt")) /\ UNCHANGED queueVars
    <3> DEFINE u == User(sent', "prompt")
    <3>1. /\ u \in Messages /\ u.via = "prompt" /\ u.id = sent'
      BY <2>1, UserTyping, MessageKinds DEF Vias, User
    <3> HIDE DEF u
    <3> DEFINE e == <<u>>
    <3>2. /\ e \in Seq(Messages) /\ d' = d \o e
      BY <1>1, <2>2, <3>1, AppendIsConcat DEF u
    <3>3. /\ IdsOf(e, Vias) \subseteq {sent'} /\ InOrder(e, "steer")
          /\ InOrder(e, "followUp")
          /\ IdsOf(e, {"steer"}) = {} /\ IdsOf(e, {"followUp"}) = {}
      BY <3>1, IdsOfSingle, InOrderSingle
    <3> HIDE DEF e
    <3>4. 1..sent \subseteq 1..sent' /\ {sent'} \subseteq 1..sent'
      BY <1>2, <2>1
    <3>5. sq' = sq /\ fq' = fq
      BY <2>2 DEF queueVars
    <3> QED
      BY <1>1, <1>3, <3>2, <3>3, <3>4, <3>5, FifoOthers
  <2>3. CASE /\ sq' = Append(sq, User(sent', "steer"))
             /\ d' = d /\ fq' = fq
    BY <1>1, <1>2, <1>3, <2>1, <2>3, FifoQueued, FifoGrows DEF QueueVias
  <2>4. CASE /\ fq' = Append(fq, User(sent', "followUp"))
             /\ d' = d /\ sq' = sq
    BY <1>1, <1>2, <1>3, <2>1, <2>4, FifoQueued, FifoGrows DEF QueueVias
  <2> QED
    BY <1>10, <2>2, <2>3, <2>4 DEF Submitted
<1>11. CASE Cleared
  BY <1>3, <1>11, FifoCleared DEF Cleared
<1> QED
  BY <1>5, <1>6, <1>7, <1>8, <1>9, <1>10, <1>11 DEF Moved

LEMMA InitQueues == Init => QueuesInOrder
<1>1. Init => Delivered = <<>>
  BY ConcatEmpty, EmptyTyping DEF Init, Delivered
<1> QED
  BY <1>1, IdsOfEmpty, InOrderSingle
  DEF Init, QueuesInOrder, FifoOf, Precede

\* The messages of each queue reach the provider in the order they were
\* queued and none comes back: not from a poll in either mode, not from a run
\* that fails between the poll and the injection.
THEOREM QueuesCorrect == Spec => []QueuesAreFifo
<1>1. Init => TypedShape /\ Holding /\ QueuesInOrder
  BY InitTyped, InitHolding, InitQueues
<1>2. TypedShape /\ Holding /\ QueuesInOrder /\ [Next]_vars
        => (TypedShape /\ Holding /\ QueuesInOrder)'
  BY StepTyped, StepHolding, StepMoves, MovedInOrder DEF TypedShape
<1>3. TypedShape /\ QueuesInOrder => QueuesAreFifo
  BY QueuesTyped, InOrderConcat
  DEF TypedShape, QueuesInOrder, FifoOf, QueuesAreFifo
<1> QED
  BY <1>1, <1>2, <1>3, PTL DEF Spec

-----------------------------------------------------------------------------
(* The polls at the end of a turn, and what is injected where *)

\* What the two polls at the end of a turn found, as far as they got.
PollsCover ==
    /\ pc = "pollFollowUp" => Held(steeringQueue) \subseteq late
    /\ pc = "agentEnd"
         => Held(steeringQueue) \cup Held(followUpQueue) \subseteq late

LEMMA HeldEmpty == Held(<<>>) = {}
BY DEF Held

LEMMA HeldAppended ==
    ASSUME NEW q \in Seq(Messages), NEW n, NEW via, User(n, via) \in Messages
    PROVE  Held(Append(q, User(n, via))) \subseteq Held(q) \cup {n}
<1> DEFINE u == User(n, via)
           e == <<u>>
<1>1. e \in Seq(Messages) /\ Append(q, u) = q \o e
  BY AppendIsConcat
<1>2. \A vias : IdsOf(e, vias) \subseteq {n}
  BY IdsOfSingle DEF User
<1> HIDE DEF e
<1>3. q \o e \in Seq(Messages)
  BY <1>1, ConcatProperties
<1>4. Held(q \o e) = IdsOf(q \o e, Vias) /\ Held(q) = IdsOf(q, Vias)
  BY <1>3, HeldIsIdsOf
<1>5. IdsOf(q \o e, Vias) = IdsOf(q, Vias) \cup IdsOf(e, Vias)
  BY <1>1, IdsOfConcat
<1> QED
  BY <1>1, <1>2, <1>4, <1>5

LEMMA SubmittedHeld ==
    ASSUME TypeOK, sent < MaxSent, NEW q \in Seq(Messages),
           NEW via \in Vias
    PROVE  Held(Append(q, User(sent + 1, via))) \subseteq Held(q) \cup {sent + 1}
<1>1. sent + 1 \in 1..MaxSent
  BY BoundsAssumption DEF TypeOK, CountTypeOK
<1>2. User(sent + 1, via) \in Messages
  BY <1>1, UserTyping, MessageKinds
<1> QED
  BY <1>2, HeldAppended

LEMMA PollsElsewhere ==
    ASSUME PollsCover,
           \/ pc' \notin {"pollFollowUp", "agentEnd"}
           \/ UNCHANGED <<pc, steeringQueue, followUpQueue, late>>
    PROVE  PollsCover'
BY DEF PollsCover

LEMMA StepPolls ==
    TypedShape /\ PollsCover /\ [Next]_vars => PollsCover'
<1> SUFFICES ASSUME TypedShape, PollsCover, [Next]_vars PROVE PollsCover'
  OBVIOUS
<1>0. steeringQueue \in Seq(Messages) /\ followUpQueue \in Seq(Messages)
  BY QueuesTyped DEF TypedShape
<1>1. CASE PollSteering
  <2>1. pc' # "agentEnd"
    BY <1>1 DEF PollSteering, Goto
  <2>2. CASE pc' = "pollFollowUp"
    <3>1. steeringQueue' = <<>>
      BY <1>1, <2>2, DrainSplits
      DEF PollSteering, Goto, TypedShape, TypeOK, EmbedderTypeOK
    <3> QED
      BY <2>2, <3>1, HeldEmpty DEF PollsCover
  <2> QED
    BY <2>1, <2>2, PollsElsewhere
<1>2. CASE PollFollowUps
  <2>1. pc' # "pollFollowUp"
    BY <1>2 DEF PollFollowUps, Goto
  <2>2. CASE pc' = "agentEnd"
    <3>1. followUpQueue' = <<>>
      BY <1>2, <2>2, DrainSplits
      DEF PollFollowUps, Goto, TypedShape, TypeOK, EmbedderTypeOK
    <3>2. Held(steeringQueue) \subseteq late /\ UNCHANGED <<steeringQueue, late>>
      BY <1>2 DEF PollFollowUps, PollsCover
    <3> QED
      BY <2>2, <3>1, <3>2, HeldEmpty DEF PollsCover
  <2> QED
    BY <2>1, <2>2, PollsElsewhere
<1>3. CASE Steer
  <2>1. /\ Held(steeringQueue') \subseteq Held(steeringQueue) \cup {sent + 1}
        /\ late' = late \cup {sent + 1} /\ UNCHANGED <<pc, followUpQueue>>
    BY <1>0, <1>3, SubmittedHeld DEF Steer, TypedShape, Vias
  <2> QED
    BY <2>1 DEF PollsCover
<1>4. CASE FollowUp
  <2>1. /\ Held(followUpQueue') \subseteq Held(followUpQueue) \cup {sent + 1}
        /\ late' = late \cup {sent + 1} /\ UNCHANGED <<pc, steeringQueue>>
    BY <1>0, <1>4, SubmittedHeld DEF FollowUp, TypedShape, Vias
  <2> QED
    BY <2>1 DEF PollsCover
<1>5. CASE ClearQueue
  <2>1. /\ Held(steeringQueue') \subseteq Held(steeringQueue)
        /\ Held(followUpQueue') \subseteq Held(followUpQueue)
        /\ UNCHANGED <<pc, late>>
    BY <1>5, HeldEmpty DEF ClearQueue
  <2> QED
    BY <2>1 DEF PollsCover
<1>6. CASE Embedder /\ ~Steer /\ ~FollowUp /\ ~ClearQueue
  BY <1>6, PollsElsewhere
  DEF Embedder, SetQueueMode, Abort, Reset, DropFailedReply, Prompt,
      ContinueWithSteering, ContinueWithFollowUp, ContinueTranscript, StartRun,
      Idle, queueVars
<1>7. CASE Turn /\ ~PollSteering /\ ~PollFollowUps
  <2>1. pc' \notin {"pollFollowUp", "agentEnd"}
    BY <1>7
    DEF Turn, EmitAgentStart, EmitFirstTurnStart, EmitPromptStart,
        EmitPromptEnd, InitialPoll, EmitTurnStart, EmitInjectStart,
        EmitInjectEnd, RequestFails, StreamStart, StreamEndsAtOnce, StreamEnds,
        StreamThrows, EmitAssistantEnd, EmitFailedTurnEnd, EmitTurnEnd,
        AfterTurn, EmitAgentEnd, Deliver, Goto, Throw, ThrowFrom
  <2> QED
    BY <2>1, PollsElsewhere
<1>8. CASE Tools
  <2>1. pc' \notin {"pollFollowUp", "agentEnd"}
    BY <1>8
    DEF Tools, EmitToolStart, Prepare, Execute, EmitToolEnd, NextCall,
        RunningCallEnds, RunningCallFails, Joined, EmitResultStart,
        EmitResultEnd, Deliver, Goto, Throw, ThrowFrom
  <2> QED
    BY <2>1, PollsElsewhere
<1>9. CASE Failure \/ FinishRun
  <2>1. pc' \notin {"pollFollowUp", "agentEnd"}
    BY <1>9
    DEF Failure, EmitFailureStart, EmitFailureEnd, EmitFailureTurnEnd,
        EmitFailureAgentEnd, DeliverFailure, FinishRun
  <2> QED
    BY <2>1, PollsElsewhere
<1>10. ASSUME NEW c \in orphans, OrphanEnds(c) PROVE PollsCover'
  BY <1>10, PollsElsewhere DEF OrphanEnds, Keep, queueVars
<1>11. CASE UNCHANGED vars
  BY <1>11, PollsElsewhere DEF vars, queueVars
<1> QED
  BY <1>1, <1>2, <1>3, <1>4, <1>5, <1>6, <1>7, <1>8, <1>9, <1>10, <1>11
  DEF Next, Run

\* A run that ends because there is nothing left to do has looked at both
\* queues after its last turn: what they hold by then came in too late.
THEOREM PollsCorrect == Spec => []NothingOverlooked
<1>1. Init => PollsCover
  BY DEF Init, PollsCover
<1>2. Spec => [](TypedShape /\ PollsCover)
  BY <1>1, InitTyped, StepTyped, StepPolls, PTL DEF Spec
<1>3. PollsCover => NothingOverlooked
  BY DEF PollsCover, NothingOverlooked
<1> QED
  BY <1>2, <1>3, PTL

\* The message after which the agent would stop, but for a follow-up.
Stops(m) ==
    \/ m.role = "user" /\ m.via = "followUp"
    \/ m.role = "assistant" /\ m.calls = 0
    \/ m.role = "toolResult" /\ m.terminate

AllVia(s, via) == \A i \in DOMAIN s : s[i].via = via

\* The transcript ends with the reply or with the result of its last call.
TurnOutcome ==
    /\ batch = <<>> => /\ LastOf(messages).role = "assistant"
                       /\ LastOf(messages).calls = 0
    /\ batch # <<>> => /\ LastOf(messages).role = "toolResult"
                       /\ LastOf(messages).terminate = LastOf(batch).terminate

OutcomeLabels == {"turnEnd", "afterTurn", "poll", "pollFollowUp"}
InjectingLabels == {"turnStart", "injectStart", "injectEnd"}

InjectionsFit ==
    /\ pc \in InjectingLabels =>
         \/ AllVia(inject, "steer")
         \/ AllVia(inject, "followUp") /\ Stops(LastOf(messages))
    /\ pc \in OutcomeLabels \/ (pc = "nextCall" /\ execution # "parallel")
         => TurnOutcome
    /\ pc = "pollFollowUp" => ~HasMoreToolCalls

LEMMA QueueVia ==
    ASSUME NEW q \in Seq(UserMessages), NEW via \in Vias,
           IdsOf(q, Vias \ {via}) = {}
    PROVE  AllVia(q, via)
<1>1. ASSUME NEW i \in DOMAIN q PROVE q[i].via = via
  <2>1. q[i] \in UserMessages
    BY ElementOfSeq, LenProperties
  <2>2. q[i].role = "user" /\ q[i].via \in Vias
    BY <2>1 DEF UserMessages
  <2> QED
    BY <2>2 DEF IdsOf
<1> QED
  BY <1>1 DEF AllVia

LEMMA DrainedVia ==
    ASSUME NEW q \in Seq(UserMessages), NEW via, NEW mode, AllVia(q, via)
    PROVE  AllVia(Drained(q, mode), via)
<1>1. CASE mode = "all" \/ q = <<>>
  BY <1>1 DEF Drained
<1>2. CASE ~(mode = "all" \/ q = <<>>)
  <2>1. 1 \in DOMAIN q /\ Head(q) = q[1] /\ Drained(q, mode) = <<Head(q)>>
    BY <1>2, HeadTailProperties, LenProperties, EmptySeq DEF Drained
  <2> QED
    BY <2>1 DEF AllVia
<1> QED
  BY <1>1, <1>2

LEMMA HeadVia ==
    ASSUME NEW s \in Seq(UserMessages), s # <<>>, NEW via, AllVia(s, via)
    PROVE  /\ Head(s).via = via /\ Head(s).role = "user"
           /\ AllVia(Tail(s), via)
<1>1. /\ 1 \in DOMAIN s /\ Head(s) = s[1] /\ Head(s) \in UserMessages
      /\ DOMAIN s = 1..Len(s) /\ Len(s) \in Nat
      /\ DOMAIN Tail(s) = 1..(Len(s) - 1)
      /\ \A i \in 1..(Len(s) - 1) : Tail(s)[i] = s[i + 1]
  BY HeadTailProperties, LenProperties, EmptySeq
<1>2. ASSUME NEW i \in DOMAIN Tail(s) PROVE Tail(s)[i].via = via
  <2>1. i + 1 \in DOMAIN s /\ Tail(s)[i] = s[i + 1]
    BY <1>1
  <2> QED
    BY <2>1 DEF AllVia
<1> QED
  BY <1>1, <1>2 DEF AllVia, UserMessages

LEMMA InjectionsElsewhere ==
    ASSUME pc' \notin InjectingLabels \cup OutcomeLabels,
           pc' = "nextCall" => execution' = "parallel"
    PROVE  InjectionsFit'
BY DEF InjectionsFit, OutcomeLabels

LEMMA InjectionsUntouched ==
    ASSUME InjectionsFit,
           UNCHANGED <<pc, inject, messages, batch, execution>>
    PROVE  InjectionsFit'
BY DEF InjectionsFit, TurnOutcome, HasMoreToolCalls

\* The outcome of a turn stays what it is up to the polls.
LEMMA OutcomeKept ==
    ASSUME InjectionsFit,
           pc \in OutcomeLabels \/ (pc = "nextCall" /\ execution # "parallel"),
           UNCHANGED <<messages, batch>>,
           pc' \in OutcomeLabels \ {"pollFollowUp"}
    PROVE  InjectionsFit'
BY DEF InjectionsFit, TurnOutcome, OutcomeLabels, InjectingLabels

LEMMA InjectSteering ==
    ASSUME TypeOK, QueuesInOrder,
           inject' = Drained(steeringQueue, steeringMode),
           pc' \in InjectingLabels
    PROVE  InjectionsFit'
<1>1. AllVia(steeringQueue, "steer")
  BY QueueVia DEF QueuesInOrder, FifoOf, TypeOK, EmbedderTypeOK, Vias
<1>2. AllVia(inject', "steer")
  BY <1>1, DrainedVia DEF TypeOK, EmbedderTypeOK
<1> QED
  BY <1>2 DEF InjectionsFit, InjectingLabels, OutcomeLabels

LEMMA TurnInjections ==
    TypedShape /\ Holding /\ QueuesInOrder /\ InjectionsFit /\ Turn
      => InjectionsFit'
<1> SUFFICES ASSUME TypedShape, Holding, QueuesInOrder, InjectionsFit, Turn
             PROVE  InjectionsFit'
  OBVIOUS
<1> USE DEF TypedShape
<1>0. pc' = "failStart" => InjectionsFit'
  BY InjectionsElsewhere DEF InjectingLabels, OutcomeLabels
<1>1. CASE EmitAgentStart \/ EmitFirstTurnStart \/ EmitPromptStart
           \/ EmitPromptEnd \/ RequestFails \/ StreamStart \/ StreamEndsAtOnce
           \/ StreamEnds \/ StreamThrows \/ EmitFailedTurnEnd \/ EmitAgentEnd
  <2>1. pc' \notin InjectingLabels \cup OutcomeLabels /\ pc' # "nextCall"
    BY <1>1
    DEF EmitAgentStart, EmitFirstTurnStart, EmitPromptStart, EmitPromptEnd,
        RequestFails, StreamStart, StreamEndsAtOnce, StreamEnds, StreamThrows,
        EmitFailedTurnEnd, EmitAgentEnd, Deliver, Goto, Throw, ThrowFrom,
        InjectingLabels, OutcomeLabels
  <2> QED
    BY <2>1, InjectionsElsewhere
<1>2. CASE InitialPoll
  <2>1. CASE inject' = <<>>
    BY <1>2, <2>1, InjectionsElsewhere
    DEF InitialPoll, Goto, InjectingLabels, OutcomeLabels
  <2>2. CASE inject' # <<>>
    <3>1. /\ inject' = Drained(steeringQueue, steeringMode)
          /\ pc' \in InjectingLabels
      BY <1>2, <2>2 DEF InitialPoll, Goto, InjectingLabels
    <3> QED
      BY <3>1, InjectSteering
  <2> QED
    BY <2>1, <2>2
<1>3. CASE EmitTurnStart \/ EmitInjectStart
  <2>1. CASE /\ UNCHANGED <<inject, messages>> /\ pc \in InjectingLabels
             /\ pc' \in InjectingLabels
    BY <2>1 DEF InjectionsFit, InjectingLabels, OutcomeLabels
  <2>2. CASE pc' = "request"
    BY <2>2, InjectionsElsewhere DEF InjectingLabels, OutcomeLabels
  <2> QED
    BY <1>0, <1>3, <2>1, <2>2
    DEF EmitTurnStart, EmitInjectStart, Announce, StartMessage, agentVars,
        Deliver, Goto, KeepLocals, loopVars, Throw, ThrowFrom, InjectingLabels
<1>4. CASE EmitInjectEnd
  <2>1. CASE pc' = "request"
    BY <2>1, InjectionsElsewhere DEF InjectingLabels, OutcomeLabels
  <2>2. CASE pc' = "injectStart" /\ inject' = Tail(inject)
    <3>1. /\ inject \in Seq(UserMessages) /\ inject # <<>>
          /\ messages \in Seq(Messages) /\ Head(inject) \in Messages
          /\ messages' = Append(messages, Head(inject))
      BY <1>4, HeadTyping
      DEF EmitInjectEnd, EndMessage, Shape, TypeOK, AgentTypeOK, LoopTypeOK
    <3>2. LastOf(messages') = Head(inject)
      BY <3>1, LastAppended
    <3>3. \/ AllVia(inject, "steer")
          \/ AllVia(inject, "followUp")
      BY <1>4 DEF EmitInjectEnd, InjectionsFit, InjectingLabels
    <3>4. CASE AllVia(inject, "steer")
      BY <2>2, <3>1, <3>4, HeadVia
      DEF InjectionsFit, InjectingLabels, OutcomeLabels
    <3>5. CASE AllVia(inject, "followUp")
      <4>1. AllVia(inject', "followUp") /\ Stops(LastOf(messages'))
        BY <2>2, <3>1, <3>2, <3>5, HeadVia DEF Stops
      <4> QED
        BY <2>2, <4>1 DEF InjectionsFit, InjectingLabels, OutcomeLabels
    <3> QED
      BY <3>3, <3>4, <3>5
  <2> QED
    BY <1>0, <1>4, <2>1, <2>2
    DEF EmitInjectEnd, Goto, Throw, ThrowFrom
<1>5. CASE EmitAssistantEnd
  <2> DEFINE m == LastOf(context)
  <2>1. /\ m \in Messages /\ m.role = "assistant"
        /\ messages' = Append(messages, m) /\ messages \in Seq(Messages)
    BY <1>5, LastTyping
    DEF EmitAssistantEnd, EndMessage, Holding, StreamLabels, TypeOK, LoopTypeOK,
        AgentTypeOK
  <2>2. LastOf(messages') = m /\ m.calls \in Nat
    BY <2>1, LastAppended
    DEF Messages, UserMessages, AssistantMessages, ResultMessages
  <2>3. CASE pc' = "turnEnd" /\ ~(m.calls > 0) /\ batch' = <<>>
    <3>1. m.calls = 0
      BY <2>2, <2>3
    <3> QED
      BY <2>1, <2>2, <2>3, <3>1
      DEF InjectionsFit, TurnOutcome, InjectingLabels, OutcomeLabels
  <2>4. CASE pc' \in {"failedTurnEnd", "callStart"}
    BY <2>4, InjectionsElsewhere DEF InjectingLabels, OutcomeLabels
  <2> QED
    BY <1>0, <1>5, <2>3, <2>4 DEF EmitAssistantEnd, Goto, Throw, ThrowFrom
<1>6. CASE EmitTurnEnd \/ AfterTurn
  <2>1. CASE pc' = "agentReturn"
    BY <2>1, InjectionsElsewhere DEF InjectingLabels, OutcomeLabels
  <2>2. CASE /\ UNCHANGED <<messages, batch>> /\ pc \in OutcomeLabels
             /\ pc' \in {"afterTurn", "poll"}
    BY <2>2, OutcomeKept DEF OutcomeLabels
  <2> QED
    BY <1>0, <1>6, <2>1, <2>2
    DEF EmitTurnEnd, AfterTurn, EndTurn, NoEvent, agentVars, Deliver, Goto,
        KeepLocals, batchVars, Throw, ThrowFrom, OutcomeLabels
<1>7. CASE PollSteering
  <2>1. /\ inject' = Drained(steeringQueue, steeringMode)
        /\ UNCHANGED <<messages, batch, execution>>
        /\ TurnOutcome
    BY <1>7
    DEF PollSteering, NoEvent, agentVars, batchVars, InjectionsFit,
        OutcomeLabels
  <2>2. CASE pc' = "turnStart"
    BY <2>1, <2>2, InjectSteering DEF InjectingLabels
  <2>3. CASE pc' = "pollFollowUp" /\ ~HasMoreToolCalls
    BY <2>1, <2>3
    DEF InjectionsFit, TurnOutcome, HasMoreToolCalls, InjectingLabels
  <2> QED
    BY <1>7, <2>2, <2>3 DEF PollSteering, Goto
<1>8. CASE PollFollowUps
  <2>1. /\ inject' = Drained(followUpQueue, followUpMode)
        /\ messages' = messages /\ TurnOutcome /\ ~HasMoreToolCalls
    BY <1>8
    DEF PollFollowUps, NoEvent, agentVars, InjectionsFit, OutcomeLabels
  <2>2. CASE pc' = "agentEnd"
    BY <2>2, InjectionsElsewhere DEF InjectingLabels, OutcomeLabels
  <2>3. CASE pc' = "turnStart"
    <3>1. AllVia(followUpQueue, "followUp")
      BY QueueVia DEF QueuesInOrder, FifoOf, TypeOK, EmbedderTypeOK, Vias
    <3>2. AllVia(inject', "followUp")
      BY <2>1, <3>1, DrainedVia DEF TypeOK, EmbedderTypeOK
    <3>3. batch # <<>> => LastOf(batch).terminate
      BY <2>1, LastEntryTyping DEF HasMoreToolCalls, LastOf, TypeOK
    <3>4. Stops(LastOf(messages'))
      BY <2>1, <3>3 DEF TurnOutcome, Stops
    <3> QED
      BY <2>3, <3>2, <3>4 DEF InjectionsFit, InjectingLabels, OutcomeLabels
  <2> QED
    BY <1>8, <2>2, <2>3 DEF PollFollowUps, Goto
<1> QED
  BY <1>1, <1>2, <1>3, <1>4, <1>5, <1>6, <1>7, <1>8 DEF Turn

LEMMA ToolsInjections ==
    TypedShape /\ InjectionsFit /\ Tools => InjectionsFit'
<1> SUFFICES ASSUME TypedShape, InjectionsFit, Tools PROVE InjectionsFit'
  OBVIOUS
<1> USE DEF TypedShape
<1>0. pc' = "failStart" => InjectionsFit'
  BY InjectionsElsewhere DEF InjectingLabels, OutcomeLabels
<1>1. CASE EmitToolStart \/ Prepare \/ Execute \/ EmitToolEnd \/ Joined
           \/ EmitResultStart
           \/ \E i \in DOMAIN batch : RunningCallEnds(i) \/ RunningCallFails(i)
  <2>1. /\ pc' \notin InjectingLabels \cup OutcomeLabels
        /\ pc' = "nextCall" => execution' = "parallel"
    BY <1>1
    DEF EmitToolStart, Prepare, Execute, EmitToolEnd, RunningCallEnds,
        RunningCallFails, Joined, EmitResultStart, Deliver, Goto, KeepLocals,
        batchVars, Throw, ThrowFrom, InjectingLabels, OutcomeLabels
  <2> QED
    BY <2>1, InjectionsElsewhere
<1>2. CASE NextCall
  <2>1. CASE pc' \in {"callStart", "join"}
    BY <2>1, InjectionsElsewhere DEF InjectingLabels, OutcomeLabels
  <2>2. CASE pc' = "turnEnd" /\ execution # "parallel" /\ batch' = batch
    BY <1>2, <2>2, OutcomeKept
    DEF NextCall, NoEvent, agentVars, OutcomeLabels
  <2> QED
    BY <1>2, <2>1, <2>2 DEF NextCall, Goto
<1>3. CASE EmitResultEnd
  <2> DEFINE r == NextResult
  <2>1. /\ r \in Messages /\ r.role = "toolResult"
        /\ messages' = Append(messages, r) /\ messages \in Seq(Messages)
    <3>1. r \in ResultMessages
      BY <1>3, NextResultTyping DEF EmitResultEnd, ResultLabels
    <3> QED
      BY <1>3, <3>1, MessageKinds
      DEF EmitResultEnd, EndMessage, ResultMessages, TypeOK, AgentTypeOK
  <2>2. LastOf(messages') = r
    BY <2>1, LastAppended
  <2>3. CASE pc' = "resultStart"
    BY <2>3, InjectionsElsewhere DEF InjectingLabels, OutcomeLabels
  <2>4. CASE /\ pc' \in {"nextCall", "turnEnd"} /\ batch' = batch
             /\ results' = Append(results, r)
             /\ execution = "parallel" => ~(Len(results') < Len(batch))
    <3>1. batch # <<>> /\ Len(batch) \in Nat
      BY <1>3, LenProperties
      DEF EmitResultEnd, Shape, ResultLabels, TypeOK, LoopTypeOK
    <3>2. execution = "parallel" => Len(results) + 1 = Len(batch)
      <4>1. Len(results') = Len(results) + 1 /\ Len(results) \in Nat
        BY <1>3, <2>4, NextResultTyping, AppendResultTyping, LenProperties
        DEF EmitResultEnd, ResultLabels, TypeOK, LoopTypeOK
      <4>2. execution = "parallel" => Len(results) < Len(batch)
        BY <1>3 DEF EmitResultEnd, Shape, ResultLabels
      <4> QED
        BY <2>4, <3>1, <4>1, <4>2
    <3>3. r.terminate = LastOf(batch).terminate
      BY <3>2 DEF NextResult, Result, LastOf
    <3> QED
      BY <2>1, <2>2, <2>4, <3>1, <3>3
      DEF InjectionsFit, TurnOutcome, InjectingLabels, OutcomeLabels
  <2> QED
    BY <1>0, <1>3, <2>3, <2>4 DEF EmitResultEnd, Goto, Throw, ThrowFrom
<1> QED
  BY <1>1, <1>2, <1>3 DEF Tools

LEMMA StepInjections ==
    TypedShape /\ Holding /\ QueuesInOrder /\ InjectionsFit /\ [Next]_vars
      => InjectionsFit'
<1> SUFFICES ASSUME TypedShape, Holding, QueuesInOrder, InjectionsFit,
                    [Next]_vars
             PROVE  InjectionsFit'
  OBVIOUS
<1>1. CASE Embedder
  <2>1. \/ UNCHANGED <<pc, inject, messages, batch, execution>>
        \/ pc' \in {"idle", "agentStart"}
    BY <1>1
    DEF Embedder, Steer, FollowUp, ClearQueue, SetQueueMode, Abort, Reset,
        DropFailedReply, Prompt, ContinueWithSteering, ContinueWithFollowUp,
        ContinueTranscript, StartRun, Idle, agentVars, loopVars, batchVars
  <2> QED
    BY <2>1, InjectionsUntouched, InjectionsElsewhere
    DEF InjectingLabels, OutcomeLabels
<1>2. CASE Failure \/ FinishRun
  <2>1. pc' \in FailLabels \cup {"finish", "idle"}
    BY <1>2
    DEF Failure, EmitFailureStart, EmitFailureEnd, EmitFailureTurnEnd,
        EmitFailureAgentEnd, DeliverFailure, FinishRun, FailLabels
  <2> QED
    BY <2>1, InjectionsElsewhere DEF FailLabels, InjectingLabels, OutcomeLabels
<1>3. ASSUME NEW c \in orphans, OrphanEnds(c) PROVE InjectionsFit'
  BY <1>3, InjectionsUntouched
  DEF OrphanEnds, EndTool, KeepLocals, loopVars, batchVars
<1>4. CASE UNCHANGED vars
  BY <1>4, InjectionsUntouched DEF vars, agentVars, loopVars, batchVars
<1> QED
  BY <1>1, <1>2, <1>3, <1>4, TurnInjections, ToolsInjections DEF Next, Run

\* A follow-up is injected only where the agent would otherwise have stopped,
\* however the batch before it ended and whatever was queued meanwhile.
THEOREM FollowUpsCorrect == Spec => []FollowUpsWaitForStop
<1> DEFINE IInv == TypedShape /\ Holding /\ QueuesInOrder /\ InjectionsFit
<1>1. Init => IInv
  <2>1. Init => InjectionsFit
    BY DEF Init, InjectionsFit, InjectingLabels, OutcomeLabels
  <2> QED
    BY <2>1, InitTyped, InitHolding, InitQueues
<1>2. IInv /\ [Next]_vars => IInv'
  BY StepTyped, StepHolding, StepMoves, MovedInOrder, StepInjections
  DEF TypedShape
<1>3. IInv => FollowUpsWaitForStop
  <2> SUFFICES ASSUME IInv, pc = "injectStart", Head(inject).via = "followUp"
               PROVE  Stops(LastOf(messages))
    BY DEF FollowUpsWaitForStop, Stops
  <2>1. inject \in Seq(UserMessages) /\ inject # <<>>
    BY DEF TypedShape, TypeOK, LoopTypeOK, Shape
  <2>2. ~AllVia(inject, "steer")
    BY <2>1, HeadVia
  <2> QED
    BY <2>2 DEF InjectionsFit, InjectingLabels
<1> QED
  BY <1>1, <1>2, <1>3, PTL DEF Spec

-----------------------------------------------------------------------------
(* Batches of tool calls and the transcript *)

\* How far a batch is: calls reached, results emitted, calls there are.
BatchShape ==
    pc \in BatchLabels =>
      /\ Len(batch) <= Calls
      /\ \A j \in DOMAIN results : results[j].id = turn /\ results[j].call = j
      /\ pc \in {"callStart", "prepare"} => Len(batch) < Calls
      /\ execution # "parallel" =>
           /\ pc \in {"callStart", "prepare", "nextCall"}
                => Len(results) = Len(batch)
           /\ pc \in {"execute", "callEnd"} \cup ResultLabels
                => Len(results) + 1 = Len(batch)
      /\ pc = "join" => execution = "parallel"
      /\ pc = "turnEnd" => Len(results) = Len(batch)
      /\ ~aborted /\ (\/ pc \in {"join", "turnEnd"}
                      \/ pc \in ResultLabels /\ execution = "parallel")
           => Len(batch) = Calls

LEMMA BatchElsewhere ==
    ASSUME pc' \notin BatchLabels
    PROVE  BatchShape'
BY DEF BatchShape

LEMMA BatchUntouched ==
    ASSUME BatchShape, aborted' = aborted \/ aborted' = TRUE,
           UNCHANGED <<pc, context, batch, results, execution, turn>>
    PROVE  BatchShape'
BY DEF BatchShape, Calls

LEMMA CallsTyping ==
    TypedShape /\ Holding /\ pc \in StreamLabels \cup BatchLabels
      => /\ Calls \in Nat /\ Len(batch) \in Nat /\ Len(results) \in Nat
         /\ LastOf(context) \in Messages
<1> SUFFICES ASSUME TypedShape, Holding, pc \in StreamLabels \cup BatchLabels
             PROVE  /\ Calls \in Nat /\ Len(batch) \in Nat
                    /\ Len(results) \in Nat /\ LastOf(context) \in Messages
  OBVIOUS
<1>1. LastOf(context) \in Messages /\ LastOf(context).role = "assistant"
  BY LastTyping DEF Holding, TypedShape, TypeOK, LoopTypeOK
<1>2. Calls \in Nat
  BY <1>1
  DEF Calls, Messages, UserMessages, AssistantMessages, ResultMessages
<1> QED
  BY <1>1, <1>2, LenProperties DEF TypedShape, TypeOK, LoopTypeOK

LEMMA StartedLen ==
    ASSUME LoopTypeOK
    PROVE  Len(Started) = Len(batch)
<1>1. DOMAIN batch = 1..Len(batch) /\ Len(batch) \in Nat
  BY LenProperties DEF LoopTypeOK
<1>2. DOMAIN Started = 1..Len(batch) /\ Started \in Seq(Entries)
  BY <1>1, StartedTyping DEF Started
<1>3. DOMAIN Started = 1..Len(Started) /\ Len(Started) \in Nat
  BY <1>2, LenProperties
<1> QED
  BY <1>1, <1>2, <1>3

\* The result emitted next answers the first call without one.
LEMMA NextResultIs ==
    ASSUME TypedShape, Holding, BatchShape, pc \in ResultLabels
    PROVE  /\ NextResult \in ResultMessages
           /\ NextResult.id = turn /\ NextResult.call = Len(results) + 1
           /\ Len(results) + 1 <= Len(batch)
<1>1. NextResult \in ResultMessages
  BY NextResultTyping
<1>2. /\ execution # "parallel" => Len(results) + 1 = Len(batch)
      /\ execution = "parallel" => Len(results) < Len(batch)
      /\ Len(batch) \in Nat /\ Len(results) \in Nat
  BY CallsTyping
  DEF BatchShape, BatchLabels, ResultLabels, TypedShape, Shape
<1>3. NextResult.id = turn /\ NextResult.call = Len(results) + 1
  BY <1>2 DEF NextResult, Result
<1> QED
  BY <1>1, <1>2, <1>3

LEMMA ToolsBatch ==
    TypedShape /\ Holding /\ BatchShape /\ Tools => BatchShape'
<1> SUFFICES ASSUME TypedShape, Holding, BatchShape, Tools PROVE BatchShape'
  OBVIOUS
<1> USE DEF TypedShape, TypeOK
<1>0. pc' = "failStart" => BatchShape'
  BY BatchElsewhere DEF BatchLabels, CallLabels, ResultLabels
<1>1. pc \in BatchLabels /\ pc \in CallLabels \cup ResultLabels
  BY DEF Tools, EmitToolStart, Prepare, Execute, EmitToolEnd, NextCall,
         RunningCallEnds, RunningCallFails, Joined, EmitResultStart,
         EmitResultEnd, BatchLabels, CallLabels, ResultLabels
<1>2. /\ Calls \in Nat /\ Len(batch) \in Nat /\ Len(results) \in Nat
  BY <1>1, CallsTyping
<1>3. UNCHANGED <<turn, aborted>>
  BY DEF Tools, EmitToolStart, Prepare, Execute, EmitToolEnd, NextCall,
         RunningCallEnds, RunningCallFails, Joined, EmitResultStart,
         EmitResultEnd, Keep, Frame
<1>4. pc' # "failStart" => UNCHANGED <<context, execution>> /\ Calls' = Calls
  BY DEF Tools, EmitToolStart, Prepare, Execute, EmitToolEnd, NextCall,
         RunningCallEnds, RunningCallFails, Joined, EmitResultStart,
         EmitResultEnd, Deliver, Goto, KeepLocals, loopVars, batchVars, Throw,
         ThrowFrom, Calls
<1> USE DEF BatchLabels, CallLabels, ResultLabels
<1>5. CASE EmitToolStart
  <2>1. CASE /\ batch' = Append(batch, Entry("finalized", FALSE))
             /\ pc' = "callEnd" /\ execution = "truncated"
             /\ results' = results
    <3>1. Len(batch') = Len(batch) + 1
      BY <2>1, OpenReached
    <3> QED
      BY <1>2, <1>3, <1>4, <1>5, <2>1, <3>1 DEF EmitToolStart, BatchShape
  <2>2. CASE UNCHANGED <<batch, results>> /\ pc' = "prepare"
    BY <1>2, <1>3, <1>4, <1>5, <2>2 DEF EmitToolStart, BatchShape
  <2> QED
    BY <1>0, <1>5, <2>1, <2>2
    DEF EmitToolStart, Goto, KeepLocals, batchVars, Throw, ThrowFrom
<1>6. CASE Prepare
  <2>1. /\ results' = results
        /\ pc' \in {"callEnd", "execute", "nextCall"}
        /\ pc' = "nextCall" => execution = "parallel"
    BY <1>6 DEF Prepare, Goto
  <2>2. PICK state \in {"prepared", "running", "finalized"}, t \in BOOLEAN :
          batch' = Append(batch, Entry(state, t))
    BY <1>6 DEF Prepare
  <2>3. Len(batch') = Len(batch) + 1
    BY <2>2, OpenReached
  <2> QED
    BY <1>2, <1>3, <1>4, <1>6, <2>1, <2>3 DEF Prepare, BatchShape
<1>7. CASE Execute
  <2>1. CASE /\ \E t \in BOOLEAN : batch' = Finalize(Len(batch), t)
             /\ pc' = "callEnd" /\ results' = results
    <3>1. Len(batch) \in DOMAIN batch
      BY <1>7, LastEntryTyping DEF Execute, Shape
    <3>2. Len(batch') = Len(batch)
      BY <2>1, <3>1, OpenFinalized
    <3> QED
      BY <1>2, <1>3, <1>4, <1>7, <2>1, <3>2 DEF Execute, BatchShape
  <2> QED
    BY <1>0, <1>7, <2>1 DEF Execute, Goto, Throw, ThrowFrom
<1>8. CASE EmitToolEnd
  <2>1. CASE /\ UNCHANGED <<batch, results>>
             /\ pc' = IF execution = "parallel" THEN "nextCall"
                      ELSE "resultStart"
    BY <1>2, <1>3, <1>4, <1>8, <2>1 DEF EmitToolEnd, BatchShape
  <2> QED
    BY <1>0, <1>8, <2>1
    DEF EmitToolEnd, Deliver, Goto, KeepLocals, batchVars, Throw, ThrowFrom
<1>9. CASE NextCall
  <2>1. results' = results /\ Len(batch') = Len(batch)
    BY <1>9, StartedLen DEF NextCall, Started
  <2>2. CASE pc' = "callStart" /\ Len(batch) < Calls
    BY <1>2, <1>3, <1>4, <1>9, <2>1, <2>2 DEF NextCall, BatchShape
  <2>3. CASE /\ Len(batch) = Calls \/ aborted
             /\ pc' = IF execution = "parallel" THEN "join" ELSE "turnEnd"
    BY <1>2, <1>3, <1>4, <1>9, <2>1, <2>3 DEF NextCall, BatchShape
  <2> QED
    BY <1>9, <2>2, <2>3 DEF NextCall, Goto
<1>10. ASSUME NEW i \in DOMAIN batch, RunningCallEnds(i) PROVE BatchShape'
  <2>1. CASE /\ \E t \in BOOLEAN : batch' = Finalize(i, t)
             /\ pc' = "join" /\ results' = results
    <3>1. PICK t \in BOOLEAN : batch' = Finalize(i, t)
      BY <2>1
    <3>2. Len(batch') = Len(batch)
      BY <3>1, OpenFinalized
    <3> QED
      BY <1>2, <1>3, <1>4, <1>10, <2>1, <3>2 DEF RunningCallEnds, BatchShape
  <2> QED
    BY <1>0, <1>10, <2>1 DEF RunningCallEnds, Goto, ThrowFrom
<1>11. ASSUME NEW i \in DOMAIN batch, RunningCallFails(i) PROVE BatchShape'
  BY <1>0, <1>11 DEF RunningCallFails, ThrowFrom
<1>12. CASE Joined
  <2>1. UNCHANGED <<batch, results>> /\ pc' = "resultStart"
    BY <1>12 DEF Joined, Goto, KeepLocals, batchVars
  <2>2. /\ execution = "parallel" /\ Len(batch) <= Calls
        /\ ~aborted => Len(batch) = Calls
        /\ \A j \in DOMAIN results :
              results[j].id = turn /\ results[j].call = j
    BY <1>12 DEF Joined, BatchShape
  <2>3. ~aborted' => Len(batch) = Calls
    BY <1>3, <2>2
  <2> QED
    BY <1>3, <1>4, <2>1, <2>2, <2>3 DEF BatchShape
<1>13. CASE EmitResultStart
  <2>1. CASE UNCHANGED <<batch, results>> /\ pc' = "resultEnd"
    BY <1>2, <1>3, <1>4, <1>13, <2>1 DEF EmitResultStart, BatchShape
  <2> QED
    BY <1>0, <1>13, <2>1
    DEF EmitResultStart, Deliver, Goto, KeepLocals, batchVars, Throw, ThrowFrom
<1>14. CASE EmitResultEnd
  <2>1. CASE /\ results' = Append(results, NextResult) /\ batch' = batch
             /\ execution # "parallel" => pc' = "nextCall"
             /\ execution = "parallel" =>
                  pc' = IF Len(results') < Len(batch) THEN "resultStart"
                        ELSE "turnEnd"
    <3>1. /\ NextResult \in ResultMessages /\ NextResult.id = turn
          /\ NextResult.call = Len(results) + 1
          /\ Len(results) + 1 <= Len(batch)
      BY <1>14, NextResultIs DEF EmitResultEnd
    <3>2. /\ Len(results') = Len(results) + 1
          /\ DOMAIN results' = 1..Len(results) + 1
          /\ DOMAIN results = 1..Len(results)
          /\ \A j \in 1..Len(results) : results'[j] = results[j]
          /\ results'[Len(results) + 1] = NextResult
      BY <2>1, <3>1, AppendProperties, LenProperties DEF LoopTypeOK
    <3>3. \A j \in DOMAIN results' :
             results'[j].id = turn /\ results'[j].call = j
      BY <1>1, <1>2, <3>1, <3>2 DEF BatchShape
    <3> QED
      BY <1>2, <1>3, <1>4, <1>14, <2>1, <3>1, <3>2, <3>3
      DEF EmitResultEnd, BatchShape
  <2> QED
    BY <1>0, <1>14, <2>1 DEF EmitResultEnd, Goto, Throw, ThrowFrom
<1> QED
  BY <1>5, <1>6, <1>7, <1>8, <1>9, <1>10, <1>11, <1>12, <1>13, <1>14
  DEF Tools

LEMMA StepBatch ==
    TypedShape /\ Holding /\ BatchShape /\ [Next]_vars => BatchShape'
<1> SUFFICES ASSUME TypedShape, Holding, BatchShape, [Next]_vars
             PROVE  BatchShape'
  OBVIOUS
<1>1. CASE EmitAssistantEnd
  <2>1. CASE pc' \in {"failStart", "failedTurnEnd"}
    BY <2>1, BatchElsewhere DEF BatchLabels, CallLabels, ResultLabels
  <2>2. CASE /\ batch' = <<>> /\ results' = <<>> /\ context' = context
             /\ \/ pc' = "callStart" /\ Calls > 0
                \/ pc' = "turnEnd" /\ ~(Calls > 0)
    <3>1. Calls \in Nat /\ Calls' = Calls
      BY <1>1, <2>2, CallsTyping DEF EmitAssistantEnd, StreamLabels, Calls
    <3>2. Len(batch') = 0 /\ Len(results') = 0 /\ DOMAIN results' = {}
      BY <2>2
    <3> QED
      BY <2>2, <3>1, <3>2 DEF BatchShape, BatchLabels, CallLabels, ResultLabels
  <2> QED
    BY <1>1, <2>1, <2>2 DEF EmitAssistantEnd, Goto, Throw, ThrowFrom, Calls
<1>2. CASE Turn /\ ~EmitAssistantEnd
  <2>1. pc' \notin BatchLabels
    BY <1>2
    DEF Turn, EmitAgentStart, EmitFirstTurnStart, EmitPromptStart,
        EmitPromptEnd, InitialPoll, EmitTurnStart, EmitInjectStart,
        EmitInjectEnd, RequestFails, StreamStart, StreamEndsAtOnce, StreamEnds,
        StreamThrows, EmitFailedTurnEnd, EmitTurnEnd, AfterTurn, PollSteering,
        PollFollowUps, EmitAgentEnd, Deliver, Goto, Throw, ThrowFrom,
        BatchLabels, CallLabels, ResultLabels
  <2> QED
    BY <2>1, BatchElsewhere
<1>3. CASE Embedder
  <2>1. \/ UNCHANGED <<pc, context, batch, results, execution, turn>>
           /\ (aborted' = aborted \/ aborted' = TRUE)
        \/ pc' \in {"idle", "agentStart"}
    BY <1>3
    DEF Embedder, Steer, FollowUp, ClearQueue, SetQueueMode, Abort, Reset,
        DropFailedReply, Prompt, ContinueWithSteering, ContinueWithFollowUp,
        ContinueTranscript, StartRun, Idle, loopVars, batchVars
  <2> QED
    BY <2>1, BatchUntouched, BatchElsewhere
    DEF BatchLabels, CallLabels, ResultLabels
<1>4. CASE Failure \/ FinishRun
  <2>1. pc' \in FailLabels \cup {"finish", "idle"}
    BY <1>4
    DEF Failure, EmitFailureStart, EmitFailureEnd, EmitFailureTurnEnd,
        EmitFailureAgentEnd, DeliverFailure, FinishRun, FailLabels
  <2> QED
    BY <2>1, BatchElsewhere
    DEF FailLabels, BatchLabels, CallLabels, ResultLabels
<1>5. ASSUME NEW c \in orphans, OrphanEnds(c) PROVE BatchShape'
  BY <1>5, BatchUntouched
  DEF OrphanEnds, Frame, Keep, KeepLocals, loopVars, batchVars
<1>6. CASE UNCHANGED vars
  BY <1>6, BatchUntouched DEF vars, loopVars, batchVars
<1> QED
  BY <1>1, <1>2, <1>3, <1>4, <1>5, <1>6, ToolsBatch DEF Next, Run

\* ToolResultsFollowCalls of a transcript s.
ResultsFollow(s) ==
    \A i \in DOMAIN s : s[i].role = "toolResult" =>
        LET r == s[i] IN
        /\ i > r.call
        /\ LET m == s[i - r.call] IN
           m.role = "assistant" /\ m.id = r.id /\ r.call <= m.calls
        /\ r.call > 1 => /\ s[i - 1].role = "toolResult"
                         /\ s[i - 1].call = r.call - 1

\* Every call of the reply at position i has its result, in order.
Answered(s, i) ==
    \A j \in 1..s[i].calls :
        /\ i + j <= Len(s)
        /\ s[i + j].role = "toolResult"
        /\ s[i + j].id = s[i].id
        /\ s[i + j].call = j

AnsweredFrom(s, first, open) ==
    \A i \in first + 1..Len(s) :
        s[i].role = "assistant" => i \in open \/ Answered(s, i)

\* The reply whose batch is in progress.
OpenReply == IF pc \in BatchLabels THEN {Len(context)} ELSE {}

\* Where the run may still ask the provider.
AskingLabels ==
    PromptLabels \cup InjectLabels \cup {"request"} \cup StreamLabels
      \cup BatchLabels \cup {"afterTurn", "poll", "pollFollowUp", "agentEnd"}

RepliesAnswered ==
    /\ ResultsFollow(messages)
    /\ pc \in AskingLabels /\ ~aborted
         => AnsweredFrom(messages, base, OpenReply)

LEMMA ResultFields ==
    ASSUME NEW s \in Seq(Messages), NEW i \in DOMAIN s,
           s[i].role = "toolResult"
    PROVE  s[i].call \in Nat \ {0} /\ i \in Nat \ {0}
<1>1. s[i] \in Messages /\ i \in Nat \ {0}
  BY ElementOfSeq, LenProperties
<1> QED
  BY <1>1 DEF Messages, UserMessages, AssistantMessages, ResultMessages

LEMMA FollowPrefix ==
    ASSUME NEW s \in Seq(Messages), NEW t \in Seq(Messages),
           ResultsFollow(s), Len(t) <= Len(s),
           \A i \in DOMAIN t : t[i] = s[i]
    PROVE  ResultsFollow(t)
<1>1. /\ DOMAIN s = 1..Len(s) /\ DOMAIN t = 1..Len(t)
      /\ Len(s) \in Nat /\ Len(t) \in Nat
  BY LenProperties
<1>2. ASSUME NEW i \in DOMAIN t, t[i].role = "toolResult"
      PROVE  /\ i > t[i].call
             /\ t[i - t[i].call].role = "assistant"
             /\ t[i - t[i].call].id = t[i].id
             /\ t[i].call <= t[i - t[i].call].calls
             /\ t[i].call > 1 => /\ t[i - 1].role = "toolResult"
                                 /\ t[i - 1].call = t[i].call - 1
  <2> DEFINE k == t[i].call
  <2>1. k \in Nat \ {0} /\ i \in Nat \ {0}
    BY <1>2, ResultFields
  <2>2. /\ i \in DOMAIN s /\ s[i] = t[i]
    BY <1>1
  <2>3. /\ i > k /\ s[i - k].role = "assistant" /\ s[i - k].id = t[i].id
        /\ k <= s[i - k].calls
        /\ k > 1 => s[i - 1].role = "toolResult" /\ s[i - 1].call = k - 1
    BY <1>2, <2>2 DEF ResultsFollow
  <2>4. i - k \in DOMAIN t /\ (k > 1 => i - 1 \in DOMAIN t)
    BY <1>1, <2>1, <2>3
  <2>5. s[i - k] = t[i - k] /\ (k > 1 => s[i - 1] = t[i - 1])
    BY <2>4
  <2> QED
    BY <2>3, <2>5
<1> QED
  BY <1>2 DEF ResultsFollow

LEMMA FollowAppended ==
    ASSUME NEW s \in Seq(Messages), NEW m \in Messages, ResultsFollow(s),
           m.role = "toolResult" =>
             /\ Len(s) + 1 > m.call
             /\ s[Len(s) + 1 - m.call].role = "assistant"
             /\ s[Len(s) + 1 - m.call].id = m.id
             /\ m.call <= s[Len(s) + 1 - m.call].calls
             /\ m.call > 1 => /\ s[Len(s)].role = "toolResult"
                              /\ s[Len(s)].call = m.call - 1
    PROVE  ResultsFollow(Append(s, m))
<1> DEFINE t == Append(s, m)
<1>1. /\ t \in Seq(Messages) /\ Len(t) = Len(s) + 1 /\ Len(s) \in Nat
      /\ DOMAIN s = 1..Len(s) /\ DOMAIN t = 1..(Len(s) + 1)
      /\ \A i \in 1..Len(s) : t[i] = s[i]
      /\ t[Len(s) + 1] = m
  BY AppendProperties, LenProperties
<1> HIDE DEF t
<1>2. ASSUME NEW i \in DOMAIN t, t[i].role = "toolResult"
      PROVE  /\ i > t[i].call
             /\ t[i - t[i].call].role = "assistant"
             /\ t[i - t[i].call].id = t[i].id
             /\ t[i].call <= t[i - t[i].call].calls
             /\ t[i].call > 1 => /\ t[i - 1].role = "toolResult"
                                 /\ t[i - 1].call = t[i].call - 1
  <2> DEFINE k == t[i].call
  <2>1. k \in Nat \ {0} /\ i \in Nat \ {0}
    BY <1>1, <1>2, ResultFields
  <2>2. /\ i > k /\ s[i - k].role = "assistant" /\ s[i - k].id = t[i].id
        /\ k <= s[i - k].calls
        /\ k > 1 => s[i - 1].role = "toolResult" /\ s[i - 1].call = k - 1
    <3>1. CASE i \in DOMAIN s
      BY <1>1, <1>2, <3>1 DEF ResultsFollow
    <3>2. CASE i \notin DOMAIN s
      <4>1. i = Len(s) + 1 /\ t[i] = m /\ i - 1 = Len(s)
        BY <1>1, <3>2
      <4>2. k = m.call /\ m.role = "toolResult" /\ t[i].id = m.id
        BY <1>2, <4>1
      <4>3. i - k = Len(s) + 1 - m.call
        BY <1>1, <2>1, <4>1, <4>2
      <4> QED
        BY <4>1, <4>2, <4>3
    <3> QED
      BY <3>1, <3>2
  <2>3. i - k \in 1..Len(s) /\ (k > 1 => i - 1 \in 1..Len(s))
    BY <1>1, <2>1, <2>2
  <2>4. t[i - k] = s[i - k] /\ (k > 1 => t[i - 1] = s[i - 1])
    BY <1>1, <2>3
  <2> QED
    BY <2>2, <2>4
<1>3. ResultsFollow(t)
  BY <1>2 DEF ResultsFollow
<1> QED
  BY <1>3 DEF t

LEMMA AnsweredAppended ==
    ASSUME NEW s \in Seq(Messages), NEW m \in Messages, NEW first \in Nat,
           NEW open, NEW opens, AnsweredFrom(s, first, open),
           open \subseteq opens,
           m.role = "assistant" => Len(s) + 1 \in opens
    PROVE  AnsweredFrom(Append(s, m), first, opens)
<1> DEFINE t == Append(s, m)
<1>1. /\ Len(t) = Len(s) + 1 /\ Len(s) \in Nat
      /\ \A i \in 1..Len(s) : t[i] = s[i]
      /\ t[Len(s) + 1] = m
  BY AppendProperties, LenProperties
<1> HIDE DEF t
<1>2. ASSUME NEW i \in first + 1..Len(t), t[i].role = "assistant",
             i \notin opens
      PROVE  Answered(t, i)
  <2>1. i \in first + 1..Len(s) /\ t[i] = s[i] /\ i \in 1..Len(s)
    BY <1>1, <1>2
  <2>2. Answered(s, i)
    BY <1>2, <2>1 DEF AnsweredFrom
  <2>3. ASSUME NEW j \in 1..t[i].calls
        PROVE  /\ i + j <= Len(t) /\ t[i + j].role = "toolResult"
               /\ t[i + j].id = t[i].id /\ t[i + j].call = j
    <3>1. /\ i + j <= Len(s) /\ s[i + j].role = "toolResult"
          /\ s[i + j].id = s[i].id /\ s[i + j].call = j
      BY <2>1, <2>2, <2>3 DEF Answered
    <3>2. i + j \in 1..Len(s)
      BY <1>1, <2>1, <3>1
    <3> QED
      BY <1>1, <2>1, <3>1, <3>2
  <2> QED
    BY <2>3 DEF Answered
<1>3. AnsweredFrom(t, first, opens)
  BY <1>2 DEF AnsweredFrom
<1> QED
  BY <1>3 DEF t

\* When a batch is complete its reply, the last of the context, is answered.
LEMMA BatchAnswers ==
    ASSUME NEW c \in Seq(Messages), c # <<>>, NEW r \in Seq(ResultMessages),
           LastOf(c).calls = Len(r),
           \A j \in DOMAIN r : r[j].id = LastOf(c).id /\ r[j].call = j
    PROVE  Answered(c \o r, Len(c))
<1> DEFINE s == c \o r
<1>1. /\ r \in Seq(Messages) /\ Len(c) \in Nat \ {0} /\ Len(r) \in Nat
      /\ DOMAIN r = 1..Len(r) /\ DOMAIN c = 1..Len(c)
  BY MessageKinds, SeqMonotonic, LenProperties, EmptySeq
<1>2. /\ Len(s) = Len(c) + Len(r)
      /\ \A i \in DOMAIN c : s[i] = c[i]
      /\ \A j \in DOMAIN r : s[Len(c) + j] = r[j]
  BY <1>1, ConcatPositions, ConcatProperties
<1> HIDE DEF s
<1>3. s[Len(c)] = LastOf(c)
  BY <1>1, <1>2 DEF LastOf
<1>4. ASSUME NEW j \in 1..Len(r)
      PROVE  /\ Len(c) + j <= Len(s) /\ s[Len(c) + j].role = "toolResult"
             /\ s[Len(c) + j].id = s[Len(c)].id /\ s[Len(c) + j].call = j
  <2>1. j \in DOMAIN r /\ s[Len(c) + j] = r[j] /\ r[j] \in ResultMessages
    BY <1>1, <1>2, ElementOfSeq
  <2> QED
    BY <1>1, <1>2, <1>3, <2>1 DEF ResultMessages
<1>5. Answered(s, Len(c))
  BY <1>3, <1>4 DEF Answered
<1> QED
  BY <1>5 DEF s

LEMMA AnsweredElsewhere ==
    ASSUME ResultsFollow(messages'), pc' \notin AskingLabels
    PROVE  RepliesAnswered'
BY DEF RepliesAnswered

LEMMA AnsweredUntouched ==
    ASSUME RepliesAnswered, UNCHANGED <<messages, base>>,
           aborted' = aborted \/ aborted' = TRUE,
           pc \in AskingLabels, OpenReply \subseteq OpenReply'
    PROVE  RepliesAnswered'
BY DEF RepliesAnswered, AnsweredFrom

LEMMA TurnAnswered ==
    TypedShape /\ Holding /\ ContextInStep /\ BatchShape /\ RepliesAnswered
      /\ Turn => RepliesAnswered'
<1> SUFFICES ASSUME TypedShape, Holding, ContextInStep, BatchShape,
                    RepliesAnswered, Turn
             PROVE  RepliesAnswered'
  OBVIOUS
<1> USE DEF TypedShape
<1>0. /\ messages \in Seq(Messages) /\ base \in Nat
      /\ ResultsFollow(messages) /\ UNCHANGED <<aborted, base>>
  BY DEF TypeOK, AgentTypeOK, CountTypeOK, RepliesAnswered, Frame, Turn,
         EmitAgentStart, EmitFirstTurnStart, EmitPromptStart, EmitPromptEnd,
         InitialPoll, EmitTurnStart, EmitInjectStart, EmitInjectEnd,
         RequestFails, StreamStart, StreamEndsAtOnce, StreamEnds, StreamThrows,
         EmitAssistantEnd, EmitFailedTurnEnd, EmitTurnEnd, AfterTurn,
         PollSteering, PollFollowUps, EmitAgentEnd
<1>1. CASE EmitPromptEnd \/ EmitInjectEnd
  <2> DEFINE m == Head(inject)
  <2>1. m \in Messages /\ m.role = "user" /\ messages' = Append(messages, m)
    <3>1. inject # <<>> /\ inject \in Seq(UserMessages)
      BY <1>1 DEF EmitPromptEnd, EmitInjectEnd, Shape, TypeOK, LoopTypeOK
    <3>2. m \in UserMessages
      BY <3>1, HeadTailProperties
    <3>3. messages' = Append(messages, m)
      BY <1>1 DEF EmitPromptEnd, EmitInjectEnd, EndMessage
    <3> QED
      BY <3>2, <3>3, MessageKinds DEF UserMessages
  <2> HIDE DEF m
  <2>2. ResultsFollow(messages')
    BY <1>0, <2>1, FollowAppended
  <2>3. pc \in AskingLabels /\ OpenReply = {}
    BY <1>1
    DEF EmitPromptEnd, EmitInjectEnd, AskingLabels, PromptLabels, InjectLabels,
        OpenReply, BatchLabels, CallLabels, ResultLabels
  <2>4. ~aborted' => AnsweredFrom(messages', base', OpenReply')
    <3>1. ASSUME ~aborted PROVE AnsweredFrom(messages', base, OpenReply')
      <4>1. AnsweredFrom(messages, base, {})
        BY <2>3, <3>1 DEF RepliesAnswered
      <4> QED
        BY <1>0, <2>1, <4>1, AnsweredAppended
    <3> QED
      BY <1>0, <3>1
  <2> QED
    BY <2>2, <2>4 DEF RepliesAnswered
<1>2. CASE EmitAssistantEnd
  <2> DEFINE m == LastOf(context)
  <2>1. /\ m \in Messages /\ m.role = "assistant"
        /\ messages' = Append(messages, m) /\ context = Append(messages, m)
    BY <1>2, LastTyping
    DEF EmitAssistantEnd, EndMessage, Holding, ContextInStep, StreamLabels,
        TypeOK, LoopTypeOK
  <2> HIDE DEF m
  <2>2. ResultsFollow(messages')
    BY <1>0, <2>1, FollowAppended
  <2>3. pc' \notin AskingLabels => RepliesAnswered'
    BY <2>2, AnsweredElsewhere
  <2>4. CASE pc' \in {"callStart", "turnEnd"} /\ context' = context
    <3>1. OpenReply' = {Len(messages) + 1} /\ OpenReply = {}
      <4>1. Len(context) = Len(messages) + 1
        BY <1>0, <2>1, AppendProperties
      <4> QED
        BY <1>2, <2>4, <4>1
        DEF EmitAssistantEnd, OpenReply, BatchLabels, CallLabels, ResultLabels
    <3>2. pc \in AskingLabels
      BY <1>2 DEF EmitAssistantEnd, AskingLabels, StreamLabels
    <3>3. ASSUME ~aborted PROVE AnsweredFrom(messages', base, OpenReply')
      <4>1. AnsweredFrom(messages, base, {})
        BY <3>1, <3>2, <3>3 DEF RepliesAnswered
      <4> QED
        BY <1>0, <2>1, <3>1, <4>1, AnsweredAppended
    <3> QED
      BY <1>0, <2>2, <3>3 DEF RepliesAnswered
  <2>5. CASE pc' \in {"failStart", "failedTurnEnd"}
    BY <2>3, <2>5
    DEF AskingLabels, PromptLabels, InjectLabels, StreamLabels, BatchLabels,
        CallLabels, ResultLabels
  <2> QED
    BY <1>2, <2>4, <2>5 DEF EmitAssistantEnd, Goto, Throw, ThrowFrom
<1>3. CASE EmitTurnEnd
  <2>1. messages' = messages /\ pc \in AskingLabels /\ pc \in BatchLabels
    BY <1>3 DEF EmitTurnEnd, EndTurn, AskingLabels, BatchLabels
  <2>2. CASE pc' = "afterTurn"
    <3>1. ASSUME ~aborted PROVE AnsweredFrom(messages, base, {})
      <4>1. /\ context # <<>> /\ context \in Seq(Messages)
            /\ results \in Seq(ResultMessages)
            /\ messages = context \o results
        BY <2>1 DEF Holding, ContextInStep, TypeOK, LoopTypeOK
      <4>2. /\ LastOf(context).calls = Len(results)
            /\ \A j \in DOMAIN results :
                  /\ results[j].id = LastOf(context).id
                  /\ results[j].call = j
        BY <1>3, <2>1, <3>1 DEF EmitTurnEnd, BatchShape, Holding, Calls
      <4>3. Answered(messages, Len(context))
        BY <4>1, <4>2, BatchAnswers
      <4>4. AnsweredFrom(messages, base, {Len(context)})
        BY <2>1, <3>1 DEF RepliesAnswered, OpenReply
      <4> QED
        BY <4>3, <4>4 DEF AnsweredFrom
    <3>2. OpenReply' = {}
      BY <2>2 DEF OpenReply, BatchLabels, CallLabels, ResultLabels
    <3> QED
      BY <1>0, <2>1, <3>1, <3>2 DEF RepliesAnswered
  <2>3. CASE pc' = "failStart"
    BY <1>0, <2>1, <2>3, AnsweredElsewhere
    DEF AskingLabels, PromptLabels, InjectLabels, StreamLabels, BatchLabels,
        CallLabels, ResultLabels
  <2> QED
    BY <1>3, <2>2, <2>3 DEF EmitTurnEnd, Goto, Throw, ThrowFrom
<1>4. CASE EmitFailedTurnEnd \/ EmitAgentEnd
  <2>1. /\ messages' = messages
        /\ pc' \in {"failStart", "agentReturn", "finish"}
    BY <1>4
    DEF EmitFailedTurnEnd, EmitAgentEnd, EndTurn, EndAgent, Deliver, Goto,
        Throw, ThrowFrom
  <2> QED
    BY <1>0, <2>1, AnsweredElsewhere
    DEF AskingLabels, PromptLabels, InjectLabels, StreamLabels, BatchLabels,
        CallLabels, ResultLabels
<1>5. CASE EmitAgentStart \/ EmitFirstTurnStart \/ EmitPromptStart
           \/ InitialPoll \/ EmitTurnStart \/ EmitInjectStart \/ StreamStart
           \/ StreamEndsAtOnce \/ StreamEnds \/ RequestFails \/ StreamThrows
           \/ AfterTurn \/ PollSteering \/ PollFollowUps
  <2>1. messages' = messages
    BY <1>5
    DEF EmitAgentStart, EmitFirstTurnStart, EmitPromptStart, InitialPoll,
        EmitTurnStart, EmitInjectStart, StreamStart, StreamEndsAtOnce,
        StreamEnds, RequestFails, StreamThrows, AfterTurn, PollSteering,
        PollFollowUps, Announce, StartMessage, NoEvent, agentVars
  <2>2. pc \in AskingLabels /\ OpenReply = {}
    BY <1>5
    DEF EmitAgentStart, EmitFirstTurnStart, EmitPromptStart, InitialPoll,
        EmitTurnStart, EmitInjectStart, StreamStart, StreamEndsAtOnce,
        StreamEnds, RequestFails, StreamThrows, AfterTurn, PollSteering,
        PollFollowUps, OpenReply, AskingLabels, PromptLabels, InjectLabels,
        StreamLabels, BatchLabels, CallLabels, ResultLabels
  <2> QED
    BY <1>0, <2>1, <2>2, AnsweredUntouched
<1> QED
  BY <1>1, <1>2, <1>3, <1>4, <1>5 DEF Turn

LEMMA ToolsAnswered ==
    TypedShape /\ Holding /\ ContextInStep /\ BatchShape /\ RepliesAnswered
      /\ Tools => RepliesAnswered'
<1> SUFFICES ASSUME TypedShape, Holding, ContextInStep, BatchShape,
                    RepliesAnswered, Tools
             PROVE  RepliesAnswered'
  OBVIOUS
<1> USE DEF TypedShape
<1>0. /\ messages \in Seq(Messages) /\ base \in Nat
      /\ ResultsFollow(messages) /\ UNCHANGED <<aborted, base>>
  BY DEF TypeOK, AgentTypeOK, CountTypeOK, RepliesAnswered, Frame, Tools,
         EmitToolStart, Prepare, Execute, EmitToolEnd, NextCall,
         RunningCallEnds, RunningCallFails, Joined, EmitResultStart,
         EmitResultEnd
<1>1. pc \in AskingLabels /\ OpenReply = {Len(context)}
  BY DEF Tools, EmitToolStart, Prepare, Execute, EmitToolEnd, NextCall,
         RunningCallEnds, RunningCallFails, Joined, EmitResultStart,
         EmitResultEnd, OpenReply, AskingLabels, BatchLabels, CallLabels,
         ResultLabels
<1>2. \/ pc' = "failStart" /\ pc' \notin AskingLabels
      \/ OpenReply' = OpenReply
  BY <1>1, ZenonT(60)
  DEF Tools, EmitToolStart, Prepare, Execute, EmitToolEnd, NextCall,
      RunningCallEnds, RunningCallFails, Joined, EmitResultStart,
      EmitResultEnd, Deliver, Goto, KeepLocals, loopVars, Throw, ThrowFrom,
      OpenReply, AskingLabels, PromptLabels, InjectLabels, StreamLabels,
      BatchLabels, CallLabels, ResultLabels
<1>3. CASE EmitResultEnd
  <2> DEFINE x == NextResult
  <2>1. /\ x \in ResultMessages /\ x.id = turn /\ x.call = Len(results) + 1
        /\ Len(results) + 1 <= Len(batch)
    BY <1>3, NextResultIs DEF EmitResultEnd, ResultLabels
  <2>2. messages' = Append(messages, x)
    BY <1>3 DEF EmitResultEnd, EndMessage
  <2> HIDE DEF x
  <2>3. /\ context # <<>> /\ context \in Seq(Messages)
        /\ results \in Seq(ResultMessages) /\ results \in Seq(Messages)
        /\ messages = context \o results
        /\ LastOf(context).role = "assistant" /\ LastOf(context).id = turn
    BY <1>3, MessageKinds, SeqMonotonic
    DEF EmitResultEnd, Holding, ContextInStep, TypeOK, LoopTypeOK, BatchLabels,
        ResultLabels
  <2>4. /\ Len(results) + 1 <= Calls /\ Calls = LastOf(context).calls
        /\ \A j \in DOMAIN results : results[j].call = j
    BY <1>3, <2>1, CallsTyping
    DEF EmitResultEnd, BatchShape, BatchLabels, ResultLabels, Calls
  <2>5. /\ Len(context) \in Nat \ {0} /\ Len(results) \in Nat
        /\ Len(messages) = Len(context) + Len(results)
        /\ DOMAIN context = 1..Len(context) /\ DOMAIN results = 1..Len(results)
        /\ \A i \in DOMAIN context : messages[i] = context[i]
        /\ \A j \in DOMAIN results : messages[Len(context) + j] = results[j]
    BY <2>3, ConcatPositions, ConcatProperties, LenProperties, EmptySeq
  <2>6. /\ Len(messages) + 1 > x.call
        /\ Len(messages) + 1 - x.call = Len(context)
        /\ messages[Len(context)] = LastOf(context)
    <3>1. Len(context) \in DOMAIN context
      BY <2>5
    <3>2. messages[Len(context)] = LastOf(context)
      BY <2>5, <3>1, SMTT(40) DEF LastOf
    <3>3. Len(messages) + 1 - x.call = Len(context)
      <4>1. \A a, b \in Nat : a + b + 1 - (b + 1) = a
        OBVIOUS
      <4> QED
        BY <2>1, <2>5, <4>1, ZenonT(60)
    <3>4. Len(messages) + 1 > x.call
      BY <2>1, <2>5
    <3> QED
      BY <3>2, <3>3, <3>4
  <2>7. x.call > 1 => /\ messages[Len(messages)].role = "toolResult"
                      /\ messages[Len(messages)].call = x.call - 1
    <3>1. SUFFICES ASSUME x.call > 1
                   PROVE  /\ messages[Len(messages)].role = "toolResult"
                          /\ messages[Len(messages)].call = x.call - 1
      OBVIOUS
    <3>2. Len(results) \in DOMAIN results
      BY <2>1, <2>5, <3>1
    <3>3. /\ messages[Len(messages)] = results[Len(results)]
          /\ results[Len(results)] \in ResultMessages
      BY <2>3, <2>5, <3>2, ElementOfSeq
    <3> QED
      BY <2>1, <2>4, <2>5, <3>2, <3>3 DEF ResultMessages
  <2>8. x \in Messages /\ x.role = "toolResult"
    BY <2>1, MessageKinds DEF ResultMessages
  <2>9. ResultsFollow(messages')
    BY <1>0, <2>1, <2>2, <2>3, <2>4, <2>6, <2>7, <2>8, FollowAppended
  <2>10. CASE OpenReply' = OpenReply
    <3>1. ASSUME ~aborted PROVE AnsweredFrom(messages', base, OpenReply)
      <4>1. AnsweredFrom(messages, base, OpenReply)
        BY <1>1, <3>1 DEF RepliesAnswered
      <4> QED
        BY <1>0, <2>2, <2>8, <4>1, AnsweredAppended
    <3> QED
      BY <1>0, <2>9, <2>10, <3>1 DEF RepliesAnswered
  <2> QED
    BY <1>2, <2>9, <2>10, AnsweredElsewhere
<1>4. CASE ~EmitResultEnd
  <2>1. messages' = messages
    BY <1>4
    DEF Tools, EmitToolStart, Prepare, Execute, EmitToolEnd, NextCall,
        RunningCallEnds, RunningCallFails, Joined, EmitResultStart, NoEvent,
        agentVars, StartTool, EndTool, StartMessage
  <2> QED
    BY <1>0, <1>1, <1>2, <2>1, AnsweredElsewhere, AnsweredUntouched
<1> QED
  BY <1>3, <1>4

LEMMA EmbedderAnswered ==
    TypedShape /\ RepliesAnswered /\ Embedder => RepliesAnswered'
<1> SUFFICES ASSUME TypedShape, RepliesAnswered, Embedder
             PROVE  RepliesAnswered'
  OBVIOUS
<1>0. messages \in Seq(Messages) /\ base \in Nat /\ ResultsFollow(messages)
  BY DEF TypedShape, TypeOK, AgentTypeOK, CountTypeOK, RepliesAnswered
<1>1. CASE Steer \/ FollowUp \/ ClearQueue \/ SetQueueMode \/ Abort
  <2>1. /\ UNCHANGED <<messages, base, pc, context>>
        /\ aborted' = aborted \/ aborted' = TRUE
    BY <1>1
    DEF Steer, FollowUp, ClearQueue, SetQueueMode, Abort, agentVars, loopVars
  <2> QED
    BY <1>0, <2>1, AnsweredElsewhere, AnsweredUntouched DEF OpenReply
<1>2. CASE Reset
  <2>1. messages' = <<>> /\ pc' = "idle"
    BY <1>2 DEF Reset, Idle
  <2>2. ResultsFollow(<<>>)
    BY DEF ResultsFollow
  <2> QED
    BY <2>1, <2>2, AnsweredElsewhere
    DEF AskingLabels, PromptLabels, InjectLabels, StreamLabels, BatchLabels,
        CallLabels, ResultLabels
<1>3. CASE DropFailedReply
  <2>1. /\ messages # <<>> /\ messages' = Front(messages) /\ pc' = "idle"
    BY <1>3 DEF DropFailedReply, Idle
  <2> DEFINE f == Front(messages)
             l == <<LastOf(messages)>>
  <2>2. f \in Seq(Messages) /\ l \in Seq(Messages) /\ messages = f \o l
    BY <1>0, <2>1, FrontTyping, LastTyping, FrontLast
  <2> HIDE DEF f, l
  <2>3. Len(f) <= Len(messages) /\ \A i \in DOMAIN f : f[i] = messages[i]
    BY <2>2, ConcatPositions, ConcatProperties, LenProperties
  <2>4. ResultsFollow(f)
    BY <1>0, <2>2, <2>3, FollowPrefix
  <2> QED
    BY <2>1, <2>4, AnsweredElsewhere
    DEF f, AskingLabels, PromptLabels, InjectLabels, StreamLabels, BatchLabels,
        CallLabels, ResultLabels
<1>4. CASE Prompt \/ ContinueWithSteering \/ ContinueWithFollowUp
           \/ ContinueTranscript
  <2>1. messages' = messages /\ base' = Len(messages)
    BY <1>4 DEF Prompt, ContinueWithSteering, ContinueWithFollowUp,
                ContinueTranscript, StartRun
  <2>2. AnsweredFrom(messages', base', OpenReply')
    <3>1. base' + 1..Len(messages') = {}
      BY <1>0, <2>1, LenProperties
    <3> QED
      BY <3>1 DEF AnsweredFrom
  <2> QED
    BY <1>0, <2>1, <2>2 DEF RepliesAnswered
<1> QED
  BY <1>1, <1>2, <1>3, <1>4 DEF Embedder

LEMMA StepAnswered ==
    TypedShape /\ Holding /\ ContextInStep /\ BatchShape /\ RepliesAnswered
      /\ [Next]_vars => RepliesAnswered'
<1> SUFFICES ASSUME TypedShape, Holding, ContextInStep, BatchShape,
                    RepliesAnswered, [Next]_vars
             PROVE  RepliesAnswered'
  OBVIOUS
<1>0. messages \in Seq(Messages) /\ ResultsFollow(messages)
  BY DEF TypedShape, TypeOK, AgentTypeOK, RepliesAnswered
<1>1. CASE Failure \/ FinishRun
  <2>1. pc' \in FailLabels \cup {"finish", "idle"}
    BY <1>1
    DEF Failure, EmitFailureStart, EmitFailureEnd, EmitFailureTurnEnd,
        EmitFailureAgentEnd, DeliverFailure, FinishRun, FailLabels
  <2>2. pc' \notin AskingLabels
    BY <2>1
    DEF FailLabels, AskingLabels, PromptLabels, InjectLabels, StreamLabels,
        BatchLabels, CallLabels, ResultLabels
  <2>3. CASE EmitFailureEnd
    <3>1. /\ streamingMessage \in Messages
          /\ streamingMessage.role = "assistant"
          /\ messages' = Append(messages, streamingMessage)
      BY <2>3
      DEF EmitFailureEnd, EndMessage, TypedShape, Shape, Holding
    <3>2. ResultsFollow(messages')
      BY <1>0, <3>1, FollowAppended
    <3> QED
      BY <2>2, <3>2, AnsweredElsewhere
  <2>4. CASE ~EmitFailureEnd
    <3>1. messages' = messages
      BY <1>1, <2>4
      DEF Failure, EmitFailureStart, EmitFailureTurnEnd, EmitFailureAgentEnd,
          FinishRun, StartMessage, EndTurn, EndAgent
    <3> QED
      BY <1>0, <2>2, <3>1, AnsweredElsewhere
  <2> QED
    BY <2>3, <2>4
<1>2. ASSUME NEW c \in orphans, OrphanEnds(c) PROVE RepliesAnswered'
  <2>1. UNCHANGED <<messages, base, aborted, pc, context>>
    BY <1>2 DEF OrphanEnds, EndTool, Frame, KeepLocals, loopVars
  <2> QED
    BY <1>0, <2>1, AnsweredElsewhere, AnsweredUntouched DEF OpenReply
<1>3. CASE UNCHANGED vars
  <2>1. UNCHANGED <<messages, base, aborted, pc, context>>
    BY <1>3 DEF vars, agentVars, loopVars
  <2> QED
    BY <1>0, <2>1, AnsweredElsewhere, AnsweredUntouched DEF OpenReply
<1> QED
  BY <1>1, <1>2, <1>3, EmbedderAnswered, TurnAnswered, ToolsAnswered
  DEF Next, Run

\* The provider is never shown a transcript it would refuse: each result
\* follows its call in source order whatever order a parallel batch completes
\* in, and in a run that is not aborted every call has its result by then.
THEOREM TranscriptCorrect == Spec => []CallsAnsweredInOrder
<1> DEFINE IInv == /\ TypedShape /\ Holding /\ ContextInStep /\ BatchShape
                   /\ RepliesAnswered
<1>1. Init => IInv
  <2>1. Init => ContextInStep /\ BatchShape
    BY DEF Init, ContextInStep, BatchShape, PromptLabels, InjectLabels,
           TailLabels, StreamLabels, BatchLabels, CallLabels, ResultLabels
  <2>2. Init => RepliesAnswered
    BY DEF Init, RepliesAnswered, ResultsFollow, AskingLabels, PromptLabels,
           InjectLabels, StreamLabels, BatchLabels, CallLabels, ResultLabels
  <2> QED
    BY <2>1, <2>2, InitTyped, InitHolding
<1>2. IInv /\ [Next]_vars => IInv'
  BY StepTyped, StepHolding, StepContext, StepBatch, StepAnswered
<1>3. IInv => CallsAnsweredInOrder
  <2>1. IInv => ToolResultsFollowCalls
    BY DEF RepliesAnswered, ResultsFollow, ToolResultsFollowCalls
  <2>2. IInv => CallsAnsweredBeforeRequest
    BY DEF RepliesAnswered, AnsweredFrom, Answered, OpenReply, AskingLabels,
           BatchLabels, CallLabels, ResultLabels, CallsAnsweredBeforeRequest
  <2> QED
    BY <2>1, <2>2 DEF CallsAnsweredInOrder
<1> QED
  BY <1>1, <1>2, <1>3, PTL DEF Spec
=============================================================================

------------------------- MODULE AgentSessionProofs -------------------------
(***************************************************************************)
(* What the coding agent's session promises about the calls that wait for  *)
(* it, about settling, about the requests it repeats by itself, about what *)
(* it records of the agent's transcript and about what it shows as queued. *)
(***************************************************************************)
EXTENDS AgentSession, SequenceTheorems, FiniteSetTheorems,
        WellFoundedInduction, TLAPS

(* The inductive invariant *)

Preparing == {"preflight", "promptCompacts", "starting"}
AfterRun == {"post", "sleeping", "retryCancelled", "check", "compacting"}

\* The variables that TypeOK leaves out.
Typed ==
    /\ TypeOK
    /\ sent \in 0..MaxSent /\ turn \in Nat /\ bashes \in Nat
    /\ phase = "tools" => turn # 0
    /\ compaction \in [kept : Nat \ {0}, retry : BOOLEAN] \cup {None}
    /\ operation \in [kind : {"waits", "prepares", "summarizes", "navigates"},
                      at : Nat] \cup {None}

\* Who is suspended where, and what for.
Suspended ==
    /\ streaming <=> pc \in {"running"} \cup AfterRun
    /\ phase # "idle" <=> pc = "running"
    /\ pc # "running" => unsaved = None
    /\ pc \in Preparing => inject # <<>>
    /\ phase \in {"prompts", "inject"} => inject # <<>>
    /\ pc \in {"promptCompacts", "compacting"}
         => compaction # None /\ compaction.kept \in 1..Len(branch)
    /\ pc = "post" => lastAssistant # None
    /\ pc \in AfterRun \ {"post"} => reply # None

\* compact() and navigateTree() work while nothing runs.
Operating ==
    /\ operation # None =>
         /\ pc \notin Preparing
         /\ operation.kind # "waits" => pc = "none"
         /\ operation.kind = "summarizes" => operation.at # 0
         /\ operation.kind = "navigates" => operation.at \in 0..Len(branch)
    /\ "compact" \in waiters => operation # None /\ operation.kind = "waits"

\* A transcript that agent.continue() takes, and one with a reply after it.
Open(s) == s # <<>> /\ ~EndsWith(s, "assistant")
Replied(s) == EndsWith(s, "assistant") /\ Open(Front(s))
Transcript ==
    /\ phase \in {"initialPoll", "toolPoll", "request"} => Open(messages)
    /\ phase \in {"poll", "ended"} \/ pc = "post" => Replied(messages)
    /\ pc \in {"sleeping", "retryCancelled"} => Open(messages)
    /\ pc \in {"check", "compacting"} => Open(messages) \/ Replied(messages)

\* The last reply of a run that stops is in the branch, or being saved.
LastReplySaved ==
    /\ pc \in AfterRun => EndsWith(branch, "assistant")
    /\ phase \in {"poll", "ended"} =>
         LET m == IF unsaved = None THEN lastAssistant ELSE unsaved IN
         /\ m # None /\ m.role = "assistant"
         /\ phase = "poll" => m.stop \notin Errors
         /\ unsaved = None => EndsWith(branch, "assistant")
    /\ unsaved # None /\ unsaved.role = "assistant" =>
         /\ phase \in {"tools", "poll", "ended"}
         /\ phase = "tools" => unsaved.stop = "toolUse"
         /\ phase = "ended" => unsaved.stop \in Errors \cup {"aborted"}

\* Requests repeated on account of the recovery, and by retries so far.
Recovery == IF overflowAttempted THEN MaxRetries + 1 ELSE 0
Counted == automatic <= Recovery + retryAttempt
Counts ==
    /\ automatic <= Recovery + MaxRetries
    /\ lastAssistant # None /\ lastAssistant.stop \notin Errors
         => retryAttempt = 0
    /\ pc \in {"none", "check", "compacting"} \cup Preparing
         => retryAttempt = 0
    /\ phase \in {"initialPoll", "toolPoll", "request", "tools"} => Counted
    /\ phase = "ended" /\ unsaved # None => Counted
    /\ (phase = "ended" /\ unsaved = None) \/ pc = "post"
         => Counted \/ lastAssistant.stop # "error"
    /\ pc = "sleeping" => automatic < Recovery + retryAttempt
    /\ pc = "check" => Counted \/ EndsWith(messages, "assistant")
    /\ pc = "compacting" =>
         IF compaction.retry THEN automatic < Recovery
         ELSE Counted \/ EndsWith(messages, "assistant")

IInv ==
    /\ Typed /\ NoLostWaiter /\ Suspended /\ Operating /\ Transcript
    /\ LastReplySaved /\ Counts
-----------------------------------------------------------------------------
(* Messages *)

\* The arithmetic of the counts below.
LEMMA Sums ==
    ASSUME NEW a \in Nat, NEW r \in Nat, NEW s \in Nat, NEW m \in Nat, r <= s
    PROVE  /\ a <= r + m => a <= s + m
           /\ a <= m + r => a <= m + s
           /\ a <= s => a <= s + m
  OBVIOUS

LEMMA NothingAdded ==
    ASSUME NEW a \in Nat, NEW r \in Nat, NEW m, m = 0, a <= r
    PROVE  a + 0 <= r + m
  OBVIOUS

LEMMA MessageTypes ==
    /\ Submitted \subseteq Messages /\ AssistantMessages \subseteq Messages
    /\ BranchSummary \in Messages
    /\ \A m \in Messages : m.role = "assistant" => m \in AssistantMessages
    /\ \A m \in Submitted : m.role # "assistant"
    /\ \A m \in AssistantMessages : m.role = "assistant"
  BY SMT DEF Messages, Submitted, AssistantMessages, BranchSummary

LEMMA SubmittedTyped ==
    ASSUME NEW n \in 1..MaxSent,
           NEW via \in {"prompt", "steer", "followUp", "nextTurn", "record"}
    PROVE  User(n, via) \in Submitted /\ Custom(n, via) \in Submitted
  BY SMT DEF User, Custom, Submitted

LEMMA OthersTyped ==
    ASSUME NEW n \in Nat \ {0}, NEW stop \in Stops
    PROVE  /\ Assistant(n, stop) \in AssistantMessages
           /\ Assistant(n, stop).stop = stop
           /\ Result(n) \in Messages /\ Result(n).role # "assistant"
           /\ Bash(n) \in Messages
  BY SMT DEF Assistant, AssistantMessages, Result, Bash, Messages

LEMMA CompactionTyped ==
    ASSUME NEW k \in Nat \ {0}, NEW n \in Nat
    PROVE  /\ Compaction(k, n) \in Messages
           /\ Compaction(k, n).role = "compaction"
           /\ Compaction(k, n).kept = k
  BY SMT DEF Compaction, Messages

LEMMA KeptTyped ==
    ASSUME NEW m \in Messages, m.role = "compaction"
    PROVE  m.kept \in Nat \ {0}
  BY SMT DEF Messages, Submitted, AssistantMessages, BranchSummary

LEMMA AppendFacts ==
    ASSUME NEW S, NEW s \in Seq(S), NEW m \in S
    PROVE  /\ Append(s, m) \in Seq(S) /\ Append(s, m) # <<>>
           /\ Last(Append(s, m)) = m /\ Front(Append(s, m)) = s
           /\ Len(Append(s, m)) = Len(s) + 1
  <1>1. /\ Append(s, m) \in Seq(S) /\ Append(s, m) # <<>>
        /\ Len(Append(s, m)) = Len(s) + 1
        /\ Append(s, m)[Len(s) + 1] = m
    BY AppendProperties
  <1>2. Front(Append(s, m)) = s
    BY <1>1, SMT DEF Front
  <1> QED
    BY <1>1, <1>2 DEF Last

LEMMA FrontTyped ==
    ASSUME NEW S, NEW s \in Seq(S), s # <<>>
    PROVE  Front(s) \in Seq(S) /\ Len(Front(s)) = Len(s) - 1
  <1>1. Len(s) \in Nat /\ Len(s) # 0
    BY EmptySeq, LenProperties
  <1>2. \A i \in 1..Len(s) - 1 : s[i] \in S
    BY <1>1, ElementOfSeq, SMT
  <1> DEFINE n == Len(s) - 1
  <1>3. n \in Nat /\ n \in Int /\ 1 \in Int
    BY <1>1, SMT
  <1> HIDE DEF n
  <1>4. /\ SubSeq(s, 1, n) \in Seq(S)
        /\ Len(SubSeq(s, 1, n)) = IF 1 <= n THEN n - 1 + 1 ELSE 0
    BY <1>2, <1>3, SubSeqProperties DEF n
  <1>5. Len(SubSeq(s, 1, n)) = n
    BY <1>3, <1>4
  <1> QED
    BY <1>4, <1>5 DEF Front, n

LEMMA DrainedTyped ==
    ASSUME NEW q \in Seq(Submitted)
    PROVE  /\ Drained(q) \in Seq(Submitted) /\ Remaining(q) \in Seq(Submitted)
           /\ q # <<>> => Drained(q) # <<>>
  BY SMT DEF Drained, Remaining

LEMMA LatestIsOne ==
    ASSUME NEW b \in Seq(Messages), CompactionsOf(b) # {}
    PROVE  Latest(b) \in CompactionsOf(b)
  <1> DEFINE C == CompactionsOf(b)
             R == OpToRel(<, Nat)
             T == {Len(b) - i : i \in C}
  <1>1. C \subseteq 1..Len(b) /\ Len(b) \in Nat
    BY SMT DEF CompactionsOf
  <1>2. T \subseteq Nat /\ T # {}
    BY <1>1, SMT
  <1>3. PICK x \in T : \A y \in T : <<y, x>> \notin R
    <2> HIDE DEF T, R
    <2>1. IsWellFoundedOn(R, Nat)
      BY NatLessThanWellFounded DEF R
    <2> QED
      BY <1>2, <2>1, WFMin
  <1>4. PICK i \in C : x = Len(b) - i
    BY DEF T
  <1>5. \A j \in C : j <= i
    <2> TAKE j \in C
    <2>1. <<Len(b) - j, Len(b) - i>> \notin R
      BY <1>3, <1>4
    <2> QED
      BY <2>1, <1>1, SMT DEF OpToRel
  <1> QED
    BY <1>5 DEF Latest

LEMMA ContextTyped ==
    ASSUME NEW b \in Seq(Messages)
    PROVE  Context(b) \in Seq(Messages)
  <1>1. CASE CompactionsOf(b) = {}
    BY <1>1 DEF Context
  <1>2. CASE CompactionsOf(b) # {}
    <2> DEFINE i == Latest(b)
    <2>1. i \in 1..Len(b) /\ b[i] \in Messages /\ b[i].role = "compaction"
      BY <1>2, LatestIsOne DEF CompactionsOf
    <2>2. b[i].kept \in Nat \ {0}
      BY <2>1, KeptTyped
    <2> DEFINE k == b[i].kept
    <2>3. /\ <<b[i]>> \in Seq(Messages)
          /\ SubSeq(b, k, i - 1) \in Seq(Messages)
          /\ SubSeq(b, i + 1, Len(b)) \in Seq(Messages)
      <3> HIDE DEF i, k
      <3>1. /\ \A n \in k..i - 1 : b[n] \in Messages
            /\ \A n \in i + 1..Len(b) : b[n] \in Messages
        BY <2>1, <2>2, SMT DEF k
      <3> QED
        BY <2>1, <2>2, <3>1, SubSeqProperties, SMT DEF k
    <2>4. Context(b) = <<b[i]>> \o SubSeq(b, k, i - 1)
                         \o SubSeq(b, i + 1, Len(b))
      BY <1>2 DEF Context
    <2> HIDE DEF i, k
    <2>5. \A s, t \in Seq(Messages) : s \o t \in Seq(Messages)
      BY ConcatProperties
    <2> QED
      BY <2>3, <2>4, <2>5
  <1> QED
    BY <1>1, <1>2

\* The context after a compaction: the summary, and what it has kept.
LEMMA CompactedContext ==
    ASSUME NEW b \in Seq(Messages), NEW k \in 1..Len(b), NEW n \in Nat
    PROVE  LET c == Context(Append(b, Compaction(k, n))) IN
           /\ c \in Seq(Messages) /\ c # <<>> /\ c[1].role = "compaction"
           /\ Len(c) > 1 /\ Last(c) = Last(b)
  <1> DEFINE m == Compaction(k, n)
             a == Append(b, m)
             i == Len(b) + 1
  <1>1. /\ m \in Messages /\ m.role = "compaction" /\ m.kept = k
        /\ k \in Nat \ {0} /\ Len(b) \in Nat
    BY CompactionTyped
  <1> HIDE DEF m
  <1>2. a \in Seq(Messages) /\ Len(a) = i /\ a[i] = m
    BY <1>1, AppendProperties
  <1>3. \A j \in 1..Len(b) : a[j] = b[j]
    BY <1>1, AppendProperties
  <1> HIDE DEF a
  <1>4. /\ i \in CompactionsOf(a)
        /\ \A j \in CompactionsOf(a) : j \in Nat /\ j <= i
    BY <1>1, <1>2, SMT DEF CompactionsOf
  <1>5. Latest(a) = i
    <2>1. Latest(a) \in CompactionsOf(a) /\ i <= Latest(a)
      BY <1>4 DEF Latest
    <2> QED
      BY <1>4, <1>1, <2>1
  <1>6. Context(a) = <<m>> \o SubSeq(a, k, i - 1) \o SubSeq(a, i + 1, i)
    BY <1>1, <1>2, <1>4, <1>5 DEF Context
  <1> DEFINE kept == SubSeq(a, k, Len(b))
  <1>7. /\ kept \in Seq(Messages) /\ Len(kept) = Len(b) - k + 1
        /\ kept[Len(kept)] = b[Len(b)]
    BY <1>1, <1>2, <1>3, SMT
  <1>8. SubSeq(a, i + 1, i) = <<>> /\ i - 1 = Len(b)
    BY <1>1, <1>2, SMT
  <1> HIDE DEF kept, i
  <1> DEFINE c == <<m>> \o kept
  <1>9. /\ c \in Seq(Messages) /\ Len(c) = Len(kept) + 1
        /\ c[1] = m /\ c[Len(c)] = kept[Len(kept)]
    BY <1>1, <1>7, SMTT(40)
  <1>10. Context(a) = c
    BY <1>1, <1>6, <1>7, <1>8, <1>9, ConcatEmptySeq DEF kept
  <1> HIDE DEF c
  <1>11. c # <<>> /\ Len(c) > 1
    BY <1>1, <1>7, <1>9, SMT
  <1> QED
    BY <1>1, <1>7, <1>9, <1>10, <1>11 DEF Last, a, m

LEMMA Appended ==
    ASSUME NEW s \in Seq(Messages), NEW m \in Messages
    PROVE  /\ m.role # "assistant" => Open(Append(s, m))
           /\ m.role = "assistant" /\ Open(s) => Replied(Append(s, m))
           /\ EndsWith(Append(s, m), "assistant") <=> m.role = "assistant"
  BY AppendFacts DEF Open, Replied, EndsWith

LEMMA WithoutReplyOpen ==
    ASSUME messages \in Seq(Messages), Open(messages) \/ Replied(messages)
    PROVE  WithoutReply \in Seq(Messages) /\ Open(WithoutReply)
  <1>1. CASE Open(messages)
    BY <1>1 DEF Open, WithoutReply
  <1>2. CASE Replied(messages)
    <2>1. EndsWith(messages, "assistant") /\ messages # <<>>
      BY <1>2 DEF Replied, EndsWith
    <2> QED
      BY <1>2, <2>1, FrontTyped DEF Replied, WithoutReply
  <1> QED
    BY <1>1, <1>2

LEMMA CutPointsTyped ==
    ASSUME branch \in Seq(Messages), NEW k \in CutPoints(branch)
    PROVE  k \in 1..Len(branch) /\ k \in Nat \ {0}
  <1>1. FirstEntry(branch) \in Nat
    BY LatestIsOne, KeptTyped DEF FirstEntry, CompactionsOf
  <1>2. Len(branch) \in Nat
    BY LenProperties
  <1> QED
    BY <1>1, <1>2, SMT DEF CutPoints

LEMMA RebuiltFacts ==
    ASSUME Typed, compaction # None, compaction.kept \in 1..Len(branch)
    PROVE  /\ Compacted \in Seq(Messages) /\ Len(Compacted) = Len(branch) + 1
           /\ Rebuilt \in Seq(Messages) /\ Rebuilt # <<>>
           /\ ~compaction.retry /\ EndsWith(branch, "assistant")
                => EndsWith(Rebuilt, "assistant")
  <1>1. /\ branch \in Seq(Messages) /\ turn \in Nat
        /\ compaction.kept \in Nat \ {0}
    BY DEF Typed, TypeOK
  <1> DEFINE c == Context(Compacted)
  <1>2. Compacted \in Seq(Messages) /\ Len(Compacted) = Len(branch) + 1
    BY <1>1, CompactionTyped, AppendFacts DEF Compacted
  <1>3. /\ c \in Seq(Messages) /\ c # <<>>
        /\ Len(c) > 1 /\ Last(c) = Last(branch)
    BY <1>1, CompactedContext DEF Compacted
  <1>4. Rebuilt = c \/ (compaction.retry /\ Rebuilt = Front(c))
    BY DEF Rebuilt
  <1> HIDE DEF c
  <1>5. Front(c) \in Seq(Messages) /\ Len(Front(c)) = Len(c) - 1
    BY <1>3, FrontTyped
  <1>6. Front(c) # <<>>
    <2>1. Len(c) \in Nat
      BY <1>3, LenProperties
    <2> QED
      BY <1>3, <1>5, <2>1, EmptySeq
  <1>7. EndsWith(branch, "assistant") => EndsWith(c, "assistant")
    BY <1>3 DEF EndsWith
  <1> QED
    BY <1>2, <1>3, <1>4, <1>5, <1>6, <1>7
-----------------------------------------------------------------------------
(* Calls that may come at any time *)

\* The step changes nothing but queues and bounds.
Elsewhere ==
    UNCHANGED <<phase, inject, messages, branch, lastAssistant, retryAttempt,
                overflowAttempted, pc, reply, compaction, streaming, waiters,
                settling, unsaved, operation, automatic>>
LEMMA ElsewhereStep ==
    ASSUME IInv, Elsewhere, Typed'
    PROVE  IInv'
  <1>1. NoLostWaiter' /\ Suspended' /\ Operating'
    BY DEF IInv, Elsewhere, NoLostWaiter, Suspended, Operating
  <1>2. Transcript' /\ LastReplySaved'
    BY DEF IInv, Elsewhere, Transcript, LastReplySaved
  <1>3. Counts'
    BY DEF IInv, Elsewhere, Counts, Counted, Recovery
  <1> QED
    BY <1>1, <1>2, <1>3 DEF IInv

LEMMA SubmitTyped ==
    ASSUME Typed, Submit
    PROVE  sent + 1 \in 1..MaxSent /\ sent' \in 0..MaxSent
  BY BoundsAssumption, SMT DEF Typed, Submit

LEMMA QueueUserInv ==
    ASSUME IInv, QueueUser
    PROVE  IInv'
  <1>1. Typed /\ sent' \in 0..MaxSent
        /\ User(sent + 1, "steer") \in Submitted
        /\ User(sent + 1, "followUp") \in Submitted
    BY SubmitTyped, SubmittedTyped DEF IInv, QueueUser
  <1>2. steering' \in Seq(Submitted) /\ followUp' \in Seq(Submitted)
    <2>1. \A q \in Seq(Submitted), m \in Submitted :
            Append(q, m) \in Seq(Submitted)
      BY AppendFacts
    <2>2. steering \in Seq(Submitted) /\ followUp \in Seq(Submitted)
      BY <1>1 DEF Typed, TypeOK
    <2> QED
      BY <1>1, <2>1, <2>2 DEF QueueUser
  <1>3. /\ Elsewhere
        /\ UNCHANGED <<aborted, pendingBash, nextTurn, turn, bashes, cancelled,
                       rejected>>
    BY DEF QueueUser, Elsewhere, KeepBounds, agentVars, logVars, retryVars,
           callVars, idleVars, historyVars
  <1>4. Typed'
    BY <1>1, <1>2, <1>3 DEF Elsewhere, Typed, TypeOK
  <1> QED
    BY <1>3, <1>4, ElsewhereStep

LEMMA QueueCustomInv ==
    ASSUME IInv, QueueCustom
    PROVE  IInv'
  <1>1. Typed /\ sent' \in 0..MaxSent
        /\ Custom(sent + 1, "steer") \in Submitted
        /\ Custom(sent + 1, "followUp") \in Submitted
    BY SubmitTyped, SubmittedTyped DEF IInv, QueueCustom
  <1>2. steering' \in Seq(Submitted) /\ followUp' \in Seq(Submitted)
    <2>1. \A q \in Seq(Submitted), m \in Submitted :
            Append(q, m) \in Seq(Submitted)
      BY AppendFacts
    <2>2. steering \in Seq(Submitted) /\ followUp \in Seq(Submitted)
      BY <1>1 DEF Typed, TypeOK
    <2> QED
      BY <1>1, <2>1, <2>2 DEF QueueCustom
  <1>3. /\ Elsewhere
        /\ UNCHANGED <<aborted, pendingBash, nextTurn, turn, bashes, cancelled,
                       rejected>>
    BY DEF QueueCustom, Elsewhere, KeepBounds, agentVars, logVars, retryVars,
           callVars, idleVars, historyVars
  <1>4. Typed'
    BY <1>1, <1>2, <1>3 DEF Elsewhere, Typed, TypeOK
  <1> QED
    BY <1>3, <1>4, ElsewhereStep

LEMMA QueueNextTurnInv ==
    ASSUME IInv, QueueNextTurn
    PROVE  IInv'
  <1>1. Typed /\ sent' \in 0..MaxSent
        /\ Custom(sent + 1, "nextTurn") \in Submitted
    BY SubmitTyped, SubmittedTyped DEF IInv, QueueNextTurn
  <1>2. nextTurn' \in Seq(Submitted)
    BY <1>1, AppendFacts DEF QueueNextTurn, Typed, TypeOK
  <1>3. /\ Elsewhere
        /\ UNCHANGED <<steering, followUp, aborted, pendingBash, turn, bashes,
                       cancelled, rejected>>
    BY DEF QueueNextTurn, Elsewhere, KeepBounds, agentVars, queueVars, logVars,
           retryVars, callVars, idleVars, historyVars
  <1>4. Typed'
    BY <1>1, <1>2, <1>3 DEF Elsewhere, Typed, TypeOK
  <1> QED
    BY <1>3, <1>4, ElsewhereStep

LEMMA ClearQueueInv ==
    ASSUME IInv, ClearQueue
    PROVE  IInv'
  <1>1. steering' \in Seq(Submitted) /\ followUp' \in Seq(Submitted)
    BY EmptySeq DEF ClearQueue
  <1>2. /\ Elsewhere
        /\ UNCHANGED <<aborted, pendingBash, nextTurn, sent, turn, bashes,
                       cancelled, rejected>>
    BY DEF ClearQueue, Elsewhere, agentVars, logVars, retryVars, callVars,
           idleVars, boundVars, historyVars
  <1>3. Typed'
    BY <1>1, <1>2 DEF IInv, Elsewhere, Typed, TypeOK
  <1> QED
    BY <1>2, <1>3, ElsewhereStep

\* A message is recorded while nothing runs.
LEMMA RecordStep ==
    ASSUME IInv, ~streaming, NEW m \in Messages,
           messages' = Append(messages, m), branch' = Append(branch, m),
           Typed',
           UNCHANGED <<phase, inject, lastAssistant, retryAttempt,
                       overflowAttempted, pc, reply, compaction, streaming,
                       waiters, settling, unsaved, operation, automatic>>
    PROVE  IInv'
  <1>1. Len(branch') = Len(branch) + 1 /\ Len(branch) \in Nat
    BY AppendFacts, LenProperties DEF IInv, Typed, TypeOK
  <1>2. pc \notin {"running"} \cup AfterRun /\ phase = "idle"
    BY DEF IInv, Suspended, AfterRun
  <1>3. NoLostWaiter'
    BY DEF IInv, NoLostWaiter
  <1>4. Suspended'
    BY <1>1, <1>2, SMT DEF IInv, Suspended, AfterRun
  <1>5. Operating'
    BY <1>1, SMT DEF IInv, Operating
  <1>6. Transcript' /\ LastReplySaved'
    BY <1>2 DEF IInv, Transcript, LastReplySaved, AfterRun
  <1>7. Counts'
    BY <1>2 DEF IInv, Counts, Recovery, AfterRun
  <1> QED
    BY <1>3, <1>4, <1>5, <1>6, <1>7 DEF IInv

LEMMA RecordCustomInv ==
    ASSUME IInv, RecordCustom
    PROVE  IInv'
  <1> DEFINE m == Custom(sent + 1, "record")
  <1>1. Typed /\ sent' \in 0..MaxSent /\ m \in Messages
    BY SubmitTyped, SubmittedTyped, MessageTypes DEF IInv, RecordCustom
  <1>2. messages' = Append(messages, m) /\ branch' = Append(branch, m)
    BY DEF RecordCustom
  <1> HIDE DEF m
  <1>3. messages' \in Seq(Messages) /\ branch' \in Seq(Messages)
    BY <1>1, <1>2, AppendFacts DEF Typed, TypeOK
  <1>4. /\ ~streaming
        /\ UNCHANGED <<phase, inject, aborted, steering, followUp,
             lastAssistant, retryAttempt, overflowAttempted, pc, reply,
             compaction, streaming, waiters, settling, turn, bashes, unsaved,
             pendingBash, nextTurn, operation, automatic, cancelled, rejected>>
    BY DEF RecordCustom, KeepBounds, agentVars, queueVars, retryVars, callVars,
           idleVars, historyVars
  <1>5. Typed'
    BY <1>1, <1>3, <1>4 DEF Typed, TypeOK
  <1> QED
    BY <1>1, <1>2, <1>4, <1>5, RecordStep

LEMMA RecordBashResultInv ==
    ASSUME IInv, RecordBashResult
    PROVE  IInv'
  <1> DEFINE m == Bash(bashes + 1)
  <1>1. Typed /\ bashes' \in Nat /\ bashes + 1 \in Nat \ {0}
    BY SMT DEF IInv, Typed, RecordBashResult
  <1>2. m \in Messages
    BY <1>1, SMT DEF Bash, Messages
  <1>3. UNCHANGED <<phase, inject, aborted, steering, followUp, lastAssistant,
             retryAttempt, overflowAttempted, pc, reply, compaction, streaming,
             waiters, settling, sent, turn, unsaved, nextTurn, operation,
             automatic, cancelled, rejected>>
    BY DEF RecordBashResult, agentVars, queueVars, retryVars, callVars,
           idleVars, historyVars
  <1>4. CASE streaming
    <2>1. /\ pendingBash' = Append(pendingBash, m)
          /\ UNCHANGED <<messages, branch>>
      BY <1>4 DEF RecordBashResult, logVars
    <2> HIDE DEF m
    <2>2. pendingBash' \in Seq(Messages)
      BY <1>1, <1>2, <2>1, AppendFacts DEF Typed, TypeOK
    <2>3. Typed'
      BY <1>1, <1>3, <2>1, <2>2 DEF Typed, TypeOK
    <2> QED
      BY <1>3, <2>1, <2>3, ElsewhereStep DEF Elsewhere
  <1>5. CASE ~streaming
    <2>1. /\ messages' = Append(messages, m) /\ branch' = Append(branch, m)
          /\ UNCHANGED pendingBash
      BY <1>5 DEF RecordBashResult
    <2> HIDE DEF m
    <2>2. messages' \in Seq(Messages) /\ branch' \in Seq(Messages)
      BY <1>1, <1>2, <2>1, AppendFacts DEF Typed, TypeOK
    <2>3. Typed'
      BY <1>1, <1>3, <2>1, <2>2 DEF Typed, TypeOK
    <2> QED
      BY <1>2, <1>3, <1>5, <2>1, <2>3, RecordStep
  <1> QED
    BY <1>4, <1>5

\* The pc of a call moves on a cancelled retry.
LEMMA CancelledStep ==
    ASSUME IInv, CancelRetry, Typed', NoLostWaiter', Operating',
           UNCHANGED <<phase, inject, messages, branch, lastAssistant,
                       retryAttempt, overflowAttempted, reply, compaction,
                       streaming, unsaved, automatic>>
    PROVE  IInv'
  <1>1. CASE pc # "sleeping"
    <2>1. pc' = pc
      BY <1>1 DEF CancelRetry
    <2> QED
      BY <2>1 DEF IInv, Suspended, Transcript, LastReplySaved, Counts, Counted,
             Recovery
  <1>2. CASE pc = "sleeping"
    <2>1. pc' = "retryCancelled" /\ phase = "idle"
      BY <1>2 DEF CancelRetry, IInv, Suspended
    <2>2. Suspended'
      BY <1>2, <2>1 DEF IInv, Suspended, AfterRun, Preparing
    <2>3. Transcript' /\ LastReplySaved'
      BY <1>2, <2>1 DEF IInv, Transcript, LastReplySaved, AfterRun
    <2>4. Counts'
      BY <1>2, <2>1 DEF IInv, Counts, Recovery, Preparing
    <2> QED
      BY <2>2, <2>3, <2>4 DEF IInv
  <1> QED
    BY <1>1, <1>2

LEMMA CancelRetryTyped ==
    ASSUME Typed, CancelRetry
    PROVE  pc' \in {"none", "preflight", "promptCompacts", "starting",
                    "running", "post", "sleeping", "retryCancelled", "check",
                    "compacting"}
  BY DEF CancelRetry, Typed, TypeOK

LEMMA OperatingKept ==
    ASSUME IInv, CancelRetry, UNCHANGED <<operation, branch>>,
           "compact" \in waiters' => "compact" \in waiters
    PROVE  Operating'
  BY DEF IInv, CancelRetry, Operating, Preparing

LEMMA AbortInv ==
    ASSUME IInv, Abort
    PROVE  IInv'
  <1>1. /\ CancelRetry /\ aborted' \in BOOLEAN
        /\ waiters' \in {waiters, waiters \cup {"abort"}} /\ streaming
        /\ UNCHANGED <<phase, inject, messages, branch, steering, followUp,
             pendingBash, nextTurn, lastAssistant, reply, retryAttempt,
             overflowAttempted, streaming, settling, sent, turn, bashes,
             compaction, operation, unsaved, automatic, cancelled, rejected>>
    BY DEF Abort, AbortAgent, WaitForIdle, queueVars, logVars, retryVars,
           historyVars
  <1>2. Typed'
    BY <1>1, CancelRetryTyped DEF IInv, Typed, TypeOK
  <1>3. NoLostWaiter'
    BY <1>1 DEF NoLostWaiter
  <1> QED
    BY <1>1, <1>2, <1>3, OperatingKept, CancelledStep

LEMMA WaitInv ==
    ASSUME IInv, Wait
    PROVE  IInv'
  <1>1. /\ pc' = pc
        /\ waiters' \in {waiters, waiters \cup {"waitForIdle"}} /\ streaming
        /\ UNCHANGED <<phase, inject, messages, branch, steering, followUp,
             pendingBash, nextTurn, lastAssistant, reply, retryAttempt,
             overflowAttempted, streaming, settling, sent, turn, bashes,
             compaction, operation, unsaved, automatic, cancelled, rejected,
             aborted>>
    BY DEF Wait, WaitForIdle, agentVars, queueVars, logVars, retryVars,
           callVars, historyVars
  <1>2. Typed'
    BY <1>1 DEF IInv, Typed, TypeOK
  <1>3. NoLostWaiter'
    BY <1>1 DEF NoLostWaiter
  <1>4. Suspended' /\ Operating'
    BY <1>1 DEF IInv, Suspended, Operating
  <1>5. Transcript' /\ LastReplySaved'
    BY <1>1 DEF IInv, Transcript, LastReplySaved
  <1>6. Counts'
    BY <1>1 DEF IInv, Counts, Counted, Recovery
  <1> QED
    BY <1>2, <1>3, <1>4, <1>5, <1>6 DEF IInv

LEMMA AbortRetryInv ==
    ASSUME IInv, AbortRetry
    PROVE  IInv'
  <1>1. /\ CancelRetry
        /\ UNCHANGED <<phase, inject, messages, branch, steering, followUp,
             pendingBash, nextTurn, lastAssistant, reply, retryAttempt,
             overflowAttempted, streaming, settling, sent, turn, bashes,
             compaction, operation, unsaved, automatic, cancelled, rejected,
             aborted, waiters>>
    BY DEF AbortRetry, agentVars, queueVars, logVars, retryVars, idleVars,
           boundVars, historyVars
  <1>2. Typed'
    BY <1>1, CancelRetryTyped DEF IInv, Typed, TypeOK
  <1>3. NoLostWaiter'
    BY <1>1 DEF IInv, NoLostWaiter
  <1> QED
    BY <1>1, <1>2, <1>3, OperatingKept, CancelledStep

LEMMA CompactInv ==
    ASSUME IInv, Compact
    PROVE  IInv'
  <1> DEFINE new == [kind |-> IF streaming THEN "waits" ELSE "prepares",
                     at |-> 0]
  <1>1. /\ CancelRetry /\ aborted' \in BOOLEAN
        /\ operation = None /\ (streaming \/ pc = "none") /\ operation' = new
        /\ waiters' = IF streaming THEN waiters \cup {"compact"} ELSE waiters
        /\ UNCHANGED <<phase, inject, messages, branch, steering, followUp,
             pendingBash, nextTurn, lastAssistant, reply, retryAttempt,
             overflowAttempted, streaming, settling, sent, turn, bashes,
             compaction, unsaved, automatic, cancelled, rejected>>
    BY DEF Compact, AbortAgent, WaitForIdle, queueVars, logVars, retryVars,
           historyVars
  <1>2. /\ new \in [kind : {"waits", "prepares", "summarizes", "navigates"},
                    at : Nat]
        /\ new.kind = IF streaming THEN "waits" ELSE "prepares"
    OBVIOUS
  <1> HIDE DEF new
  <1>3. Typed'
    BY <1>1, <1>2, CancelRetryTyped DEF IInv, Typed, TypeOK
  <1>4. NoLostWaiter'
    BY <1>1 DEF IInv, NoLostWaiter
  <1>5. pc' \notin Preparing /\ (~streaming => pc' = "none")
    BY <1>1 DEF IInv, Suspended, CancelRetry, Preparing, AfterRun
  <1>6. Operating'
    <2>1. "compact" \notin waiters
      BY <1>1 DEF IInv, Operating
    <2>2. CASE streaming
      BY <1>1, <1>2, <1>5, <2>2, NoneAssumption DEF Operating
    <2>3. CASE ~streaming
      BY <1>1, <1>2, <1>5, <2>1, <2>3 DEF Operating
    <2> QED
      BY <2>2, <2>3
  <1> QED
    BY <1>1, <1>3, <1>4, <1>6, CancelledStep

LEMMA SettledInv ==
    ASSUME IInv, Settled
    PROVE  IInv'
  <1> DEFINE new == [kind |-> "prepares", at |-> 0]
  <1>1. /\ settling > 0 /\ settling' = settling - 1
        /\ waiters' = IF streaming THEN waiters ELSE {}
        /\ UNCHANGED <<phase, inject, messages, branch, steering, followUp,
             pendingBash, nextTurn, lastAssistant, reply, retryAttempt,
             overflowAttempted, streaming, sent, turn, bashes, pc,
             compaction, unsaved, automatic, cancelled, rejected, aborted>>
    BY DEF Settled, agentVars, queueVars, logVars, retryVars, callVars,
           boundVars, historyVars
  <1>2. \/ operation' = operation
        \/ /\ ~streaming /\ waiters # {} /\ "compact" \in waiters
           /\ operation' = new
    BY DEF Settled
  <1>3. /\ new \in [kind : {"waits", "prepares", "summarizes", "navigates"},
                    at : Nat]
        /\ new.kind = "prepares"
    OBVIOUS
  <1> HIDE DEF new
  <1>4. settling' \in Nat
    BY <1>1, SMT DEF IInv, Typed, TypeOK
  <1>5. Typed'
    BY <1>1, <1>2, <1>3, <1>4 DEF IInv, Typed, TypeOK
  <1>6. NoLostWaiter'
    BY <1>1 DEF NoLostWaiter
  <1>7. Operating'
    <2>1. CASE operation' = operation
      BY <1>1, <2>1 DEF IInv, Operating
    <2>2. CASE /\ ~streaming /\ "compact" \in waiters
               /\ operation' = new
      <3>1. pc \notin Preparing /\ pc \notin {"running"} \cup AfterRun
        BY <2>2 DEF IInv, Operating, Suspended
      <3>2. pc = "none"
        BY <3>1 DEF IInv, Typed, TypeOK, AfterRun, Preparing
      <3> QED
        BY <1>1, <1>3, <2>2, <3>1, <3>2 DEF Operating
    <2> QED
      BY <1>2, <2>1, <2>2
  <1>8. Suspended' /\ Transcript'
    BY <1>1 DEF IInv, Suspended, Transcript
  <1>9. LastReplySaved' /\ Counts'
    BY <1>1 DEF IInv, LastReplySaved, Counts, Counted, Recovery
  <1> QED
    BY <1>5, <1>6, <1>7, <1>8, <1>9 DEF IInv
-----------------------------------------------------------------------------
(* compact() and navigateTree() *)

\* The rest of the session is idle and keeps its place.
LEMMA OperationStep ==
    ASSUME IInv, pc = "none", OperationKeeps,
           messages' \in Seq(Messages), branch' \in Seq(Messages),
           operation' \in [kind : {"waits", "prepares", "summarizes",
                                   "navigates"}, at : Nat] \cup {None},
           Operating'
    PROVE  IInv'
  <1>1. UNCHANGED <<phase, inject, aborted, steering, followUp, lastAssistant,
             retryAttempt, overflowAttempted, pc, reply, compaction, streaming,
             waiters, settling, sent, turn, bashes, unsaved, pendingBash,
             nextTurn, automatic, cancelled, rejected>>
    BY DEF OperationKeeps, agentVars, queueVars, retryVars, callVars, idleVars,
           historyVars
  <1>2. phase = "idle"
    BY DEF IInv, Suspended
  <1>3. Typed'
    BY <1>1 DEF IInv, Typed, TypeOK
  <1>4. NoLostWaiter' /\ Suspended'
    BY <1>1 DEF IInv, NoLostWaiter, Suspended, Preparing, AfterRun
  <1>5. Transcript' /\ LastReplySaved'
    BY <1>1, <1>2 DEF IInv, Transcript, LastReplySaved, AfterRun
  <1>6. Counts'
    BY <1>1, <1>2 DEF IInv, Counts, Recovery
  <1> QED
    BY <1>3, <1>4, <1>5, <1>6 DEF IInv

\* An operation that works finds the session idle, and nobody waits for it.
LEMMA Works ==
    ASSUME IInv, operation # None, operation.kind # "waits"
    PROVE  pc = "none" /\ "compact" \notin waiters
  BY DEF IInv, Operating

LEMMA CompactPreparesInv ==
    ASSUME IInv, CompactPrepares
    PROVE  IInv'
  <1>1. /\ pc = "none" /\ "compact" \notin waiters
        /\ OperationKeeps /\ UNCHANGED <<messages, branch>>
        /\ waiters' = waiters /\ pc' = pc
    BY Works DEF CompactPrepares, logVars, OperationKeeps, idleVars, callVars
  <1>2. messages' \in Seq(Messages) /\ branch' \in Seq(Messages)
        /\ Len(branch) \in Nat
    BY <1>1, LenProperties DEF IInv, Typed, TypeOK
  <1>3. CASE operation' = None
    BY <1>1, <1>2, <1>3, OperationStep DEF Operating
  <1>4. CASE \E k \in CutPoints(branch) :
               operation' = [kind |-> "summarizes", at |-> k]
    <2>1. PICK k \in CutPoints(branch) :
                 operation' = [kind |-> "summarizes", at |-> k]
      BY <1>4
    <2>2. k \in Nat /\ k # 0
      BY <1>1, CutPointsTyped DEF IInv, Typed, TypeOK
    <2>3. operation' \in [kind : {"waits", "prepares", "summarizes",
                                  "navigates"}, at : Nat]
          /\ operation'.kind = "summarizes" /\ operation'.at = k
      BY <2>1, <2>2
    <2> HIDE <2>1
    <2>4. Operating'
      BY <1>1, <2>2, <2>3, NoneAssumption DEF Operating, Preparing
    <2> QED
      BY <1>1, <1>2, <2>3, <2>4, OperationStep
  <1> QED
    BY <1>3, <1>4 DEF CompactPrepares

LEMMA CompactEndsInv ==
    ASSUME IInv, CompactEnds
    PROVE  IInv'
  <1>1. /\ pc = "none" /\ "compact" \notin waiters
        /\ OperationKeeps /\ operation' = None /\ waiters' = waiters
        /\ operation # None /\ operation.kind = "summarizes"
    BY Works DEF CompactEnds, OperationKeeps, idleVars
  <1>2. /\ messages \in Seq(Messages) /\ branch \in Seq(Messages)
        /\ operation.at \in Nat \ {0} /\ turn \in Nat
    BY <1>1 DEF IInv, Typed, TypeOK, Operating
  <1>3. messages' \in Seq(Messages) /\ branch' \in Seq(Messages)
    <2>1. Compaction(operation.at, turn) \in Messages
      BY <1>2, CompactionTyped
    <2>2. Append(branch, Compaction(operation.at, turn)) \in Seq(Messages)
      BY <1>2, <2>1, AppendFacts
    <2> QED
      BY <1>2, <2>2, ContextTyped DEF CompactEnds, logVars
  <1>4. Operating'
    BY <1>1 DEF Operating
  <1> QED
    BY <1>1, <1>3, <1>4, OperationStep

LEMMA NavigateTreeInv ==
    ASSUME IInv, NavigateTree
    PROVE  IInv'
  <1>1. /\ pc = "none" /\ "compact" \notin waiters
        /\ OperationKeeps /\ UNCHANGED <<messages, branch, waiters, pc>>
    BY DEF NavigateTree, Free, IInv, Operating, logVars, OperationKeeps,
           idleVars, callVars
  <1>2. messages' \in Seq(Messages) /\ branch' \in Seq(Messages)
        /\ Len(branch) \in Nat
    BY <1>1, LenProperties DEF IInv, Typed, TypeOK
  <1>3. PICK k \in Leaves : operation' = [kind |-> "navigates", at |-> k]
    BY DEF NavigateTree
  <1>4. k \in 0..Len(branch) /\ k \in Nat
    BY <1>2, SMT DEF Leaves
  <1>5. operation' \in [kind : {"waits", "prepares", "summarizes",
                                "navigates"}, at : Nat]
        /\ operation'.kind = "navigates" /\ operation'.at = k
    BY <1>3, <1>4
  <1>6. Operating'
    BY <1>1, <1>4, <1>5 DEF Operating, Preparing
  <1> QED
    BY <1>1, <1>2, <1>5, <1>6, OperationStep

LEMMA NavigationEndsInv ==
    ASSUME IInv, NavigationEnds
    PROVE  IInv'
  <1>1. /\ pc = "none" /\ "compact" \notin waiters
        /\ OperationKeeps /\ operation' = None /\ waiters' = waiters
        /\ operation # None /\ operation.kind = "navigates"
    BY Works DEF NavigationEnds, OperationKeeps, idleVars
  <1>2. /\ messages \in Seq(Messages) /\ branch \in Seq(Messages)
        /\ operation.at \in 0..Len(branch)
    BY <1>1 DEF IInv, Typed, TypeOK, Operating
  <1>3. SubSeq(branch, 1, operation.at) \in Seq(Messages)
    <2> DEFINE n == operation.at
    <2>1. Len(branch) \in Nat /\ \A i \in 1..n : branch[i] \in Messages
      BY <1>2, LenProperties, ElementOfSeq, SMT
    <2>2. n \in Int /\ 1 \in Int
      BY <1>2, <2>1, SMT
    <2> HIDE DEF n
    <2>3. SubSeq(branch, 1, n) \in Seq(Messages)
      BY <2>1, <2>2, SubSeqProperties
    <2> QED
      BY <2>3 DEF n
  <1>4. <<>> \in Seq(Messages) /\ <<BranchSummary>> \in Seq(Messages)
    <2>1. BranchSummary \in Messages
      BY MessageTypes
    <2> QED
      BY <2>1, EmptySeq, SMT
  <1>5. \A s, t \in Seq(Messages) : s \o t \in Seq(Messages)
    BY ConcatProperties
  <1>6. branch' \in Seq(Messages)
    BY <1>2, <1>3, <1>4, <1>5 DEF NavigationEnds, logVars
  <1>7. messages' \in Seq(Messages)
    BY <1>2, <1>6, ContextTyped DEF NavigationEnds, logVars
  <1>8. Operating'
    BY <1>1 DEF Operating
  <1> QED
    BY <1>1, <1>6, <1>7, <1>8, OperationStep
-----------------------------------------------------------------------------
(* The agent's run *)

LEMMA Running ==
    ASSUME IInv, phase # "idle"
    PROVE  pc = "running" /\ streaming
  BY DEF IInv, Suspended

LEMMA DeliverMessageInv ==
    ASSUME IInv, DeliverMessage
    PROVE  IInv'
  <1> DEFINE m == Head(inject)
  <1>1. /\ Typed /\ inject \in Seq(Submitted) /\ inject # <<>>
        /\ messages \in Seq(Messages)
        /\ pc = "running" /\ phase \in {"prompts", "inject"}
    BY Running DEF DeliverMessage, IInv, Suspended, Typed, TypeOK
  <1>2. m \in Submitted /\ Tail(inject) \in Seq(Submitted)
    BY <1>1, HeadTailProperties
  <1>3. m \in Messages /\ m.role # "assistant" /\ m # None
    BY <1>2, MessageTypes, NoneAssumption
  <1>4. /\ messages' = Append(messages, m) /\ unsaved' = m
        /\ inject' = Tail(inject)
        /\ phase' = IF Tail(inject) # <<>> THEN phase
                    ELSE IF phase = "prompts" THEN "initialPoll" ELSE "request"
        /\ automatic' = 0
        /\ UNCHANGED <<aborted, steering, followUp, branch, lastAssistant,
             retryAttempt, pc, reply, compaction, streaming, waiters, settling,
             sent, turn, bashes, pendingBash, nextTurn, operation, rejected>>
    BY DEF DeliverMessage, queueVars, callVars, idleVars, boundVars
  <1> HIDE DEF m
  <1>5. messages' \in Seq(Messages) /\ Open(messages')
    BY <1>1, <1>3, <1>4, AppendFacts, Appended
  <1>6. overflowAttempted' \in BOOLEAN /\ cancelled' \in BOOLEAN
    BY DEF DeliverMessage
  <1>7. phase' \in {"prompts", "inject", "initialPoll", "request"}
        /\ (phase' \in {"prompts", "inject"} => inject' # <<>>)
    BY <1>1, <1>4
  <1>8. Typed'
    BY <1>1, <1>2, <1>3, <1>4, <1>5, <1>6, <1>7 DEF Typed, TypeOK
  <1>9. NoLostWaiter' /\ Operating'
    BY <1>4 DEF IInv, NoLostWaiter, Operating
  <1>10. Suspended'
    BY <1>1, <1>4, <1>7 DEF IInv, Suspended, AfterRun, Preparing
  <1>11. Transcript' /\ LastReplySaved'
    BY <1>1, <1>3, <1>4, <1>5, <1>7 DEF Transcript, LastReplySaved, AfterRun
  <1>12. Counts'
    BY <1>1, <1>4, <1>6, <1>7, RetriesAssumption, SMT
    DEF IInv, Typed, TypeOK, Counts, Counted, Recovery, Preparing
  <1> QED
    BY <1>8, <1>9, <1>10, <1>11, <1>12 DEF IInv

LEMMA PollInv ==
    ASSUME IInv, Poll
    PROVE  IInv'
  <1>1. /\ Typed /\ pc = "running"
        /\ phase \in {"initialPoll", "toolPoll", "poll"} /\ unsaved = None
        /\ steering \in Seq(Submitted) /\ followUp \in Seq(Submitted)
    BY Running DEF Poll, Step, IInv, Typed, TypeOK
  <1>2. UNCHANGED <<aborted, messages, branch, lastAssistant, retryAttempt,
             overflowAttempted, pc, reply, compaction, streaming, waiters,
             settling, sent, turn, bashes, unsaved, pendingBash, nextTurn,
             operation, automatic, cancelled, rejected>>
    BY DEF Poll, logVars, retryVars, callVars, idleVars, boundVars, historyVars
  <1>3. /\ \/ phase' = "inject" /\ inject' # <<>>
           \/ phase \in {"initialPoll", "toolPoll"} /\ phase' = "request"
           \/ phase = "poll" /\ phase' = "ended"
        /\ inject' \in Seq(Submitted) /\ steering' \in Seq(Submitted)
        /\ followUp' \in Seq(Submitted)
    BY <1>1, DrainedTyped DEF Poll, queueVars, Typed, TypeOK
  <1>4. Typed'
    BY <1>1, <1>2, <1>3 DEF Typed, TypeOK
  <1>5. NoLostWaiter' /\ Operating'
    BY <1>2 DEF IInv, NoLostWaiter, Operating
  <1>6. Suspended'
    BY <1>1, <1>2, <1>3 DEF IInv, Suspended, AfterRun, Preparing
  <1>7. Transcript'
    BY <1>1, <1>2, <1>3 DEF IInv, Transcript
  <1>8. LastReplySaved'
    BY <1>1, <1>2, <1>3 DEF IInv, LastReplySaved, AfterRun
  <1>9. Counts'
    <2>1. CASE phase' = "inject"
      BY <1>1, <1>2, <2>1 DEF IInv, Counts, Recovery, Preparing
    <2>2. CASE phase \in {"initialPoll", "toolPoll"} /\ phase' = "request"
      BY <1>1, <1>2, <2>2 DEF IInv, Counts, Counted, Recovery, Preparing
    <2>3. CASE phase = "poll" /\ phase' = "ended"
      <3>1. lastAssistant.stop # "error"
        BY <1>1, <2>3 DEF IInv, LastReplySaved, Errors
      <3> QED
        BY <1>1, <1>2, <2>3, <3>1
        DEF IInv, Counts, Counted, Recovery, Preparing
    <2> QED
      BY <1>3, <2>1, <2>2, <2>3
  <1> QED
    BY <1>4, <1>5, <1>6, <1>7, <1>8, <1>9 DEF IInv

LEMMA ReplyInv ==
    ASSUME IInv, Reply
    PROVE  IInv'
  <1>1. /\ Typed /\ pc = "running" /\ phase = "request" /\ unsaved = None
        /\ messages \in Seq(Messages) /\ Open(messages)
        /\ turn' = turn + 1 /\ turn \in Nat
    BY Running DEF Reply, Step, IInv, Typed, TypeOK, Transcript
  <1>2. UNCHANGED <<inject, aborted, steering, followUp, branch, lastAssistant,
             retryAttempt, overflowAttempted, pc, reply, compaction, streaming,
             waiters, settling, sent, bashes, pendingBash, nextTurn, operation,
             automatic, cancelled, rejected>>
    BY DEF Reply, queueVars, retryVars, callVars, idleVars, historyVars
  <1>3. PICK stop \in Stops :
          /\ messages' = Append(messages, Assistant(turn + 1, stop))
          /\ unsaved' = Assistant(turn + 1, stop)
          /\ phase' = CASE stop \in Errors \cup {"aborted"} -> "ended"
                        [] stop = "toolUse" -> "tools"
                        [] OTHER -> "poll"
    BY DEF Reply, Answers, Stops
  <1> DEFINE m == Assistant(turn + 1, stop)
  <1>4. turn + 1 \in Nat \ {0}
    BY <1>1
  <1>5. m \in Messages /\ m.role = "assistant" /\ m # None /\ m.stop = stop
    BY <1>4, OthersTyped, MessageTypes, NoneAssumption
  <1> HIDE DEF m
  <1>6. messages' = Append(messages, m) /\ unsaved' = m
    BY <1>3 DEF m
  <1>7. messages' \in Seq(Messages) /\ Replied(messages')
    BY <1>1, <1>5, <1>6, AppendFacts, Appended
  <1>8. /\ phase' \in {"ended", "tools", "poll"}
        /\ phase' = "poll" => stop \notin Errors
        /\ phase' = "tools" => stop = "toolUse"
        /\ phase' = "ended" => stop \in Errors \cup {"aborted"}
    BY <1>3, Zenon
  <1>9. Typed'
    BY <1>1, <1>2, <1>4, <1>5, <1>6, <1>7, <1>8 DEF Typed, TypeOK
  <1>10. NoLostWaiter' /\ Operating'
    BY <1>2 DEF IInv, NoLostWaiter, Operating
  <1>11. Suspended'
    BY <1>1, <1>2, <1>8 DEF IInv, Suspended, AfterRun, Preparing
  <1>12. Transcript'
    BY <1>1, <1>2, <1>7, <1>8 DEF Transcript
  <1>13. LastReplySaved'
    BY <1>1, <1>2, <1>5, <1>6, <1>8 DEF LastReplySaved, AfterRun
  <1>14. Counts'
    BY <1>1, <1>2, <1>5, <1>6, <1>8
    DEF IInv, Counts, Counted, Recovery, Preparing
  <1> QED
    BY <1>9, <1>10, <1>11, <1>12, <1>13, <1>14 DEF IInv

LEMMA ToolReturnsInv ==
    ASSUME IInv, ToolReturns
    PROVE  IInv'
  <1> DEFINE m == Result(turn)
  <1>1. /\ Typed /\ pc = "running" /\ phase = "tools" /\ unsaved = None
        /\ messages \in Seq(Messages) /\ turn \in Nat \ {0}
    BY Running DEF ToolReturns, Step, IInv, Typed, TypeOK
  <1>2. UNCHANGED <<inject, aborted, steering, followUp, branch, lastAssistant,
             retryAttempt, overflowAttempted, pc, reply, compaction, streaming,
             waiters, settling, sent, turn, bashes, pendingBash, nextTurn,
             operation, automatic, cancelled, rejected>>
    BY DEF ToolReturns, queueVars, retryVars, callVars, idleVars, boundVars,
           historyVars
  <1>3. m \in Messages /\ m.role # "assistant" /\ m # None
    <2>1. "stop" \in Stops
      BY DEF Stops
    <2> QED
      BY <1>1, <2>1, OthersTyped, NoneAssumption
  <1>4. messages' = Append(messages, m) /\ unsaved' = m /\ phase' = "toolPoll"
    BY DEF ToolReturns
  <1> HIDE DEF m
  <1>5. messages' \in Seq(Messages) /\ Open(messages')
    BY <1>1, <1>3, <1>4, AppendFacts, Appended
  <1>6. Typed'
    BY <1>1, <1>2, <1>3, <1>4, <1>5 DEF Typed, TypeOK
  <1>7. NoLostWaiter' /\ Operating'
    BY <1>2 DEF IInv, NoLostWaiter, Operating
  <1>8. Suspended'
    BY <1>1, <1>2, <1>4 DEF IInv, Suspended, AfterRun, Preparing
  <1>9. Transcript' /\ LastReplySaved'
    BY <1>1, <1>2, <1>3, <1>4, <1>5 DEF Transcript, LastReplySaved, AfterRun
  <1>10. Counts'
    BY <1>1, <1>2, <1>4 DEF IInv, Counts, Counted, Recovery, Preparing
  <1> QED
    BY <1>6, <1>7, <1>8, <1>9, <1>10 DEF IInv

LEMMA SaveInv ==
    ASSUME IInv, Save
    PROVE  IInv'
  <1>1. /\ Typed /\ branch \in Seq(Messages)
        /\ unsaved \in Messages /\ unsaved # None /\ unsaved' = None
        /\ branch' = Append(branch, unsaved)
        /\ pc = "running" /\ phase # "idle"
    BY DEF Save, IInv, Typed, TypeOK, Suspended
  <1>2. UNCHANGED <<phase, inject, aborted, steering, followUp, messages, pc,
             reply, compaction, streaming, waiters, settling, sent, turn,
             bashes, pendingBash, nextTurn, operation, cancelled, rejected>>
    BY DEF Save, agentVars, queueVars, callVars, idleVars, boundVars
  <1>3. /\ branch' \in Seq(Messages) /\ Len(branch') = Len(branch) + 1
        /\ Len(branch) \in Nat
        /\ EndsWith(branch', "assistant") <=> unsaved.role = "assistant"
    BY <1>1, AppendFacts, Appended, LenProperties
  <1>4. Suspended' /\ Transcript'
    BY <1>1, <1>2 DEF IInv, Suspended, Transcript, AfterRun, Preparing
  <1>5. NoLostWaiter'
    BY <1>2 DEF IInv, NoLostWaiter
  <1>6. Operating'
    BY <1>2, <1>3, SMT DEF IInv, Operating
  <1>7. CASE unsaved.role # "assistant"
    <2>1. UNCHANGED <<lastAssistant, retryAttempt, overflowAttempted,
                      automatic>>
      BY <1>7 DEF Save, retryVars
    <2>2. phase \notin {"poll", "ended"}
      BY <1>1, <1>7 DEF IInv, LastReplySaved
    <2>3. Typed'
      BY <1>1, <1>2, <1>3, <2>1 DEF Typed, TypeOK
    <2>4. LastReplySaved'
      BY <1>1, <1>2, <2>2 DEF LastReplySaved, AfterRun
    <2>5. Counts'
      BY <1>1, <1>2, <2>1, <2>2
      DEF IInv, Counts, Counted, Recovery, Preparing
    <2> QED
      BY <1>4, <1>5, <1>6, <2>3, <2>4, <2>5 DEF IInv
  <1>8. CASE unsaved.role = "assistant"
    <2> DEFINE failed == unsaved.stop \in Errors \cup {"length"}
    <2>1. unsaved \in AssistantMessages /\ lastAssistant' = unsaved
      BY <1>1, <1>8, MessageTypes DEF Save
    <2>2. /\ phase \in {"tools", "poll", "ended"}
          /\ phase = "tools" => unsaved.stop = "toolUse"
          /\ phase = "poll" => unsaved.stop \notin Errors
          /\ phase = "ended" => unsaved.stop \in Errors \cup {"aborted"}
      BY <1>1, <1>8 DEF IInv, LastReplySaved
    <2>3. /\ overflowAttempted' \in BOOLEAN
          /\ ~failed => ~overflowAttempted'
          /\ failed => (overflowAttempted' <=> overflowAttempted)
      BY <1>8 DEF Save
    <2>4. /\ unsaved.stop \in Errors => retryAttempt' = retryAttempt
          /\ unsaved.stop \notin Errors => retryAttempt' = 0
          /\ failed => automatic' = automatic
          /\ ~failed => automatic' = 0
      BY <1>8 DEF Save
    <2>5. retryAttempt' \in 0..MaxRetries /\ automatic' \in Nat
      BY <1>1, <2>4, RetriesAssumption DEF Typed, TypeOK
    <2>6. Typed'
      BY <1>1, <1>2, <1>3, <2>1, <2>3, <2>5 DEF Typed, TypeOK
    <2>7. LastReplySaved'
      BY <1>1, <1>2, <1>3, <1>8, <2>1, <2>2 DEF LastReplySaved, AfterRun
    <2>8. Counts'
      <3>1. CASE ~failed
        <4>1. automatic' = 0 /\ retryAttempt' = 0 /\ ~overflowAttempted'
          BY <2>3, <2>4, <3>1
        <4> QED
          BY <1>1, <1>2, <4>1, RetriesAssumption
          DEF Counts, Counted, Recovery, Preparing
      <3>2. CASE unsaved.stop \in Errors
        <4>1. /\ automatic' = automatic /\ retryAttempt' = retryAttempt
              /\ overflowAttempted' <=> overflowAttempted
          BY <2>3, <2>4, <3>2
        <4>2. phase = "ended"
          BY <2>2, <3>2 DEF Errors
        <4>3. Recovery' = Recovery
          BY <4>1 DEF Recovery
        <4> QED
          BY <1>1, <1>2, <2>1, <3>2, <4>1, <4>2, <4>3
          DEF IInv, Counts, Counted, Preparing
      <3>3. CASE unsaved.stop = "length"
        <4>1. /\ automatic' = automatic /\ retryAttempt' = 0
              /\ overflowAttempted' <=> overflowAttempted
          BY <2>3, <2>4, <3>3 DEF Errors
        <4>2. phase = "poll"
          BY <2>2, <3>3 DEF Errors
        <4>3. Recovery' = Recovery
          BY <4>1 DEF Recovery
        <4> QED
          BY <1>1, <1>2, <4>1, <4>2, <4>3 DEF IInv, Counts, Preparing
      <3> QED
        BY <3>1, <3>2, <3>3
    <2> QED
      BY <1>4, <1>5, <1>6, <2>6, <2>7, <2>8 DEF IInv
  <1> QED
    BY <1>7, <1>8

LEMMA AgentEndsInv ==
    ASSUME IInv, AgentEnds
    PROVE  IInv'
  <1>1. /\ Typed /\ pc = "running" /\ streaming
        /\ phase = "ended" /\ unsaved = None
        /\ phase' = "idle" /\ inject' = <<>> /\ aborted' = FALSE
        /\ pc' = "post"
    BY Running DEF AgentEnds, Step, StartAgent, IInv
  <1>2. UNCHANGED <<steering, followUp, messages, branch, lastAssistant,
             retryAttempt, overflowAttempted, reply, compaction, streaming,
             waiters, settling, sent, turn, bashes, unsaved, pendingBash,
             nextTurn, operation, automatic, cancelled, rejected>>
    BY DEF AgentEnds, queueVars, logVars, retryVars, idleVars, boundVars,
           historyVars
  <1>3. /\ lastAssistant # None /\ EndsWith(branch, "assistant")
        /\ Replied(messages)
    BY <1>1 DEF IInv, LastReplySaved, Transcript
  <1>4. Typed'
    BY <1>1, <1>2, EmptySeq, ZenonT(60) DEF Typed, TypeOK
  <1>5. NoLostWaiter'
    BY <1>2 DEF IInv, NoLostWaiter
  <1>6. Suspended'
    BY <1>1, <1>2, <1>3 DEF Suspended, AfterRun, Preparing
  <1>7. Operating'
    BY <1>1, <1>2 DEF IInv, Operating, Preparing
  <1>8. Transcript' /\ LastReplySaved'
    BY <1>1, <1>2, <1>3 DEF Transcript, LastReplySaved
  <1>9. Counts'
    BY <1>1, <1>2 DEF IInv, Counts, Counted, Recovery, Preparing
  <1> QED
    BY <1>4, <1>5, <1>6, <1>7, <1>8, <1>9 DEF IInv
-----------------------------------------------------------------------------
(* prompt() *)

\* Before a run, only the prompt's own variables and the transcript change.
LEMMA PreparingStep ==
    ASSUME IInv, Typed', Operating',
           pc' \in {"none", "running"} \cup Preparing,
           pc \in {"none"} \cup Preparing,
           unsaved' = unsaved, waiters' = waiters, settling' = settling,
           streaming' <=> pc' = "running",
           phase' = IF pc' = "running" THEN "prompts" ELSE "idle",
           pc' = "none" \/ inject' # <<>>,
           pc' = "promptCompacts" =>
             compaction' # None /\ compaction'.kept \in 1..Len(branch'),
           overflowAttempted => overflowAttempted',
           UNCHANGED <<lastAssistant, retryAttempt, reply, automatic>>
    PROVE  IInv'
  <1>1. /\ ~streaming /\ phase = "idle" /\ unsaved = None
        /\ retryAttempt = 0
    BY DEF IInv, Suspended, Counts, AfterRun, Preparing
  <1>2. NoLostWaiter'
    BY <1>1 DEF IInv, NoLostWaiter
  <1>3. Suspended'
    BY <1>1 DEF Suspended, AfterRun, Preparing
  <1>4. Transcript' /\ LastReplySaved'
    BY <1>1 DEF Transcript, LastReplySaved, AfterRun, Preparing
  <1>5. Counts'
    <2>1. Recovery <= Recovery' /\ Recovery \in Nat /\ Recovery' \in Nat
      <3>1. CASE overflowAttempted'
        BY <3>1, RetriesAssumption DEF Recovery
      <3>2. CASE ~overflowAttempted'
        BY <3>2, RetriesAssumption DEF Recovery
      <3> QED
        BY <3>1, <3>2
    <2>2. automatic \in Nat /\ automatic <= Recovery + MaxRetries
      BY DEF IInv, Counts, Typed, TypeOK
    <2>3. automatic <= Recovery' + MaxRetries
      BY <2>1, <2>2, RetriesAssumption, Sums
    <2> QED
      BY <1>1, <2>3 DEF IInv, Counts, Preparing
  <1> QED
    BY <1>2, <1>3, <1>4, <1>5 DEF IInv

LEMMA PromptInv ==
    ASSUME IInv, Prompt
    PROVE  IInv'
  <1> DEFINE m == User(sent + 1, "prompt")
  <1>1. Typed /\ sent' \in 0..MaxSent /\ m \in Submitted
    BY SubmitTyped, SubmittedTyped DEF IInv, Prompt
  <1>2. pc = "none" /\ operation = None /\ pc' = "preflight" /\ inject' = <<m>>
    BY DEF Prompt, Free
  <1> HIDE DEF m
  <1>3. inject' \in Seq(Submitted) /\ inject' # <<>>
    BY <1>1, <1>2
  <1>4. UNCHANGED <<phase, aborted, steering, followUp, messages, branch,
             lastAssistant, retryAttempt, overflowAttempted, reply, compaction,
             streaming, waiters, settling, turn, bashes, unsaved, pendingBash,
             nextTurn, operation, automatic, cancelled, rejected>>
    BY DEF Prompt, KeepBounds, queueVars, logVars, retryVars, idleVars,
           historyVars
  <1>5. Typed'
    BY <1>1, <1>2, <1>3, <1>4 DEF Typed, TypeOK
  <1>6. Operating' /\ phase = "idle" /\ ~streaming
    BY <1>2, <1>4 DEF IInv, Operating, Suspended, AfterRun
  <1> QED
    BY <1>2, <1>3, <1>4, <1>5, <1>6, PreparingStep DEF Preparing

LEMMA PromptRefusedInv ==
    ASSUME IInv, PromptRefused
    PROVE  IInv'
  <1>1. pc = "preflight" /\ pc' = "none" /\ inject' = <<>>
    BY DEF PromptRefused
  <1>2. UNCHANGED <<phase, aborted, steering, followUp, messages, branch,
             lastAssistant, retryAttempt, overflowAttempted, reply, compaction,
             streaming, waiters, settling, sent, turn, bashes, unsaved,
             pendingBash, nextTurn, operation, automatic, cancelled, rejected>>
    BY DEF PromptRefused, queueVars, logVars, retryVars, idleVars, boundVars,
           historyVars
  <1>3. Typed'
    BY <1>1, <1>2, EmptySeq DEF IInv, Typed, TypeOK
  <1>4. Operating' /\ phase = "idle" /\ ~streaming
    BY <1>1, <1>2 DEF IInv, Operating, Suspended, AfterRun, Preparing
  <1> QED
    BY <1>1, <1>2, <1>3, <1>4, PreparingStep DEF Preparing

LEMMA PreparedIdle ==
    ASSUME IInv, pc \in Preparing
    PROVE  /\ operation = None /\ "compact" \notin waiters
           /\ phase = "idle" /\ ~streaming /\ inject # <<>>
  BY DEF IInv, Operating, Suspended, AfterRun, Preparing

LEMMA BuildTyped ==
    ASSUME Typed, inject # <<>>, Build
    PROVE  /\ pc' = "starting" /\ inject' \in Seq(Submitted)
           /\ inject' # <<>> /\ nextTurn' \in Seq(Submitted)
  <1>1. inject \in Seq(Submitted) /\ nextTurn \in Seq(Submitted)
    BY DEF Typed, TypeOK
  <1>2. inject \o nextTurn \in Seq(Submitted) /\ inject \o nextTurn # <<>>
    BY <1>1, ConcatProperties, ConcatEqualIffEmpty
  <1> QED
    BY <1>2, EmptySeq DEF Build

LEMMA PrepareTyped ==
    ASSUME Typed, NEW msgs, NEW b \in BOOLEAN, Prepare(msgs, b)
    PROVE  /\ compaction' \in [kept : Nat \ {0}, retry : BOOLEAN]
           /\ compaction' # None /\ compaction'.kept \in 1..Len(branch)
           /\ compaction'.retry = b /\ messages' = msgs
  <1>1. PICK k \in CutPoints(branch) :
               compaction' = [kept |-> k, retry |-> b]
    BY DEF Prepare
  <1>2. k \in 1..Len(branch) /\ k \in Nat \ {0}
    BY CutPointsTyped DEF Typed, TypeOK
  <1>3. /\ compaction' \in [kept : Nat \ {0}, retry : BOOLEAN]
        /\ compaction'.kept = k /\ compaction'.retry = b
    BY <1>1, <1>2
  <1> QED
    BY <1>2, <1>3, NoneAssumption DEF Prepare

LEMMA WithoutReplyTyped ==
    ASSUME Typed
    PROVE  WithoutReply \in Seq(Messages)
  BY FrontTyped DEF WithoutReply, EndsWith, Typed, TypeOK

\* The prompt's checks end with a compaction or with the messages of the run.
LEMMA PromptCheckStep ==
    ASSUME IInv, pc = "preflight", NEW msgs \in Seq(Messages),
           NEW b \in BOOLEAN,
           \/ /\ Prepare(msgs, b) /\ pc' = "promptCompacts"
              /\ UNCHANGED <<inject, nextTurn>>
           \/ Unprepared(msgs) /\ Build,
           overflowAttempted' \in BOOLEAN,
           overflowAttempted => overflowAttempted',
           UNCHANGED <<phase, aborted, steering, followUp, branch,
             lastAssistant, retryAttempt, reply, streaming, waiters, settling,
             sent, turn, bashes, unsaved, pendingBash, operation, automatic,
             cancelled, rejected>>
    PROVE  IInv'
  <1>1. /\ Typed /\ operation = None /\ "compact" \notin waiters
        /\ phase = "idle" /\ ~streaming /\ inject # <<>>
    BY PreparedIdle DEF IInv, Preparing
  <1>2. /\ pc' \in {"promptCompacts", "starting"}
        /\ inject' \in Seq(Submitted) /\ inject' # <<>>
        /\ nextTurn' \in Seq(Submitted) /\ messages' \in Seq(Messages)
        /\ compaction' \in [kept : Nat \ {0}, retry : BOOLEAN] \cup {None}
        /\ pc' = "promptCompacts" =>
             compaction' # None /\ compaction'.kept \in 1..Len(branch')
    <2>1. CASE /\ Prepare(msgs, b) /\ pc' = "promptCompacts"
               /\ UNCHANGED <<inject, nextTurn>>
      BY <1>1, <2>1, PrepareTyped DEF Typed, TypeOK
    <2>2. CASE Unprepared(msgs) /\ Build
      BY <1>1, <2>2, BuildTyped DEF Unprepared, Typed, TypeOK
    <2> QED
      BY <2>1, <2>2
  <1>3. Typed'
    BY <1>1, <1>2 DEF Typed, TypeOK
  <1>4. Operating'
    BY <1>1 DEF Operating
  <1> QED
    BY <1>1, <1>2, <1>3, <1>4, PreparingStep DEF Preparing

LEMMA PromptRecoversInv ==
    ASSUME IInv, PromptRecovers
    PROVE  IInv'
  <1>1. UNCHANGED <<phase, aborted, steering, followUp, branch,
             lastAssistant, retryAttempt, reply, streaming, waiters, settling,
             sent, turn, bashes, unsaved, pendingBash, operation, automatic,
             cancelled, rejected>>
    BY DEF PromptRecovers, queueVars, idleVars, historyVars
  <1>2. /\ pc = "preflight" /\ overflowAttempted'
        /\ overflowAttempted' \in BOOLEAN
        /\ WithoutReply \in Seq(Messages)
    BY WithoutReplyTyped DEF PromptRecovers, IInv
  <1>3. \/ /\ Prepare(WithoutReply, TRUE) /\ pc' = "promptCompacts"
           /\ UNCHANGED <<inject, nextTurn>>
        \/ Unprepared(WithoutReply) /\ Build
    BY DEF PromptRecovers
  <1> QED
    BY <1>1, <1>2, <1>3, PromptCheckStep

LEMMA PromptCheckedInv ==
    ASSUME IInv, PromptChecked
    PROVE  IInv'
  <1>1. UNCHANGED <<phase, aborted, steering, followUp, branch,
             lastAssistant, retryAttempt, overflowAttempted, reply, streaming,
             waiters, settling, sent, turn, bashes, unsaved, pendingBash,
             operation, automatic, cancelled, rejected>>
    BY DEF PromptChecked, queueVars, retryVars, idleVars, historyVars
  <1>2. /\ pc = "preflight" /\ messages \in Seq(Messages)
        /\ overflowAttempted' \in BOOLEAN
    BY <1>1 DEF PromptChecked, IInv, Typed, TypeOK
  <1>3. \/ /\ Prepare(messages, FALSE) /\ pc' = "promptCompacts"
           /\ UNCHANGED <<inject, nextTurn>>
        \/ Unprepared(messages) /\ Build
    BY DEF PromptChecked
  <1> QED
    BY <1>1, <1>2, <1>3, PromptCheckStep

LEMMA PromptCompactedInv ==
    ASSUME IInv, PromptCompacted
    PROVE  IInv'
  <1>1. /\ Typed /\ pc = "promptCompacts" /\ compaction' = None
        /\ compaction # None /\ compaction.kept \in 1..Len(branch)
    BY DEF PromptCompacted, IInv, Suspended
  <1>2. /\ operation = None /\ "compact" \notin waiters
        /\ phase = "idle" /\ ~streaming /\ inject # <<>>
    BY <1>1, PreparedIdle DEF Preparing
  <1>3. UNCHANGED <<phase, aborted, steering, followUp, lastAssistant,
             retryAttempt, overflowAttempted, reply, streaming, waiters,
             settling, sent, turn, bashes, unsaved, pendingBash, operation,
             automatic, cancelled, rejected>>
    BY DEF PromptCompacted, queueVars, retryVars, idleVars, boundVars,
           historyVars
  <1>4. messages' \in Seq(Messages) /\ branch' \in Seq(Messages)
    BY <1>1, RebuiltFacts DEF PromptCompacted, logVars, Typed, TypeOK
  <1>5. /\ pc' = "starting" /\ inject' \in Seq(Submitted)
        /\ inject' # <<>> /\ nextTurn' \in Seq(Submitted)
    BY <1>1, <1>2, BuildTyped DEF PromptCompacted
  <1>6. Typed'
    BY <1>1, <1>2, <1>3, <1>4, <1>5 DEF Typed, TypeOK
  <1>7. Operating'
    BY <1>2, <1>3 DEF Operating
  <1> QED
    BY <1>1, <1>2, <1>3, <1>5, <1>6, <1>7, PreparingStep DEF Preparing

LEMMA PromptStartsInv ==
    ASSUME IInv, PromptStarts
    PROVE  IInv'
  <1>1. /\ Typed /\ pc = "starting" /\ pc' = "running" /\ streaming' = TRUE
        /\ phase' = "prompts" /\ inject' = inject /\ aborted' = FALSE
    BY DEF PromptStarts, StartAgent, IInv
  <1>2. /\ operation = None /\ "compact" \notin waiters
        /\ phase = "idle" /\ ~streaming /\ inject # <<>>
    BY <1>1, PreparedIdle DEF Preparing
  <1>3. UNCHANGED <<steering, followUp, messages, branch, lastAssistant,
             retryAttempt, overflowAttempted, reply, compaction, waiters,
             settling, sent, turn, bashes, unsaved, pendingBash, nextTurn,
             operation, automatic, cancelled, rejected>>
    BY DEF PromptStarts, queueVars, logVars, retryVars, boundVars, historyVars
  <1>4. Typed'
    BY <1>1, <1>2, <1>3, ZenonT(60) DEF Typed, TypeOK
  <1>5. Operating'
    BY <1>2, <1>3 DEF Operating
  <1> QED
    BY <1>1, <1>2, <1>3, <1>4, <1>5, PreparingStep DEF Preparing

LEMMA PromptCustomInv ==
    ASSUME IInv, PromptCustom
    PROVE  IInv'
  <1> DEFINE m == Custom(sent + 1, "prompt")
  <1>1. Typed /\ sent' \in 0..MaxSent /\ m \in Submitted
    BY SubmitTyped, SubmittedTyped DEF IInv, PromptCustom
  <1>2. /\ pc = "none" /\ operation = None
        /\ pc' = "running" /\ streaming' = TRUE
        /\ phase' = "prompts" /\ inject' = <<m>> /\ aborted' = FALSE
    BY DEF PromptCustom, Free, StartAgent
  <1> HIDE DEF m
  <1>3. inject' \in Seq(Submitted) /\ inject' # <<>>
    BY <1>1, <1>2
  <1>4. UNCHANGED <<steering, followUp, messages, branch, lastAssistant,
             retryAttempt, overflowAttempted, reply, compaction, waiters,
             settling, turn, bashes, unsaved, pendingBash, nextTurn, operation,
             automatic, cancelled, rejected>>
    BY DEF PromptCustom, KeepBounds, queueVars, logVars, retryVars, historyVars
  <1>5. Typed'
    BY <1>1, <1>2, <1>3, <1>4 DEF Typed, TypeOK
  <1>6. Operating'
    BY <1>2, <1>4 DEF IInv, Operating
  <1> QED
    BY <1>2, <1>3, <1>4, <1>5, <1>6, PreparingStep
-----------------------------------------------------------------------------
(* After a run *)

\* What SettlesWhenDone says of a step that gives the session up.
Done ==
    /\ phase' = "idle" /\ unsaved' = None /\ retryAttempt' = 0
    /\ steering' = <<>> /\ followUp' = <<>> /\ pendingBash' = <<>>

LEMMA AfterRunFacts ==
    ASSUME IInv, pc \in AfterRun
    PROVE  /\ Typed /\ streaming /\ phase = "idle" /\ unsaved = None
           /\ operation # None => operation.kind = "waits"
           /\ EndsWith(branch, "assistant") /\ Len(branch) \in Nat
           /\ automatic \in Nat /\ retryAttempt \in 0..MaxRetries
           /\ automatic <= Recovery + MaxRetries
  BY LenProperties
  DEF IInv, Suspended, Operating, LastReplySaved, Counts, Typed, TypeOK,
      AfterRun, Preparing

LEMMA RecoveryGrows ==
    ASSUME overflowAttempted => overflowAttempted'
    PROVE  Recovery \in Nat /\ Recovery' \in Nat /\ Recovery <= Recovery'
  <1>1. CASE overflowAttempted'
    BY <1>1, RetriesAssumption DEF Recovery
  <1>2. CASE ~overflowAttempted'
    BY <1>2, RetriesAssumption DEF Recovery
  <1> QED
    BY <1>1, <1>2

\* What the steps below have in common: the reply is dealt with.
Decides(entries) ==
    /\ entries \in Seq(Messages) /\ Len(entries) \in Nat
    /\ Len(branch) <= Len(entries)
    /\ overflowAttempted => overflowAttempted'
    /\ overflowAttempted' \in BOOLEAN /\ rejected' \in BOOLEAN
    /\ compaction' \in [kept : Nat \ {0}, retry : BOOLEAN] \cup {None}
    /\ reply' \in AssistantMessages \cup {None}
    /\ UNCHANGED <<lastAssistant, retryAttempt, sent, turn, bashes, unsaved,
                   nextTurn, operation>>

LEMMA SettleInv ==
    ASSUME IInv, pc \in AfterRun, NEW msgs \in Seq(Messages), NEW entries,
           Decides(entries), Settle(msgs, entries), ~Queued, retryAttempt = 0
    PROVE  IInv' /\ Done
  <1>1. /\ Typed /\ phase = "idle" /\ unsaved = None
        /\ operation # None => operation.kind = "waits"
        /\ automatic \in Nat /\ automatic <= Recovery + MaxRetries
        /\ pendingBash \in Seq(Messages) /\ settling \in Nat
    BY AfterRunFacts DEF Typed, TypeOK
  <1>2. /\ pc' = "none" /\ ~streaming' /\ settling' = settling + 1
        /\ messages' = msgs \o pendingBash /\ branch' = entries \o pendingBash
        /\ pendingBash' = <<>>
        /\ UNCHANGED <<phase, inject, aborted, steering, followUp, waiters,
                       automatic>>
    BY DEF Settle, agentVars, queueVars
  <1>3. streaming' \in BOOLEAN /\ cancelled' \in BOOLEAN
    BY DEF Settle
  <1>4. messages' \in Seq(Messages) /\ branch' \in Seq(Messages)
    BY <1>1, <1>2, ConcatProperties DEF Decides
  <1>5. Typed'
    BY <1>1, <1>2, <1>3, <1>4, EmptySeq DEF Decides, Typed, TypeOK
  <1>6. NoLostWaiter'
    BY <1>1, <1>2 DEF NoLostWaiter
  <1>7. Suspended'
    BY <1>1, <1>2 DEF Decides, Suspended, AfterRun, Preparing
  <1>8. Operating'
    BY <1>1, <1>2 DEF IInv, Decides, Operating, Preparing
  <1>9. Transcript' /\ LastReplySaved'
    BY <1>1, <1>2 DEF Decides, Transcript, LastReplySaved, AfterRun
  <1>10. Counts'
    <2>1. Recovery \in Nat /\ Recovery' \in Nat /\ Recovery <= Recovery'
      BY RecoveryGrows DEF Decides
    <2>2. automatic <= Recovery' + MaxRetries
      BY <1>1, <2>1, RetriesAssumption, Sums
    <2> QED
      BY <1>1, <1>2, <2>2 DEF Decides, Counts
  <1>11. Done
    BY <1>1, <1>2 DEF Decides, Done, Queued
  <1> QED
    BY <1>5, <1>6, <1>7, <1>8, <1>9, <1>10, <1>11 DEF IInv

\* The session goes on with another run.
LEMMA GoesOn ==
    ASSUME IInv, pc \in AfterRun, NEW entries, Decides(entries),
           pc' = "running", branch' = entries, messages' \in Seq(Messages),
           \/ phase' \in {"prompts", "inject"} /\ inject' # <<>>
           \/ phase' = "initialPoll" /\ Open(messages'),
           inject' \in Seq(Submitted), aborted' = FALSE,
           steering' \in Seq(Submitted), followUp' \in Seq(Submitted),
           automatic' \in Nat, cancelled' \in BOOLEAN,
           automatic' <= Recovery' + MaxRetries,
           phase' = "initialPoll" => Counted',
           lastAssistant # None /\ lastAssistant.stop \notin Errors
             => retryAttempt = 0,
           UNCHANGED <<streaming, waiters, settling, pendingBash>>
    PROVE  IInv' /\ streaming'
  <1>1. /\ Typed /\ phase = "idle" /\ unsaved = None /\ streaming
        /\ operation # None => operation.kind = "waits"
    BY AfterRunFacts
  <1>2. Typed'
    BY <1>1 DEF Decides, Typed, TypeOK
  <1>3. NoLostWaiter'
    BY DEF IInv, NoLostWaiter
  <1>4. Suspended'
    BY <1>1 DEF Decides, Suspended, AfterRun, Preparing
  <1>5. Operating'
    BY <1>1 DEF IInv, Decides, Operating, Preparing
  <1>6. Transcript' /\ LastReplySaved'
    BY <1>1 DEF Decides, Transcript, LastReplySaved, AfterRun
  <1>7. Counts'
    BY <1>1 DEF Decides, Counts, Preparing
  <1> QED
    BY <1>1, <1>2, <1>3, <1>4, <1>5, <1>6, <1>7 DEF IInv

LEMMA ContinueInv ==
    ASSUME IInv, pc \in AfterRun, NEW msgs \in Seq(Messages), NEW entries,
           NEW n \in {0, 1},
           Decides(entries), Continue(msgs, entries, n), msgs # <<>>,
           EndsWith(msgs, "assistant") => retryAttempt = 0,
           ~EndsWith(msgs, "assistant")
             => automatic + n <= Recovery' + retryAttempt
    PROVE  IInv' /\ (streaming' \/ Done)
  <1>1. /\ Typed /\ automatic \in Nat /\ retryAttempt \in 0..MaxRetries
        /\ automatic <= Recovery + MaxRetries
        /\ steering \in Seq(Submitted) /\ followUp \in Seq(Submitted)
        /\ lastAssistant # None /\ lastAssistant.stop \notin Errors
             => retryAttempt = 0
    BY AfterRunFacts DEF IInv, Counts, Typed, TypeOK
  <1>2. /\ Recovery \in Nat /\ Recovery' \in Nat /\ Recovery <= Recovery'
        /\ retryAttempt' = retryAttempt
    BY RecoveryGrows DEF Decides
  <1>3. automatic <= Recovery' + MaxRetries
    BY <1>1, <1>2, RetriesAssumption, Sums
  <1>4. CASE /\ EndsWith(msgs, "assistant") /\ ~Queued
             /\ Settle(msgs, entries)
    BY <1>4, SettleInv
  <1>5. CASE /\ EndsWith(msgs, "assistant") /\ Queued
             /\ IF steering # <<>>
                THEN /\ StartAgent("inject", Drained(steering))
                     /\ steering' = Remaining(steering) /\ UNCHANGED followUp
                ELSE /\ StartAgent("prompts", Drained(followUp))
                     /\ followUp' = Remaining(followUp) /\ UNCHANGED steering
             /\ pc' = "running" /\ messages' = msgs /\ branch' = entries
             /\ UNCHANGED <<historyVars, idleVars, pendingBash>>
    <2>1. /\ phase' \in {"prompts", "inject"} /\ inject' # <<>>
          /\ inject' \in Seq(Submitted) /\ aborted' = FALSE
          /\ steering' \in Seq(Submitted) /\ followUp' \in Seq(Submitted)
      BY <1>1, <1>5, DrainedTyped DEF StartAgent, Queued
    <2>2. /\ pc' = "running" /\ messages' = msgs /\ branch' = entries
          /\ automatic' = automatic /\ cancelled' = cancelled
          /\ UNCHANGED <<streaming, waiters, settling, pendingBash>>
      BY <1>5 DEF historyVars, idleVars
    <2>3. cancelled' \in BOOLEAN
      BY <1>1, <2>2 DEF Typed, TypeOK
    <2> QED
      BY <1>1, <1>3, <2>1, <2>2, <2>3, GoesOn
  <1>6. CASE /\ ~EndsWith(msgs, "assistant")
             /\ StartAgent("initialPoll", <<>>)
             /\ automatic' = automatic + n
             /\ pc' = "running" /\ messages' = msgs /\ branch' = entries
             /\ UNCHANGED <<cancelled, rejected, queueVars, idleVars,
                            pendingBash>>
    <2>1. /\ phase' = "initialPoll" /\ inject' = <<>> /\ aborted' = FALSE
          /\ inject' \in Seq(Submitted)
          /\ pc' = "running" /\ messages' = msgs /\ branch' = entries
          /\ UNCHANGED <<streaming, waiters, settling, pendingBash, steering,
                         followUp>>
      BY <1>6, EmptySeq DEF StartAgent, queueVars, idleVars
    <2>2. cancelled' \in BOOLEAN
      BY <1>1, <1>6 DEF Typed, TypeOK
    <2>3. /\ automatic' \in Nat /\ Counted'
          /\ automatic' <= Recovery' + MaxRetries
      <3>1. automatic' = automatic + n /\ automatic + n \in Nat
        BY <1>1, <1>6
      <3>2. automatic' <= Recovery' + retryAttempt
        BY <1>6, <3>1
      <3>3. /\ retryAttempt \in Nat /\ MaxRetries \in Nat
            /\ retryAttempt <= MaxRetries
        BY <1>1, RetriesAssumption
      <3>4. automatic' <= Recovery' + MaxRetries
        BY <1>2, <3>1, <3>2, <3>3, Sums, Zenon
      <3> QED
        BY <1>2, <3>1, <3>2, <3>4 DEF Counted
    <2>4. Open(messages')
      BY <1>6, <2>1 DEF Open
    <2> QED
      BY <1>1, <2>1, <2>2, <2>3, <2>4, GoesOn
  <1> QED
    BY <1>4, <1>5, <1>6, Zenon DEF Continue

LEMMA GoOnInv ==
    ASSUME IInv, pc \in AfterRun, NEW msgs \in Seq(Messages), NEW entries,
           Decides(entries), GoOnIfQueued(msgs, entries), msgs # <<>>,
           retryAttempt = 0,
           ~EndsWith(msgs, "assistant") => automatic <= Recovery'
    PROVE  IInv' /\ (streaming' \/ Done)
  <1>1. CASE Queued
    <2>1. Continue(msgs, entries, 0)
      BY <1>1 DEF GoOnIfQueued
    <2>2. ~EndsWith(msgs, "assistant")
            => automatic + 0 <= Recovery' + retryAttempt
      <3>1. automatic \in Nat
        BY AfterRunFacts
      <3>2. Recovery' \in Nat
        BY RecoveryGrows DEF Decides
      <3> QED
        BY <3>1, <3>2, NothingAdded, Zenon
    <2> QED
      BY <2>1, <2>2, ContinueInv
  <1>2. CASE ~Queued
    BY <1>2, SettleInv DEF GoOnIfQueued
  <1> QED
    BY <1>1, <1>2

\* The call that owns the run stays suspended, somewhere else.
LEMMA StaysInv ==
    ASSUME IInv, pc \in AfterRun, pc' \in AfterRun \ {"post"},
           messages' \in Seq(Messages),
           pc' \in {"sleeping", "retryCancelled"} => Open(messages'),
           Open(messages') \/ Replied(messages'),
           compaction' \in [kept : Nat \ {0}, retry : BOOLEAN] \cup {None},
           pc' = "compacting"
             => compaction' # None /\ compaction'.kept \in 1..Len(branch),
           reply' \in AssistantMessages, reply' # None,
           lastAssistant' \in AssistantMessages \cup {None},
           retryAttempt' \in 0..MaxRetries, overflowAttempted' \in BOOLEAN,
           automatic' \in Nat, cancelled' \in BOOLEAN, rejected' \in BOOLEAN,
           Counts',
           UNCHANGED <<phase, inject, aborted, steering, followUp, branch,
             streaming, waiters, settling, sent, turn, bashes, unsaved,
             pendingBash, nextTurn, operation>>
    PROVE  IInv' /\ streaming'
  <1>1. /\ Typed /\ phase = "idle" /\ unsaved = None /\ streaming
        /\ operation # None => operation.kind = "waits"
        /\ EndsWith(branch, "assistant")
    BY AfterRunFacts
  <1>2. /\ pc' \in AfterRun
        /\ pc' \notin {"none", "running", "post"} \cup Preparing
    BY DEF AfterRun, Preparing
  <1>3. Typed'
    BY <1>1, <1>2 DEF Typed, TypeOK, AfterRun
  <1>4. NoLostWaiter'
    BY DEF IInv, NoLostWaiter
  <1>5. Suspended'
    BY <1>1, <1>2 DEF Suspended, Preparing
  <1>6. Operating'
    BY <1>1, <1>2 DEF IInv, Operating
  <1>7. Transcript' /\ LastReplySaved'
    BY <1>1, <1>2 DEF Transcript, LastReplySaved
  <1> QED
    BY <1>1, <1>3, <1>4, <1>5, <1>6, <1>7 DEF IInv

\* Where the reply of the run is looked at.
LEMMA PostFacts ==
    ASSUME IInv, pc = "post"
    PROVE  /\ lastAssistant \in AssistantMessages /\ lastAssistant # None
           /\ messages \in Seq(Messages) /\ Replied(messages)
           /\ EndsWith(messages, "assistant")
           /\ Counted \/ lastAssistant.stop # "error"
           /\ lastAssistant.stop \notin Errors => retryAttempt = 0
           /\ compaction \in [kept : Nat \ {0}, retry : BOOLEAN] \cup {None}
           /\ cancelled \in BOOLEAN /\ rejected \in BOOLEAN
           /\ overflowAttempted \in BOOLEAN
  BY DEF IInv, Typed, TypeOK, Suspended, Transcript, Counts, Replied

LEMMA PrepareRetryInv ==
    ASSUME IInv, PrepareRetry
    PROVE  IInv' /\ streaming'
  <1>1. /\ pc = "post" /\ pc' = "sleeping"
        /\ lastAssistant.stop = "error" /\ retryAttempt < MaxRetries
        /\ reply' = lastAssistant /\ lastAssistant' = None
        /\ retryAttempt' = retryAttempt + 1 /\ messages' = WithoutReply
    BY DEF PrepareRetry, Retryable
  <1>2. UNCHANGED <<phase, inject, aborted, steering, followUp, branch,
             overflowAttempted, compaction, streaming, waiters, settling,
             sent, turn, bashes, unsaved, pendingBash, nextTurn, operation,
             automatic, cancelled, rejected>>
    BY DEF PrepareRetry, agentVars, queueVars, idleVars, boundVars, historyVars
  <1>3. pc \in AfterRun
    BY <1>1 DEF AfterRun
  <1>4. /\ automatic \in Nat /\ retryAttempt \in 0..MaxRetries
        /\ automatic <= Recovery + MaxRetries
    BY <1>3, AfterRunFacts
  <1>5. /\ retryAttempt' \in 0..MaxRetries /\ Recovery \in Nat
        /\ automatic <= Recovery + retryAttempt
    BY <1>1, <1>4, PostFacts, RetriesAssumption DEF Counted, Recovery
  <1>6. Recovery' = Recovery
    BY <1>2 DEF Recovery
  <1>7. automatic' < Recovery' + retryAttempt'
    <2> DEFINE r == Recovery
    <2>1. r \in Nat /\ automatic <= r + retryAttempt
      BY <1>5
    <2> HIDE DEF r
    <2>2. automatic < r + (retryAttempt + 1)
      BY <1>4, <2>1
    <2> QED
      BY <1>1, <1>2, <1>6, <2>2 DEF r
  <1>8. Counts'
    BY <1>1, <1>2, <1>3, <1>4, <1>6, <1>7, AfterRunFacts DEF Counts, Preparing
  <1>9. messages' \in Seq(Messages) /\ Open(messages')
    BY <1>1, PostFacts, WithoutReplyOpen
  <1>10. pc' \in AfterRun \ {"post"}
    BY <1>1 DEF AfterRun
  <1> QED
    BY <1>1, <1>2, <1>3, <1>4, <1>5, <1>8, <1>9, <1>10, PostFacts, StaysInv

LEMMA NoRetryInv ==
    ASSUME IInv, NoRetry
    PROVE  IInv' /\ streaming'
  <1>1. /\ pc = "post" /\ pc' = "check"
        /\ reply' = lastAssistant /\ lastAssistant' = None
        /\ retryAttempt' =
             IF lastAssistant.stop \in Errors THEN 0 ELSE retryAttempt
    BY DEF NoRetry
  <1>2. UNCHANGED <<phase, inject, aborted, steering, followUp, branch,
             messages, overflowAttempted, compaction, streaming, waiters,
             settling, sent, turn, bashes, unsaved, pendingBash, nextTurn,
             operation, automatic, cancelled, rejected>>
    BY DEF NoRetry, agentVars, queueVars, logVars, idleVars, boundVars,
           historyVars
  <1>3. pc \in AfterRun /\ pc' \in AfterRun \ {"post"}
    BY <1>1 DEF AfterRun
  <1>4. /\ automatic \in Nat /\ automatic <= Recovery + MaxRetries
        /\ phase = "idle"
    BY <1>3, AfterRunFacts
  <1>5. retryAttempt' = 0 /\ retryAttempt' \in 0..MaxRetries
    BY <1>1, PostFacts, RetriesAssumption
  <1>6. Recovery' = Recovery
    BY <1>2 DEF Recovery
  <1>7. Counts'
    BY <1>1, <1>2, <1>4, <1>5, <1>6, PostFacts DEF Counts, Preparing
  <1> QED
    BY <1>1, <1>2, <1>3, <1>4, <1>5, <1>7, PostFacts, StaysInv

LEMMA RetryCancelledInv ==
    ASSUME IInv, RetryCancelled
    PROVE  IInv' /\ streaming'
  <1>1. /\ pc = "retryCancelled" /\ pc' = "check"
        /\ retryAttempt' = 0 /\ automatic' = 0 /\ cancelled' = TRUE
    BY DEF RetryCancelled
  <1>2. UNCHANGED <<phase, inject, aborted, steering, followUp, branch,
             messages, overflowAttempted, compaction, streaming, waiters,
             settling, sent, turn, bashes, unsaved, pendingBash, nextTurn,
             operation, lastAssistant, reply, rejected>>
    BY DEF RetryCancelled, agentVars, queueVars, logVars, idleVars, boundVars
  <1>3. pc \in AfterRun /\ pc' \in AfterRun \ {"post"}
    BY <1>1 DEF AfterRun
  <1>4. Typed /\ phase = "idle"
    BY <1>3, AfterRunFacts
  <1>5. reply \in AssistantMessages /\ reply # None /\ Open(messages)
    BY <1>1, <1>4 DEF IInv, Suspended, Transcript, AfterRun, Typed, TypeOK
  <1>6. 0 \in Nat /\ Recovery' = Recovery /\ Recovery \in Nat /\ 0 <= Recovery
    BY <1>2, RetriesAssumption DEF Recovery
  <1>7. Counted'
    <2>1. 0 + 0 <= Recovery + 0
      BY <1>6, NothingAdded, Zenon
    <2>2. 0 + 0 = 0
      OBVIOUS
    <2> QED
      BY <1>1, <1>6, <2>1, <2>2, Zenon DEF Counted
  <1>8. Counts'
    BY <1>1, <1>2, <1>4, <1>6, <1>7, RetriesAssumption DEF Counts, Preparing
  <1>9. /\ messages' \in Seq(Messages) /\ overflowAttempted' \in BOOLEAN
        /\ compaction' \in [kept : Nat \ {0}, retry : BOOLEAN] \cup {None}
        /\ lastAssistant' \in AssistantMessages \cup {None}
        /\ retryAttempt' \in 0..MaxRetries /\ rejected' \in BOOLEAN
        /\ automatic' \in Nat /\ cancelled' \in BOOLEAN
    BY <1>1, <1>2, <1>4, RetriesAssumption DEF Typed, TypeOK
  <1> QED
    BY <1>1, <1>2, <1>3, <1>5, <1>8, <1>9, StaysInv

LEMMA RetryDueInv ==
    ASSUME IInv, RetryDue
    PROVE  IInv' /\ (streaming' \/ Done)
  <1>1. /\ pc = "sleeping" /\ pc \in AfterRun /\ Continue(messages, branch, 1)
        /\ reply' = None
        /\ UNCHANGED <<lastAssistant, retryAttempt, overflowAttempted,
             compaction, sent, turn, bashes, unsaved, nextTurn, operation>>
    BY DEF RetryDue, AfterRun, boundVars
  <1>2. /\ Typed /\ Len(branch) \in Nat /\ automatic \in Nat
        /\ retryAttempt \in 0..MaxRetries
    BY <1>1, AfterRunFacts
  <1>3. /\ messages \in Seq(Messages) /\ messages # <<>>
        /\ ~EndsWith(messages, "assistant")
        /\ automatic < Recovery + retryAttempt
    BY <1>1, <1>2 DEF IInv, Transcript, Open, Counts, Typed, TypeOK
  <1>4. rejected' \in BOOLEAN
    BY <1>1, <1>2 DEF Continue, historyVars, Typed, TypeOK
  <1>5. Decides(branch)
    BY <1>1, <1>2, <1>4 DEF Decides, Typed, TypeOK
  <1>6. Recovery' = Recovery /\ Recovery \in Nat
    BY <1>1, RetriesAssumption DEF Recovery
  <1>7. automatic + 1 <= Recovery' + retryAttempt
    BY <1>2, <1>3, <1>6
  <1> QED
    BY <1>1, <1>3, <1>5, <1>7, ContinueInv

\* Where the reply is checked for what calls for a compaction.
LEMMA CheckFacts ==
    ASSUME IInv, pc \in {"check", "compacting"}
    PROVE  /\ pc \in AfterRun /\ Typed /\ retryAttempt = 0
           /\ reply \in AssistantMessages /\ reply # None
           /\ messages \in Seq(Messages) /\ messages # <<>>
           /\ Open(messages) \/ Replied(messages)
           /\ automatic \in Nat /\ automatic <= Recovery + MaxRetries
           /\ pc = "check" => Counted \/ EndsWith(messages, "assistant")
           /\ branch \in Seq(Messages) /\ Len(branch) \in Nat
           /\ compaction \in [kept : Nat \ {0}, retry : BOOLEAN] \cup {None}
           /\ rejected \in BOOLEAN /\ overflowAttempted \in BOOLEAN
  BY AfterRunFacts
  DEF IInv, Suspended, Transcript, Counts, Open, Replied, EndsWith, Typed,
      TypeOK, AfterRun

LEMMA CountedAlone ==
    ASSUME retryAttempt = 0, Counted, automatic \in Nat
    PROVE  automatic <= Recovery
  BY RetriesAssumption DEF Counted, Recovery

LEMMA FirstRecovery ==
    ASSUME RecoveryDue(reply), overflowAttempted', automatic \in Nat,
           automatic <= Recovery + MaxRetries
    PROVE  /\ overflowAttempted => overflowAttempted'
           /\ automatic < Recovery' /\ automatic <= Recovery'
           /\ Recovery' \in Nat
  <1>1. Recovery' = MaxRetries + 1
    BY DEF Recovery
  <1>2. automatic <= 0 + MaxRetries
    BY DEF Recovery, RecoveryDue
  <1>3. MaxRetries \in Nat
    BY RetriesAssumption
  <1>4. automatic < MaxRetries + 1
    BY <1>2, <1>3
  <1> QED
    BY <1>1, <1>3, <1>4

\* An auto-compaction starts.
LEMMA CompactingInv ==
    ASSUME IInv, pc = "check", NEW msgs \in Seq(Messages), NEW b \in BOOLEAN,
           Prepare(msgs, b), pc' = "compacting",
           Open(msgs) \/ Replied(msgs),
           overflowAttempted' \in BOOLEAN,
           b => automatic < Recovery',
           ~b => /\ Counted \/ EndsWith(messages, "assistant")
                 /\ msgs = messages /\ Recovery' = Recovery,
           automatic <= Recovery' + MaxRetries,
           UNCHANGED <<phase, inject, aborted, steering, followUp, branch,
             streaming, waiters, settling, sent, turn, bashes, unsaved,
             pendingBash, nextTurn, operation, lastAssistant, reply,
             retryAttempt, automatic, cancelled, rejected>>
    PROVE  IInv' /\ streaming'
  <1>1. /\ pc \in AfterRun /\ Typed /\ retryAttempt = 0 /\ phase = "idle"
        /\ reply \in AssistantMessages /\ reply # None /\ automatic \in Nat
    BY CheckFacts, AfterRunFacts
  <1>2. /\ compaction' \in [kept : Nat \ {0}, retry : BOOLEAN]
        /\ compaction' # None /\ compaction'.kept \in 1..Len(branch)
        /\ compaction'.retry = b /\ messages' = msgs
    BY <1>1, PrepareTyped
  <1>3. /\ lastAssistant \in AssistantMessages \cup {None}
        /\ retryAttempt \in 0..MaxRetries
        /\ cancelled \in BOOLEAN /\ rejected \in BOOLEAN
    BY <1>1 DEF Typed, TypeOK
  <1>4. Counts'
    <2>1. lastAssistant # None /\ lastAssistant.stop \notin Errors
            => retryAttempt = 0
      BY DEF IInv, Counts
    <2>2. CASE b
      BY <1>1, <1>2, <2>1, <2>2 DEF Counts, Preparing
    <2>3. CASE ~b
      <3>1. Counted' \/ EndsWith(messages', "assistant")
        BY <1>2, <2>3 DEF Counted
      <3> QED
        BY <1>1, <1>2, <2>1, <2>3, <3>1 DEF Counts, Preparing
    <2> QED
      BY <2>2, <2>3
  <1>5. pc' \in AfterRun \ {"post"}
    BY DEF AfterRun
  <1>6. /\ reply' = reply /\ lastAssistant' = lastAssistant
        /\ retryAttempt' = retryAttempt /\ automatic' = automatic
        /\ cancelled' = cancelled /\ rejected' = rejected
    OBVIOUS
  <1> QED
    BY <1>1, <1>2, <1>3, <1>4, <1>5, <1>6, StaysInv

LEMMA RecoverInv ==
    ASSUME IInv, Recover
    PROVE  IInv' /\ (streaming' \/ Done)
  <1>1. /\ pc = "check" /\ RecoveryDue(reply) /\ overflowAttempted' = TRUE
        /\ UNCHANGED <<lastAssistant, retryAttempt, sent, turn, bashes,
             unsaved, nextTurn, operation>>
    BY DEF Recover
  <1>2. /\ pc \in AfterRun /\ Typed /\ retryAttempt = 0
        /\ automatic \in Nat /\ automatic <= Recovery + MaxRetries
        /\ WithoutReply \in Seq(Messages) /\ Open(WithoutReply)
    BY <1>1, CheckFacts, WithoutReplyOpen
  <1>3. /\ overflowAttempted' /\ overflowAttempted' \in BOOLEAN
        /\ overflowAttempted => overflowAttempted'
        /\ automatic < Recovery' /\ automatic <= Recovery'
        /\ Recovery' \in Nat
    BY <1>1, <1>2, FirstRecovery
  <1>4. CASE /\ Prepare(WithoutReply, TRUE) /\ pc' = "compacting"
             /\ UNCHANGED <<agentVars, queueVars, branch, reply, historyVars,
                            idleVars, pendingBash>>
    <2>1. UNCHANGED <<phase, inject, aborted, steering, followUp, branch,
             streaming, waiters, settling, sent, turn, bashes, unsaved,
             pendingBash, nextTurn, operation, lastAssistant, reply,
             retryAttempt, automatic, cancelled, rejected>>
      BY <1>1, <1>4 DEF agentVars, queueVars, historyVars, idleVars
    <2>2. automatic <= Recovery' + MaxRetries
      BY <1>2, <1>3, RetriesAssumption, Sums, Zenon
    <2> QED
      BY <1>1, <1>2, <1>3, <1>4, <2>1, <2>2, CompactingInv
  <1>5. CASE /\ GoOnIfQueued(WithoutReply, branch)
             /\ reply' = None /\ UNCHANGED <<compaction, compactions>>
    <2>1. rejected' \in BOOLEAN
      BY <1>2, <1>5
      DEF GoOnIfQueued, Continue, historyVars, Typed, TypeOK
    <2>2. Decides(branch)
      BY <1>1, <1>2, <1>3, <1>5, <2>1, CheckFacts DEF Decides
    <2>3. WithoutReply # <<>>
      BY <1>2 DEF Open
    <2> QED
      BY <1>2, <1>3, <1>5, <2>2, <2>3, GoOnInv
  <1> QED
    BY <1>4, <1>5, Zenon DEF Recover

LEMMA CheckedInv ==
    ASSUME IInv, Checked
    PROVE  IInv' /\ (streaming' \/ Done)
  <1>1. /\ pc = "check"
        /\ UNCHANGED <<lastAssistant, retryAttempt, overflowAttempted, sent,
             turn, bashes, unsaved, nextTurn, operation>>
    BY DEF Checked
  <1>2. /\ pc \in AfterRun /\ Typed /\ retryAttempt = 0
        /\ automatic \in Nat /\ automatic <= Recovery + MaxRetries
        /\ messages \in Seq(Messages) /\ messages # <<>>
        /\ Open(messages) \/ Replied(messages)
        /\ Counted \/ EndsWith(messages, "assistant")
        /\ overflowAttempted \in BOOLEAN
    BY <1>1, CheckFacts
  <1>3. Recovery' = Recovery /\ overflowAttempted' \in BOOLEAN
    BY <1>1, <1>2 DEF Recovery
  <1>4. CASE /\ Prepare(messages, FALSE) /\ pc' = "compacting"
             /\ UNCHANGED <<agentVars, queueVars, branch, reply, historyVars,
                            idleVars, pendingBash>>
    <2>1. UNCHANGED <<phase, inject, aborted, steering, followUp, branch,
             streaming, waiters, settling, sent, turn, bashes, unsaved,
             pendingBash, nextTurn, operation, lastAssistant, reply,
             retryAttempt, automatic, cancelled, rejected>>
      BY <1>1, <1>4 DEF agentVars, queueVars, historyVars, idleVars
    <2> QED
      BY <1>1, <1>2, <1>3, <1>4, <2>1, CompactingInv
  <1>5. CASE /\ GoOnIfQueued(messages, branch)
             /\ reply' = None /\ UNCHANGED <<compaction, compactions>>
    <2>1. rejected' \in BOOLEAN
      BY <1>2, <1>5
      DEF GoOnIfQueued, Continue, historyVars, Typed, TypeOK
    <2>2. Decides(branch)
      BY <1>1, <1>2, <1>3, <1>5, <2>1, CheckFacts DEF Decides
    <2>3. ~EndsWith(messages, "assistant") => automatic <= Recovery'
      BY <1>2, <1>3, CountedAlone
    <2> QED
      BY <1>2, <1>5, <2>2, <2>3, GoOnInv
  <1> QED
    BY <1>4, <1>5, Zenon DEF Checked

\* What an auto-compaction in progress relies on.
LEMMA CompactionFacts ==
    ASSUME IInv, pc = "compacting"
    PROVE  /\ compaction # None /\ compaction.kept \in 1..Len(branch)
           /\ compaction.retry \in BOOLEAN
           /\ compaction.retry => automatic < Recovery
           /\ ~compaction.retry => Counted \/ EndsWith(messages, "assistant")
           /\ EndsWith(branch, "assistant")
  BY CheckFacts DEF IInv, Suspended, Counts, LastReplySaved

LEMMA CompactionSucceedsInv ==
    ASSUME IInv, CompactionSucceeds
    PROVE  IInv' /\ (streaming' \/ Done)
  <1>1. /\ pc = "compacting" /\ reply' = None /\ compaction' = None
        /\ UNCHANGED <<lastAssistant, retryAttempt, overflowAttempted, sent,
             turn, bashes, unsaved, nextTurn, operation>>
    BY DEF CompactionSucceeds, boundVars
  <1>2. /\ pc \in AfterRun /\ Typed /\ retryAttempt = 0 /\ automatic \in Nat
        /\ overflowAttempted \in BOOLEAN /\ Len(branch) \in Nat
    BY <1>1, CheckFacts
  <1>3. /\ Compacted \in Seq(Messages) /\ Len(Compacted) = Len(branch) + 1
        /\ Rebuilt \in Seq(Messages) /\ Rebuilt # <<>>
        /\ ~compaction.retry => EndsWith(Rebuilt, "assistant")
    BY <1>1, <1>2, CompactionFacts, RebuiltFacts
  <1>4. Recovery' = Recovery /\ Recovery \in Nat
    BY <1>1, RetriesAssumption DEF Recovery
  <1>5. Len(Compacted) \in Nat /\ Len(branch) <= Len(Compacted)
    BY <1>2, <1>3
  <1>6. rejected' \in BOOLEAN
    BY <1>2, Zenon
    DEF CompactionSucceeds, GoOnIfQueued, Continue, historyVars, Typed, TypeOK
  <1>7. Decides(Compacted)
    BY <1>1, <1>2, <1>3, <1>5, <1>6 DEF Decides
  <1>8. CASE compaction.retry
    <2>1. Continue(Rebuilt, Compacted, 1) /\ automatic < Recovery
      BY <1>1, <1>8, CompactionFacts DEF CompactionSucceeds
    <2>2. automatic + 1 <= Recovery' + retryAttempt
      BY <1>2, <1>4, <2>1
    <2> QED
      BY <1>2, <1>3, <1>7, <2>1, <2>2, ContinueInv
  <1>9. CASE ~compaction.retry
    <2>1. GoOnIfQueued(Rebuilt, Compacted)
      BY <1>9 DEF CompactionSucceeds
    <2> QED
      BY <1>2, <1>3, <1>7, <1>9, <2>1, GoOnInv
  <1> QED
    BY <1>8, <1>9

LEMMA CompactionFailsInv ==
    ASSUME IInv, CompactionFails
    PROVE  IInv' /\ (streaming' \/ Done)
  <1>1. /\ pc = "compacting" /\ reply' = None /\ compaction' = None
        /\ GoOnIfQueued(messages, branch)
        /\ UNCHANGED <<lastAssistant, retryAttempt, overflowAttempted, sent,
             turn, bashes, unsaved, nextTurn, operation>>
    BY DEF CompactionFails, boundVars
  <1>2. /\ pc \in AfterRun /\ Typed /\ retryAttempt = 0 /\ automatic \in Nat
        /\ overflowAttempted \in BOOLEAN
        /\ branch \in Seq(Messages) /\ Len(branch) \in Nat
        /\ messages \in Seq(Messages) /\ messages # <<>>
    BY <1>1, CheckFacts
  <1>3. Recovery' = Recovery /\ Recovery \in Nat
    BY <1>1, RetriesAssumption DEF Recovery
  <1>4. rejected' \in BOOLEAN
    BY <1>1, <1>2 DEF GoOnIfQueued, Continue, historyVars, Typed, TypeOK
  <1>5. Decides(branch)
    BY <1>1, <1>2, <1>4 DEF Decides
  <1>6. ~EndsWith(messages, "assistant") => automatic <= Recovery'
    <2>1. CASE compaction.retry
      BY <1>1, <1>2, <1>3, <2>1, CompactionFacts
    <2>2. CASE ~compaction.retry
      BY <1>1, <1>2, <1>3, <2>2, CompactionFacts, CountedAlone
    <2> QED
      BY <2>1, <2>2
  <1> QED
    BY <1>1, <1>2, <1>5, <1>6, GoOnInv
-----------------------------------------------------------------------------
(* The invariant, and what follows *)

LEMMA InitInv == Init => IInv
  <1> SUFFICES ASSUME Init
               PROVE  IInv
    OBVIOUS
  <1>1. Typed
    <2>1. /\ <<>> \in Seq(Messages) /\ <<>> \in Seq(Submitted)
          /\ 0 \in 0..MaxRetries /\ 0 \in 0..MaxSent /\ 0 \in Nat
      BY EmptySeq, RetriesAssumption, BoundsAssumption
    <2>2. /\ {} \in SUBSET {"abort", "waitForIdle", "compact"}
          /\ TRUE \in BOOLEAN /\ FALSE \in BOOLEAN
      OBVIOUS
    <2> QED
      BY <2>1, <2>2, Zenon DEF Init, Typed, TypeOK
  <1>2. NoLostWaiter /\ Suspended /\ Operating
    BY DEF Init, NoLostWaiter, Suspended, Operating, Preparing, AfterRun
  <1>3. Transcript /\ LastReplySaved
    BY DEF Init, Transcript, LastReplySaved, AfterRun
  <1>4. Counts
    BY RetriesAssumption, SMT DEF Init, Counts, Recovery, Preparing
  <1> QED
    BY <1>1, <1>2, <1>3, <1>4 DEF IInv

LEMMA StutterInv ==
    ASSUME IInv, UNCHANGED vars
    PROVE  IInv' /\ (streaming => streaming')
  <1>1. UNCHANGED <<phase, inject, aborted, steering, followUp, messages,
             branch, lastAssistant, retryAttempt, overflowAttempted, pc, reply,
             compaction, streaming, waiters, settling, sent, turn, bashes,
             automatic, cancelled, rejected, unsaved, pendingBash, nextTurn,
             operation>>
    BY DEF vars, agentVars, queueVars, logVars, retryVars, callVars, idleVars,
           boundVars, historyVars
  <1>2. Typed' /\ NoLostWaiter'
    BY <1>1 DEF IInv, Typed, TypeOK, NoLostWaiter
  <1>3. Suspended' /\ Operating'
    BY <1>1 DEF IInv, Suspended, Operating
  <1>4. Transcript' /\ LastReplySaved'
    BY <1>1 DEF IInv, Transcript, LastReplySaved
  <1>5. Counts'
    BY <1>1 DEF IInv, Counts, Counted, Recovery
  <1> QED
    BY <1>1, <1>2, <1>3, <1>4, <1>5 DEF IInv

LEMMA CallerInv ==
    ASSUME IInv, Caller
    PROVE  IInv' /\ (streaming => streaming')
  <1>1. CASE QueueUser
    BY <1>1, QueueUserInv DEF QueueUser, idleVars
  <1>2. CASE QueueCustom
    BY <1>2, QueueCustomInv DEF QueueCustom, idleVars
  <1>3. CASE QueueNextTurn
    BY <1>3, QueueNextTurnInv DEF QueueNextTurn, idleVars
  <1>4. CASE RecordCustom
    BY <1>4, RecordCustomInv DEF RecordCustom, idleVars
  <1>5. CASE ClearQueue
    BY <1>5, ClearQueueInv DEF ClearQueue, idleVars
  <1>6. CASE RecordBashResult
    BY <1>6, RecordBashResultInv DEF RecordBashResult, idleVars
  <1>7. CASE Abort
    BY <1>7, AbortInv DEF Abort
  <1>8. CASE Wait
    BY <1>8, WaitInv DEF Wait
  <1>9. CASE AbortRetry
    BY <1>9, AbortRetryInv DEF AbortRetry, idleVars
  <1>10. CASE Prompt
    BY <1>10, PromptInv DEF Prompt, idleVars
  <1>11. CASE PromptCustom
    BY <1>11, PromptCustomInv DEF PromptCustom
  <1>12. CASE Compact
    BY <1>12, CompactInv DEF Compact
  <1>13. CASE NavigateTree
    BY <1>13, NavigateTreeInv DEF NavigateTree, OperationKeeps, idleVars
  <1> QED
    BY <1>1, <1>2, <1>3, <1>4, <1>5, <1>6, <1>7, <1>8, <1>9, <1>10, <1>11,
       <1>12, <1>13, Zenon DEF Caller

LEMMA RunInv ==
    ASSUME IInv, AgentRun \/ Preflight
    PROVE  IInv' /\ (streaming => streaming')
  <1>1. CASE DeliverMessage
    BY <1>1, DeliverMessageInv DEF DeliverMessage, idleVars
  <1>2. CASE Poll
    BY <1>2, PollInv DEF Poll, idleVars
  <1>3. CASE Reply
    BY <1>3, ReplyInv DEF Reply, idleVars
  <1>4. CASE ToolReturns
    BY <1>4, ToolReturnsInv DEF ToolReturns, idleVars
  <1>5. CASE Save
    BY <1>5, SaveInv DEF Save, idleVars
  <1>6. CASE AgentEnds
    BY <1>6, AgentEndsInv DEF AgentEnds, idleVars
  <1>7. CASE PromptRefused
    BY <1>7, PromptRefusedInv DEF PromptRefused, idleVars
  <1>8. CASE PromptRecovers
    BY <1>8, PromptRecoversInv DEF PromptRecovers, idleVars
  <1>9. CASE PromptChecked
    BY <1>9, PromptCheckedInv DEF PromptChecked, idleVars
  <1>10. CASE PromptCompacted
    BY <1>10, PromptCompactedInv DEF PromptCompacted, idleVars
  <1>11. CASE PromptStarts
    BY <1>11, PromptStartsInv DEF PromptStarts
  <1> QED
    BY <1>1, <1>2, <1>3, <1>4, <1>5, <1>6, <1>7, <1>8, <1>9, <1>10, <1>11,
       Zenon DEF AgentRun, Preflight

LEMMA PostRunInv ==
    ASSUME IInv, PostRun
    PROVE  IInv' /\ (streaming' \/ Done)
  BY PrepareRetryInv, NoRetryInv, RetryDueInv, RetryCancelledInv, RecoverInv,
     CheckedInv, CompactionSucceedsInv, CompactionFailsInv, Zenon DEF PostRun

LEMMA OperationInv ==
    ASSUME IInv, Settled \/ Operation
    PROVE  IInv' /\ (streaming => streaming')
  <1>1. CASE Settled
    BY <1>1, SettledInv DEF Settled
  <1>2. CASE CompactPrepares
    BY <1>2, CompactPreparesInv DEF CompactPrepares, OperationKeeps, idleVars
  <1>3. CASE CompactEnds
    BY <1>3, CompactEndsInv DEF CompactEnds, OperationKeeps, idleVars
  <1>4. CASE NavigationEnds
    BY <1>4, NavigationEndsInv DEF NavigationEnds, OperationKeeps, idleVars
  <1> QED
    BY <1>1, <1>2, <1>3, <1>4, Zenon DEF Operation

LEMMA StepInv ==
    ASSUME IInv, [Next]_vars
    PROVE  IInv' /\ (streaming /\ ~streaming' => Done)
  BY CallerInv, RunInv, PostRunInv, OperationInv, StutterInv, Zenon
  DEF Next, Run

LEMMA Invariant == Spec => []IInv
  <1>1. IInv /\ [Next]_vars => IInv'
    BY StepInv
  <1> QED
    BY InitInv, <1>1, PTL DEF Spec

\* In every state the suspended calls of the session find what they rely on,
\* and whoever awaits waitForIdle(), abort() or compact() is released by the
\* run in progress or by an announcement under way: for every setting, every
\* text and every number of calls.
THEOREM WaitersAreReleased == Spec => []CallsConsistent
  <1>1. IInv => CallsConsistent
    BY DEF IInv, Typed, CallsConsistent
  <1> QED
    BY Invariant, <1>1, PTL

\* Whatever maxRetries is, the session repeats a request by itself at most
\* that many times, and once more with as many retries after a recovery.
THEOREM RequestsAreBounded == Spec => []RepetitionsBounded
  <1>1. IInv => RepetitionsBounded
    BY RetriesAssumption DEF IInv, Typed, TypeOK, Counts, Recovery,
       RepetitionsBounded
  <1> QED
    BY Invariant, <1>1, PTL

\* _runAgentPrompt's finally block runs when nothing is left to do, whichever
\* of the ways out of _handlePostAgentRun it was.
THEOREM SettlesOnlyWhenDone == Spec => SettlesWhenDone
  <1>1. IInv /\ [Next]_vars =>
          [streaming /\ ~streaming' =>
             /\ phase' = "idle" /\ unsaved' = None /\ retryAttempt' = 0
             /\ steering' = <<>> /\ followUp' = <<>>
             /\ pendingBash' = <<>>]_vars
    BY StepInv DEF Done
  <1> QED
    BY Invariant, <1>1, PTL DEF Spec, SettlesWhenDone
-----------------------------------------------------------------------------
(* Tool results follow their calls *)

Follows(s) ==
    \A i \in 1..Len(s) : s[i].role = "toolResult" =>
        i > 1 /\ s[i - 1] = Assistant(s[i].n, "toolUse")

\* What a compaction of the branch keeps starts before it, at no tool result.
Keepable(b, k) == k \in 1..Len(b) /\ b[k].role # "toolResult"
KeptFit(b) ==
    \A i \in 1..Len(b) : b[i].role = "compaction" =>
        b[i].kept < i /\ Keepable(b, b[i].kept)
Rooted(b) == Follows(b) /\ KeptFit(b)

LEMMA FollowsSub ==
    ASSUME NEW s \in Seq(Messages), Follows(s),
           NEW i \in Nat \ {0}, NEW j \in Nat, j <= Len(s),
           i <= j => s[i].role # "toolResult"
    PROVE  SubSeq(s, i, j) \in Seq(Messages) /\ Follows(SubSeq(s, i, j))
  <1> DEFINE t == SubSeq(s, i, j)
  <1>1. Len(s) \in Nat
    BY LenProperties
  <1>2. /\ t \in Seq(Messages)
        /\ Len(t) = IF i <= j THEN j - i + 1 ELSE 0
        /\ \A k \in 1..Len(t) : t[k] = s[i + k - 1]
    <2>1. \A k \in i..j : s[k] \in Messages
      BY <1>1, ElementOfSeq, SMT
    <2>2. i \in Int /\ j \in Int
      OBVIOUS
    <2> QED
      BY <2>1, <2>2, SubSeqProperties, SMT
  <1> HIDE DEF t
  <1>3. ASSUME NEW k \in 1..Len(t), t[k].role = "toolResult"
        PROVE  k > 1 /\ t[k - 1] = Assistant(t[k].n, "toolUse")
    <2>1. /\ i <= j /\ k \in Nat /\ k >= 1 /\ k <= j - i + 1
          /\ t[k] = s[i + k - 1]
      BY <1>2, <1>3, SMTT(40)
    <2>2. k # 1
      <3>1. k = 1 => i + k - 1 = i
        BY SMT
      <3> QED
        BY <1>3, <2>1, <3>1
    <2>3. k - 1 \in 1..Len(t) /\ t[k - 1] = s[i + (k - 1) - 1]
      BY <1>2, <2>1, <2>2, SMT
    <2>4. i + k - 1 \in 1..Len(s) /\ (i + k - 1) - 1 = i + (k - 1) - 1
      BY <1>1, <2>1, SMT
    <2>5. s[(i + k - 1) - 1] = Assistant(s[i + k - 1].n, "toolUse")
      BY <1>3, <2>1, <2>4 DEF Follows
    <2> QED
      BY <2>1, <2>2, <2>3, <2>4, <2>5
  <1>4. Follows(t)
    BY <1>3 DEF Follows
  <1> QED
    BY <1>2, <1>4 DEF t

LEMMA FollowsConcat ==
    ASSUME NEW s \in Seq(Messages), NEW t \in Seq(Messages),
           Follows(s), Follows(t)
    PROVE  s \o t \in Seq(Messages) /\ Follows(s \o t)
  <1> DEFINE c == s \o t
  <1>1. /\ c \in Seq(Messages) /\ Len(s) \in Nat /\ Len(t) \in Nat
        /\ Len(c) = Len(s) + Len(t)
        /\ \A k \in 1..Len(s) + Len(t) :
             c[k] = IF k <= Len(s) THEN s[k] ELSE t[k - Len(s)]
    BY ConcatProperties, LenProperties
  <1> HIDE DEF c
  <1>2. ASSUME NEW k \in 1..Len(c), c[k].role = "toolResult"
        PROVE  k > 1 /\ c[k - 1] = Assistant(c[k].n, "toolUse")
    <2>1. CASE k <= Len(s)
      <3>1. k \in 1..Len(s) /\ c[k] = s[k]
        BY <1>1, <2>1, SMT
      <3>2. k > 1 /\ s[k - 1] = Assistant(s[k].n, "toolUse")
        BY <1>2, <3>1 DEF Follows
      <3>3. k - 1 \in 1..Len(s) + Len(t) /\ k - 1 <= Len(s)
        BY <1>1, <3>1, <3>2, SMT
      <3>4. c[k - 1] = s[k - 1]
        BY <1>1, <3>3
      <3> QED
        BY <3>1, <3>2, <3>4
    <2>2. CASE k > Len(s)
      <3> DEFINE l == k - Len(s)
      <3>1. l \in 1..Len(t) /\ c[k] = t[l] /\ l \in Int /\ k = l + Len(s)
        BY <1>1, <2>2, SMT
      <3> HIDE DEF l
      <3>2. l > 1 /\ t[l - 1] = Assistant(t[l].n, "toolUse")
        BY <1>2, <3>1 DEF Follows
      <3>3. /\ k - 1 \in 1..Len(s) + Len(t) /\ ~(k - 1 <= Len(s)) /\ k > 1
            /\ k - 1 - Len(s) = l - 1
        BY <1>1, <3>1, <3>2, SMT
      <3>4. c[k - 1] = t[l - 1]
        BY <1>1, <3>3
      <3> QED
        BY <3>1, <3>2, <3>3, <3>4
    <2>3. k <= Len(s) \/ k > Len(s)
      BY <1>1, SMT
    <2> QED
      BY <2>1, <2>2, <2>3
  <1>3. Follows(c)
    BY <1>2 DEF Follows
  <1> QED
    BY <1>1, <1>3 DEF c

\* The next message of a transcript: a result comes right after its call.
Fits(s, m) ==
    m.role = "toolResult" =>
        s # <<>> /\ Last(s) = Assistant(m.n, "toolUse")
LEMMA FollowsAppend ==
    ASSUME NEW s \in Seq(Messages), NEW m \in Messages, Follows(s), Fits(s, m)
    PROVE  Append(s, m) \in Seq(Messages) /\ Follows(Append(s, m))
  <1> DEFINE c == Append(s, m)
  <1>1. /\ c \in Seq(Messages) /\ Len(s) \in Nat /\ Len(c) = Len(s) + 1
        /\ c[Len(s) + 1] = m
        /\ \A k \in 1..Len(s) : c[k] = s[k]
    BY AppendProperties, LenProperties
  <1> HIDE DEF c
  <1>2. ASSUME NEW k \in 1..Len(c), c[k].role = "toolResult"
        PROVE  k > 1 /\ c[k - 1] = Assistant(c[k].n, "toolUse")
    <2>1. CASE k \in 1..Len(s)
      <3>1. k > 1 /\ s[k - 1] = Assistant(s[k].n, "toolUse")
        BY <1>1, <1>2, <2>1 DEF Follows
      <3>2. k - 1 \in 1..Len(s)
        BY <1>1, <2>1, <3>1, SMT
      <3> QED
        BY <1>1, <2>1, <3>1, <3>2
    <2>2. CASE k = Len(s) + 1
      <3>1. s # <<>> /\ s[Len(s)] = Assistant(m.n, "toolUse")
        BY <1>1, <1>2, <2>2 DEF Fits, Last
      <3>2. Len(s) # 0
        BY <3>1, EmptySeq
      <3>3. Len(s) \in 1..Len(s) /\ k - 1 = Len(s) /\ k > 1
        BY <1>1, <2>2, <3>2, SMT
      <3> QED
        BY <1>1, <2>2, <3>1, <3>3
    <2>3. k \in 1..Len(s) \/ k = Len(s) + 1
      BY <1>1, SMT
    <2> QED
      BY <2>1, <2>2, <2>3
  <1>3. Follows(c)
    BY <1>2 DEF Follows
  <1> QED
    BY <1>1, <1>3 DEF c

LEMMA FollowsFront ==
    ASSUME NEW s \in Seq(Messages), s # <<>>, Follows(s)
    PROVE  Front(s) \in Seq(Messages) /\ Follows(Front(s))
  <1>1. Len(s) \in Nat /\ Len(s) # 0
    BY EmptySeq, LenProperties
  <1> DEFINE n == Len(s) - 1
  <1>2. 1 \in Nat \ {0} /\ n \in Nat /\ n <= Len(s)
    BY <1>1, SMT
  <1>3. 1 <= n => s[1].role # "toolResult"
    BY <1>1, <1>2, SMT DEF Follows
  <1> HIDE DEF n
  <1>4. SubSeq(s, 1, n) \in Seq(Messages) /\ Follows(SubSeq(s, 1, n))
    BY <1>2, <1>3, FollowsSub
  <1> QED
    BY <1>4 DEF Front, n

LEMMA PlainFollows ==
    ASSUME NEW t \in Seq(Messages),
           \A i \in 1..Len(t) : t[i].role # "toolResult"
    PROVE  Follows(t)
  BY DEF Follows

\* What is rebuilt from the branch: the summary, what it kept, what followed.
LEMMA FollowsContext ==
    ASSUME NEW b \in Seq(Messages), Rooted(b)
    PROVE  Context(b) \in Seq(Messages) /\ Follows(Context(b))
  <1>1. CASE CompactionsOf(b) = {}
    BY <1>1 DEF Context, Rooted
  <1>2. CASE CompactionsOf(b) # {}
    <2> DEFINE i == Latest(b)
               k == b[i].kept
    <2>1. i \in 1..Len(b) /\ b[i] \in Messages /\ b[i].role = "compaction"
      BY <1>2, LatestIsOne, ElementOfSeq DEF CompactionsOf
    <2>2. k \in 1..Len(b) /\ k < i /\ b[k].role # "toolResult"
      BY <2>1 DEF Rooted, KeptFit, Keepable
    <2>3. Context(b) = <<b[i]>> \o SubSeq(b, k, i - 1)
                         \o SubSeq(b, i + 1, Len(b))
      BY <1>2 DEF Context
    <2> HIDE DEF k, i
    <2>4. Len(b) \in Nat
      BY LenProperties
    <2>5. <<b[i]>> \in Seq(Messages) /\ Follows(<<b[i]>>)
      <3> DEFINE m == b[i]
      <3>1. m \in Messages /\ m.role # "toolResult"
        BY <2>1
      <3> HIDE DEF m
      <3>2. /\ <<m>> \in Seq(Messages) /\ Len(<<m>>) = 1
            /\ <<m>>[1] = m
        BY <3>1, SMT
      <3>3. \A j \in 1..Len(<<m>>) : <<m>>[j].role # "toolResult"
        BY <3>1, <3>2, SMT
      <3>4. Follows(<<m>>)
        BY <3>2, <3>3, PlainFollows
      <3> QED
        BY <3>2, <3>4 DEF m
    <2>6. SubSeq(b, k, i - 1) \in Seq(Messages)
          /\ Follows(SubSeq(b, k, i - 1))
      <3>1. k \in Nat \ {0} /\ i - 1 \in Nat /\ i - 1 <= Len(b)
        BY <2>1, <2>2, <2>4, SMT
      <3> QED
        BY <2>2, <3>1, FollowsSub DEF Rooted
    <2>7. SubSeq(b, i + 1, Len(b)) \in Seq(Messages)
          /\ Follows(SubSeq(b, i + 1, Len(b)))
      <3>1. i + 1 \in Nat \ {0} /\ Len(b) <= Len(b)
        BY <2>1, <2>4, SMT
      <3>2. i + 1 <= Len(b) => b[i + 1].role # "toolResult"
        <4> SUFFICES ASSUME i + 1 <= Len(b), b[i + 1].role = "toolResult"
                     PROVE  FALSE
          OBVIOUS
        <4>1. i + 1 \in 1..Len(b) /\ (i + 1) - 1 = i
          BY <2>1, <2>4, SMT
        <4>2. b[i] = Assistant(b[i + 1].n, "toolUse")
          BY <4>1 DEF Rooted, Follows
        <4> QED
          BY <2>1, <4>2 DEF Assistant
      <3> QED
        BY <2>4, <3>1, <3>2, FollowsSub DEF Rooted
    <2>8. /\ <<b[i]>> \o SubSeq(b, k, i - 1) \in Seq(Messages)
          /\ Follows(<<b[i]>> \o SubSeq(b, k, i - 1))
      BY <2>5, <2>6, FollowsConcat
    <2> QED
      BY <2>3, <2>7, <2>8, FollowsConcat
  <1> QED
    BY <1>1, <1>2

LEMMA RootedAppend ==
    ASSUME NEW b \in Seq(Messages), NEW m \in Messages, Rooted(b), Fits(b, m),
           m.role = "compaction" => Keepable(b, m.kept)
    PROVE  Append(b, m) \in Seq(Messages) /\ Rooted(Append(b, m))
  <1> DEFINE c == Append(b, m)
  <1>1. /\ c \in Seq(Messages) /\ Len(b) \in Nat /\ Len(c) = Len(b) + 1
        /\ c[Len(b) + 1] = m
        /\ \A k \in 1..Len(b) : c[k] = b[k]
    BY AppendProperties, LenProperties
  <1>2. Follows(c)
    BY FollowsAppend DEF Rooted
  <1> HIDE DEF c
  <1>3. ASSUME NEW i \in 1..Len(c), c[i].role = "compaction"
        PROVE  c[i].kept < i /\ Keepable(c, c[i].kept)
    <2>1. CASE i \in 1..Len(b)
      <3> DEFINE k == c[i].kept
      <3>1. k < i /\ k \in 1..Len(b) /\ b[k].role # "toolResult"
        BY <1>1, <1>3, <2>1 DEF Rooted, KeptFit, Keepable
      <3> HIDE DEF k
      <3>2. k \in 1..Len(c) /\ c[k] = b[k]
        BY <1>1, <3>1, SMT
      <3> QED
        BY <3>1, <3>2 DEF Keepable, k
    <2>2. CASE i = Len(b) + 1
      <3> DEFINE k == m.kept
      <3>1. k \in 1..Len(b) /\ b[k].role # "toolResult" /\ c[i] = m
        BY <1>1, <1>3, <2>2 DEF Keepable
      <3> HIDE DEF k
      <3>2. k \in 1..Len(c) /\ c[k] = b[k] /\ k < i
        BY <1>1, <2>2, <3>1, SMT
      <3> QED
        BY <3>1, <3>2 DEF Keepable, k
    <2>3. i \in 1..Len(b) \/ i = Len(b) + 1
      BY <1>1, SMT
    <2> QED
      BY <2>1, <2>2, <2>3
  <1>4. KeptFit(c)
    BY <1>3 DEF KeptFit
  <1> QED
    BY <1>1, <1>2, <1>4 DEF Rooted, c

LEMMA RootedPrefix ==
    ASSUME NEW b \in Seq(Messages), NEW n \in 0..Len(b), Rooted(b)
    PROVE  SubSeq(b, 1, n) \in Seq(Messages) /\ Rooted(SubSeq(b, 1, n))
  <1> DEFINE t == SubSeq(b, 1, n)
  <1>1. Len(b) \in Nat
    BY LenProperties
  <1>2. n \in Nat /\ n <= Len(b) /\ 1 \in Nat \ {0}
    BY <1>1, SMT
  <1>3. 1 <= n => b[1].role # "toolResult"
    BY <1>1, <1>2, SMT DEF Rooted, Follows
  <1>4. t \in Seq(Messages) /\ Follows(t)
    BY <1>2, <1>3, FollowsSub DEF Rooted
  <1>5. Len(t) = n /\ \A k \in 1..n : t[k] = b[k]
    BY <1>1, <1>2, SMT
  <1> HIDE DEF t
  <1>6. ASSUME NEW i \in 1..Len(t), t[i].role = "compaction"
        PROVE  t[i].kept < i /\ Keepable(t, t[i].kept)
    <2> DEFINE k == t[i].kept
    <2>1. i \in 1..Len(b) /\ i \in 1..n /\ t[i] = b[i]
      BY <1>1, <1>2, <1>5, SMT
    <2>2. k < i /\ k \in 1..Len(b) /\ b[k].role # "toolResult"
      BY <1>6, <2>1 DEF Rooted, KeptFit, Keepable
    <2> HIDE DEF k
    <2>3. k \in 1..Len(t) /\ t[k] = b[k]
      BY <1>1, <1>2, <1>5, <2>1, <2>2, SMT
    <2> QED
      BY <2>2, <2>3 DEF Keepable, k
  <1> QED
    BY <1>4, <1>6 DEF KeptFit, Rooted, t

LEMMA RootedConcat ==
    ASSUME NEW b \in Seq(Messages), NEW t \in Seq(Messages), Rooted(b),
           \A i \in 1..Len(t) : t[i].role \notin {"toolResult", "compaction"}
    PROVE  b \o t \in Seq(Messages) /\ Rooted(b \o t)
  <1> DEFINE c == b \o t
  <1>1. /\ c \in Seq(Messages) /\ Len(b) \in Nat /\ Len(t) \in Nat
        /\ Len(c) = Len(b) + Len(t)
        /\ \A k \in 1..Len(b) + Len(t) :
             c[k] = IF k <= Len(b) THEN b[k] ELSE t[k - Len(b)]
    BY ConcatProperties, LenProperties
  <1>2. Follows(c)
    BY PlainFollows, FollowsConcat DEF Rooted
  <1> HIDE DEF c
  <1>3. ASSUME NEW i \in 1..Len(c), c[i].role = "compaction"
        PROVE  c[i].kept < i /\ Keepable(c, c[i].kept)
    <2>1. i <= Len(b)
      <3> SUFFICES ASSUME ~(i <= Len(b))
                   PROVE  FALSE
        OBVIOUS
      <3>1. i - Len(b) \in 1..Len(t) /\ c[i] = t[i - Len(b)]
        BY <1>1, SMT
      <3> QED
        BY <1>3, <3>1
    <2> DEFINE k == c[i].kept
    <2>2. i \in 1..Len(b) /\ c[i] = b[i]
      BY <1>1, <2>1, SMT
    <2>3. k < i /\ k \in 1..Len(b) /\ b[k].role # "toolResult"
      BY <1>3, <2>2 DEF Rooted, KeptFit, Keepable
    <2> HIDE DEF k
    <2>4. k \in 1..Len(c) /\ c[k] = b[k]
      BY <1>1, <2>3, SMT
    <2> QED
      BY <2>3, <2>4 DEF Keepable, k
  <1> QED
    BY <1>1, <1>2, <1>3 DEF KeptFit, Rooted, c
-----------------------------------------------------------------------------
(* What lasts of a sequence of messages *)

\* Induction, over a set of numbers.
LEMMA SetInduction ==
    ASSUME NEW S, 0 \in S, \A n \in Nat : n \in S => n + 1 \in S
    PROVE  \A n \in Nat : n \in S
  <1> SUFFICES ASSUME NEW m \in Nat, m \notin S
               PROVE  FALSE
    OBVIOUS
  <1> DEFINE R == OpToRel(<, Nat)
             T == Nat \ S
  <1>1. T \subseteq Nat /\ T # {}
    OBVIOUS
  <1>2. PICK x \in T : \A y \in T : <<y, x>> \notin R
    <2> HIDE DEF T, R
    <2>1. IsWellFoundedOn(R, Nat)
      BY NatLessThanWellFounded DEF R
    <2> QED
      BY <1>1, <2>1, WFMin
  <1>3. x \in Nat /\ x # 0 /\ x \notin S
    OBVIOUS
  <1>4. x - 1 \in Nat /\ x - 1 < x /\ (x - 1) + 1 = x
    BY <1>3
  <1>5. x - 1 \notin S
    BY <1>3, <1>4
  <1>6. <<x - 1, x>> \in R
    BY <1>3, <1>4, SMT DEF OpToRel
  <1> QED
    BY <1>2, <1>4, <1>5, <1>6

\* The function in the definition of Lasting, up to some index.
Filters(f, s, n) ==
    f = [i \in 0..n |->
           IF i = 0 THEN <<>>
           ELSE IF Lasts(s[i]) THEN Append(f[i - 1], s[i]) ELSE f[i - 1]]

LEMMA FiltersValue ==
    ASSUME NEW f, NEW s, NEW n \in Nat, Filters(f, s, n)
    PROVE  /\ f[0] = <<>>
           /\ \A i \in 1..n :
                f[i] = IF Lasts(s[i]) THEN Append(f[i - 1], s[i]) ELSE f[i - 1]
  <1> DEFINE F(i) == IF i = 0 THEN <<>>
                     ELSE IF Lasts(s[i]) THEN Append(f[i - 1], s[i])
                     ELSE f[i - 1]
  <1>1. f = [i \in 0..n |-> F(i)]
    BY DEF Filters
  <1>2. \A i \in 0..n : f[i] = F(i)
    <2> HIDE DEF F
    <2> QED
      BY <1>1
  <1>3. 0 \in 0..n /\ \A i \in 1..n : i \in 0..n /\ i # 0
    BY SMT
  <1> QED
    BY <1>2, <1>3, Zenon

LEMMA FiltersExist ==
    ASSUME NEW s
    PROVE  \A n \in Nat : \E f : Filters(f, s, n)
  <1> DEFINE S == {n \in Nat : \E f : Filters(f, s, n)}
  <1>1. 0 \in S
    <2> DEFINE f == [i \in 0..0 |-> <<>>]
    <2>1. \A i \in 0..0 : i = 0
      BY SMT
    <2>2. Filters(f, s, 0)
      BY <2>1 DEF Filters
    <2> QED
      BY <2>2
  <1>2. ASSUME NEW n \in Nat, n \in S
        PROVE  n + 1 \in S
    <2>1. PICK f : Filters(f, s, n)
      BY <1>2
    <2> DEFINE new == IF Lasts(s[n + 1]) THEN Append(f[n], s[n + 1]) ELSE f[n]
               g == [i \in 0..n + 1 |-> IF i = n + 1 THEN new ELSE f[i]]
               G(i) == IF i = 0 THEN <<>>
                       ELSE IF Lasts(s[i]) THEN Append(g[i - 1], s[i])
                       ELSE g[i - 1]
    <2>2. ASSUME NEW i \in 0..n + 1
          PROVE  g[i] = G(i)
      <3>1. CASE i = 0
        <4>1. 0 \in 0..n + 1 /\ 0 # n + 1
          BY SMT
        <4>2. g[0] = f[0]
          BY <4>1
        <4> QED
          BY <2>1, <3>1, <4>2, FiltersValue
      <3>2. CASE i \in 1..n
        <4>1. i # n + 1 /\ i - 1 \in 0..n + 1 /\ i - 1 # n + 1 /\ i # 0
          BY <3>2, SMT
        <4>2. g[i] = f[i] /\ g[i - 1] = f[i - 1]
          BY <4>1
        <4>3. f[i] = IF Lasts(s[i]) THEN Append(f[i - 1], s[i]) ELSE f[i - 1]
          BY <2>1, <3>2, FiltersValue
        <4> HIDE DEF g
        <4> QED
          BY <4>1, <4>2, <4>3
      <3>3. CASE i = n + 1
        <4>1. i - 1 = n /\ n \in 0..n + 1 /\ n # n + 1 /\ i # 0
          BY <3>3, SMT
        <4>2. g[i] = new /\ g[i - 1] = f[n]
          BY <3>3, <4>1
        <4> HIDE DEF g
        <4> QED
          BY <3>3, <4>1, <4>2
      <3>4. i = 0 \/ i \in 1..n \/ i = n + 1
        BY SMT
      <3> QED
        BY <3>1, <3>2, <3>3, <3>4
    <2>3. g = [i \in 0..n + 1 |-> G(i)]
      <3>1. g = [i \in 0..n + 1 |-> g[i]]
        OBVIOUS
      <3> HIDE DEF g, G
      <3> QED
        BY <2>2, <3>1
    <2>4. Filters(g, s, n + 1)
      <3> HIDE DEF g
      <3> QED
        BY <2>3 DEF Filters
    <2> HIDE DEF g
    <2> QED
      BY <2>4
  <1> HIDE DEF S
  <1>3. \A n \in Nat : n \in S
    BY <1>1, <1>2, SetInduction
  <1> QED
    BY <1>3 DEF S

LEMMA LastingIs ==
    ASSUME NEW s \in Seq(Messages)
    PROVE  \E f : Filters(f, s, Len(s)) /\ Lasting(s) = f[Len(s)]
  <1> DEFINE upTo == CHOOSE f : Filters(f, s, Len(s))
  <1>1. Filters(upTo, s, Len(s))
    <2>1. \E f : Filters(f, s, Len(s))
      BY FiltersExist, LenProperties
    <2> QED
      BY <2>1
  <1>2. Lasting(s) = upTo[Len(s)]
    BY DEF Lasting, Filters
  <1> HIDE DEF upTo
  <1> QED
    BY <1>1, <1>2

\* Induction over a set of sequences.
LEMMA SequenceInduction ==
    ASSUME NEW E, NEW T, <<>> \in T,
           \A s \in Seq(E), e \in E : s \in T => Append(s, e) \in T
    PROVE  \A s \in Seq(E) : s \in T
  <1> DEFINE S == {n \in Nat : \A s \in Seq(E) : Len(s) = n => s \in T}
  <1>1. 0 \in S
    <2>1. \A s \in Seq(E) : Len(s) = 0 => s = <<>>
      BY EmptySeq
    <2> QED
      BY <2>1
  <1>2. ASSUME NEW n \in Nat, n \in S
        PROVE  n + 1 \in S
    <2> SUFFICES ASSUME NEW s \in Seq(E), Len(s) = n + 1
                 PROVE  s \in T
      BY SMT
    <2>1. s # <<>>
      <3>1. Len(<<>>) = 0 /\ n + 1 # 0
        BY EmptySeq, SMT
      <3> QED
        BY <3>1
    <2>2. PICK t \in Seq(E), e \in E : s = Append(t, e)
      BY <2>1, SequenceEmptyOrAppend
    <2>3. Len(t) \in Nat /\ Len(s) = Len(t) + 1
      BY <2>2, AppendProperties, LenProperties
    <2>4. Len(t) = n
      BY <2>3, SMT
    <2>5. t \in T
      BY <1>2, <2>4
    <2> QED
      BY <2>2, <2>5
  <1> HIDE DEF S
  <1>3. \A n \in Nat : n \in S
    BY <1>1, <1>2, SetInduction
  <1> QED
    BY <1>3, LenProperties DEF S

LEMMA FiltersAgree ==
    ASSUME NEW f, NEW g, NEW s, NEW t, NEW m \in Nat, NEW n \in Nat, m <= n,
           Filters(f, s, m), Filters(g, t, n), \A i \in 1..m : s[i] = t[i]
    PROVE  f[m] = g[m]
  <1> DEFINE S == {i \in Nat : i <= m => f[i] = g[i]}
  <1>1. 0 \in S
    BY FiltersValue
  <1>2. ASSUME NEW i \in Nat, i \in S
        PROVE  i + 1 \in S
    <2> SUFFICES ASSUME i + 1 <= m
                 PROVE  f[i + 1] = g[i + 1]
      BY SMT
    <2>1. i <= m /\ i + 1 \in 1..m /\ i + 1 \in 1..n /\ (i + 1) - 1 = i
      BY SMT
    <2>2. f[i] = g[i] /\ s[i + 1] = t[i + 1]
      BY <1>2, <2>1
    <2> DEFINE k == i + 1
    <2> HIDE DEF k
    <2>3. /\ k \in 1..m /\ k \in 1..n /\ k - 1 = i /\ s[k] = t[k]
      BY <2>1, <2>2 DEF k
    <2>4. f[k] = IF Lasts(s[k]) THEN Append(f[k - 1], s[k]) ELSE f[k - 1]
      BY <2>3, FiltersValue
    <2>5. g[k] = IF Lasts(t[k]) THEN Append(g[k - 1], t[k]) ELSE g[k - 1]
      BY <2>3, FiltersValue
    <2>6. f[k - 1] = g[k - 1]
      BY <2>2, <2>3, Zenon
    <2>7. f[k] = g[k]
      BY <2>3, <2>4, <2>5, <2>6
    <2> QED
      BY <2>7 DEF k
  <1> HIDE DEF S
  <1>3. m \in S
    BY <1>1, <1>2, SetInduction
  <1> QED
    BY <1>3, SMT DEF S

\* A message more lasts, or it does not.
LEMMA LastingAppend ==
    ASSUME NEW s \in Seq(Messages), NEW m \in Messages
    PROVE  Lasting(Append(s, m)) =
             IF Lasts(m) THEN Append(Lasting(s), m) ELSE Lasting(s)
  <1> DEFINE c == Append(s, m)
             n == Len(s)
  <1>1. /\ c \in Seq(Messages) /\ n \in Nat /\ Len(c) = n + 1
        /\ c[n + 1] = m /\ \A i \in 1..n : c[i] = s[i]
    BY AppendProperties, LenProperties
  <1> HIDE DEF c, n
  <1>2. PICK f : Filters(f, s, n) /\ Lasting(s) = f[n]
    BY LastingIs DEF n
  <1>3. PICK g : Filters(g, c, n + 1) /\ Lasting(c) = g[n + 1]
    BY <1>1, LastingIs
  <1>4. n + 1 \in Nat /\ n <= n + 1 /\ n + 1 \in 1..n + 1 /\ (n + 1) - 1 = n
    BY <1>1, SMT
  <1>5. f[n] = g[n]
    BY <1>1, <1>2, <1>3, <1>4, FiltersAgree
  <1> DEFINE k == n + 1
  <1> HIDE DEF k
  <1>6. g[k] = IF Lasts(c[k]) THEN Append(g[k - 1], c[k]) ELSE g[k - 1]
    BY <1>3, <1>4, FiltersValue DEF k
  <1>7. c[k] = m /\ k - 1 = n /\ Lasting(c) = g[k]
    BY <1>1, <1>3, <1>4 DEF k
  <1> QED
    BY <1>2, <1>5, <1>6, <1>7 DEF c

LEMMA LastingFront ==
    ASSUME NEW s \in Seq(Messages), s # <<>>, ~Lasts(Last(s))
    PROVE  Front(s) \in Seq(Messages) /\ Lasting(Front(s)) = Lasting(s)
  <1>1. PICK t \in Seq(Messages), m \in Messages : s = Append(t, m)
    BY SequenceEmptyOrAppend
  <1>2. Front(s) = t /\ Last(s) = m
    BY <1>1, AppendFacts
  <1> QED
    BY <1>1, <1>2, LastingAppend

LEMMA ConcatLast ==
    ASSUME NEW S, NEW r \in Seq(S), NEW v \in Seq(S), NEW e \in S
    PROVE  r \o Append(v, e) = Append(r \o v, e)
  <1> DEFINE a == Append(v, e)
             b == r \o v
  <1>1. /\ a \in Seq(S) /\ Len(a) = Len(v) + 1 /\ a[Len(v) + 1] = e
        /\ \A i \in 1..Len(v) : a[i] = v[i]
        /\ Len(v) \in Nat /\ Len(r) \in Nat
    BY AppendProperties, LenProperties
  <1>2. /\ b \in Seq(S) /\ Len(b) = Len(r) + Len(v)
        /\ \A i \in 1..Len(r) + Len(v) :
             b[i] = IF i <= Len(r) THEN r[i] ELSE v[i - Len(r)]
    BY ConcatProperties
  <1> HIDE DEF a, b
  <1>3. /\ r \o a \in Seq(S) /\ Len(r \o a) = Len(r) + Len(a)
        /\ \A i \in 1..Len(r) + Len(a) :
             (r \o a)[i] = IF i <= Len(r) THEN r[i] ELSE a[i - Len(r)]
    BY <1>1, ConcatProperties
  <1>4. /\ Append(b, e) \in Seq(S) /\ Len(Append(b, e)) = Len(b) + 1
        /\ Append(b, e)[Len(b) + 1] = e
        /\ \A i \in 1..Len(b) : Append(b, e)[i] = b[i]
    <2>1. b \in Seq(S)
      BY <1>2
    <2> QED
      BY <2>1, AppendProperties
  <1>5. ASSUME NEW i \in 1..Len(r \o a)
        PROVE  (r \o a)[i] = Append(b, e)[i]
    <2>1. CASE i <= Len(r)
      BY <1>1, <1>2, <1>3, <1>4, <2>1
    <2>2. CASE ~(i <= Len(r)) /\ i <= Len(r) + Len(v)
      <3>1. i - Len(r) \in 1..Len(v) /\ i \in 1..Len(r) + Len(v)
        BY <1>1, <1>3, <2>2
      <3> QED
        BY <1>1, <1>2, <1>3, <1>4, <2>2, <3>1
    <2>3. CASE i = Len(r) + Len(v) + 1
      <3>1. i - Len(r) = Len(v) + 1 /\ ~(i <= Len(r)) /\ i = Len(b) + 1
        BY <1>1, <1>2, <2>3
      <3> QED
        BY <1>1, <1>3, <1>4, <3>1
    <2>4. i \in 1..Len(r) + Len(v) + 1
      BY <1>1, <1>3
    <2>5. \/ i <= Len(r)
          \/ ~(i <= Len(r)) /\ i <= Len(r) + Len(v)
          \/ i = Len(r) + Len(v) + 1
      BY <1>1, <2>4, SMTT(40)
    <2> QED
      BY <2>1, <2>2, <2>3, <2>5
  <1>6. Len(r \o a) = Len(Append(b, e))
    BY <1>1, <1>2, <1>3, <1>4
  <1>7. r \o a = Append(b, e)
    BY <1>3, <1>4, <1>5, <1>6, SeqEqual
  <1> QED
    BY <1>7 DEF a, b

\* Histories that show the same go on showing the same.
LEMMA LastingConcat ==
    ASSUME NEW s \in Seq(Messages), NEW t \in Seq(Messages),
           NEW u \in Seq(Messages), Lasting(s) = Lasting(t)
    PROVE  Lasting(s \o u) = Lasting(t \o u)
  <1> DEFINE T == {v \in Seq(Messages) : Lasting(s \o v) = Lasting(t \o v)}
  <1>1. <<>> \in T
    BY ConcatEmptySeq, EmptySeq
  <1>2. ASSUME NEW v \in Seq(Messages), NEW m \in Messages, v \in T
        PROVE  Append(v, m) \in T
    <2>1. Append(v, m) \in Seq(Messages)
      BY AppendProperties
    <2>2. ASSUME NEW r \in Seq(Messages)
          PROVE  /\ r \o v \in Seq(Messages)
                 /\ r \o Append(v, m) = Append(r \o v, m)
      <3>1. r \o v \in Seq(Messages)
        BY ConcatProperties
      <3>2. r \o Append(v, m) = Append(r \o v, m)
        BY ConcatLast
      <3> QED
        BY <3>1, <3>2
    <2>3. /\ Lasting(s \o Append(v, m)) = Lasting(Append(s \o v, m))
          /\ Lasting(t \o Append(v, m)) = Lasting(Append(t \o v, m))
          /\ s \o v \in Seq(Messages) /\ t \o v \in Seq(Messages)
      BY <2>2
    <2>4. Lasting(s \o v) = Lasting(t \o v)
      BY <1>2
    <2>5. Lasting(Append(s \o v, m)) = Lasting(Append(t \o v, m))
      BY <2>3, <2>4, LastingAppend
    <2> QED
      BY <2>1, <2>3, <2>5
  <1> HIDE DEF T
  <1>3. u \in T
    BY <1>1, <1>2, SequenceInduction
  <1> QED
    BY <1>3 DEF T

\* What is appended to the branch is appended to the context.
LEMMA ContextConcat ==
    ASSUME NEW b \in Seq(Messages), NEW t \in Seq(Messages),
           \A i \in 1..Len(t) : t[i].role # "compaction"
    PROVE  Context(b \o t) = Context(b) \o t
  <1> DEFINE c == b \o t
  <1>1. /\ c \in Seq(Messages) /\ Len(b) \in Nat /\ Len(t) \in Nat
        /\ Len(c) = Len(b) + Len(t)
        /\ \A k \in 1..Len(b) + Len(t) :
             c[k] = IF k <= Len(b) THEN b[k] ELSE t[k - Len(b)]
        /\ DOMAIN b = 1..Len(b) /\ DOMAIN c = 1..Len(c)
    BY ConcatProperties, LenProperties
  <1>2. \A k \in 1..Len(b) : k \in 1..Len(c) /\ c[k] = b[k]
    <2> HIDE DEF c
    <2> QED
      BY <1>1, SMT
  <1>3. CompactionsOf(c) = CompactionsOf(b)
    <2> HIDE DEF c
    <2>1. ASSUME NEW k \in 1..Len(c), c[k].role = "compaction"
          PROVE  k \in 1..Len(b)
      <3> SUFFICES ASSUME ~(k <= Len(b))
                   PROVE  FALSE
        BY <1>1, SMT
      <3>1. k - Len(b) \in 1..Len(t) /\ c[k] = t[k - Len(b)]
        BY <1>1, SMT
      <3> QED
        BY <2>1, <3>1
    <2>2. CompactionsOf(c) = {k \in 1..Len(c) : c[k].role = "compaction"}
      BY <1>1, Zenon DEF CompactionsOf
    <2>3. CompactionsOf(b) = {k \in 1..Len(b) : b[k].role = "compaction"}
      BY <1>1, Zenon DEF CompactionsOf
    <2> QED
      BY <1>2, <2>1, <2>2, <2>3
  <1>4. CASE CompactionsOf(b) = {}
    BY <1>3, <1>4 DEF Context
  <1>5. CASE CompactionsOf(b) # {}
    <2> DEFINE i == Latest(b)
               k == b[i].kept
    <2>1. Latest(c) = i
      BY <1>3 DEF Latest
    <2>2. i \in 1..Len(b) /\ b[i] \in Messages /\ b[i].role = "compaction"
      BY <1>5, LatestIsOne, ElementOfSeq DEF CompactionsOf
    <2>3. k \in Nat \ {0}
      BY <2>2, KeptTyped, SMTT(40)
    <2>4. c[i] = b[i]
      BY <1>2, <2>2, SMTT(40)
    <2>5. /\ Context(b) = <<b[i]>> \o SubSeq(b, k, i - 1)
                           \o SubSeq(b, i + 1, Len(b))
          /\ Context(c) = <<b[i]>> \o SubSeq(c, k, i - 1)
                           \o SubSeq(c, i + 1, Len(c))
      BY <1>3, <1>5, <2>1, <2>4 DEF Context
    <2> DEFINE head == <<b[i]>>
    <2>6. head \in Seq(Messages)
      BY <2>2
    <2> HIDE DEF head, k, i, c
    <2> DEFINE kept == SubSeq(b, k, i - 1)
               tail == SubSeq(b, i + 1, Len(b))
    <2>7. kept \in Seq(Messages) /\ tail \in Seq(Messages)
      <3>1. \A j \in k..i - 1 : b[j] \in Messages
        BY <1>1, <2>2, <2>3, ElementOfSeq, SMT
      <3>2. \A j \in i + 1..Len(b) : b[j] \in Messages
        BY <1>1, <2>2, ElementOfSeq, SMT
      <3>3. k \in Int /\ i - 1 \in Int /\ i + 1 \in Int /\ Len(b) \in Int
        BY <1>1, <2>2, <2>3, SMT
      <3> QED
        BY <3>1, <3>2, <3>3, SubSeqProperties
    <2>8. SubSeq(c, k, i - 1) = kept
      BY <1>1, <1>2, <2>2, <2>3, SMT
    <2>9. SubSeq(c, i + 1, Len(c)) = tail \o t
      <3>1. /\ i + 1 \in 1..Len(c) + 1 /\ Len(b) \in (i + 1) - 1..Len(c)
            /\ Len(c) \in Len(b)..Len(c)
        BY <1>1, <2>2, SMT
      <3>2. SubSeq(c, i + 1, Len(b)) \o SubSeq(c, Len(b) + 1, Len(c))
              = SubSeq(c, i + 1, Len(c))
        BY <1>1, <3>1, ConcatAdjacentSubSeq
      <3>3. SubSeq(c, i + 1, Len(b)) = tail
        BY <1>1, <1>2, <2>2, SMT
      <3>4. SubSeq(c, Len(b) + 1, Len(c)) = t
        BY <1>1, SMT
      <3> QED
        BY <3>2, <3>3, <3>4
    <2> HIDE DEF kept, tail
    <2> DEFINE first == head \o kept
    <2>10. first \in Seq(Messages)
      BY <2>6, <2>7, ConcatProperties
    <2>11. Context(b) = first \o tail /\ Context(c) = first \o (tail \o t)
      BY <2>5, <2>8, <2>9 DEF head, kept, tail
    <2> HIDE DEF first
    <2>12. (first \o tail) \o t = first \o (tail \o t)
      BY <2>7, <2>10, ConcatAssociative, SMTT(40)
    <2> QED
      BY <2>11, <2>12 DEF c
  <1> QED
    BY <1>4, <1>5

LEMMA ContextAppend ==
    ASSUME NEW b \in Seq(Messages), NEW m \in Messages,
           m.role # "compaction"
    PROVE  Context(Append(b, m)) = Append(Context(b), m)
  <1>1. /\ <<m>> \in Seq(Messages) /\ Append(b, m) = b \o <<m>>
        /\ Context(b) \in Seq(Messages)
    BY AppendIsConcat, ContextTyped
  <1>2. Append(Context(b), m) = Context(b) \o <<m>>
    BY <1>1, AppendIsConcat
  <1>3. \A i \in 1..Len(<<m>>) : <<m>>[i].role # "compaction"
    <2>1. Len(<<m>>) = 1 /\ <<m>>[1] = m
      OBVIOUS
    <2>2. \A i \in 1..1 : i = 1
      BY SMT
    <2> QED
      BY <2>1, <2>2
  <1> DEFINE t == <<m>>
  <1> HIDE DEF t
  <1>4. Context(b \o t) = Context(b) \o t
    BY <1>1, <1>3, ContextConcat DEF t
  <1> QED
    BY <1>1, <1>2, <1>4 DEF t
-----------------------------------------------------------------------------
(* The transcript, the branch and the message being saved *)

Shown(b, u) == IF u = None THEN Context(b) ELSE Append(Context(b), u)
Records(m, b, u) ==
    /\ Follows(m) /\ Rooted(b)
    /\ Lasting(m) = Lasting(Shown(b, u))
    /\ u # None => u.role # "compaction" /\ Fits(b, u)

\* A message recorded at once, while nothing is being saved.
LEMMA RecordedBoth ==
    ASSUME NEW m \in Seq(Messages), NEW b \in Seq(Messages),
           Records(m, b, None), NEW x \in Messages,
           x.role \notin {"toolResult", "compaction"}
    PROVE  Records(Append(m, x), Append(b, x), None)
  <1>1. Fits(m, x) /\ Fits(b, x)
    BY DEF Fits
  <1>2. Follows(Append(m, x)) /\ Rooted(Append(b, x))
    BY <1>1, FollowsAppend, RootedAppend DEF Records
  <1>3. Lasting(Append(m, x)) = Lasting(Append(Context(b), x))
    BY ContextTyped, LastingAppend DEF Records, Shown
  <1>4. Context(Append(b, x)) = Append(Context(b), x)
    BY ContextAppend
  <1> QED
    BY <1>2, <1>3, <1>4 DEF Records, Shown

\* A message that the agent has, and the session is told of.
LEMMA RecordedFirst ==
    ASSUME NEW m \in Seq(Messages), NEW b \in Seq(Messages),
           Records(m, b, None), NEW x \in Messages, x # None,
           x.role # "compaction", Fits(m, x), Fits(b, x)
    PROVE  Records(Append(m, x), b, x)
  <1>1. Follows(Append(m, x))
    BY FollowsAppend DEF Records
  <1>2. Lasting(Append(m, x)) = Lasting(Append(Context(b), x))
    BY ContextTyped, LastingAppend DEF Records, Shown
  <1> QED
    BY <1>1, <1>2 DEF Records, Shown

LEMMA RecordedThen ==
    ASSUME NEW m \in Seq(Messages), NEW b \in Seq(Messages),
           NEW x \in Messages, x # None, Records(m, b, x)
    PROVE  Records(m, Append(b, x), None)
  <1>1. Rooted(Append(b, x))
    BY RootedAppend DEF Records
  <1>2. Context(Append(b, x)) = Append(Context(b), x)
    BY ContextAppend DEF Records
  <1> QED
    BY <1>1, <1>2 DEF Records, Shown

LEMMA RecordedAfter ==
    ASSUME NEW m \in Seq(Messages), NEW b \in Seq(Messages),
           NEW t \in Seq(Messages), Records(m, b, None),
           \A i \in 1..Len(t) : t[i].role = "bashExecution"
    PROVE  Records(m \o t, b \o t, None)
  <1>1. \A i \in 1..Len(t) : t[i].role \notin {"toolResult", "compaction"}
    OBVIOUS
  <1>2. Follows(m \o t) /\ Rooted(b \o t)
    BY <1>1, PlainFollows, FollowsConcat, RootedConcat DEF Records
  <1>3. Context(b \o t) = Context(b) \o t
    BY <1>1, ContextConcat
  <1>4. Lasting(m \o t) = Lasting(Context(b) \o t)
    BY ContextTyped, LastingConcat DEF Records, Shown
  <1> QED
    BY <1>2, <1>3, <1>4 DEF Records, Shown

LEMMA RecordedLess ==
    ASSUME NEW m \in Seq(Messages), m # <<>>, ~Lasts(Last(m)),
           NEW b, NEW u, Records(m, b, u)
    PROVE  Front(m) \in Seq(Messages) /\ Records(Front(m), b, u)
  BY FollowsFront, LastingFront DEF Records

LEMMA RecordedAgain ==
    ASSUME NEW b \in Seq(Messages), Rooted(b)
    PROVE  Context(b) \in Seq(Messages) /\ Records(Context(b), b, None)
  BY FollowsContext DEF Records, Shown

\* What the property says of the three.
LEMMA RecordsMatch ==
    ASSUME NEW m, NEW b \in Seq(Messages),
           NEW u \in Messages \cup {None}, Records(m, b, u)
    PROVE  LET saving == IF u = None THEN <<>> ELSE <<u>> IN
           Lasting(m) = Lasting(Context(b) \o saving)
  <1>1. Context(b) \in Seq(Messages)
    BY ContextTyped
  <1>2. CASE u = None
    BY <1>1, <1>2, ConcatEmptySeq DEF Records, Shown
  <1>3. CASE u # None
    <2>1. Append(Context(b), u) = Context(b) \o <<u>>
      BY <1>1, <1>3, AppendIsConcat
    <2> QED
      BY <1>3, <2>1 DEF Records, Shown
  <1> QED
    BY <1>2, <1>3
-----------------------------------------------------------------------------
(* The inductive invariant of the records *)

Deferred ==
    \A i \in 1..Len(pendingBash) : pendingBash[i].role = "bashExecution"

\* The compactions in progress: where what they keep starts.
Cuts ==
    /\ pc \in {"promptCompacts", "compacting"}
         => Keepable(branch, compaction.kept)
    /\ operation # None /\ operation.kind = "summarizes"
         => Keepable(branch, operation.at)

\* The call that waits for its result, and the reply that ends the run.
Calls(s, n) == s # <<>> /\ Last(s) = Assistant(n, "toolUse")
Replying ==
    /\ phase = "tools" =>
         /\ Calls(messages, turn)
         /\ unsaved = None => Calls(branch, turn)
         /\ unsaved # None => unsaved = Assistant(turn, "toolUse")
    /\ phase \in {"poll", "ended"} =>
         Last(messages) = IF unsaved = None THEN lastAssistant ELSE unsaved
    /\ pc = "post" => Last(messages) = lastAssistant
    /\ pc = "check" /\ EndsWith(messages, "assistant")
         => Last(messages) = reply

Recorded ==
    /\ Records(messages, branch, unsaved) /\ Deferred /\ Cuts /\ Replying

\* What every step below starts from.
LEMMA RecordsTyped ==
    ASSUME IInv
    PROVE  /\ messages \in Seq(Messages) /\ branch \in Seq(Messages)
           /\ unsaved \in Messages \cup {None}
           /\ pendingBash \in Seq(Messages)
           /\ turn \in Nat /\ bashes \in Nat
  BY DEF IInv, Typed, TypeOK

\* The step records nothing, and the calls in progress stay as they are.
LEMMA RecordedStays ==
    ASSUME Recorded,
           UNCHANGED <<messages, branch, unsaved, pendingBash, turn>>,
           pc' \in {"promptCompacts", "compacting"}
             => UNCHANGED <<pc, compaction>>,
           operation' # None /\ operation'.kind = "summarizes"
             => UNCHANGED operation,
           phase' \in {"tools", "poll", "ended"}
             => UNCHANGED <<phase, lastAssistant>>,
           pc' = "post" => UNCHANGED <<pc, lastAssistant>>,
           pc' = "check" => UNCHANGED <<pc, reply>>
    PROVE  Recorded'
  <1>1. Records(messages, branch, unsaved)' /\ Deferred'
    BY DEF Recorded, Deferred
  <1>2. Cuts'
    BY DEF Recorded, Cuts
  <1>3. Replying'
    BY DEF Recorded, Replying
  <1> QED
    BY <1>1, <1>2, <1>3 DEF Recorded

LEMMA QuietRecorded ==
    ASSUME Recorded,
           \/ QueueUser \/ QueueCustom \/ QueueNextTurn \/ ClearQueue
           \/ Abort \/ Wait \/ AbortRetry \/ Prompt \/ PromptCustom \/ Compact
           \/ NavigateTree \/ PromptRefused \/ PromptStarts \/ Settled
    PROVE  Recorded'
  <1>1. CASE QueueUser
    BY <1>1, RecordedStays DEF QueueUser, KeepBounds, agentVars, logVars,
       retryVars, callVars
  <1>2. CASE QueueCustom
    BY <1>2, RecordedStays DEF QueueCustom, KeepBounds, agentVars, logVars,
       retryVars, callVars
  <1>3. CASE QueueNextTurn
    BY <1>3, RecordedStays DEF QueueNextTurn, KeepBounds, agentVars, logVars,
       retryVars, callVars
  <1>4. CASE ClearQueue
    BY <1>4, RecordedStays DEF ClearQueue, boundVars, agentVars, logVars,
       retryVars, callVars
  <1>5. CASE Abort
    BY <1>5, RecordedStays DEF Abort, CancelRetry, logVars, retryVars
  <1>6. CASE Wait
    BY <1>6, RecordedStays DEF Wait, agentVars, logVars, retryVars, callVars
  <1>7. CASE AbortRetry
    BY <1>7, RecordedStays
    DEF AbortRetry, CancelRetry, boundVars, agentVars, logVars, retryVars
  <1>8. CASE Prompt
    BY <1>8, RecordedStays DEF Prompt, KeepBounds, logVars, retryVars
  <1>9. CASE PromptCustom
    BY <1>9, RecordedStays
    DEF PromptCustom, StartAgent, KeepBounds, logVars, retryVars
  <1>10. CASE Compact
    <2>1. /\ operation'.kind \in {"waits", "prepares"}
          /\ CancelRetry
          /\ UNCHANGED <<messages, branch, unsaved, pendingBash, turn, phase,
                         compaction, reply, lastAssistant>>
      BY <1>10 DEF Compact, logVars, retryVars
    <2> QED
      BY <2>1, RecordedStays DEF CancelRetry
  <1>11. CASE NavigateTree
    <2>1. /\ operation' = None \/ operation'.kind = "navigates"
          /\ UNCHANGED <<messages, branch, unsaved, pendingBash, turn, phase,
                         compaction, reply, lastAssistant, pc>>
      BY <1>11
      DEF NavigateTree, OperationKeeps, agentVars, logVars, retryVars, callVars
    <2> QED
      BY <2>1, RecordedStays
  <1>12. CASE PromptRefused
    BY <1>12, RecordedStays DEF PromptRefused, boundVars, logVars, retryVars
  <1>13. CASE PromptStarts
    BY <1>13, RecordedStays
    DEF PromptStarts, StartAgent, boundVars, logVars, retryVars
  <1>14. CASE Settled
    <2>1. /\ operation' = operation \/ operation'.kind = "prepares"
          /\ UNCHANGED <<messages, branch, unsaved, pendingBash, turn, phase,
                         compaction, reply, lastAssistant, pc>>
      BY <1>14
      DEF Settled, agentVars, logVars, retryVars, callVars, boundVars
    <2> QED
      BY <2>1, RecordedStays
  <1> QED
    BY <1>1, <1>2, <1>3, <1>4, <1>5, <1>6, <1>7, <1>8, <1>9, <1>10, <1>11,
       <1>12, <1>13, <1>14, Zenon

\* A message is recorded while nothing runs.
LEMMA RecordedAtOnce ==
    ASSUME IInv, Recorded, ~streaming, NEW x \in Messages,
           x.role \notin {"toolResult", "compaction"},
           messages' = Append(messages, x), branch' = Append(branch, x),
           UNCHANGED <<phase, pc, compaction, operation, unsaved, pendingBash>>
    PROVE  Recorded'
  <1>1. pc \notin {"running"} \cup AfterRun /\ phase = "idle" /\ unsaved = None
    BY DEF IInv, Suspended, AfterRun
  <1>2. Records(messages', branch', unsaved')
    BY <1>1, RecordsTyped, RecordedBoth DEF Recorded
  <1>3. \A k : Keepable(branch, k) => Keepable(branch', k)
    <2>1. /\ Len(branch) \in Nat /\ Len(branch') = Len(branch) + 1
          /\ \A k \in 1..Len(branch) : branch'[k] = branch[k]
      BY RecordsTyped, AppendProperties, LenProperties
    <2>2. \A k \in 1..Len(branch) : k \in 1..Len(branch')
      BY <2>1, SMT
    <2> QED
      BY <2>1, <2>2 DEF Keepable
  <1>4. Deferred' /\ Cuts'
    BY <1>3 DEF Recorded, Deferred, Cuts
  <1>5. Replying'
    BY <1>1 DEF Replying, AfterRun
  <1> QED
    BY <1>2, <1>4, <1>5 DEF Recorded

LEMMA RecordCustomRecorded ==
    ASSUME IInv, Recorded, RecordCustom
    PROVE  Recorded'
  <1> DEFINE x == Custom(sent + 1, "record")
  <1>1. x \in Messages
    BY SubmitTyped, SubmittedTyped, MessageTypes DEF IInv, RecordCustom
  <1>2. x.role = "custom"
    BY DEF Custom
  <1>3. /\ ~streaming
        /\ messages' = Append(messages, x) /\ branch' = Append(branch, x)
        /\ UNCHANGED <<phase, pc, compaction, operation, unsaved, pendingBash>>
    BY DEF RecordCustom, agentVars, callVars
  <1> HIDE DEF x
  <1> QED
    BY <1>1, <1>2, <1>3, RecordedAtOnce

LEMMA RecordBashRecorded ==
    ASSUME IInv, Recorded, RecordBashResult
    PROVE  Recorded'
  <1> DEFINE x == Bash(bashes + 1)
  <1>1. x \in Messages /\ x.role = "bashExecution"
    <2>1. bashes + 1 \in Nat \ {0}
      BY RecordsTyped, SMT
    <2> QED
      BY <2>1, SMT DEF Bash, Messages
  <1>2. UNCHANGED <<phase, pc, compaction, operation, unsaved, turn,
                    lastAssistant, reply>>
    BY DEF RecordBashResult, agentVars, callVars, retryVars
  <1>3. CASE streaming
    <2>1. /\ pendingBash' = Append(pendingBash, x)
          /\ UNCHANGED <<messages, branch>>
      BY <1>3 DEF RecordBashResult, logVars
    <2> HIDE DEF x
    <2>2. Deferred'
      <3>1. /\ Len(pendingBash) \in Nat
            /\ Len(pendingBash') = Len(pendingBash) + 1
            /\ pendingBash'[Len(pendingBash) + 1] = x
            /\ \A i \in 1..Len(pendingBash) : pendingBash'[i] = pendingBash[i]
        BY <1>1, <2>1, RecordsTyped, AppendProperties, LenProperties
      <3>2. \A i \in 1..Len(pendingBash') :
              i \in 1..Len(pendingBash) \/ i = Len(pendingBash) + 1
        BY <3>1, SMT
      <3> QED
        BY <1>1, <3>1, <3>2 DEF Recorded, Deferred
    <2>3. Records(messages, branch, unsaved)' /\ Cuts' /\ Replying'
      BY <1>2, <2>1 DEF Recorded, Cuts, Replying
    <2> QED
      BY <2>2, <2>3 DEF Recorded
  <1>4. CASE ~streaming
    <2>1. /\ messages' = Append(messages, x) /\ branch' = Append(branch, x)
          /\ UNCHANGED pendingBash
      BY <1>4 DEF RecordBashResult
    <2> HIDE DEF x
    <2> QED
      BY <1>1, <1>2, <1>4, <2>1, RecordedAtOnce
  <1> QED
    BY <1>3, <1>4

(* The agent's run *)

LEMMA DeliverRecorded ==
    ASSUME IInv, Recorded, DeliverMessage
    PROVE  Recorded'
  <1> DEFINE x == Head(inject)
  <1>1. /\ inject \in Seq(Submitted) /\ inject # <<>>
        /\ unsaved = None /\ pc = "running"
    BY Running DEF DeliverMessage, Step, IInv, Suspended, Typed, TypeOK
  <1>2. x \in Submitted
    BY <1>1, HeadTailProperties
  <1>3. x \in Messages /\ x # None /\ x.role \in {"user", "custom"}
    <2> HIDE DEF x
    <2>1. x.role \in {"user", "custom"}
      BY <1>2, SMT DEF Submitted
    <2> QED
      BY <1>2, <2>1, MessageTypes, NoneAssumption
  <1>4. /\ messages' = Append(messages, x) /\ unsaved' = x
        /\ phase' \in {phase, "initialPoll", "request"}
        /\ phase \in {"prompts", "inject"}
        /\ UNCHANGED <<branch, pc, compaction, operation, pendingBash>>
    BY DEF DeliverMessage, callVars
  <1> HIDE DEF x
  <1>5. Fits(messages, x) /\ Fits(branch, x)
    BY <1>3 DEF Fits
  <1>6. Records(messages', branch', unsaved')
    BY <1>1, <1>3, <1>4, <1>5, RecordsTyped, RecordedFirst DEF Recorded
  <1>7. Deferred' /\ Cuts'
    BY <1>1, <1>4 DEF Recorded, Deferred, Cuts
  <1>8. Replying'
    BY <1>1, <1>4 DEF Replying
  <1> QED
    BY <1>6, <1>7, <1>8 DEF Recorded

LEMMA PollRecorded ==
    ASSUME IInv, Recorded, Poll
    PROVE  Recorded'
  <1>1. /\ unsaved = None /\ pc = "running"
        /\ phase' \in {"inject", "request"} \/ phase = "poll"
        /\ phase' \in {"inject", "request", "ended"}
        /\ UNCHANGED <<messages, branch, unsaved, pendingBash, turn, pc,
                       compaction, operation, lastAssistant, reply>>
    BY Running
    DEF Poll, Step, logVars, retryVars, callVars, boundVars
  <1>2. Records(messages, branch, unsaved)' /\ Deferred' /\ Cuts'
    BY <1>1 DEF Recorded, Deferred, Cuts
  <1>3. Replying'
    BY <1>1 DEF Recorded, Replying
  <1> QED
    BY <1>2, <1>3 DEF Recorded

LEMMA ReplyRecorded ==
    ASSUME IInv, Recorded, Reply
    PROVE  Recorded'
  <1>1. /\ unsaved = None /\ pc = "running" /\ turn' = turn + 1 /\ turn \in Nat
        /\ UNCHANGED <<branch, pc, compaction, operation, pendingBash>>
    BY Running, RecordsTyped DEF Reply, Step, callVars
  <1>2. PICK stop \in Stops :
          /\ messages' = Append(messages, Assistant(turn + 1, stop))
          /\ unsaved' = Assistant(turn + 1, stop)
          /\ phase' = CASE stop \in Errors \cup {"aborted"} -> "ended"
                        [] stop = "toolUse" -> "tools"
                        [] OTHER -> "poll"
    BY DEF Reply, Answers, Stops
  <1> DEFINE x == Assistant(turn + 1, stop)
  <1>3. turn + 1 \in Nat \ {0}
    BY <1>1
  <1>4. x \in Messages /\ x.role = "assistant" /\ x # None /\ x.stop = stop
    BY <1>3, OthersTyped, MessageTypes, NoneAssumption
  <1>5. /\ phase' \in {"ended", "tools", "poll"}
        /\ phase' = "tools" => x = Assistant(turn', "toolUse")
    BY <1>1, <1>2, Zenon
  <1>6. messages' = Append(messages, x) /\ unsaved' = x
    BY <1>2
  <1> HIDE DEF x
  <1>7. Fits(messages, x) /\ Fits(branch, x)
    BY <1>4 DEF Fits
  <1>8. Records(messages', branch', unsaved')
    BY <1>1, <1>4, <1>6, <1>7, RecordsTyped, RecordedFirst DEF Recorded
  <1>9. Deferred' /\ Cuts'
    BY <1>1 DEF Recorded, Deferred, Cuts
  <1>10. messages' # <<>> /\ Last(messages') = x
    BY <1>4, <1>6, RecordsTyped, AppendFacts
  <1>11. Replying'
    BY <1>1, <1>4, <1>5, <1>6, <1>10 DEF Replying, Calls
  <1> QED
    BY <1>8, <1>9, <1>11 DEF Recorded

LEMMA ToolReturnsRecorded ==
    ASSUME IInv, Recorded, ToolReturns
    PROVE  Recorded'
  <1> DEFINE x == Result(turn)
  <1>1. /\ unsaved = None /\ pc = "running" /\ turn \in Nat \ {0}
        /\ phase = "tools"
        /\ UNCHANGED <<branch, pc, compaction, operation, pendingBash>>
    BY Running DEF ToolReturns, Step, callVars, IInv, Typed
  <1>2. x \in Messages /\ x.role = "toolResult" /\ x.n = turn /\ x # None
    <2>1. "stop" \in Stops
      BY DEF Stops
    <2>2. x.role = "toolResult" /\ x.n = turn
      BY DEF Result
    <2> QED
      BY <1>1, <2>1, <2>2, OthersTyped, NoneAssumption
  <1>3. messages' = Append(messages, x) /\ unsaved' = x /\ phase' = "toolPoll"
    BY DEF ToolReturns
  <1> HIDE DEF x
  <1>4. Fits(messages, x) /\ Fits(branch, x)
    BY <1>1, <1>2 DEF Recorded, Replying, Calls, Fits
  <1>5. Records(messages', branch', unsaved')
    BY <1>1, <1>2, <1>3, <1>4, RecordsTyped, RecordedFirst DEF Recorded
  <1>6. Deferred' /\ Cuts'
    BY <1>1 DEF Recorded, Deferred, Cuts
  <1>7. Replying'
    BY <1>1, <1>3 DEF Replying
  <1> QED
    BY <1>5, <1>6, <1>7 DEF Recorded

LEMMA SaveRecorded ==
    ASSUME IInv, Recorded, Save
    PROVE  Recorded'
  <1>1. /\ unsaved # None /\ unsaved' = None /\ pc = "running"
        /\ branch' = Append(branch, unsaved)
        /\ UNCHANGED <<messages, pc, compaction, operation, pendingBash, phase,
                       turn>>
    BY DEF Save, IInv, Suspended, callVars, agentVars, boundVars
  <1>2. Records(messages', branch', unsaved')
    BY <1>1, RecordsTyped, RecordedThen DEF Recorded
  <1>3. Deferred'
    BY <1>1 DEF Recorded, Deferred
  <1>4. operation # None => operation.kind = "waits"
    BY <1>1 DEF IInv, Operating
  <1>5. Cuts'
    BY <1>1, <1>4 DEF Cuts
  <1>6. branch' # <<>> /\ Last(branch') = unsaved
    BY <1>1, RecordsTyped, AppendFacts
  <1>7. phase \in {"poll", "ended"} => lastAssistant' = unsaved
    BY <1>1 DEF IInv, LastReplySaved, Save
  <1>8. Replying'
    BY <1>1, <1>6, <1>7 DEF Recorded, Replying, Calls
  <1> QED
    BY <1>2, <1>3, <1>5, <1>8 DEF Recorded

LEMMA AgentEndsRecorded ==
    ASSUME IInv, Recorded, AgentEnds
    PROVE  Recorded'
  <1>1. /\ unsaved = None /\ phase = "ended" /\ phase' = "idle" /\ pc' = "post"
        /\ UNCHANGED <<messages, branch, unsaved, pendingBash, turn,
                       compaction, operation, lastAssistant, reply>>
    BY DEF AgentEnds, Step, StartAgent, logVars, retryVars, boundVars
  <1>2. Records(messages, branch, unsaved)' /\ Deferred' /\ Cuts'
    BY <1>1 DEF Recorded, Deferred, Cuts
  <1>3. Replying'
    BY <1>1 DEF Recorded, Replying
  <1> QED
    BY <1>2, <1>3 DEF Recorded
-----------------------------------------------------------------------------
(* prompt(), compact() and navigateTree() *)

LEMMA CutPointsKeepable ==
    ASSUME branch \in Seq(Messages), NEW k \in CutPoints(branch)
    PROVE  Keepable(branch, k)
  <1>1. k \in 1..Len(branch)
    BY CutPointsTyped
  <1>2. branch[k].role # "toolResult"
    BY DEF CutPoints
  <1> QED
    BY <1>1, <1>2 DEF Keepable

LEMMA PrepareKeepable ==
    ASSUME IInv, NEW msgs, NEW b, Prepare(msgs, b)
    PROVE  Keepable(branch, compaction'.kept) /\ messages' = msgs
  <1>1. PICK k \in CutPoints(branch) :
               compaction' = [kept |-> k, retry |-> b]
    BY DEF Prepare
  <1>2. Keepable(branch, k) /\ compaction'.kept = k
    BY <1>1, RecordsTyped, CutPointsKeepable
  <1> QED
    BY <1>2 DEF Prepare

LEMMA WithoutReplyRecorded ==
    ASSUME IInv, Records(messages, branch, unsaved),
           EndsWith(messages, "assistant") => ~Lasts(Last(messages))
    PROVE  /\ WithoutReply \in Seq(Messages)
           /\ Records(WithoutReply, branch, unsaved)
  <1>1. CASE EndsWith(messages, "assistant")
    <2>1. messages # <<>> /\ WithoutReply = Front(messages)
      BY <1>1 DEF EndsWith, WithoutReply
    <2> QED
      BY <1>1, <2>1, RecordsTyped, RecordedLess
  <1>2. CASE ~EndsWith(messages, "assistant")
    BY <1>2, RecordsTyped DEF WithoutReply
  <1> QED
    BY <1>1, <1>2

\* LastReply is what a transcript that ends with a reply ends with.
LEMMA LastReplyIsLast ==
    ASSUME messages \in Seq(Messages), EndsWith(messages, "assistant")
    PROVE  LastReply = Last(messages)
  <1> DEFINE n == Len(messages)
             last == CHOOSE i \in Replies : \A j \in Replies : j <= i
  <1>1. n \in Nat /\ n # 0 /\ DOMAIN messages = 1..n
    BY EmptySeq, LenProperties DEF EndsWith
  <1>2. n \in Replies /\ \A j \in Replies : j \in 1..n
    BY <1>1 DEF EndsWith, Replies, Last
  <1>3. \A j \in Replies : j <= n
    BY <1>1, <1>2, SMT
  <1>4. last \in Replies /\ \A j \in Replies : j <= last
    BY <1>2, <1>3
  <1>5. last <= n /\ n <= last /\ last \in 1..n
    BY <1>2, <1>3, <1>4
  <1> HIDE DEF last
  <1>6. last = n
    <2>1. n \in Int /\ last \in Int /\ last <= n /\ n <= last
      BY <1>1, <1>5
    <2> HIDE DEF n
    <2> QED
      BY <2>1
  <1>7. LastReply = messages[last]
    BY DEF LastReply, last
  <1> QED
    BY <1>6, <1>7 DEF Last, n

LEMMA PromptChecksRecorded ==
    ASSUME IInv, Recorded, PromptRecovers \/ PromptChecked
    PROVE  Recorded'
  <1> DEFINE msgs == IF PromptRecovers THEN WithoutReply ELSE messages
  <1>1. /\ pc = "preflight"
        /\ UNCHANGED <<branch, unsaved, pendingBash, turn, phase, operation,
                       lastAssistant, reply>>
    BY DEF PromptRecovers, PromptChecked, retryVars
  <1>2. phase = "idle" /\ operation = None
    BY <1>1, PreparedIdle DEF Preparing
  <1>3. Records(msgs, branch, unsaved)
    <2>1. CASE PromptRecovers
      <3>1. EndsWith(messages, "assistant") => ~Lasts(Last(messages))
        <4> SUFFICES ASSUME EndsWith(messages, "assistant")
                     PROVE  ~Lasts(Last(messages))
          OBVIOUS
        <4>1. LastReply = Last(messages) /\ Last(messages).role = "assistant"
          BY RecordsTyped, LastReplyIsLast DEF EndsWith
        <4>2. LastReply.stop \in {"overflow", "length"}
          BY <2>1 DEF PromptRecovers, RecoveryDue, Recoverable
        <4> QED
          BY <4>1, <4>2 DEF Lasts, Errors
      <3> QED
        BY <2>1, <3>1, WithoutReplyRecorded DEF Recorded
    <2>2. CASE ~PromptRecovers
      BY <2>2 DEF Recorded
    <2> QED
      BY <2>1, <2>2
  <1>4. /\ messages' = msgs
        /\ \/ pc' = "promptCompacts" /\ Keepable(branch, compaction'.kept)
           \/ pc' = "starting"
    <2>1. CASE PromptRecovers
      <3>1. CASE Prepare(WithoutReply, TRUE) /\ pc' = "promptCompacts"
        BY <2>1, <3>1, PrepareKeepable
      <3>2. CASE Unprepared(WithoutReply) /\ Build
        BY <2>1, <3>2 DEF Unprepared, Build
      <3> QED
        BY <2>1, <3>1, <3>2 DEF PromptRecovers
    <2>2. CASE ~PromptRecovers
      <3>1. CASE Prepare(messages, FALSE) /\ pc' = "promptCompacts"
        BY <2>2, <3>1, PrepareKeepable
      <3>2. CASE Unprepared(messages) /\ Build
        BY <2>2, <3>2 DEF Unprepared, Build
      <3> QED
        BY <2>2, <3>1, <3>2 DEF PromptChecked
    <2> QED
      BY <2>1, <2>2
  <1> HIDE DEF msgs
  <1>5. Records(messages, branch, unsaved)' /\ Deferred'
    BY <1>1, <1>3, <1>4 DEF Recorded, Deferred
  <1>6. Cuts' /\ Replying'
    BY <1>1, <1>2, <1>4 DEF Cuts, Replying
  <1> QED
    BY <1>5, <1>6 DEF Recorded

LEMMA CompactedRecorded ==
    ASSUME NEW b \in Seq(Messages), Rooted(b), NEW k \in Nat \ {0},
           NEW n \in Nat, Keepable(b, k)
    PROVE  LET a == Append(b, Compaction(k, n)) IN
           /\ a \in Seq(Messages) /\ Context(a) \in Seq(Messages)
           /\ Rooted(a) /\ Records(Context(a), a, None)
  <1> DEFINE m == Compaction(k, n)
             a == Append(b, m)
  <1>1. m \in Messages /\ m.role = "compaction" /\ m.kept = k
    BY CompactionTyped
  <1> HIDE DEF m
  <1>2. a \in Seq(Messages) /\ Rooted(a)
    BY <1>1, RootedAppend DEF Fits
  <1> HIDE DEF a
  <1>3. Context(a) \in Seq(Messages) /\ Records(Context(a), a, None)
    BY <1>2, RecordedAgain
  <1> QED
    BY <1>2, <1>3 DEF a, m

LEMMA RebuiltRecorded ==
    ASSUME IInv, Recorded, pc \in {"promptCompacts", "compacting"}
    PROVE  /\ Compacted \in Seq(Messages) /\ Rebuilt \in Seq(Messages)
           /\ Records(Rebuilt, Compacted, None)
  <1>1. /\ branch \in Seq(Messages) /\ Rooted(branch) /\ turn \in Nat
        /\ Keepable(branch, compaction.kept)
    BY RecordsTyped DEF Recorded, Records, Cuts
  <1>2. compaction.kept \in Nat \ {0}
    BY DEF IInv, Typed, Suspended
  <1> DEFINE c == Context(Compacted)
  <1>3. /\ Compacted \in Seq(Messages) /\ c \in Seq(Messages)
        /\ Records(c, Compacted, None)
    BY <1>1, <1>2, CompactedRecorded DEF Compacted
  <1> DEFINE off == /\ compaction.retry /\ EndsWith(c, "assistant")
                    /\ Last(c).stop \in Errors \cup {"length"}
  <1>4. Rebuilt = IF off THEN Front(c) ELSE c
    BY DEF Rebuilt
  <1>5. CASE off
    <2>1. c # <<>> /\ ~Lasts(Last(c))
      BY <1>5 DEF EndsWith, Lasts
    <2> HIDE DEF c
    <2> QED
      BY <1>3, <1>4, <1>5, <2>1, RecordedLess
  <1>6. CASE ~off
    BY <1>3, <1>4, <1>6
  <1> QED
    BY <1>5, <1>6

LEMMA PromptCompactedRecorded ==
    ASSUME IInv, Recorded, PromptCompacted
    PROVE  Recorded'
  <1>1. /\ pc = "promptCompacts" /\ pc' = "starting"
        /\ UNCHANGED <<unsaved, pendingBash, turn, phase, operation>>
    BY DEF PromptCompacted, Build, boundVars
  <1>2. phase = "idle" /\ operation = None /\ unsaved = None
    BY <1>1, PreparedIdle DEF Preparing, IInv, Suspended
  <1>3. Records(messages', branch', unsaved')
    <2>1. CASE messages' = Rebuilt /\ branch' = Compacted
      BY <1>1, <1>2, <2>1, RebuiltRecorded
    <2>2. CASE UNCHANGED logVars
      BY <1>1, <2>2 DEF Recorded, logVars
    <2> QED
      BY <2>1, <2>2 DEF PromptCompacted
  <1>4. Deferred' /\ Cuts' /\ Replying'
    BY <1>1, <1>2 DEF Recorded, Deferred, Cuts, Replying
  <1> QED
    BY <1>3, <1>4 DEF Recorded

\* compact() and navigateTree() work while nothing runs.
LEMMA WorksRecorded ==
    ASSUME IInv, Recorded, operation # None, operation.kind # "waits",
           OperationKeeps, Records(messages', branch', None),
           operation' # None /\ operation'.kind = "summarizes"
             => Keepable(branch', operation'.at)
    PROVE  Recorded'
  <1>1. /\ pc = "none"
        /\ UNCHANGED <<pc, phase, unsaved, pendingBash, turn>>
    BY Works DEF OperationKeeps, callVars, agentVars
  <1>2. phase = "idle" /\ unsaved = None
    BY <1>1 DEF IInv, Suspended
  <1>3. Records(messages', branch', unsaved')
    BY <1>1, <1>2
  <1>4. Deferred' /\ Cuts' /\ Replying'
    BY <1>1, <1>2 DEF Recorded, Deferred, Cuts, Replying
  <1> QED
    BY <1>3, <1>4 DEF Recorded

LEMMA IdleRecords ==
    ASSUME IInv, Recorded, operation # None, operation.kind # "waits"
    PROVE  Records(messages, branch, None) /\ Rooted(branch)
  BY Works DEF Recorded, Records, IInv, Suspended

LEMMA CompactPreparesRecorded ==
    ASSUME IInv, Recorded, CompactPrepares
    PROVE  Recorded'
  <1>1. /\ operation # None /\ operation.kind # "waits" /\ OperationKeeps
        /\ UNCHANGED <<messages, branch>>
    BY DEF CompactPrepares, logVars
  <1>2. operation' # None /\ operation'.kind = "summarizes"
          => Keepable(branch', operation'.at)
    <2>1. CASE operation' = None
      BY <2>1
    <2>2. CASE \E k \in CutPoints(branch) :
                 operation' = [kind |-> "summarizes", at |-> k]
      BY <1>1, <2>2, RecordsTyped, CutPointsKeepable
    <2> QED
      BY <2>1, <2>2 DEF CompactPrepares
  <1> QED
    BY <1>1, <1>2, IdleRecords, WorksRecorded

LEMMA CompactEndsRecorded ==
    ASSUME IInv, Recorded, CompactEnds
    PROVE  Recorded'
  <1>1. /\ operation # None /\ operation.kind = "summarizes"
        /\ OperationKeeps /\ operation' = None
    BY DEF CompactEnds
  <1>2. Records(messages', branch', None)
    <2>1. CASE UNCHANGED logVars
      BY <1>1, <2>1, IdleRecords DEF logVars
    <2>2. CASE /\ branch' = Append(branch, Compaction(operation.at, turn))
               /\ messages' = Context(branch')
      <3>1. operation.at \in Nat \ {0} /\ Keepable(branch, operation.at)
        BY <1>1 DEF Recorded, Cuts, IInv, Typed, Operating
      <3> QED
        BY <1>1, <2>2, <3>1, IdleRecords, RecordsTyped, CompactedRecorded
    <2> QED
      BY <2>1, <2>2 DEF CompactEnds
  <1> QED
    BY <1>1, <1>2, WorksRecorded

LEMMA NavigationEndsRecorded ==
    ASSUME IInv, Recorded, NavigationEnds
    PROVE  Recorded'
  <1>1. /\ operation # None /\ operation.kind = "navigates"
        /\ OperationKeeps /\ operation' = None
    BY DEF NavigationEnds
  <1>2. Records(messages', branch', None)
    <2>1. CASE UNCHANGED logVars
      BY <1>1, <2>1, IdleRecords DEF logVars
    <2>2. CASE /\ \E summary \in {<<>>, <<BranchSummary>>} :
                    branch' = SubSeq(branch, 1, operation.at) \o summary
               /\ messages' = Context(branch')
      <3>1. PICK summary \in {<<>>, <<BranchSummary>>} :
                   branch' = SubSeq(branch, 1, operation.at) \o summary
        BY <2>2
      <3>2. BranchSummary \in Messages /\ BranchSummary.role = "branchSummary"
        BY MessageTypes DEF BranchSummary
      <3>3. /\ summary \in Seq(Messages)
            /\ \A i \in 1..Len(summary) :
                 summary[i].role \notin {"toolResult", "compaction"}
        <4>1. CASE summary = <<>>
          BY <4>1, EmptySeq, SMT
        <4>2. CASE summary = <<BranchSummary>>
          <5> DEFINE x == BranchSummary
          <5> HIDE DEF x
          <5>1. x \in Messages /\ x.role = "branchSummary"
            BY <3>2 DEF x
          <5>2. /\ <<x>> \in Seq(Messages) /\ Len(<<x>>) = 1 /\ <<x>>[1] = x
            BY <5>1, SMT
          <5>3. \A i \in 1..1 : i = 1
            BY SMT
          <5> QED
            BY <4>2, <5>1, <5>2, <5>3 DEF x
        <4> QED
          BY <3>1, <4>1, <4>2
      <3>4. operation.at \in 0..Len(branch)
        BY <1>1 DEF IInv, Operating
      <3> DEFINE b == SubSeq(branch, 1, operation.at)
      <3>5. b \in Seq(Messages) /\ Rooted(b)
        BY <1>1, <3>4, RecordsTyped, IdleRecords, RootedPrefix
      <3> HIDE DEF b
      <3>6. branch' \in Seq(Messages) /\ Rooted(branch')
        BY <3>1, <3>3, <3>5, RootedConcat DEF b
      <3> QED
        BY <2>2, <3>6, RecordedAgain
    <2> QED
      BY <2>1, <2>2 DEF NavigationEnds
  <1> QED
    BY <1>1, <1>2, WorksRecorded

(* After a run *)

\* The run's call goes on or settles, with what it has made of the records.
LEMMA GoOnRecorded ==
    ASSUME IInv, Recorded, pc \in AfterRun,
           NEW msgs \in Seq(Messages), NEW entries \in Seq(Messages),
           Records(msgs, entries, None), NEW n,
           Continue(msgs, entries, n) \/ GoOnIfQueued(msgs, entries),
           UNCHANGED <<unsaved, operation>>
    PROVE  Recorded'
  <1>1. /\ phase = "idle" /\ unsaved = None /\ unsaved' = None
        /\ operation # None => operation.kind = "waits"
        /\ pendingBash \in Seq(Messages) /\ Deferred
    BY AfterRunFacts, RecordsTyped DEF Recorded
  <1>2. ASSUME Settle(msgs, entries)
        PROVE  /\ pc' = "none" /\ phase' = "idle" /\ Deferred'
               /\ Records(messages', branch', None)
    <2>1. /\ messages' = msgs \o pendingBash
          /\ branch' = entries \o pendingBash
          /\ pc' = "none" /\ phase' = phase /\ pendingBash' = <<>>
      BY <1>2 DEF Settle, agentVars
    <2>2. Records(messages', branch', None)
      BY <1>1, <2>1, RecordedAfter DEF Deferred
    <2> QED
      BY <1>1, <2>1, <2>2, EmptySeq DEF Deferred
  <1>3. ASSUME NEW k, Continue(msgs, entries, k)
        PROVE  \/ Settle(msgs, entries)
               \/ /\ messages' = msgs /\ branch' = entries /\ pc' = "running"
                  /\ phase' \in {"inject", "prompts", "initialPoll"}
                  /\ UNCHANGED pendingBash
    BY <1>3 DEF Continue, StartAgent
  <1>4. \/ Settle(msgs, entries)
        \/ /\ messages' = msgs /\ branch' = entries /\ pc' = "running"
           /\ phase' \in {"inject", "prompts", "initialPoll"}
           /\ UNCHANGED pendingBash
    BY <1>3 DEF GoOnIfQueued
  <1>5. CASE Settle(msgs, entries)
    <2>1. Records(messages', branch', unsaved') /\ Deferred'
      BY <1>1, <1>2, <1>5
    <2>2. Cuts' /\ Replying'
      BY <1>1, <1>2, <1>5 DEF Cuts, Replying
    <2> QED
      BY <2>1, <2>2 DEF Recorded
  <1>6. CASE /\ messages' = msgs /\ branch' = entries /\ pc' = "running"
             /\ phase' \in {"inject", "prompts", "initialPoll"}
             /\ UNCHANGED pendingBash
    <2>1. Records(messages', branch', unsaved') /\ Deferred'
      BY <1>1, <1>6 DEF Deferred
    <2>2. Cuts' /\ Replying'
      BY <1>1, <1>6 DEF Cuts, Replying
    <2> QED
      BY <2>1, <2>2 DEF Recorded
  <1> QED
    BY <1>4, <1>5, <1>6

\* The call stays suspended, with nothing recorded meanwhile.
LEMMA AfterStays ==
    ASSUME IInv, Recorded, pc \in AfterRun,
           Records(messages', branch, None),
           UNCHANGED <<branch, unsaved, operation, pendingBash, phase>>,
           \/ pc' = "sleeping"
           \/ /\ pc' = "check"
              /\ EndsWith(messages', "assistant") => Last(messages') = reply'
           \/ pc' = "compacting" /\ Keepable(branch, compaction'.kept)
    PROVE  Recorded'
  <1>1. /\ phase = "idle" /\ unsaved = None
        /\ operation # None => operation.kind = "waits"
    BY AfterRunFacts
  <1>2. Records(messages', branch', unsaved') /\ Deferred'
    BY <1>1 DEF Recorded, Deferred
  <1>3. Cuts' /\ Replying'
    BY <1>1 DEF Cuts, Replying
  <1> QED
    BY <1>2, <1>3 DEF Recorded

LEMMA AfterRecords ==
    ASSUME IInv, Recorded, pc \in AfterRun
    PROVE  /\ Records(messages, branch, None) /\ unsaved = None
           /\ messages \in Seq(Messages) /\ branch \in Seq(Messages)
  BY AfterRunFacts, RecordsTyped DEF Recorded

LEMMA PrepareRetryRecorded ==
    ASSUME IInv, Recorded, PrepareRetry
    PROVE  Recorded'
  <1>1. /\ pc = "post" /\ pc' = "sleeping" /\ lastAssistant.stop = "error"
        /\ messages' = WithoutReply
        /\ UNCHANGED <<branch, unsaved, operation, pendingBash, phase>>
    BY DEF PrepareRetry, Retryable, agentVars
  <1>2. pc \in AfterRun
    BY <1>1 DEF AfterRun
  <1>3. EndsWith(messages, "assistant") => ~Lasts(Last(messages))
    BY <1>1 DEF Recorded, Replying, Lasts, Errors, EndsWith
  <1>4. Records(messages', branch, None)
    BY <1>1, <1>2, <1>3, AfterRecords, WithoutReplyRecorded
  <1> QED
    BY <1>1, <1>2, <1>4, AfterStays

LEMMA NoRetryRecorded ==
    ASSUME IInv, Recorded, NoRetry
    PROVE  Recorded'
  <1>1. /\ pc = "post" /\ pc' = "check" /\ reply' = lastAssistant
        /\ UNCHANGED <<messages, branch, unsaved, operation, pendingBash,
                       phase>>
    BY DEF NoRetry, agentVars, logVars
  <1>2. pc \in AfterRun
    BY <1>1 DEF AfterRun
  <1>3. Records(messages', branch, None)
    BY <1>1, <1>2, AfterRecords
  <1>4. Last(messages') = reply'
    BY <1>1 DEF Recorded, Replying
  <1> QED
    BY <1>1, <1>2, <1>3, <1>4, AfterStays

LEMMA RetryCancelledRecorded ==
    ASSUME IInv, Recorded, RetryCancelled
    PROVE  Recorded'
  <1>1. /\ pc = "retryCancelled" /\ pc' = "check"
        /\ UNCHANGED <<messages, branch, unsaved, operation, pendingBash,
                       phase>>
    BY DEF RetryCancelled, agentVars, logVars
  <1>2. pc \in AfterRun
    BY <1>1 DEF AfterRun
  <1>3. Records(messages', branch, None)
    BY <1>1, <1>2, AfterRecords
  <1>4. ~EndsWith(messages', "assistant")
    BY <1>1 DEF IInv, Transcript, Open
  <1> QED
    BY <1>1, <1>2, <1>3, <1>4, AfterStays

LEMMA RetryDueRecorded ==
    ASSUME IInv, Recorded, RetryDue
    PROVE  Recorded'
  <1>1. /\ pc \in AfterRun /\ Continue(messages, branch, 1)
        /\ UNCHANGED <<unsaved, operation>>
    BY DEF RetryDue, AfterRun
  <1> QED
    BY <1>1, AfterRecords, GoOnRecorded

LEMMA RecoverRecorded ==
    ASSUME IInv, Recorded, Recover
    PROVE  Recorded'
  <1>1. /\ pc = "check" /\ RecoveryDue(reply)
        /\ UNCHANGED <<unsaved, operation>>
    BY DEF Recover
  <1>2. pc \in AfterRun
    BY <1>1 DEF AfterRun
  <1>3. EndsWith(messages, "assistant") => ~Lasts(Last(messages))
    BY <1>1 DEF Recorded, Replying, Lasts, Errors, EndsWith, RecoveryDue,
       Recoverable
  <1>4. /\ WithoutReply \in Seq(Messages)
        /\ Records(WithoutReply, branch, None)
    BY <1>2, <1>3, AfterRecords, WithoutReplyRecorded
  <1>5. CASE /\ Prepare(WithoutReply, TRUE) /\ pc' = "compacting"
             /\ UNCHANGED <<agentVars, queueVars, branch, reply, historyVars,
                            idleVars, pendingBash>>
    <2>1. UNCHANGED <<branch, unsaved, operation, pendingBash, phase>>
      BY <1>1, <1>5 DEF agentVars
    <2>2. /\ Keepable(branch, compaction'.kept) /\ messages' = WithoutReply
      BY <1>5, PrepareKeepable
    <2> QED
      BY <1>2, <1>4, <1>5, <2>1, <2>2, AfterStays
  <1>6. CASE GoOnIfQueued(WithoutReply, branch)
    BY <1>1, <1>2, <1>4, <1>6, AfterRecords, GoOnRecorded
  <1> QED
    BY <1>5, <1>6, Zenon DEF Recover

LEMMA CheckedRecorded ==
    ASSUME IInv, Recorded, Checked
    PROVE  Recorded'
  <1>1. pc = "check" /\ UNCHANGED <<unsaved, operation>>
    BY DEF Checked
  <1>2. pc \in AfterRun
    BY <1>1 DEF AfterRun
  <1>3. CASE /\ Prepare(messages, FALSE) /\ pc' = "compacting"
             /\ UNCHANGED <<agentVars, queueVars, branch, reply, historyVars,
                            idleVars, pendingBash>>
    <2>1. UNCHANGED <<branch, unsaved, operation, pendingBash, phase>>
      BY <1>1, <1>3 DEF agentVars
    <2>2. Keepable(branch, compaction'.kept) /\ messages' = messages
      BY <1>3, PrepareKeepable
    <2> QED
      BY <1>2, <1>3, <2>1, <2>2, AfterRecords, AfterStays
  <1>4. CASE GoOnIfQueued(messages, branch)
    BY <1>1, <1>2, <1>4, AfterRecords, GoOnRecorded
  <1> QED
    BY <1>3, <1>4, Zenon DEF Checked

LEMMA CompactionEndsRecorded ==
    ASSUME IInv, Recorded, CompactionSucceeds \/ CompactionFails
    PROVE  Recorded'
  <1>1. pc = "compacting" /\ UNCHANGED <<unsaved, operation>>
    BY DEF CompactionSucceeds, CompactionFails
  <1>2. pc \in AfterRun
    BY <1>1 DEF AfterRun
  <1>3. CASE CompactionSucceeds
    <2>1. /\ Compacted \in Seq(Messages) /\ Rebuilt \in Seq(Messages)
          /\ Records(Rebuilt, Compacted, None)
      BY <1>1, RebuiltRecorded
    <2>2. \/ Continue(Rebuilt, Compacted, 1)
          \/ GoOnIfQueued(Rebuilt, Compacted)
      BY <1>3 DEF CompactionSucceeds
    <2> QED
      BY <1>1, <1>2, <2>1, <2>2, GoOnRecorded
  <1>4. CASE CompactionFails
    <2>1. GoOnIfQueued(messages, branch)
      BY <1>4 DEF CompactionFails
    <2> QED
      BY <1>1, <1>2, <2>1, AfterRecords, GoOnRecorded
  <1> QED
    BY <1>3, <1>4

LEMMA RecordedInit == Init => Recorded
  <1> SUFFICES ASSUME Init
               PROVE  Recorded
    OBVIOUS
  <1>1. Len(<<>>) = 0 /\ \A i \in 1..0 : FALSE
    BY SMT
  <1>2. Follows(<<>>) /\ Rooted(<<>>)
    BY <1>1 DEF Follows, Rooted, KeptFit
  <1>3. Context(<<>>) = <<>>
    <2>1. CompactionsOf(<<>>) = {}
      BY <1>1, SMT DEF CompactionsOf
    <2> QED
      BY <2>1 DEF Context
  <1>4. Records(messages, branch, unsaved)
    BY <1>2, <1>3 DEF Init, Records, Shown
  <1>5. Deferred
    BY <1>1 DEF Init, Deferred
  <1>6. Cuts /\ Replying
    BY DEF Init, Cuts, Replying
  <1> QED
    BY <1>4, <1>5, <1>6 DEF Recorded

LEMMA RecordedStep ==
    ASSUME IInv, Recorded, [Next]_vars
    PROVE  Recorded'
  <1>1. CASE UNCHANGED vars
    <2>1. UNCHANGED <<messages, branch, unsaved, pendingBash, turn, pc,
                      compaction, operation, phase, lastAssistant, reply>>
      BY <1>1 DEF vars, agentVars, logVars, retryVars, callVars, boundVars
    <2> QED
      BY <2>1, RecordedStays
  <1>2. CASE Caller
    BY <1>2, QuietRecorded, RecordCustomRecorded, RecordBashRecorded, Zenon
    DEF Caller
  <1>3. CASE AgentRun
    BY <1>3, DeliverRecorded, PollRecorded, ReplyRecorded,
       ToolReturnsRecorded, SaveRecorded, AgentEndsRecorded, Zenon
    DEF AgentRun
  <1>4. CASE Preflight
    BY <1>4, QuietRecorded, PromptChecksRecorded, PromptCompactedRecorded,
       Zenon DEF Preflight
  <1>5. CASE PostRun
    BY <1>5, PrepareRetryRecorded, NoRetryRecorded, RetryDueRecorded,
       RetryCancelledRecorded, RecoverRecorded, CheckedRecorded,
       CompactionEndsRecorded, Zenon DEF PostRun
  <1>6. CASE Settled
    BY <1>6, QuietRecorded, Zenon
  <1>7. CASE Operation
    BY <1>7, CompactPreparesRecorded, CompactEndsRecorded,
       NavigationEndsRecorded, Zenon DEF Operation
  <1> QED
    BY <1>1, <1>2, <1>3, <1>4, <1>5, <1>6, <1>7, Zenon DEF Next, Run

LEMMA RecordsKept == Spec => [](IInv /\ Recorded)
  <1>1. IInv /\ Recorded /\ [Next]_vars => (IInv /\ Recorded)'
    BY StepInv, RecordedStep
  <1> QED
    BY InitInv, RecordedInit, <1>1, PTL DEF Spec

\* Whatever retries, recoveries, compactions, navigations and shell commands
\* have made of the agent's transcript and of the session's branch, a tool
\* result directly follows its call in the one, and in the context that
\* buildSessionContext rebuilds from the other.
THEOREM ResultsStayWithCalls == Spec => []ResultsFollowCalls
  <1>1. IInv /\ Recorded => ResultsFollowCalls
    <2> SUFFICES ASSUME IInv, Recorded
                 PROVE  ResultsFollowCalls
      OBVIOUS
    <2>1. \A s \in Seq(Messages) : Follows(s) =>
            \A i \in DOMAIN s : s[i].role = "toolResult" =>
              i > 1 /\ s[i - 1] = Assistant(s[i].n, "toolUse")
      BY LenProperties DEF Follows
    <2>2. /\ Context(branch) \in Seq(Messages)
          /\ Follows(messages) /\ Follows(Context(branch))
      BY RecordsTyped, FollowsContext DEF Recorded, Records
    <2> QED
      BY <2>1, <2>2, RecordsTyped DEF ResultsFollowCalls
  <1> QED
    BY RecordsKept, <1>1, PTL

\* The transcript that the provider is sent and the branch that a resumed
\* session is rebuilt from tell the same story, failed replies apart: for any
\* number of messages, compactions and navigations, with a message_end being
\* delivered or not.
THEOREM ContextIsSession == Spec => []ContextMatchesSession
  <1>1. IInv /\ Recorded => ContextMatchesSession
    BY RecordsTyped, RecordsMatch DEF Recorded, ContextMatchesSession
  <1> QED
    BY RecordsKept, <1>1, PTL
-----------------------------------------------------------------------------
(* How often a sequence holds members of a set *)

Hits(s, H) == Cardinality({i \in 1..Len(s) : s[i] \in H})

LEMMA HitsNat ==
    ASSUME NEW E, NEW s \in Seq(E), NEW H
    PROVE  Hits(s, H) \in Nat
  <1>1. IsFiniteSet(1..Len(s))
    BY FS_Interval, LenProperties
  <1>2. IsFiniteSet({i \in 1..Len(s) : s[i] \in H})
    BY <1>1, FS_Subset
  <1> QED
    BY <1>2, FS_CardinalityType DEF Hits

LEMMA HitsEmpty ==
    ASSUME NEW H
    PROVE  Hits(<<>>, H) = 0
  <1>1. Len(<<>>) = 0 /\ \A i \in 1..0 : FALSE
    BY SMT
  <1>2. {i \in 1..Len(<<>>) : <<>>[i] \in H} = {}
    BY <1>1
  <1> QED
    BY <1>2, FS_EmptySet DEF Hits

LEMMA HitsAppend ==
    ASSUME NEW E, NEW s \in Seq(E), NEW e \in E, NEW H
    PROVE  Hits(Append(s, e), H) = Hits(s, H) + IF e \in H THEN 1 ELSE 0
  <1> DEFINE c == Append(s, e)
             n == Len(s)
             I == {i \in 1..n : s[i] \in H}
             J == {i \in 1..Len(c) : c[i] \in H}
  <1>1. /\ n \in Nat /\ Len(c) = n + 1 /\ c[n + 1] = e
        /\ \A i \in 1..n : c[i] = s[i]
    BY AppendProperties, LenProperties
  <1> HIDE DEF c, n
  <1>2. /\ \A i \in 1..n + 1 : i \in 1..n \/ i = n + 1
        /\ \A i \in 1..n : i \in 1..n + 1
        /\ n + 1 \in 1..n + 1 /\ n + 1 \notin 1..n
    BY <1>1, SMT
  <1>3. J = IF e \in H THEN I \cup {n + 1} ELSE I
    <2>1. J = {i \in 1..n + 1 : c[i] \in H}
      BY <1>1
    <2> QED
      BY <1>1, <1>2, <2>1
  <1>4. IsFiniteSet(I)
    <2>1. IsFiniteSet(1..n)
      BY <1>1, FS_Interval
    <2> QED
      BY <2>1, FS_Subset
  <1>5. n + 1 \notin I /\ Cardinality(I) \in Nat
    BY <1>2, <1>4, FS_CardinalityType
  <1>6. Hits(c, H) = Cardinality(J) /\ Hits(s, H) = Cardinality(I)
    BY DEF Hits, n
  <1> HIDE DEF I, J
  <1>7. CASE e \in H
    BY <1>3, <1>4, <1>5, <1>6, <1>7, FS_AddElement DEF c
  <1>8. CASE e \notin H
    BY <1>3, <1>5, <1>6, <1>8 DEF c
  <1> QED
    BY <1>7, <1>8

LEMMA HitsConcat ==
    ASSUME NEW E, NEW s \in Seq(E), NEW t \in Seq(E), NEW H
    PROVE  Hits(s \o t, H) = Hits(s, H) + Hits(t, H)
  <1> DEFINE T == {u \in Seq(E) : Hits(s \o u, H) = Hits(s, H) + Hits(u, H)}
  <1>1. <<>> \in T
    <2>1. s \o <<>> = s /\ <<>> \in Seq(E)
      BY ConcatEmptySeq, EmptySeq
    <2>2. Hits(s, H) \in Nat /\ Hits(<<>>, H) = 0
      BY HitsNat, HitsEmpty
    <2>3. Hits(s, H) + 0 = Hits(s, H)
      BY <2>2
    <2> QED
      BY <2>1, <2>2, <2>3
  <1>2. ASSUME NEW u \in Seq(E), NEW e \in E, u \in T
        PROVE  Append(u, e) \in T
    <2>1. /\ <<e>> \in Seq(E) /\ s \o u \in Seq(E)
          /\ Append(u, e) \in Seq(E) /\ Append(u, e) = u \o <<e>>
      BY AppendIsConcat, AppendProperties, ConcatProperties
    <2>2. s \o Append(u, e) = Append(s \o u, e)
      <3>1. Append(s \o u, e) = (s \o u) \o <<e>>
        BY <2>1, AppendIsConcat
      <3>2. (s \o u) \o <<e>> = s \o (u \o <<e>>)
        BY <2>1, ConcatAssociative
      <3> QED
        BY <2>1, <3>1, <3>2
    <2> DEFINE d == IF e \in H THEN 1 ELSE 0
    <2>3. /\ Hits(Append(s \o u, e), H) = Hits(s \o u, H) + d
          /\ Hits(Append(u, e), H) = Hits(u, H) + d
      BY <2>1, HitsAppend
    <2>4. /\ Hits(s, H) \in Nat /\ Hits(u, H) \in Nat /\ d \in Nat
          /\ Hits(s \o u, H) = Hits(s, H) + Hits(u, H)
      BY <1>2, HitsNat
    <2> DEFINE a == Hits(s, H)
               b == Hits(u, H)
    <2>5. (a + b) + d = a + (b + d)
      <3>1. a \in Nat /\ b \in Nat /\ d \in Nat
        BY <2>4
      <3> HIDE DEF a, b, d
      <3> QED
        BY <3>1
    <2>6. Hits(s \o Append(u, e), H) = Hits(s, H) + Hits(Append(u, e), H)
      BY <2>2, <2>3, <2>4, <2>5
    <2> QED
      BY <2>1, <2>6
  <1> HIDE DEF T
  <1>3. t \in T
    BY <1>1, <1>2, SequenceInduction
  <1> QED
    BY <1>3 DEF T

LEMMA HitsOne ==
    ASSUME NEW E, NEW e \in E, NEW H
    PROVE  /\ <<e>> \in Seq(E)
           /\ Hits(<<e>>, H) = IF e \in H THEN 1 ELSE 0
  <1>1. <<>> \in Seq(E) /\ Append(<<>>, e) = <<e>> /\ <<e>> \in Seq(E)
    BY EmptySeq, AppendIsConcat, ConcatEmptySeq
  <1>2. Hits(Append(<<>>, e), H)
          = Hits(<<>>, H) + IF e \in H THEN 1 ELSE 0
    BY <1>1, HitsAppend
  <1>3. Hits(<<>>, H) = 0
    BY HitsEmpty
  <1> QED
    BY <1>1, <1>2, <1>3

LEMMA HitsHeadTail ==
    ASSUME NEW E, NEW s \in Seq(E), s # <<>>, NEW H
    PROVE  /\ Head(s) \in E /\ Tail(s) \in Seq(E)
           /\ <<Head(s)>> \in Seq(E)
           /\ Hits(<<Head(s)>>, H) = IF Head(s) \in H THEN 1 ELSE 0
           /\ Hits(s, H) = Hits(<<Head(s)>>, H) + Hits(Tail(s), H)
  <1>1. Head(s) \in E /\ Tail(s) \in Seq(E)
    BY HeadTailProperties
  <1>2. /\ <<Head(s)>> \in Seq(E)
        /\ Hits(<<Head(s)>>, H) = IF Head(s) \in H THEN 1 ELSE 0
    BY <1>1, HitsOne
  <1>3. s = <<Head(s)>> \o Tail(s)
    <2> DEFINE h == Head(s)
               r == Tail(s)
    <2>1. /\ Len(s) \in Nat /\ Len(s) # 0 /\ Len(r) = Len(s) - 1
          /\ \A i \in 1..Len(r) : r[i] = s[i + 1]
          /\ h = s[1]
      BY HeadTailProperties, EmptySeq, LenProperties
    <2>2. h \in E /\ r \in Seq(E) /\ <<h>> \in Seq(E)
      BY <1>1, <1>2
    <2> HIDE DEF h, r
    <2>3. /\ <<h>> \o r \in Seq(E) /\ Len(<<h>>) = 1 /\ <<h>>[1] = h
          /\ Len(<<h>> \o r) = 1 + Len(r)
          /\ \A i \in 1..1 + Len(r) :
               (<<h>> \o r)[i] = IF i <= 1 THEN <<h>>[i] ELSE r[i - 1]
      <3>1. Len(<<h>>) = 1 /\ <<h>>[1] = h
        OBVIOUS
      <3> QED
        BY <2>2, <3>1, ConcatProperties
    <2>4. Len(<<h>> \o r) = Len(s)
      BY <2>1, <2>3, SMT
    <2>5. \A i \in 1..Len(s) : (<<h>> \o r)[i] = s[i]
      <3> SUFFICES ASSUME NEW i \in 1..Len(s)
                   PROVE  (<<h>> \o r)[i] = s[i]
        OBVIOUS
      <3>1. CASE i = 1
        <4>1. 1 \in 1..1 + Len(r) /\ 1 <= 1
          BY <2>1, SMT
        <4> QED
          BY <2>1, <2>3, <3>1, <4>1
      <3>2. CASE i # 1
        <4>1. /\ i \in 1..1 + Len(r) /\ ~(i <= 1) /\ i - 1 \in 1..Len(r)
              /\ (i - 1) + 1 = i
          BY <2>1, <3>2, SMT
        <4>2. (<<h>> \o r)[i] = r[i - 1] /\ r[i - 1] = s[(i - 1) + 1]
          BY <2>1, <2>3, <4>1
        <4> QED
          BY <4>1, <4>2
      <3> QED
        BY <3>1, <3>2
    <2> DEFINE c == <<h>> \o r
    <2> HIDE DEF c
    <2>6. c = s
      <3>1. c \in Seq(E) /\ Len(c) = Len(s) /\ \A i \in 1..Len(c) : c[i] = s[i]
        BY <2>3, <2>4, <2>5 DEF c
      <3> QED
        BY <3>1, SeqEqual
    <2> QED
      BY <2>6 DEF c, h, r
  <1>4. Hits(<<Head(s)>> \o Tail(s), H)
          = Hits(<<Head(s)>>, H) + Hits(Tail(s), H)
    BY <1>1, <1>2, HitsConcat
  <1> QED
    BY <1>1, <1>2, <1>3, <1>4
-----------------------------------------------------------------------------
(* Taking elements off a sequence *)

LEMMA LeastNat ==
    ASSUME NEW I, I \subseteq Nat, I # {}
    PROVE  Min(I) \in I
  <1> DEFINE R == OpToRel(<, Nat)
  <1>1. PICK x \in I : \A y \in I : <<y, x>> \notin R
    <2>1. IsWellFoundedOn(R, Nat)
      BY NatLessThanWellFounded DEF R
    <2> HIDE DEF R
    <2> QED
      BY <2>1, WFMin
  <1>2. \A y \in I : x =< y
    <2> TAKE y \in I
    <2>1. <<y, x>> \notin R
      BY <1>1
    <2> QED
      BY <2>1, SMT DEF OpToRel
  <1> QED
    BY <1>2 DEF Min

\* The first match, found by its value, and what is left without it.
LEMMA RemoveFirstIs ==
    ASSUME NEW E, NEW s \in Seq(E), NEW e, Contains(s, e)
    PROVE  \E i \in 1..Len(s) : s[i] = e /\ RemoveFirst(s, e) = RemoveAt(s, i)
  <1> DEFINE I == {i \in 1..Len(s) : s[i] = e}
  <1>1. I # {} /\ I \subseteq Nat
    <2>1. Len(s) \in Nat
      BY LenProperties
    <2>2. \A i \in 1..Len(s) : i \in Nat
      BY <2>1, SMT
    <2> QED
      BY <2>2 DEF Contains
  <1>2. Min(I) \in I
    BY <1>1, LeastNat
  <1>3. SelectInSeq(s, LAMBDA v : v = e) = Min(I)
    BY <1>1 DEF SelectInSeq
  <1>4. RemoveFirst(s, e) = RemoveAt(s, Min(I))
    BY <1>3 DEF RemoveFirst, Contains
  <1> QED
    BY <1>2, <1>4

LEMMA HitsRemoveAt ==
    ASSUME NEW E, NEW s \in Seq(E), NEW i \in 1..Len(s), NEW H
    PROVE  /\ RemoveAt(s, i) \in Seq(E)
           /\ Hits(s, H)
                = Hits(RemoveAt(s, i), H) + IF s[i] \in H THEN 1 ELSE 0
  <1> DEFINE n == Len(s)
             a == SubSeq(s, 1, i - 1)
             c == SubSeq(s, i + 1, n)
             m == SubSeq(s, i, n)
             o == <<s[i]>>
             d == IF s[i] \in H THEN 1 ELSE 0
  <1>1. n \in Nat /\ \A k \in 1..n : s[k] \in E
    BY LenProperties, ElementOfSeq
  <1>2. a \in Seq(E) /\ c \in Seq(E) /\ m \in Seq(E)
    <2>1. /\ 1 \in Int /\ i - 1 \in Int /\ i + 1 \in Int /\ n \in Int
          /\ i \in Int
          /\ \A k \in 1..i - 1 : k \in 1..n
          /\ \A k \in i + 1..n : k \in 1..n
          /\ \A k \in i..n : k \in 1..n
      BY <1>1, SMT
    <2> HIDE DEF n
    <2> QED
      BY <1>1, <2>1, SubSeqProperties
  <1>3. o \in Seq(E) /\ Hits(o, H) = d
    BY <1>1, HitsOne
  <1>4. m = o \o c
    <2>1. i \in 1..n /\ n \in i..n
      BY <1>1, SMT
    <2> QED
      BY <2>1, SubSeqRecursiveFirst
  <1>5. s = a \o m
    <2>1. /\ 1 \in 1..n + 1 /\ i - 1 \in 1 - 1..n /\ n \in i - 1..n
          /\ (i - 1) + 1 = i
      BY <1>1, SMT
    <2>2. SubSeq(s, 1, i - 1) \o SubSeq(s, (i - 1) + 1, n) = SubSeq(s, 1, n)
      BY <2>1, ConcatAdjacentSubSeq
    <2>3. SubSeq(s, 1, n) = s
      BY SubSeqFull
    <2> QED
      BY <2>1, <2>2, <2>3
  <1>6. RemoveAt(s, i) = a \o c
    BY DEF RemoveAt
  <1> HIDE DEF a, c, m, o, d
  <1>7. /\ Hits(s, H) = Hits(a, H) + Hits(m, H)
        /\ Hits(m, H) = Hits(o, H) + Hits(c, H)
        /\ Hits(a \o c, H) = Hits(a, H) + Hits(c, H)
        /\ a \o c \in Seq(E)
    <2>1. Hits(a \o m, H) = Hits(a, H) + Hits(m, H)
      BY <1>2, HitsConcat
    <2>2. Hits(o \o c, H) = Hits(o, H) + Hits(c, H)
      BY <1>2, <1>3, HitsConcat
    <2>3. Hits(a \o c, H) = Hits(a, H) + Hits(c, H)
      BY <1>2, HitsConcat
    <2> QED
      BY <1>2, <1>4, <1>5, <2>1, <2>2, <2>3, ConcatProperties
  <1>8. Hits(a, H) \in Nat /\ Hits(c, H) \in Nat /\ d \in Nat
    BY <1>2, HitsNat DEF d
  <1>9. Hits(s, H) = Hits(a \o c, H) + d
    BY <1>3, <1>7, <1>8, SMT
  <1> QED
    BY <1>6, <1>7, <1>9 DEF d

LEMMA HitsRemoveFirst ==
    ASSUME NEW E, NEW s \in Seq(E), NEW e, Contains(s, e), NEW H
    PROVE  Hits(s, H) = Hits(RemoveFirst(s, e), H) + IF e \in H THEN 1 ELSE 0
  <1>1. PICK i \in 1..Len(s) :
            s[i] = e /\ RemoveFirst(s, e) = RemoveAt(s, i)
    BY RemoveFirstIs
  <1>2. Hits(s, H) = Hits(RemoveAt(s, i), H) + IF s[i] \in H THEN 1 ELSE 0
    BY HitsRemoveAt
  <1> QED
    BY <1>1, <1>2

LEMMA NoneRemoved ==
    ASSUME NEW s, NEW e, ~Contains(s, e)
    PROVE  RemoveFirst(s, e) = s /\ Hits(s, {e}) = 0
  <1>1. RemoveFirst(s, e) = s
    BY DEF RemoveFirst, Contains
  <1>2. {i \in 1..Len(s) : s[i] \in {e}} = {}
    BY DEF Contains
  <1>3. Hits(s, {e}) = 0
    BY <1>2, FS_EmptySet DEF Hits
  <1> QED
    BY <1>1, <1>3

LEMMA RemoveFirstTyped ==
    ASSUME NEW E, NEW s \in Seq(E), NEW e
    PROVE  RemoveFirst(s, e) \in Seq(E)
  <1>1. CASE Contains(s, e)
    BY <1>1, RemoveFirstIs, HitsRemoveAt
  <1>2. CASE ~Contains(s, e)
    BY <1>2, NoneRemoved
  <1> QED
    BY <1>1, <1>2

LEMMA HitsDrained ==
    ASSUME NEW q \in Seq(Submitted), NEW H
    PROVE  Hits(q, H) = Hits(Drained(q), H) + Hits(Remaining(q), H)
  <1>1. CASE QueueMode = "all" \/ q = <<>>
    <2>1. Drained(q) = q /\ Remaining(q) = <<>>
      BY <1>1 DEF Drained, Remaining
    <2>2. Hits(q, H) \in Nat /\ Hits(<<>>, H) = 0
      BY HitsNat, HitsEmpty
    <2>3. Hits(q, H) + 0 = Hits(q, H)
      BY <2>2
    <2> QED
      BY <2>1, <2>2, <2>3
  <1>2. CASE ~(QueueMode = "all" \/ q = <<>>)
    <2>1. Drained(q) = <<Head(q)>> /\ Remaining(q) = Tail(q)
      BY <1>2 DEF Drained, Remaining
    <2> QED
      BY <1>2, <2>1, HitsHeadTail
  <1> QED
    BY <1>1, <1>2
-----------------------------------------------------------------------------
(* What is shown as queued, and what is pending *)

Texts == {Text[n] : n \in 1..MaxSent}
Blank == {""}
\* The messages that a displayed text may stand for.
Meant(t) ==
    {m \in Submitted : m.role = "user" /\ m.via # "prompt" /\ Text[m.n] = t}
Injects == phase \in {"prompts", "inject"}

\* Only a run that delivers its messages still has to take them off the
\* display; what waits for the next turn is not shown.
Balanced(t) ==
    /\ Hits(nextTurn, Meant(t)) = 0
    /\ ~Injects => Hits(inject, Meant(t)) = 0
    /\ Hits(steeringMessages, {t}) + Hits(followUpMessages, {t})
         <= Hits(inject, Meant(t)) + Hits(steering, Meant(t))
              + Hits(followUp, Meant(t))
ShownTyped ==
    steeringMessages \in Seq(Texts) /\ followUpMessages \in Seq(Texts)
Backed == ShownTyped /\ \A t \in Texts \ Blank : Balanced(t)

\* The arithmetic of the counts below.
LEMMA NothingMore ==
    ASSUME NEW a \in Nat, NEW z, z = 0, NEW x, x = a + z
    PROVE  x = a
  OBVIOUS

LEMMA HitTypes ==
    ASSUME IInv, ShownTyped, NEW H
    PROVE  /\ Hits(steeringMessages, H) \in Nat
           /\ Hits(followUpMessages, H) \in Nat
           /\ Hits(inject, H) \in Nat /\ Hits(steering, H) \in Nat
           /\ Hits(followUp, H) \in Nat /\ Hits(nextTurn, H) \in Nat
           /\ inject \in Seq(Submitted) /\ steering \in Seq(Submitted)
           /\ followUp \in Seq(Submitted) /\ nextTurn \in Seq(Submitted)
  <1>1. /\ inject \in Seq(Submitted) /\ steering \in Seq(Submitted)
        /\ followUp \in Seq(Submitted) /\ nextTurn \in Seq(Submitted)
    BY DEF IInv, Typed, TypeOK
  <1> QED
    BY <1>1, HitsNat DEF ShownTyped

\* Nothing moves.
LEMMA BackedStays ==
    ASSUME Backed, Injects => Injects',
           UNCHANGED <<inject, steering, followUp, nextTurn, steeringMessages,
                       followUpMessages>>
    PROVE  Backed'
  <1>1. ShownTyped'
    BY DEF Backed, ShownTyped
  <1>2. ASSUME NEW t \in Texts \ Blank
        PROVE  Balanced(t)'
    BY DEF Backed, Balanced
  <1> QED
    BY <1>1, <1>2 DEF Backed

\* The messages of the next run change, or go, while none is delivered.
LEMMA BackedReplaced ==
    ASSUME IInv, Backed, ~Injects,
           \A t \in Texts : Hits(inject', Meant(t)) = 0,
           UNCHANGED <<steering, followUp, nextTurn, steeringMessages,
                       followUpMessages>>
    PROVE  Backed'
  <1>1. ShownTyped'
    BY DEF Backed, ShownTyped
  <1>2. ASSUME NEW t \in Texts \ Blank
        PROVE  Balanced(t)'
    <2>1. Hits(inject, Meant(t)) = 0 /\ Hits(inject', Meant(t)) = 0
      BY DEF Backed, Balanced
    <2> QED
      BY <2>1 DEF Backed, Balanced
  <1> QED
    BY <1>1, <1>2 DEF Backed

LEMMA BackedBuild ==
    ASSUME IInv, Backed, Build,
           UNCHANGED <<phase, steering, followUp, steeringMessages,
                       followUpMessages>>
    PROVE  Backed'
  <1>1. ShownTyped' /\ nextTurn' = <<>> /\ inject' = inject \o nextTurn
    BY DEF Backed, ShownTyped, Build
  <1>2. ASSUME NEW t \in Texts \ Blank
        PROVE  Balanced(t)'
    <2>1. Hits(nextTurn, Meant(t)) = 0 /\ Hits(inject, Meant(t)) \in Nat
      BY HitTypes DEF Backed, Balanced
    <2>2. Hits(inject \o nextTurn, Meant(t))
            = Hits(inject, Meant(t)) + Hits(nextTurn, Meant(t))
      BY HitTypes, HitsConcat DEF Backed
    <2>3. Hits(inject \o nextTurn, Meant(t)) = Hits(inject, Meant(t))
      BY <2>1, <2>2, NothingMore, Zenon
    <2>4. Hits(inject', Meant(t)) = Hits(inject, Meant(t))
      BY <1>1, <2>3
    <2>5. Hits(nextTurn', Meant(t)) = 0
      BY <1>1, HitsEmpty
    <2> QED
      BY <2>4, <2>5 DEF Backed, Balanced, Injects
  <1> QED
    BY <1>1, <1>2 DEF Backed

\* A queue is drained into the run.
LEMMA DrainedKeeps ==
    ASSUME NEW q \in Seq(Submitted), NEW o \in Seq(Submitted), NEW H,
           NEW i, Hits(i, H) = 0
    PROVE  /\ Hits(Drained(q), H) + Hits(Remaining(q), H) + Hits(o, H)
                = Hits(i, H) + Hits(q, H) + Hits(o, H)
           /\ Hits(Drained(q), H) + Hits(o, H) + Hits(Remaining(q), H)
                = Hits(i, H) + Hits(o, H) + Hits(q, H)
  <1> DEFINE a == Hits(Drained(q), H)
             b == Hits(Remaining(q), H)
             c == Hits(o, H)
             z == Hits(i, H)
             n == Hits(q, H)
  <1>1. a \in Nat /\ b \in Nat /\ c \in Nat /\ n \in Nat
    BY DrainedTyped, HitsNat
  <1>2. z = 0 /\ n = a + b
    BY HitsDrained
  <1> HIDE DEF a, b, c, z, n
  <1>3. a + b + c = z + n + c /\ a + c + b = z + c + n
    BY <1>1, <1>2
  <1> QED
    BY <1>3, Zenon DEF a, b, c, z, n

LEMMA QueuesDrained ==
    ASSUME steering \in Seq(Submitted), followUp \in Seq(Submitted),
           NEW H, Hits(inject, H) = 0
    PROVE  /\ Hits(Drained(steering), H) + Hits(Remaining(steering), H)
                + Hits(followUp, H)
              = Hits(inject, H) + Hits(steering, H) + Hits(followUp, H)
           /\ Hits(Drained(followUp), H) + Hits(steering, H)
                + Hits(Remaining(followUp), H)
              = Hits(inject, H) + Hits(steering, H) + Hits(followUp, H)
  BY DrainedKeeps

LEMMA BackedDrained ==
    ASSUME IInv, Backed, ~Injects, Injects',
           \/ /\ inject' = Drained(steering)
              /\ steering' = Remaining(steering) /\ UNCHANGED followUp
           \/ /\ inject' = Drained(followUp)
              /\ followUp' = Remaining(followUp) /\ UNCHANGED steering,
           UNCHANGED <<nextTurn, steeringMessages, followUpMessages>>
    PROVE  Backed'
  <1>1. ShownTyped'
    BY DEF Backed, ShownTyped
  <1>2. ASSUME NEW t \in Texts \ Blank
        PROVE  Balanced(t)'
    <2>1. /\ Hits(inject, Meant(t)) = 0
          /\ steering \in Seq(Submitted) /\ followUp \in Seq(Submitted)
      BY HitTypes DEF Backed, Balanced
    <2>2. Hits(inject', Meant(t)) + Hits(steering', Meant(t))
            + Hits(followUp', Meant(t))
          = Hits(inject, Meant(t)) + Hits(steering, Meant(t))
              + Hits(followUp, Meant(t))
      <3>1. CASE /\ inject' = Drained(steering)
                 /\ steering' = Remaining(steering) /\ UNCHANGED followUp
        <4>1. Hits(Drained(steering), Meant(t))
                + Hits(Remaining(steering), Meant(t))
                + Hits(followUp, Meant(t))
              = Hits(inject, Meant(t)) + Hits(steering, Meant(t))
                  + Hits(followUp, Meant(t))
          BY <2>1, QueuesDrained, Zenon
        <4>2. /\ inject' = Drained(steering)
              /\ steering' = Remaining(steering) /\ followUp' = followUp
          BY <3>1
        <4> QED
          BY <4>1, <4>2
      <3>2. CASE /\ inject' = Drained(followUp)
                 /\ followUp' = Remaining(followUp) /\ UNCHANGED steering
        <4>1. Hits(Drained(followUp), Meant(t)) + Hits(steering, Meant(t))
                + Hits(Remaining(followUp), Meant(t))
              = Hits(inject, Meant(t)) + Hits(steering, Meant(t))
                  + Hits(followUp, Meant(t))
          BY <2>1, QueuesDrained, Zenon
        <4>2. /\ inject' = Drained(followUp)
              /\ followUp' = Remaining(followUp) /\ steering' = steering
          BY <3>2
        <4> QED
          BY <4>1, <4>2
      <3> QED
        BY <3>1, <3>2
    <2>3. /\ Hits(nextTurn', Meant(t)) = 0
          /\ Hits(steeringMessages', {t}) + Hits(followUpMessages', {t})
               <= Hits(inject', Meant(t)) + Hits(steering', Meant(t))
                    + Hits(followUp', Meant(t))
      BY <2>2 DEF Backed, Balanced
    <2> QED
      BY <2>3 DEF Balanced
  <1> QED
    BY <1>1, <1>2 DEF Backed

LEMMA MeantFacts ==
    ASSUME NEW n \in 1..MaxSent, NEW t,
           NEW via \in {"prompt", "steer", "followUp", "nextTurn", "record"}
    PROVE  /\ User(n, via) \in Meant(t) <=> via # "prompt" /\ Text[n] = t
           /\ Custom(n, via) \notin Meant(t)
  <1>1. User(n, via) \in Submitted
    BY SubmittedTyped
  <1>2. /\ User(n, via).role = "user" /\ User(n, via).via = via
        /\ User(n, via).n = n /\ Custom(n, via).role = "custom"
    BY DEF User, Custom
  <1> QED
    BY <1>1, <1>2 DEF Meant

LEMMA StillCovered ==
    ASSUME NEW a \in Nat, NEW b \in Nat, NEW x \in Nat, NEW y \in Nat,
           NEW z \in Nat, a + b <= x + y + z, NEW e \in {0, 1}
    PROVE  /\ (a + e) + b <= x + (y + e) + z
           /\ a + (b + e) <= x + y + (z + e)
           /\ a + b <= x + (y + e) + z
           /\ a + b <= x + y + (z + e)
  OBVIOUS

\* A message joins one of the queues, and its text the displayed one if it is
\* a user's: the balance is kept for every text.
LEMMA BackedQueued ==
    ASSUME IInv, Backed, NEW m \in Submitted, NEW shown \in BOOLEAN,
           NEW x \in Texts, \A t \in Texts : m \in Meant(t) <=> shown /\ x = t,
           \/ /\ steering' = Append(steering, m) /\ followUp' = followUp
              /\ followUpMessages' = followUpMessages
              /\ steeringMessages' = IF shown THEN Append(steeringMessages, x)
                                     ELSE steeringMessages
           \/ /\ followUp' = Append(followUp, m) /\ steering' = steering
              /\ steeringMessages' = steeringMessages
              /\ followUpMessages' = IF shown THEN Append(followUpMessages, x)
                                     ELSE followUpMessages,
           UNCHANGED <<phase, inject, nextTurn>>
    PROVE  Backed'
  <1>1. ShownTyped'
    <2>1. /\ Append(steeringMessages, x) \in Seq(Texts)
          /\ Append(followUpMessages, x) \in Seq(Texts)
          /\ ShownTyped
      BY AppendProperties DEF Backed, ShownTyped
    <2>2. /\ steeringMessages' \in {steeringMessages,
                                     Append(steeringMessages, x)}
          /\ followUpMessages' \in {followUpMessages,
                                     Append(followUpMessages, x)}
      OBVIOUS
    <2> QED
      BY <2>1, <2>2 DEF ShownTyped
  <1>2. ASSUME NEW t \in Texts \ Blank
        PROVE  Balanced(t)'
    <2> DEFINE e == IF m \in Meant(t) THEN 1 ELSE 0
               a == Hits(steeringMessages, {t})
               b == Hits(followUpMessages, {t})
               i == Hits(inject, Meant(t))
               y == Hits(steering, Meant(t))
               z == Hits(followUp, Meant(t))
    <2>1. /\ a \in Nat /\ b \in Nat /\ i \in Nat /\ y \in Nat /\ z \in Nat
          /\ e \in {0, 1} /\ a + b <= i + y + z
      BY HitTypes DEF Backed, Balanced
    <2>2. /\ steering \in Seq(Submitted) /\ followUp \in Seq(Submitted)
          /\ steeringMessages \in Seq(Texts)
          /\ followUpMessages \in Seq(Texts)
      BY HitTypes DEF Backed, ShownTyped
    <2>3. /\ Hits(Append(steering, m), Meant(t)) = y + e
          /\ Hits(Append(followUp, m), Meant(t)) = z + e
      BY <2>2, HitsAppend
    <2>4. shown => /\ Hits(Append(steeringMessages, x), {t}) = a + e
                   /\ Hits(Append(followUpMessages, x), {t}) = b + e
      <3>1. shown => e = IF x \in {t} THEN 1 ELSE 0
        OBVIOUS
      <3>2. /\ Hits(Append(steeringMessages, x), {t})
                 = a + IF x \in {t} THEN 1 ELSE 0
            /\ Hits(Append(followUpMessages, x), {t})
                 = b + IF x \in {t} THEN 1 ELSE 0
        BY <2>2, HitsAppend
      <3> QED
        BY <3>1, <3>2
    <2> HIDE DEF e, a, b, i, y, z
    <2>5. /\ (a + e) + b <= i + (y + e) + z /\ a + (b + e) <= i + y + (z + e)
          /\ a + b <= i + (y + e) + z /\ a + b <= i + y + (z + e)
      BY <2>1, StillCovered
    <2>6. Hits(steeringMessages', {t}) + Hits(followUpMessages', {t})
            <= Hits(inject', Meant(t)) + Hits(steering', Meant(t))
                 + Hits(followUp', Meant(t))
      <3>1. CASE steering' = Append(steering, m)
                   /\ followUp' = followUp
                   /\ followUpMessages' = followUpMessages
                   /\ steeringMessages' = IF shown
                                          THEN Append(steeringMessages, x)
                                          ELSE steeringMessages
        <4>1. /\ Hits(inject', Meant(t)) = i
              /\ Hits(steering', Meant(t)) = y + e
              /\ Hits(followUp', Meant(t)) = z
              /\ Hits(followUpMessages', {t}) = b
              /\ \/ Hits(steeringMessages', {t}) = a + e
                 \/ Hits(steeringMessages', {t}) = a
          BY <2>3, <2>4, <3>1 DEF a, b, i, z
        <4> QED
          BY <2>5, <4>1
      <3>2. CASE followUp' = Append(followUp, m)
                   /\ steering' = steering
                   /\ steeringMessages' = steeringMessages
                   /\ followUpMessages' = IF shown
                                          THEN Append(followUpMessages, x)
                                          ELSE followUpMessages
        <4>1. /\ Hits(inject', Meant(t)) = i
              /\ Hits(followUp', Meant(t)) = z + e
              /\ Hits(steering', Meant(t)) = y
              /\ Hits(steeringMessages', {t}) = a
              /\ \/ Hits(followUpMessages', {t}) = b + e
                 \/ Hits(followUpMessages', {t}) = b
          BY <2>3, <2>4, <3>2 DEF a, b, i, y
        <4> QED
          BY <2>5, <4>1
      <3> QED
        BY <3>1, <3>2
    <2>7. /\ Hits(nextTurn', Meant(t)) = 0
          /\ ~Injects' => Hits(inject', Meant(t)) = 0
      BY DEF Backed, Balanced, Injects
    <2> QED
      BY <2>6, <2>7 DEF Balanced
  <1> QED
    BY <1>1, <1>2 DEF Backed

LEMMA LessShown ==
    ASSUME NEW a \in Nat, NEW b \in Nat, NEW c \in Nat, NEW e \in {0, 1},
           NEW f \in {0, 1}, e = 1 => f = 1
    PROVE  /\ a = c + f => c + b + e <= a + b /\ b + c + e <= b + a
           /\ e = 0 => a + b + e <= a + b
           /\ a = 0 /\ b = 0 => a + b = 0
  OBVIOUS

\* The cases of Trim.
LEMMA TrimIs ==
    ASSUME NEW m, Trim(m)
    PROVE  LET x == Text[m.n] IN
           \/ /\ m.role # "user" \/ x \in Blank
              /\ steeringMessages' = steeringMessages
              /\ followUpMessages' = followUpMessages
           \/ /\ Contains(steeringMessages, x)
              /\ steeringMessages' = RemoveFirst(steeringMessages, x)
              /\ followUpMessages' = followUpMessages
           \/ /\ ~Contains(steeringMessages, x)
              /\ followUpMessages' = RemoveFirst(followUpMessages, x)
              /\ steeringMessages' = steeringMessages
  BY Zenon DEF Trim, Blank, shownVars

\* A user message that starts takes its text off the display, if that shows
\* it at all.
LEMMA TrimBalances ==
    ASSUME ShownTyped, NEW m \in Submitted, Trim(m), NEW t, t \notin Blank
    PROVE  \/ Hits(steeringMessages', {t}) + Hits(followUpMessages', {t})
                + (IF m \in Meant(t) THEN 1 ELSE 0)
                <= Hits(steeringMessages, {t}) + Hits(followUpMessages, {t})
           \/ Hits(steeringMessages', {t}) + Hits(followUpMessages', {t}) = 0
  <1> DEFINE x == Text[m.n]
             a == Hits(steeringMessages, {t})
             b == Hits(followUpMessages, {t})
             c == Hits(RemoveFirst(steeringMessages, x), {t})
             d == Hits(RemoveFirst(followUpMessages, x), {t})
             e == IF m \in Meant(t) THEN 1 ELSE 0
             f == IF x \in {t} THEN 1 ELSE 0
  <1>1. /\ steeringMessages \in Seq(Texts) /\ followUpMessages \in Seq(Texts)
        /\ RemoveFirst(steeringMessages, x) \in Seq(Texts)
        /\ RemoveFirst(followUpMessages, x) \in Seq(Texts)
    BY RemoveFirstTyped DEF ShownTyped
  <1>2. a \in Nat /\ b \in Nat /\ c \in Nat /\ d \in Nat
    BY <1>1, HitsNat
  <1>3. e \in {0, 1} /\ f \in {0, 1} /\ (e = 1 => f = 1)
        /\ (f = 1 => x = t)
    <2>1. m \in Meant(t) => x = t
      BY DEF Meant
    <2>2. e \in {0, 1} /\ (e = 1 => m \in Meant(t))
      OBVIOUS
    <2>3. f \in {0, 1} /\ (f = 1 <=> x = t)
      OBVIOUS
    <2> QED
      BY <2>1, <2>2, <2>3
  <1>4. /\ Contains(steeringMessages, x) => a = c + f
        /\ ~Contains(steeringMessages, x) => Hits(steeringMessages, {x}) = 0
        /\ Contains(followUpMessages, x) => b = d + f
        /\ ~Contains(followUpMessages, x) =>
             RemoveFirst(followUpMessages, x) = followUpMessages
             /\ Hits(followUpMessages, {x}) = 0
    <2>1. /\ Contains(steeringMessages, x) => a = c + f
          /\ Contains(followUpMessages, x) => b = d + f
      BY <1>1, HitsRemoveFirst
    <2>2. /\ ~Contains(steeringMessages, x) =>
               Hits(steeringMessages, {x}) = 0
          /\ ~Contains(followUpMessages, x) =>
               RemoveFirst(followUpMessages, x) = followUpMessages
               /\ Hits(followUpMessages, {x}) = 0
      BY NoneRemoved
    <2> QED
      BY <2>1, <2>2
  <1>5. CASE /\ m.role # "user" \/ x \in Blank
             /\ steeringMessages' = steeringMessages
             /\ followUpMessages' = followUpMessages
    <2>2. e = 0
      BY <1>5 DEF Meant
    <2> HIDE DEF a, b, e
    <2>3. a + b + e <= a + b
      BY <1>2, <1>3, <2>2, LessShown
    <2> QED
      BY <1>5, <2>3 DEF a, b, e
  <1>6. CASE /\ Contains(steeringMessages, x)
             /\ steeringMessages' = RemoveFirst(steeringMessages, x)
             /\ followUpMessages' = followUpMessages
    <2>2. a = c + f
      BY <1>4, <1>6
    <2> HIDE DEF a, b, c, e, f
    <2>3. c + b + e <= a + b
      BY <1>2, <1>3, <2>2, LessShown
    <2> QED
      BY <1>6, <2>3 DEF a, b, c, e
  <1>7. CASE /\ ~Contains(steeringMessages, x)
             /\ followUpMessages' = RemoveFirst(followUpMessages, x)
             /\ steeringMessages' = steeringMessages
    <2>3. CASE Contains(followUpMessages, x)
      <3>1. b = d + f
        BY <1>4, <2>3
      <3> HIDE DEF a, b, d, e, f
      <3>2. a + d + e <= a + b
        BY <1>2, <1>3, <3>1, LessShown
      <3> QED
        BY <1>7, <3>2 DEF a, b, d, e
    <2>4. CASE ~Contains(followUpMessages, x)
      <3>1. /\ followUpMessages' = followUpMessages
            /\ f = 1 => a = 0 /\ b = 0
        <4>1. /\ followUpMessages' = followUpMessages
              /\ Hits(followUpMessages, {x}) = 0
              /\ Hits(steeringMessages, {x}) = 0
          BY <1>4, <1>7, <2>4
        <4> QED
          BY <1>3, <4>1
      <3> HIDE DEF a, b, e, f
      <3>2. a + b + e <= a + b \/ a + b = 0
        BY <1>2, <1>3, <3>1, LessShown
      <3> QED
        BY <1>7, <3>1, <3>2 DEF a, b, e
    <2> QED
      BY <2>3, <2>4
  <1> HIDE DEF a, b, c, d, e, f
  <1> QED
    BY <1>5, <1>6, <1>7, TrimIs, Zenon

LEMMA TrimTyped ==
    ASSUME ShownTyped, NEW m, Trim(m)
    PROVE  ShownTyped'
  <1> DEFINE x == Text[m.n]
  <1>1. /\ steeringMessages \in Seq(Texts) /\ followUpMessages \in Seq(Texts)
        /\ RemoveFirst(steeringMessages, x) \in Seq(Texts)
        /\ RemoveFirst(followUpMessages, x) \in Seq(Texts)
    BY RemoveFirstTyped DEF ShownTyped
  <1> QED
    BY <1>1, TrimIs DEF ShownTyped

LEMMA LessCovered ==
    ASSUME NEW n \in Nat, NEW d \in Nat, NEW e \in {0, 1}, NEW i \in Nat,
           NEW y \in Nat, NEW z \in Nat,
           n <= (e + i) + y + z, d + e <= n \/ d = 0
    PROVE  d <= i + y + z
  OBVIOUS

LEMMA DeliverBacked ==
    ASSUME IInv, Backed, DeliverMessage
    PROVE  Backed'
  <1> DEFINE m == Head(inject)
             r == Tail(inject)
  <1>1. inject \in Seq(Submitted) /\ inject # <<>> /\ Injects
    BY DEF DeliverMessage, IInv, Suspended, Typed, TypeOK, Injects
  <1>2. /\ Trim(m) /\ inject' = r
        /\ UNCHANGED <<steering, followUp, nextTurn>>
        /\ phase' = IF r # <<>> THEN phase
                    ELSE IF phase = "prompts" THEN "initialPoll" ELSE "request"
    BY DEF DeliverMessage, queueVars
  <1>3. m \in Submitted /\ r \in Seq(Submitted)
    BY <1>1, HeadTailProperties
  <1> HIDE DEF m, r
  <1>5. ShownTyped /\ ShownTyped'
    BY <1>2, TrimTyped DEF Backed
  <1>6. ASSUME NEW t \in Texts \ Blank
        PROVE  Balanced(t)'
    <2> DEFINE e == IF m \in Meant(t) THEN 1 ELSE 0
               n == Hits(steeringMessages, {t}) + Hits(followUpMessages, {t})
               d == Hits(steeringMessages', {t})
                      + Hits(followUpMessages', {t})
               i == Hits(r, Meant(t))
               y == Hits(steering, Meant(t))
               z == Hits(followUp, Meant(t))
    <2>1. /\ i \in Nat /\ y \in Nat /\ z \in Nat /\ e \in {0, 1}
      BY <1>3, <1>5, HitsNat, HitTypes
    <2>0. Hits(inject, Meant(t)) = e + i
      <3>1. /\ Hits(inject, Meant(t)) = Hits(<<Head(inject)>>, Meant(t))
                                          + Hits(Tail(inject), Meant(t))
            /\ Hits(<<Head(inject)>>, Meant(t))
                 = IF Head(inject) \in Meant(t) THEN 1 ELSE 0
        BY <1>1, HitsHeadTail
      <3> QED
        BY <3>1 DEF m, r
    <2>2. n \in Nat /\ d \in Nat
      <3>1. /\ Hits(steeringMessages, {t}) \in Nat
            /\ Hits(followUpMessages, {t}) \in Nat
            /\ Hits(steeringMessages', {t}) \in Nat
            /\ Hits(followUpMessages', {t}) \in Nat
        BY <1>5, HitsNat DEF ShownTyped
      <3> QED
        BY <3>1
    <2>3. d + e <= n \/ d = 0
      BY <1>2, <1>3, <1>5, TrimBalances
    <2>4. n <= (e + i) + y + z
      BY <2>0 DEF Backed, Balanced
    <2> HIDE DEF n, d, e, i, y, z
    <2>5. d <= i + y + z
      BY <2>1, <2>2, <2>3, <2>4, LessCovered
    <2>6. ~Injects' => Hits(inject', Meant(t)) = 0
      BY <1>1, <1>2, HitsEmpty DEF Injects
    <2>7. Hits(nextTurn', Meant(t)) = 0
      BY <1>2 DEF Backed, Balanced
    <2> QED
      BY <1>2, <2>5, <2>6, <2>7 DEF Balanced, d, i, y, z
  <1> QED
    BY <1>5, <1>6 DEF Backed

LEMMA QueueUserBacked ==
    ASSUME IInv, Backed, QueueUser
    PROVE  Backed'
  <1> DEFINE x == Text[sent + 1]
             m == User(sent + 1, "steer")
             f == User(sent + 1, "followUp")
  <1>1. sent + 1 \in 1..MaxSent
    BY SubmitTyped DEF IInv, QueueUser
  <1>2. /\ x \in Texts /\ m \in Submitted /\ f \in Submitted
        /\ \A t \in Texts : (m \in Meant(t) <=> TRUE /\ x = t)
                            /\ (f \in Meant(t) <=> TRUE /\ x = t)
    <2>1. m \in Submitted /\ f \in Submitted /\ x \in Texts
      BY <1>1, SubmittedTyped DEF Texts
    <2>2. \A t : /\ m \in Meant(t) <=> "steer" # "prompt" /\ x = t
                 /\ f \in Meant(t) <=> "followUp" # "prompt" /\ x = t
      BY <1>1, MeantFacts
    <2> QED
      BY <2>1, <2>2
  <1>3. UNCHANGED <<phase, inject, nextTurn>>
    BY DEF QueueUser, agentVars
  <1>4. CASE /\ steering' = Append(steering, m)
             /\ steeringMessages' = Append(steeringMessages, x)
             /\ UNCHANGED <<followUp, followUpMessages>>
    <2> HIDE DEF m, x, f
    <2> QED
      BY <1>2, <1>3, <1>4, BackedQueued
  <1>5. CASE /\ followUp' = Append(followUp, f)
             /\ followUpMessages' = Append(followUpMessages, x)
             /\ UNCHANGED <<steering, steeringMessages>>
    <2> HIDE DEF m, x, f
    <2> QED
      BY <1>2, <1>3, <1>5, BackedQueued
  <1> QED
    BY <1>4, <1>5 DEF QueueUser

LEMMA QueueCustomBacked ==
    ASSUME IInv, Backed, QueueCustom
    PROVE  Backed'
  <1> DEFINE x == Text[sent + 1]
             m == Custom(sent + 1, "steer")
             f == Custom(sent + 1, "followUp")
  <1>1. sent + 1 \in 1..MaxSent
    BY SubmitTyped DEF IInv, QueueCustom
  <1>2. /\ x \in Texts /\ m \in Submitted /\ f \in Submitted
        /\ \A t \in Texts : (m \in Meant(t) <=> FALSE /\ x = t)
                            /\ (f \in Meant(t) <=> FALSE /\ x = t)
    <2>1. m \in Submitted /\ f \in Submitted /\ x \in Texts
      BY <1>1, SubmittedTyped DEF Texts
    <2>2. \A t : m \notin Meant(t) /\ f \notin Meant(t)
      BY <1>1, MeantFacts
    <2> QED
      BY <2>1, <2>2
  <1>3. /\ UNCHANGED <<phase, inject, nextTurn>>
        /\ steeringMessages' = steeringMessages
        /\ followUpMessages' = followUpMessages
    BY DEF QueueCustom, agentVars, shownVars
  <1>4. CASE steering' = Append(steering, m) /\ UNCHANGED followUp
    <2> HIDE DEF m, x, f
    <2> QED
      BY <1>2, <1>3, <1>4, BackedQueued
  <1>5. CASE followUp' = Append(followUp, f) /\ UNCHANGED steering
    <2> HIDE DEF m, x, f
    <2> QED
      BY <1>2, <1>3, <1>5, BackedQueued
  <1> QED
    BY <1>4, <1>5 DEF QueueCustom

LEMMA QueueNextTurnBacked ==
    ASSUME IInv, Backed, QueueNextTurn
    PROVE  Backed'
  <1> DEFINE m == Custom(sent + 1, "nextTurn")
  <1>1. /\ sent + 1 \in 1..MaxSent /\ m \in Submitted
        /\ \A t : m \notin Meant(t)
    BY SubmitTyped, SubmittedTyped, MeantFacts DEF IInv, QueueNextTurn
  <1>2. /\ nextTurn' = Append(nextTurn, m)
        /\ UNCHANGED <<phase, inject, steering, followUp, steeringMessages,
                       followUpMessages>>
    BY DEF QueueNextTurn, agentVars, queueVars, shownVars
  <1> HIDE DEF m
  <1>3. ShownTyped'
    BY <1>2 DEF Backed, ShownTyped
  <1>4. ASSUME NEW t \in Texts \ Blank
        PROVE  Balanced(t)'
    <2>1. nextTurn \in Seq(Submitted) /\ Hits(nextTurn, Meant(t)) = 0
      BY HitTypes DEF Backed, Balanced
    <2>2. Hits(Append(nextTurn, m), Meant(t))
            = Hits(nextTurn, Meant(t)) + IF m \in Meant(t) THEN 1 ELSE 0
      BY <1>1, <2>1, HitsAppend
    <2>3. Hits(nextTurn', Meant(t)) = 0
      BY <1>1, <1>2, <2>1, <2>2
    <2> QED
      BY <1>2, <2>3 DEF Backed, Balanced, Injects
  <1> QED
    BY <1>3, <1>4 DEF Backed

LEMMA ClearQueueBacked ==
    ASSUME IInv, Backed, ClearQueue
    PROVE  Backed'
  <1>1. /\ steering' = <<>> /\ followUp' = <<>>
        /\ steeringMessages' = <<>> /\ followUpMessages' = <<>>
        /\ UNCHANGED <<phase, inject, nextTurn>>
    BY DEF ClearQueue, agentVars
  <1>2. ShownTyped'
    BY <1>1, EmptySeq DEF ShownTyped
  <1>3. ASSUME NEW t \in Texts \ Blank
        PROVE  Balanced(t)'
    <2>1. Hits(inject, Meant(t)) \in Nat
      BY HitTypes DEF Backed
    <2>2. \A H : Hits(<<>>, H) = 0
      BY HitsEmpty
    <2> DEFINE i == Hits(inject, Meant(t))
    <2> HIDE DEF i
    <2>3. 0 + 0 <= i + 0 + 0
      <3>1. i \in Nat
        BY <2>1 DEF i
      <3> QED
        BY <3>1
    <2>4. Hits(steeringMessages', {t}) + Hits(followUpMessages', {t})
            <= Hits(inject', Meant(t)) + Hits(steering', Meant(t))
                 + Hits(followUp', Meant(t))
      BY <1>1, <2>2, <2>3 DEF i
    <2> QED
      BY <1>1, <2>4 DEF Backed, Balanced, Injects
  <1> QED
    BY <1>2, <1>3 DEF Backed

LEMMA PollBacked ==
    ASSUME IInv, Backed, Poll
    PROVE  Backed'
  <1>1. /\ ~Injects
        /\ UNCHANGED <<nextTurn, steeringMessages, followUpMessages>>
    BY DEF Poll, Injects, shownVars
  <1>2. CASE UNCHANGED <<inject, queueVars>>
    BY <1>1, <1>2, BackedStays DEF queueVars
  <1>3. CASE /\ phase' = "inject"
             /\ \/ /\ inject' = Drained(steering)
                   /\ steering' = Remaining(steering) /\ UNCHANGED followUp
                \/ /\ inject' = Drained(followUp)
                   /\ followUp' = Remaining(followUp) /\ UNCHANGED steering
    <2>1. Injects'
      BY <1>3 DEF Injects
    <2> QED
      BY <1>1, <1>3, <2>1, BackedDrained
  <1> QED
    BY <1>2, <1>3 DEF Poll

\* A prompt, or none, is what the next run starts with.
LEMMA PromptBacked ==
    ASSUME IInv, Backed,
           Prompt \/ PromptCustom \/ PromptRefused \/ AgentEnds
    PROVE  Backed'
  <1>1. /\ ~Injects
        /\ UNCHANGED <<steering, followUp, nextTurn, steeringMessages,
                       followUpMessages>>
    <2>1. pc # "running" => phase = "idle"
      BY DEF IInv, Suspended
    <2> QED
      BY <2>1 DEF Prompt, PromptCustom, PromptRefused, AgentEnds, Free,
         Injects, queueVars, shownVars
  <1>2. \/ inject' = <<>>
        \/ \E m \in Submitted : /\ inject' = <<m>>
                                /\ \A t : m \notin Meant(t)
    <2>1. CASE Prompt
      <3>1. sent + 1 \in 1..MaxSent
        BY <2>1, SubmitTyped DEF IInv, Prompt
      <3>2. /\ User(sent + 1, "prompt") \in Submitted
            /\ \A t : User(sent + 1, "prompt") \notin Meant(t)
        BY <3>1, SubmittedTyped, MeantFacts
      <3> QED
        BY <2>1, <3>2 DEF Prompt
    <2>2. CASE PromptCustom
      <3>1. sent + 1 \in 1..MaxSent
        BY <2>2, SubmitTyped DEF IInv, PromptCustom
      <3>2. /\ Custom(sent + 1, "prompt") \in Submitted
            /\ \A t : Custom(sent + 1, "prompt") \notin Meant(t)
        BY <3>1, SubmittedTyped, MeantFacts
      <3> QED
        BY <2>2, <3>2 DEF PromptCustom, StartAgent
    <2>3. CASE PromptRefused \/ AgentEnds
      BY <2>3 DEF PromptRefused, AgentEnds, StartAgent
    <2> QED
      BY <2>1, <2>2, <2>3
  <1>3. \A t \in Texts : Hits(inject', Meant(t)) = 0
    <2>1. CASE inject' = <<>>
      BY <2>1, HitsEmpty
    <2>2. CASE \E m \in Submitted : /\ inject' = <<m>>
                                    /\ \A t : m \notin Meant(t)
      <3>1. PICK m \in Submitted : /\ inject' = <<m>>
                                   /\ \A t : m \notin Meant(t)
        BY <2>2
      <3>2. \A t : Hits(<<m>>, Meant(t)) = IF m \in Meant(t) THEN 1 ELSE 0
        BY HitsOne
      <3> QED
        BY <3>1, <3>2
    <2> QED
      BY <1>2, <2>1, <2>2
  <1> QED
    BY <1>1, <1>3, BackedReplaced

LEMMA PreflightBacked ==
    ASSUME IInv, Backed,
           PromptRecovers \/ PromptChecked \/ PromptCompacted
    PROVE  Backed'
  <1>1. UNCHANGED <<phase, steering, followUp, steeringMessages,
                    followUpMessages>>
    BY DEF PromptRecovers, PromptChecked, PromptCompacted, queueVars,
       shownVars, retryVars
  <1>2. Build \/ UNCHANGED <<inject, nextTurn>>
    BY DEF PromptRecovers, PromptChecked, PromptCompacted
  <1>3. CASE Build
    BY <1>1, <1>3, BackedBuild
  <1>4. CASE UNCHANGED <<inject, nextTurn>>
    BY <1>1, <1>4, BackedStays DEF Injects
  <1> QED
    BY <1>2, <1>3, <1>4

\* After a run nothing is being delivered.
LEMMA GoOnBacked ==
    ASSUME IInv, Backed, pc \in AfterRun, NEW msgs, NEW entries, NEW n,
           Continue(msgs, entries, n) \/ GoOnIfQueued(msgs, entries),
           UNCHANGED <<steeringMessages, followUpMessages, nextTurn>>
    PROVE  Backed'
  <1>1. ~Injects
    BY AfterRunFacts DEF Injects
  <1>2. \/ UNCHANGED <<phase, inject, steering, followUp>>
        \/ /\ inject' = <<>> /\ UNCHANGED <<steering, followUp>>
        \/ /\ phase' \in {"inject", "prompts"}
           /\ \/ /\ inject' = Drained(steering)
                 /\ steering' = Remaining(steering) /\ UNCHANGED followUp
              \/ /\ inject' = Drained(followUp)
                 /\ followUp' = Remaining(followUp) /\ UNCHANGED steering
    <2>1. ASSUME Settle(msgs, entries)
          PROVE  UNCHANGED <<phase, inject, steering, followUp>>
      BY <2>1 DEF Settle, agentVars, queueVars
    <2> QED
      BY <2>1 DEF Continue, GoOnIfQueued, StartAgent, queueVars
  <1>3. CASE UNCHANGED <<phase, inject, steering, followUp>>
    BY <1>3, BackedStays DEF Injects
  <1>4. CASE inject' = <<>> /\ UNCHANGED <<steering, followUp>>
    BY <1>1, <1>4, HitsEmpty, BackedReplaced
  <1>5. CASE /\ phase' \in {"inject", "prompts"}
             /\ \/ /\ inject' = Drained(steering)
                   /\ steering' = Remaining(steering) /\ UNCHANGED followUp
                \/ /\ inject' = Drained(followUp)
                   /\ followUp' = Remaining(followUp) /\ UNCHANGED steering
    <2>1. Injects'
      BY <1>5 DEF Injects
    <2> QED
      BY <1>1, <1>5, <2>1, BackedDrained
  <1> QED
    BY <1>2, <1>3, <1>4, <1>5

LEMMA PostRunBacked ==
    ASSUME IInv, Backed, PostRun
    PROVE  Backed'
  <1>1. UNCHANGED <<steeringMessages, followUpMessages, nextTurn>>
    BY DEF PostRun, PrepareRetry, NoRetry, RetryDue, RetryCancelled, Recover,
       Checked, CompactionSucceeds, CompactionFails, shownVars
  <1>2. pc \in AfterRun
    BY DEF PostRun, PrepareRetry, NoRetry, RetryDue, RetryCancelled, Recover,
       Checked, CompactionSucceeds, CompactionFails, AfterRun
  <1>3. \/ UNCHANGED <<phase, inject, steering, followUp>>
        \/ \E msgs, entries, n :
             Continue(msgs, entries, n) \/ GoOnIfQueued(msgs, entries)
    <2>1. CASE PrepareRetry \/ NoRetry \/ RetryCancelled
      BY <2>1 DEF PrepareRetry, NoRetry, RetryCancelled, agentVars, queueVars
    <2>2. CASE RetryDue
      BY <2>2, Zenon DEF RetryDue
    <2>3. CASE Recover
      BY <2>3, Zenon DEF Recover, agentVars, queueVars
    <2>4. CASE Checked
      BY <2>4, Zenon DEF Checked, agentVars, queueVars
    <2>5. CASE CompactionSucceeds
      BY <2>5, Zenon DEF CompactionSucceeds
    <2>6. CASE CompactionFails
      BY <2>6, Zenon DEF CompactionFails
    <2> QED
      BY <2>1, <2>2, <2>3, <2>4, <2>5, <2>6, Zenon DEF PostRun
  <1>4. CASE UNCHANGED <<phase, inject, steering, followUp>>
    BY <1>1, <1>4, BackedStays DEF Injects
  <1>5. CASE \E msgs, entries, n :
               Continue(msgs, entries, n) \/ GoOnIfQueued(msgs, entries)
    BY <1>1, <1>2, <1>5, GoOnBacked, Zenon
  <1> QED
    BY <1>3, <1>4, <1>5

\* Nobody queues, and the run delivers nothing.
LEMMA QuietBacked ==
    ASSUME Backed,
           \/ RecordCustom \/ RecordBashResult \/ Abort \/ Wait \/ AbortRetry
           \/ Compact \/ NavigateTree \/ Reply \/ ToolReturns \/ Save
           \/ PromptStarts \/ Settled \/ Operation
    PROVE  Backed'
  <1>1. CASE RecordCustom \/ RecordBashResult \/ Abort \/ Wait \/ AbortRetry
    <2>1. UNCHANGED <<phase, inject, steering, followUp, nextTurn,
                      steeringMessages, followUpMessages>>
      BY <1>1 DEF RecordCustom, RecordBashResult, Abort, Wait, AbortRetry,
         agentVars, queueVars, shownVars
    <2> QED
      BY <2>1, BackedStays DEF Injects
  <1>2. CASE Compact \/ NavigateTree \/ Settled \/ Operation
    <2>1. UNCHANGED <<phase, inject, steering, followUp, nextTurn,
                      steeringMessages, followUpMessages>>
      BY <1>2 DEF Compact, NavigateTree, Settled, Operation, CompactPrepares,
         CompactEnds, NavigationEnds, OperationKeeps, agentVars, queueVars,
         shownVars
    <2> QED
      BY <2>1, BackedStays DEF Injects
  <1>3. CASE Reply \/ ToolReturns \/ Save \/ PromptStarts
    <2>1. /\ UNCHANGED <<inject, steering, followUp, nextTurn,
                         steeringMessages, followUpMessages>>
          /\ Injects => Injects'
      BY <1>3 DEF Reply, ToolReturns, Save, PromptStarts, StartAgent,
         agentVars, queueVars, shownVars, Injects
    <2> QED
      BY <2>1, BackedStays
  <1> QED
    BY <1>1, <1>2, <1>3

LEMMA BackedInit == Init => Backed
  <1> SUFFICES ASSUME Init
               PROVE  Backed
    OBVIOUS
  <1>1. /\ steeringMessages = <<>> /\ followUpMessages = <<>>
        /\ inject = <<>> /\ steering = <<>> /\ followUp = <<>>
        /\ nextTurn = <<>>
    BY DEF Init
  <1>2. \A H : Hits(<<>>, H) = 0
    BY HitsEmpty
  <1>3. ShownTyped
    BY <1>1, EmptySeq DEF ShownTyped
  <1>4. ASSUME NEW t \in Texts \ Blank
        PROVE  Balanced(t)
    <2>1. 0 + 0 <= 0 + 0 + 0
      OBVIOUS
    <2> QED
      BY <1>1, <1>2, <2>1 DEF Balanced
  <1> QED
    BY <1>3, <1>4 DEF Backed

LEMMA BackedStep ==
    ASSUME IInv, Backed, [Next]_vars
    PROVE  Backed'
  <1>1. CASE UNCHANGED vars
    <2>1. UNCHANGED <<phase, inject, steering, followUp, nextTurn,
                      steeringMessages, followUpMessages>>
      BY <1>1 DEF vars, agentVars, queueVars, shownVars
    <2> QED
      BY <2>1, BackedStays DEF Injects
  <1>2. CASE Caller
    BY <1>2, QueueUserBacked, QueueCustomBacked, QueueNextTurnBacked,
       ClearQueueBacked, PromptBacked, QuietBacked, Zenon DEF Caller
  <1>3. CASE AgentRun
    BY <1>3, DeliverBacked, PollBacked, PromptBacked, QuietBacked, Zenon
    DEF AgentRun
  <1>4. CASE Preflight
    BY <1>4, PromptBacked, PreflightBacked, QuietBacked, Zenon DEF Preflight
  <1>5. CASE Settled \/ Operation
    BY <1>5, QuietBacked, Zenon
  <1> QED
    BY <1>1, <1>2, <1>3, <1>4, <1>5, PostRunBacked, Zenon DEF Next, Run

LEMMA BackedKept == Spec => [](IInv /\ Backed)
  <1>1. IInv /\ Backed /\ [Next]_vars => (IInv /\ Backed)'
    BY StepInv, BackedStep
  <1> QED
    BY InitInv, BackedInit, <1>1, PTL DEF Spec

\* Counting texts, and the messages they stand for, in one queue after the
\* other.
LEMMA ShownAndPending ==
    ASSUME IInv, ShownTyped, NEW t
    PROVE  /\ Copies(steeringMessages \o followUpMessages, t)
                = Hits(steeringMessages, {t}) + Hits(followUpMessages, {t})
           /\ Pending(inject \o steering \o followUp, t)
                = Hits(inject, Meant(t)) + Hits(steering, Meant(t))
                    + Hits(followUp, Meant(t))
  <1>1. \A s : DOMAIN s = 1..Len(s) => Copies(s, t) = Hits(s, {t})
    BY Zenon DEF Copies, Hits
  <1>2. ASSUME NEW s \in Seq(Submitted)
        PROVE  Pending(s, t) = Hits(s, Meant(t))
    <2>1. DOMAIN s = 1..Len(s) /\ \A i \in 1..Len(s) : s[i] \in Submitted
      BY LenProperties, ElementOfSeq
    <2>2. {i \in DOMAIN s :
             s[i].role = "user" /\ s[i].via # "prompt" /\ Text[s[i].n] = t}
            = {i \in 1..Len(s) : s[i] \in Meant(t)}
      BY <2>1 DEF Meant
    <2> QED
      BY <2>2 DEF Pending, Hits
  <1>3. /\ steeringMessages \in Seq(Texts) /\ followUpMessages \in Seq(Texts)
        /\ inject \in Seq(Submitted) /\ steering \in Seq(Submitted)
        /\ followUp \in Seq(Submitted)
    BY HitTypes DEF ShownTyped
  <1> DEFINE shown == steeringMessages \o followUpMessages
             first == inject \o steering
             pending == first \o followUp
  <1>4. /\ shown \in Seq(Texts) /\ first \in Seq(Submitted)
        /\ pending \in Seq(Submitted)
    BY <1>3, ConcatProperties
  <1>5. Hits(shown, {t})
          = Hits(steeringMessages, {t}) + Hits(followUpMessages, {t})
    BY <1>3, HitsConcat
  <1>6. /\ Hits(first, Meant(t))
             = Hits(inject, Meant(t)) + Hits(steering, Meant(t))
        /\ Hits(pending, Meant(t))
             = Hits(first, Meant(t)) + Hits(followUp, Meant(t))
    <2>1. Hits(first, Meant(t))
            = Hits(inject, Meant(t)) + Hits(steering, Meant(t))
      BY <1>3, HitsConcat
    <2> HIDE DEF first
    <2>2. Hits(pending, Meant(t))
            = Hits(first, Meant(t)) + Hits(followUp, Meant(t))
      BY <1>3, <1>4, HitsConcat
    <2> QED
      BY <2>1, <2>2
  <1> HIDE DEF shown, first
  <1>7. Copies(shown, t) = Hits(shown, {t})
    BY <1>1, <1>4, LenProperties
  <1>8. Pending(pending, t) = Hits(pending, Meant(t))
    <2> HIDE DEF pending
    <2> QED
      BY <1>2, <1>4
  <1> QED
    BY <1>5, <1>6, <1>7, <1>8, Zenon DEF shown, first, pending

\* Every queued message says something.
TextsShown == \A n \in 1..MaxSent : Text[n] # ""

\* The displayed queues are copies that are trimmed by the text of what
\* starts, whichever queue it came from: for any number of messages with equal
\* texts in both, queues cleared, drained or handed over to a run, they show a
\* text no more often than it is still to be delivered.
THEOREM DisplayIsHonest ==
    ASSUME TextsShown
    PROVE  Spec => []DisplayedIsPending
  <1>1. Texts \cap Blank = {}
    BY Zenon DEF TextsShown, Texts, Blank
  <1>2. IInv /\ Backed => DisplayedIsPending
    <2> SUFFICES ASSUME IInv, Backed
                 PROVE  DisplayedIsPending
      OBVIOUS
    <2>1. ASSUME NEW t \in Texts
          PROVE  Copies(steeringMessages \o followUpMessages, t)
                   <= Pending(inject \o steering \o followUp, t)
      <3>1. Balanced(t)
        BY <1>1 DEF Backed
      <3> QED
        BY <3>1, ShownAndPending DEF Backed, Balanced
    <2> QED
      BY <2>1 DEF DisplayedIsPending, Texts
  <1> QED
    BY BackedKept, <1>2, PTL
=============================================================================

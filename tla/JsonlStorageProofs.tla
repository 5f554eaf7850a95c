------------------------- MODULE JsonlStorageProofs -------------------------
(***************************************************************************)
(* What a session in a file promises, for every value of the constants:    *)
(* an acknowledged write survives every crash, the state in memory is what *)
(* the file says, and the file is a session of SessionLog, to which each   *)
(* write is made at once.  The hypothesis, Careful, is what the storage's  *)
(* users would have to arrange: without it acknowledged writes can be lost. *)
(***************************************************************************)
EXTENDS JsonlStorage, SessionStateProofs

(* The shapes a file can have: whole, or ended in what an append left.     *)

Lines(ms) == <<Header>> \o ms
Complete(ms) == [lines |-> Lines(ms), ended |-> TRUE]
Unended(ms) == [lines |-> Lines(ms), ended |-> FALSE]
TornAfter(ms) == [lines |-> Append(Lines(ms), Torn), ended |-> FALSE]
Holds(f, ms) == f \in {Complete(ms), Unended(ms), TornAfter(ms)}

\* What a load restores of each.
Session(ms) == [readable |-> TRUE, log |-> ms, state |-> Replay(ms)]

LEMMA LinesShape ==
    ASSUME NEW ms \in Seq(Mutation)
    PROVE  /\ Lines(ms) \in Seq(Line) /\ Len(Lines(ms)) = Len(ms) + 1
           /\ Lines(ms)[1] = Header
           /\ \A i \in 1..Len(ms) : Lines(ms)[i + 1] = ms[i]
           /\ Len(ms) \in Nat /\ ms \in Seq(Line)
<1> DEFINE head == <<Header>>
<1>1. Mutation \subseteq Line /\ Header \in Line
  BY DEF Line
<1>2. /\ ms \in Seq(Line) /\ Len(ms) \in Nat
      /\ \A i \in 1..Len(ms) : ms[i] \in Line
  <2>1. /\ Len(ms) \in Nat /\ ms = [i \in 1..Len(ms) |-> ms[i]]
        /\ \A i \in 1..Len(ms) : ms[i] \in Line
    BY <1>1
  <2> QED BY <2>1
<1>3. head \in Seq(Line) /\ Len(head) = 1 /\ head[1] = Header
  BY <1>1
<1> HIDE DEF head
<1>4. /\ head \o ms \in Seq(Line) /\ Len(head \o ms) = 1 + Len(ms)
      /\ \A i \in 1..1 + Len(ms) :
           (head \o ms)[i] = IF i <= 1 THEN head[i] ELSE ms[i - 1]
  <2>1. /\ head \o ms \in Seq(Line)
        /\ Len(head \o ms) = Len(head) + Len(ms)
        /\ \A i \in 1..Len(head) + Len(ms) :
             (head \o ms)[i] = IF i <= Len(head) THEN head[i]
                              ELSE ms[i - Len(head)]
    BY <1>2, <1>3, ConcatProperties
  <2> QED BY <1>3, <2>1
<1>5. \A i \in 1..Len(ms) : /\ i + 1 \in 1..1 + Len(ms) /\ ~(i + 1 <= 1)
                            /\ (i + 1) - 1 = i
  BY <1>2
<1>6. (head \o ms)[1] = Header
  BY <1>2, <1>3, <1>4
<1>7. \A i \in 1..Len(ms) : (head \o ms)[i + 1] = ms[i]
  BY <1>4, <1>5
<1>8. Len(head \o ms) = Len(ms) + 1
  BY <1>2, <1>4
<1> QED BY <1>2, <1>4, <1>6, <1>7, <1>8 DEF Lines, head

LEMMA MutationsOfLines ==
    ASSUME NEW ms \in Seq(Mutation)
    PROVE  Mutations(Lines(ms)) = ms
<1> DEFINE c == Lines(ms)
           n == Len(ms)
<1>1. /\ n \in Nat /\ Len(c) = n + 1 /\ ms \in Seq(Line) /\ c \in Seq(Line)
      /\ \A i \in 1..n : c[i + 1] = ms[i]
  BY LinesShape
<1> HIDE DEF c, n
<1>2. /\ SubSeq(c, 2, n + 1) \in Seq(Line)
      /\ Len(SubSeq(c, 2, n + 1)) = n
      /\ \A i \in 1..n : SubSeq(c, 2, n + 1)[i] = ms[i]
  <2>1. \A i \in 2..n + 1 : c[i] \in Line
    <3>1. \A i \in 2..n + 1 : i \in 1..Len(c)
      BY <1>1
    <3> QED BY <1>1, <3>1
  <2>2. 2 \in Int /\ n + 1 \in Int
    BY <1>1
  <2>3. /\ SubSeq(c, 2, n + 1) \in Seq(Line)
        /\ Len(SubSeq(c, 2, n + 1)) =
             IF 2 <= n + 1 THEN (n + 1) - 2 + 1 ELSE 0
        /\ \A i \in 1..((n + 1) - 2 + 1) :
             SubSeq(c, 2, n + 1)[i] = c[2 + i - 1]
    BY <2>1, <2>2, SubSeqProperties
  <2>4. /\ (n + 1) - 2 + 1 = n
        /\ (IF 2 <= n + 1 THEN (n + 1) - 2 + 1 ELSE 0) = n
        /\ \A i \in 1..n : 2 + i - 1 = i + 1
    BY <1>1
  <2> QED BY <1>1, <2>3, <2>4
<1>3. SubSeq(c, 2, n + 1) = ms
  BY <1>1, <1>2, SeqEqual DEF n
<1> QED BY <1>1, <1>3 DEF Mutations, c

LEMMA MutationsParse ==
    ASSUME NEW m \in Mutation
    PROVE  m.kind \notin {"header", "torn", "blank"}
<1>1. m.kind \in Kinds
  BY DEF Mutation
<1> QED BY <1>1 DEF Kinds

LEMMA CleanPrefix ==
    ASSUME NEW ms \in Seq(Mutation), NEW f, f.lines = Lines(ms)
    PROVE  ~TornTail(f) /\ ValidPrefix(f) = Lines(ms)
<1>1. ~TornTail(f)
  <2> SUFFICES ASSUME Len(f.lines) > 1,
                      Last(f.lines).kind \in {"torn", "blank"}
               PROVE  FALSE
    BY DEF TornTail
  <2>1. Len(ms) \in Nat /\ Len(f.lines) = Len(ms) + 1
    BY LinesShape
  <2>2. Len(ms) \in 1..Len(ms)
    BY <2>1
  <2>3. Last(f.lines) = ms[Len(ms)]
    BY <2>1, <2>2, LinesShape DEF Last
  <2>4. ms[Len(ms)] \in Mutation
    BY <2>2
  <2> QED BY <2>3, <2>4, MutationsParse
<1> QED BY <1>1 DEF ValidPrefix

LEMMA TornPrefix ==
    ASSUME NEW ms \in Seq(Mutation)
    PROVE  TornTail(TornAfter(ms)) /\ ValidPrefix(TornAfter(ms)) = Lines(ms)
<1> DEFINE c == Lines(ms)
           t == Append(c, Torn)
           n == Len(ms) + 1
<1>1. c \in Seq(Line) /\ Len(c) = n /\ n \in Nat /\ n > 0 /\ Torn \in Line
  BY LinesShape DEF Line
<1>2. TornAfter(ms).lines = t
  BY DEF TornAfter
<1> HIDE DEF c, n
<1>3. /\ t \in Seq(Line) /\ Len(t) = n + 1 /\ t[n + 1] = Torn
      /\ \A i \in 1..n : t[i] = c[i]
  BY <1>1, AppendProperties
<1> HIDE DEF t
<1>4. TornTail(TornAfter(ms))
  <2>1. Len(t) > 1 /\ t[Len(t)] = Torn
    BY <1>1, <1>3
  <2>2. Torn.kind = "torn"
    BY DEF Torn
  <2> QED BY <1>2, <2>1, <2>2 DEF TornTail, Last
<1>5. Front(t) = c
  <2>1. Len(t) - 1 = n /\ 1 \in Int /\ n \in Int
    BY <1>1, <1>3
  <2>2. \A i \in 1..n : t[i] \in Line
    <3>1. \A i \in 1..n : i \in 1..Len(t)
      BY <1>1, <1>3
    <3> QED BY <1>3, <3>1
  <2>3. /\ SubSeq(t, 1, n) \in Seq(Line)
        /\ Len(SubSeq(t, 1, n)) = IF 1 <= n THEN n - 1 + 1 ELSE 0
        /\ \A i \in 1..(n - 1 + 1) : SubSeq(t, 1, n)[i] = t[1 + i - 1]
    BY <2>1, <2>2, SubSeqProperties
  <2>4. /\ n - 1 + 1 = n /\ (IF 1 <= n THEN n - 1 + 1 ELSE 0) = n
        /\ \A i \in 1..n : 1 + i - 1 = i
    BY <1>1
  <2>5. /\ SubSeq(t, 1, n) \in Seq(Line) /\ Len(SubSeq(t, 1, n)) = Len(c)
        /\ \A i \in 1..Len(c) : SubSeq(t, 1, n)[i] = c[i]
    BY <1>1, <1>3, <2>3, <2>4
  <2>6. SubSeq(t, 1, n) = c
    BY <1>1, <2>5, SeqEqual
  <2> QED BY <2>1, <2>6 DEF Front
<1> QED BY <1>2, <1>4, <1>5 DEF ValidPrefix, c

LEMMA HoldsShape ==
    ASSUME NEW ms \in Seq(Mutation), NEW f, Holds(f, ms)
    PROVE  /\ f \in File /\ ValidPrefix(f) = Lines(ms)
           /\ f.lines # <<>> /\ f.lines[1] = Header
           /\ TornTail(f) <=> f = TornAfter(ms)
           /\ ~f.ended <=> f # Complete(ms)
<1> DEFINE c == Lines(ms)
           t == Append(c, Torn)
<1>1. /\ c \in Seq(Line) /\ Len(c) \in Nat /\ Len(c) > 0 /\ c[1] = Header
      /\ Torn \in Line
  BY LinesShape DEF Line
<1>2. t \in Seq(Line) /\ Len(t) = Len(c) + 1 /\ t[1] = Header
  <2> HIDE DEF c
  <2>1. 1 \in 1..Len(c)
    BY <1>1
  <2> QED BY <1>1, <2>1, AppendProperties
<1>3. /\ Complete(ms) = [lines |-> c, ended |-> TRUE]
      /\ Unended(ms) = [lines |-> c, ended |-> FALSE]
      /\ TornAfter(ms) = [lines |-> t, ended |-> FALSE]
  BY DEF Complete, Unended, TornAfter
<1> HIDE DEF c, t
<1>4. c # <<>> /\ t # <<>> /\ c # t
  BY <1>1, <1>2
<1>5. CASE f = Complete(ms)
  <2>1. f.lines = c /\ f.ended = TRUE /\ f \in File
    BY <1>1, <1>3, <1>5 DEF File
  <2>2. ~TornTail(f) /\ ValidPrefix(f) = c
    BY <2>1, CleanPrefix DEF c
  <2>3. f # TornAfter(ms)
    BY <1>3, <2>1
  <2> QED BY <1>1, <1>4, <1>5, <2>1, <2>2, <2>3 DEF c
<1>6. CASE f = Unended(ms)
  <2>1. f.lines = c /\ f.ended = FALSE /\ f \in File
    BY <1>1, <1>3, <1>6 DEF File
  <2>2. ~TornTail(f) /\ ValidPrefix(f) = c
    BY <2>1, CleanPrefix DEF c
  <2>3. f # TornAfter(ms) /\ f # Complete(ms)
    BY <1>3, <1>4, <2>1
  <2> QED BY <1>1, <1>4, <2>1, <2>2, <2>3 DEF c
<1>7. CASE f = TornAfter(ms)
  <2>1. f.lines = t /\ f.ended = FALSE /\ f \in File
    BY <1>2, <1>3, <1>7 DEF File
  <2>2. TornTail(f) /\ ValidPrefix(f) = c
    BY <1>7, TornPrefix DEF c
  <2>3. f # Complete(ms)
    BY <1>3, <2>1
  <2> QED BY <1>2, <1>4, <1>7, <2>1, <2>2, <2>3 DEF c
<1> QED BY <1>5, <1>6, <1>7 DEF Holds

LEMMA RestoredIs ==
    ASSUME NEW ms \in Seq(Mutation), NEW f, Holds(f, ms), Replays(ms)
    PROVE  Restored(f) = Session(ms)
<1>1. Mutations(ValidPrefix(f)) = ms
  BY HoldsShape, MutationsOfLines
<1>2. \A i \in 2..Len(ValidPrefix(f)) : ~Malformed(f.lines[i])
  <2> SUFFICES ASSUME NEW i \in 2..Len(Lines(ms))
               PROVE  ~Malformed(f.lines[i])
    BY HoldsShape
  <2>1. /\ i \in 1..Len(Lines(ms)) /\ i - 1 \in 1..Len(ms) /\ (i - 1) + 1 = i
    BY LinesShape
  <2>2. Lines(ms)[i] = ms[i - 1] /\ ms[i - 1] \in Mutation
    BY <2>1, LinesShape
  <2>3. f.lines[i] = Lines(ms)[i]
    <3>1. Append(Lines(ms), Torn)[i] = Lines(ms)[i]
      <4>1. Lines(ms) \in Seq(Line) /\ Torn \in Line
        BY LinesShape DEF Line
      <4> QED BY <2>1, <4>1, AppendProperties
    <3> QED BY <3>1 DEF Holds, Complete, Unended, TornAfter
  <2> QED BY <2>2, <2>3, MutationsParse DEF Malformed
<1>3. Readable(f)
  BY <1>1, <1>2, HoldsShape DEF Readable
<1> QED BY <1>1, <1>3 DEF Restored, Session

\* What appends and repairs make of them.
LEMMA FileSteps ==
    ASSUME NEW ms \in Seq(Mutation)
    PROVE  /\ WithText(Complete(ms), Torn) = TornAfter(ms)
           /\ WithNewline(Unended(ms)) = Complete(ms)
  BY DEF WithText, WithNewline, Complete, Unended, TornAfter

LEMMA FunctionIsSequence ==
    ASSUME NEW S, NEW k \in Nat, NEW s \in [1..k -> S]
    PROVE  s \in Seq(S) /\ Len(s) = k
  OBVIOUS

LEMMA LineReplaced ==
    ASSUME NEW t, NEW e, NEW f, f = [lines |-> t, ended |-> e], NEW k, NEW m
    PROVE  [f EXCEPT !.lines[k] = m] =
             [lines |-> [t EXCEPT ![k] = m], ended |-> e]
<1> DEFINE z == [f.lines EXCEPT ![k] = m]
<1>1. [f EXCEPT !.lines[k] = m] = [f EXCEPT !.lines = z]
  BY Zenon
<1>2. z = [t EXCEPT ![k] = m]
  OBVIOUS
<1> HIDE DEF z
<1>3. [f EXCEPT !.lines = z] = [lines |-> z, ended |-> e]
  OBVIOUS
<1> QED BY <1>1, <1>2, <1>3

LEMMA LineCompleted ==
    ASSUME NEW ms \in Seq(Mutation), NEW m \in Mutation
    PROVE  LET f == TornAfter(ms)
           IN  [f EXCEPT !.lines[Len(f.lines)] = m] = Unended(Append(ms, m))
<1> DEFINE f == TornAfter(ms)
           c == Lines(ms)
           t == Append(c, Torn)
           n == Len(ms)
           u == Append(ms, m)
           w == Lines(u)
           z == [t EXCEPT ![Len(t)] = m]
           no == FALSE
<1>1. /\ n \in Nat /\ c \in Seq(Line) /\ Len(c) = n + 1
      /\ Torn \in Line /\ m \in Line /\ c[1] = Header
      /\ \A i \in 1..n : c[i + 1] = ms[i]
  BY LinesShape DEF Line
<1>2. /\ u \in Seq(Mutation) /\ Len(u) = n + 1 /\ u[n + 1] = m
      /\ \A i \in 1..n : u[i] = ms[i]
  BY AppendProperties
<1>3. f.lines = t /\ f = [lines |-> t, ended |-> no]
  BY DEF TornAfter
<1>4. Unended(u) = [lines |-> w, ended |-> no]
  BY DEF Unended
<1> HIDE DEF c, u, n, f, no
<1>5. /\ t \in Seq(Line) /\ Len(t) = n + 2 /\ t[n + 2] = Torn
      /\ \A i \in 1..n + 1 : t[i] = c[i]
  <2>1. /\ Append(c, Torn) \in Seq(Line)
        /\ Len(Append(c, Torn)) = Len(c) + 1
        /\ Append(c, Torn)[Len(c) + 1] = Torn
        /\ \A i \in 1..Len(c) : Append(c, Torn)[i] = c[i]
    BY <1>1, AppendProperties
  <2>2. Len(c) + 1 = n + 2
    BY <1>1
  <2> QED BY <1>1, <2>1, <2>2
<1>6. /\ w \in Seq(Line) /\ Len(w) = n + 2 /\ w[1] = Header
      /\ \A i \in 1..n + 1 : w[i + 1] = u[i]
  <2>1. /\ w \in Seq(Line) /\ Len(w) = Len(u) + 1 /\ w[1] = Header
        /\ \A i \in 1..Len(u) : w[i + 1] = u[i]
    BY <1>2, LinesShape
  <2>2. (n + 1) + 1 = n + 2
    BY <1>1
  <2> QED BY <1>2, <2>1, <2>2
<1> HIDE DEF t, w
<1>7. /\ z \in Seq(Line) /\ Len(z) = n + 2 /\ z[n + 2] = m
      /\ \A i \in 1..n + 1 : z[i] = t[i]
  <2>1. n + 2 \in 1..n + 2 /\ \A i \in 1..n + 1 : i \in 1..n + 2 /\ i # n + 2
    BY <1>1
  <2>2. DOMAIN t = 1..n + 2 /\ n + 2 \in Nat
    BY <1>1, <1>5
  <2>3. z = [i \in 1..n + 2 |-> IF i = n + 2 THEN m ELSE t[i]]
    BY <1>5, <2>2
  <2>4. \A i \in 1..n + 2 : t[i] \in Line
    BY <1>5, <2>2
  <2>5. z \in [1..n + 2 -> Line]
    BY <1>1, <2>3, <2>4
  <2> HIDE DEF z
  <2>6. z \in Seq(Line) /\ Len(z) = n + 2
    BY <2>2, <2>5, FunctionIsSequence
  <2> QED BY <2>1, <2>3, <2>6
<1>8. z = w
  <2> HIDE DEF z
  <2>1. ASSUME NEW i \in 1..n + 2 PROVE z[i] = w[i]
    <3>1. CASE i = 1
      BY <1>1, <1>5, <1>6, <1>7, <3>1
    <3>2. CASE i \in 2..n + 1
      <4>1. i - 1 \in 1..n /\ (i - 1) + 1 = i /\ i \in 1..n + 1
            /\ i - 1 \in 1..n + 1
        BY <1>1, <3>2
      <4>2. w[i] = u[i - 1]
        BY <1>6, <4>1
      <4>3. z[i] = c[i] /\ c[i] = ms[i - 1] /\ u[i - 1] = ms[i - 1]
        BY <1>1, <1>2, <1>5, <1>7, <4>1
      <4> QED BY <4>2, <4>3
    <3>3. CASE i = n + 2
      <4>1. n + 1 \in 1..n + 1 /\ (n + 1) + 1 = n + 2
        BY <1>1
      <4> QED BY <1>2, <1>6, <1>7, <3>3, <4>1
    <3>4. i = 1 \/ i \in 2..n + 1 \/ i = n + 2
      BY <1>1
    <3> QED BY <3>1, <3>2, <3>3, <3>4
  <2> QED BY <1>6, <1>7, <2>1, SeqEqual
<1>9. [f EXCEPT !.lines[Len(f.lines)] = m] = [lines |-> z, ended |-> no]
  <2>1. [f EXCEPT !.lines[Len(t)] = m] = [lines |-> z, ended |-> no]
    BY <1>3, LineReplaced
  <2> QED BY <1>3, <2>1, Zenon
<1> QED BY <1>4, <1>8, <1>9 DEF u, f

-----------------------------------------------------------------------------
(* The inductive invariant.                                                *)

\* What the repository does not arrange (README): forks load the file while
\* nobody else uses it, if there are any, and a failed append leaves nothing
\* of its line.
Careful ==
    /\ Serialized \/ "fork" \notin Loaders
    /\ FailureLeaves \subseteq {"none"}

Phases == {"idle", "none", "partial", "whole", "line"}
StorageType ==
    [open : BOOLEAN, state : SessionStates, queue : Seq(Writes),
     glued : BOOLEAN, orphan : BOOLEAN, phase : Phases]
LoaderType == [Loaders -> [stage : Stages, read : File]]
RequestsType == [made : 0..MaxRequests, settled : 0..MaxRequests]

Typed ==
    /\ tmp \in File /\ storage \in StorageType /\ loader \in LoaderType
    /\ requests \in RequestsType
    /\ requests.made = requests.settled + Len(storage.queue)
    /\ acked \in Seq(Mutation) /\ crashes \in 0..MaxCrashes

\* The file holds a log that replays, maybe with a torn line behind it.
Kept(f, d) ==
    /\ d.log \in Seq(Mutation) /\ Replays(d.log) /\ d = Session(d.log)
    /\ Holds(f, d.log)
    /\ d.state \in SessionStates /\ TreeOK(d.state)

\* The write at the head of the queue has taken effect in the file and not
\* in memory.
Ahead(s, d) ==
    LET m == MutationOf(s.state, Head(s.queue))
    IN  /\ Valid(s.state, m) /\ d.state = Applied(s.state, m)
        /\ m \in ToSet(d.log)

\* The memory of the storage object, its append and the file.
Appending(s, f, d) ==
    /\ s.phase # "idle" => s.queue # <<>>
    /\ ~s.open => s.queue = <<>>
    /\ s.open /\ s.phase \in {"idle", "none", "partial"} => s.state = d.state
    /\ s.open /\ s.phase \in {"idle", "none"} => f = Complete(d.log)
    /\ s.phase \in {"none", "partial"} => Accepts(s.state, Head(s.queue))
    /\ s.phase = "partial" => f = TornAfter(d.log) /\ ~s.glued /\ ~s.orphan
    /\ s.phase = "whole" => f = Unended(d.log) /\ ~s.orphan
    /\ s.phase = "line" => f = Complete(d.log)
    /\ s.phase \in {"whole", "line"} => Ahead(s, d)

\* One load at a time, of a file nobody appends to.
LoadFits(l, ld, s, f, t, d) ==
    /\ s.queue = <<>> /\ ld[l].read = f
    /\ \A k \in Loaders : k # l => ld[k].stage = "idle"
    /\ l = "open" => ~s.open
    /\ ld[l].stage # "displaced"
    /\ ld[l].stage \in {"staging", "populating", "publishing"} =>
         f = TornAfter(d.log)
    /\ ld[l].stage = "terminating" => f = Unended(d.log)
    /\ ld[l].stage = "populating" => t = EmptyFile
    /\ ld[l].stage = "publishing" => t = Complete(d.log)
LoadsFit(ld, s, f, t, d) ==
    \A l \in Loaders : ld[l].stage # "idle" => LoadFits(l, ld, s, f, t, d)

\* Requests are enough to account for the mutations in the file.
Room(s, d, r) ==
    Len(d.log) + Len(s.queue) <=
      r.made + (IF s.phase \in {"whole", "line"} THEN 1 ELSE 0)

AcksKept(a, d) == ToSet(a) \subseteq ToSet(d.log)

IInv ==
    /\ Typed /\ Kept(file, durable) /\ Appending(storage, file, durable)
    /\ LoadsFit(loader, storage, file, tmp, durable)
    /\ Room(storage, durable, requests) /\ AcksKept(acked, durable)

\* What is known of the parts of the storage object.
LEMMA StorageShape ==
    ASSUME NEW s \in StorageType
    PROVE  /\ s.open \in BOOLEAN /\ s.state \in SessionStates
           /\ s.queue \in Seq(Writes) /\ s.phase \in Phases
           /\ s.glued \in BOOLEAN /\ s.orphan \in BOOLEAN
           /\ Len(s.queue) \in Nat
  BY DEF StorageType

LEMMA QueueSet ==
    ASSUME NEW s \in StorageType, NEW q \in Seq(Writes), NEW t,
           t = [s EXCEPT !.queue = q]
    PROVE  /\ t \in StorageType /\ t.queue = q /\ t.open = s.open
           /\ t.state = s.state /\ t.phase = s.phase /\ t.glued = s.glued
           /\ t.orphan = s.orphan
  BY DEF StorageType

LEMMA PhaseSet ==
    ASSUME NEW s \in StorageType, NEW p \in Phases, NEW t,
           t = [s EXCEPT !.phase = p]
    PROVE  /\ t \in StorageType /\ t.queue = s.queue /\ t.open = s.open
           /\ t.state = s.state /\ t.phase = p /\ t.glued = s.glued
           /\ t.orphan = s.orphan
  BY DEF StorageType

LEMMA ClosedShape ==
    /\ Closed \in StorageType /\ ~Closed.open /\ Closed.queue = <<>>
    /\ Closed.phase = "idle"
  BY EmptyShape DEF Closed, StorageType, Phases

LEMMA OpenedShape ==
    ASSUME NEW ms, Replay(ms) \in SessionStates
    PROVE  /\ Opened(ms) \in StorageType /\ Opened(ms).open
           /\ Opened(ms).state = Replay(ms)
           /\ Opened(ms).queue = <<>> /\ Opened(ms).phase = "idle"
<1>1. Opened(ms) \in StorageType
  <2>1. Closed \in StorageType
    BY ClosedShape
  <2> QED BY <2>1 DEF Opened, StorageType
<1>2. Opened(ms).open
  BY Zenon DEF Opened, Closed
<1>3. Opened(ms).state = Replay(ms)
  BY DEF Opened, Closed
<1>4. Opened(ms).queue = <<>> /\ Opened(ms).phase = "idle"
  BY DEF Opened, Closed
<1> QED BY <1>1, <1>2, <1>3, <1>4

LEMMA InitEstablishes == Init => IInv
<1> SUFFICES ASSUME Init PROVE IInv
  OBVIOUS
<1>1. <<>> \in Seq(Mutation) /\ Replays(<<>>) /\ Replay(<<>>) = Empty
  BY ReplayEmpty
<1>2. Lines(<<>>) = <<Header>>
  BY DEF Lines
<1>3. NewFile = Complete(<<>>)
  BY <1>2 DEF NewFile, Complete
<1>4. Holds(file, <<>>) /\ durable = Session(<<>>)
  <2>1. Holds(NewFile, <<>>)
    BY <1>3 DEF Holds
  <2> QED BY <1>1, <2>1, RestoredIs DEF Init
<1>5. durable.log = <<>> /\ durable.state = Empty
  BY <1>1, <1>4 DEF Session
<1>6. Kept(file, durable)
  BY <1>1, <1>4, <1>5, EmptyShape, TreeEmpty DEF Kept
<1>7. /\ storage.open /\ storage.state = Empty
      /\ storage.queue = <<>> /\ storage.phase = "idle"
      /\ storage \in StorageType
  BY <1>1, EmptyShape, OpenedShape DEF Init
<1>8. Absent \in File
  BY DEF Absent, File
<1>9. Typed
  <2>1. loader \in LoaderType
    BY <1>8 DEF Init, NoLoad, LoaderType, Stages
  <2>2. requests \in RequestsType /\ requests.made = requests.settled + 0
        /\ crashes \in 0..MaxCrashes
    BY ParametersAssumption DEF Init, RequestsType
  <2> QED BY <1>7, <1>8, <2>1, <2>2 DEF Init, Typed
<1>10. Appending(storage, file, durable)
  BY <1>3, <1>5, <1>7 DEF Appending, Init
<1>11. LoadsFit(loader, storage, file, tmp, durable)
  BY DEF LoadsFit, Init, NoLoad
<1>12. Room(storage, durable, requests)
  BY <1>5, <1>7 DEF Room, Init
<1>13. AcksKept(acked, durable)
  BY DEF AcksKept, Init, ToSet
<1> QED BY <1>6, <1>9, <1>10, <1>11, <1>12, <1>13 DEF IInv

\* While anything is queued, nothing is loaded.
LEMMA QueueExcludesLoads ==
    ASSUME IInv, storage.queue # <<>>
    PROVE  \A l \in Loaders : loader[l].stage = "idle"
  BY DEF IInv, LoadsFit, LoadFits

\* Only forks load a file that the process has open.
LEMMA OpenExcludesOpening ==
    ASSUME IInv, storage.open, NEW l \in Loaders, "fork" \notin Loaders
    PROVE  loader[l].stage = "idle"
<1>1. l = "open"
  BY ParametersAssumption
<1> QED BY <1>1 DEF IInv, LoadsFit, LoadFits

LEMMA EnqueuePreserves ==
    ASSUME Careful, IInv, Enqueue PROVE IInv'
<1>1. PICK r \in Writes : storage' = [storage EXCEPT !.queue = Append(@, r)]
  BY DEF Enqueue
<1>2. /\ storage \in StorageType /\ storage.queue \in Seq(Writes)
      /\ Len(storage.queue) \in Nat
  BY StorageShape DEF IInv, Typed
<1>3. /\ storage'.queue = Append(storage.queue, r)
      /\ storage'.open = storage.open /\ storage'.state = storage.state
      /\ storage'.phase = storage.phase /\ storage'.glued = storage.glued
      /\ storage'.orphan = storage.orphan /\ storage' \in StorageType
  <2> DEFINE q == Append(storage.queue, r)
  <2>1. q \in Seq(Writes)
    BY <1>2, AppendProperties
  <2>2. storage' = [storage EXCEPT !.queue = q]
    BY <1>1
  <2> HIDE DEF q
  <2>3. /\ storage'.queue = q /\ storage' \in StorageType
        /\ storage'.open = storage.open /\ storage'.state = storage.state
        /\ storage'.phase = storage.phase /\ storage'.glued = storage.glued
        /\ storage'.orphan = storage.orphan
    BY <1>2, <2>1, <2>2, QueueSet
  <2> QED BY <2>3 DEF q
<1>4. /\ Append(storage.queue, r) # <<>>
      /\ Len(Append(storage.queue, r)) = Len(storage.queue) + 1
      /\ storage.queue # <<>> =>
           Head(Append(storage.queue, r)) = Head(storage.queue)
  BY <1>2, AppendProperties, HeadTailAppend
<1>5. /\ requests' = [requests EXCEPT !.made = @ + 1]
      /\ requests.made < MaxRequests /\ storage.open /\ ~Loading
      /\ UNCHANGED <<file, durable, tmp, loader, acked, crashes>>
  <2>1. Serialized => ~Loading
    BY DEF Enqueue
  <2>2. storage.open /\ "fork" \notin Loaders => ~Loading
    BY OpenExcludesOpening DEF Loading
  <2> QED BY <2>1, <2>2 DEF Enqueue, Careful, disk
<1>6. /\ requests'.made = requests.made + 1
      /\ requests'.settled = requests.settled /\ requests' \in RequestsType
  BY <1>5, ParametersAssumption, SMTT(40) DEF IInv, Typed, RequestsType
<1>7. Typed'
  <2>1. requests.made \in Nat /\ requests.settled \in Nat
    BY DEF IInv, Typed, RequestsType
  <2>2. requests'.made = requests'.settled + Len(storage'.queue)
    BY <1>2, <1>3, <1>4, <1>6, <2>1 DEF IInv, Typed
  <2> QED BY <1>3, <1>5, <1>6, <2>2 DEF IInv, Typed
<1>8. Appending(storage', file', durable')
  <2>1. Appending(storage, file, durable)
    BY DEF IInv
  <2>2. Ahead(storage, durable) /\ storage.queue # <<>> =>
          Ahead(storage', durable)
    BY <1>3, <1>4 DEF Ahead
  <2> QED BY <1>3, <1>4, <1>5, <2>1, <2>2 DEF Appending
<1>9. LoadsFit(loader, storage, file, tmp, durable)'
  BY <1>5 DEF Loading, LoadsFit
<1>10. Room(storage, durable, requests)'
  <2>1. Len(durable.log) \in Nat /\ requests.made \in Nat
    BY LenProperties DEF IInv, Kept, Typed, RequestsType
  <2> DEFINE n == Len(durable.log)
             q == Len(storage.queue)
             made == requests.made
             more == IF storage.phase \in {"whole", "line"} THEN 1 ELSE 0
  <2>2. n + q <= made + more /\ more \in Nat
    BY DEF IInv, Room
  <2>3. n \in Nat /\ q \in Nat /\ made \in Nat
    BY <1>2, <2>1
  <2>4. n + (q + 1) <= (made + 1) + more
    <3> HIDE DEF n, q, made, more
    <3> QED BY <2>2, <2>3
  <2> QED BY <1>3, <1>4, <1>5, <1>6, <2>4 DEF Room
<1> QED BY <1>5, <1>7, <1>8, <1>9, <1>10 DEF IInv

LEMMA BeginPreserves ==
    ASSUME IInv, Begin PROVE IInv'
<1>1. storage \in StorageType
  BY DEF IInv, Typed
<1>2. /\ storage'.queue = storage.queue
      /\ storage'.open = storage.open /\ storage'.state = storage.state
      /\ storage'.phase = "none" /\ storage' \in StorageType
      /\ storage.phase = "idle" /\ storage.queue # <<>>
      /\ Accepts(storage.state, Head(storage.queue))
      /\ UNCHANGED <<file, durable, tmp, loader, requests, acked, crashes>>
  BY <1>1 DEF Begin, StorageType, Phases, Admitted, disk
<1>3. Typed'
  BY <1>2 DEF IInv, Typed
<1>4. Appending(storage', file', durable')
  BY <1>2 DEF IInv, Appending
<1>5. LoadsFit(loader, storage, file, tmp, durable)'
  BY <1>2, QueueExcludesLoads DEF LoadsFit
<1>6. Room(storage, durable, requests)'
  BY <1>2 DEF IInv, Room
<1> QED BY <1>2, <1>3, <1>4, <1>5, <1>6 DEF IInv

-----------------------------------------------------------------------------
(* The queue goes on.                                                      *)

LEMMA AfterShape ==
    ASSUME NEW s \in StorageType, s.queue # <<>>
    PROVE  /\ After(s) \in StorageType /\ After(s).queue = Tail(s.queue)
           /\ Len(After(s).queue) = Len(s.queue) - 1
           /\ After(s).open = s.open /\ After(s).state = s.state
           /\ After(s).phase = "idle"
<1>1. Tail(s.queue) \in Seq(Writes) /\ Len(Tail(s.queue)) = Len(s.queue) - 1
  BY StorageShape, HeadTailProperties
<1>2. After(s) = [s EXCEPT !.queue = Tail(s.queue), !.phase = "idle"]
  BY DEF After
<1> QED BY <1>1, <1>2 DEF StorageType, Phases

LEMMA EmptyQueue ==
    ASSUME NEW s \in StorageType
    PROVE  s.queue = <<>> <=> Len(s.queue) = 0
  BY StorageShape, EmptySeq

\* One request less is queued, and one more is settled.
LEMMA Settles ==
    ASSUME IInv, storage.queue # <<>>,
           requests' = [requests EXCEPT !.settled = @ + 1],
           Len(storage'.queue) = Len(storage.queue) - 1
    PROVE  /\ requests' \in RequestsType /\ requests'.made = requests.made
           /\ requests'.made = requests'.settled + Len(storage'.queue)
<1> DEFINE made == requests.made
           settled == requests.settled
           q == Len(storage.queue)
<1>1. /\ made \in 0..MaxRequests /\ settled \in 0..MaxRequests
      /\ made = settled + q
  BY DEF IInv, Typed, RequestsType
<1>2. q \in Nat /\ q # 0
  BY StorageShape, EmptyQueue DEF IInv, Typed
<1>3. /\ requests'.made = made /\ requests'.settled = settled + 1
      /\ requests' = [made |-> made, settled |-> settled + 1]
  BY DEF IInv, Typed, RequestsType
<1>4. Len(storage'.queue) = q - 1
  OBVIOUS
<1> HIDE DEF made, settled, q
<1>5. settled + 1 \in 0..MaxRequests /\ made = (settled + 1) + (q - 1)
  BY <1>1, <1>2, ParametersAssumption
<1> QED BY <1>1, <1>3, <1>4, <1>5 DEF RequestsType, made

LEMMA RejectPreserves ==
    ASSUME IInv, Reject, storage.phase \in {"idle", "none"},
           storage.queue # <<>>
    PROVE  IInv'
<1>1. storage \in StorageType
  BY DEF IInv, Typed
<1>2. /\ storage' \in StorageType
      /\ Len(storage'.queue) = Len(storage.queue) - 1
      /\ storage'.open = storage.open /\ storage'.state = storage.state
      /\ storage'.phase = "idle"
      /\ requests' = [requests EXCEPT !.settled = @ + 1]
      /\ UNCHANGED <<file, durable, tmp, loader, acked, crashes>>
  BY <1>1, AfterShape DEF Reject, disk
<1>3. /\ requests' \in RequestsType /\ requests'.made = requests.made
      /\ requests'.made = requests'.settled + Len(storage'.queue)
  BY <1>2, Settles
<1>4. Typed'
  BY <1>2, <1>3 DEF IInv, Typed
<1>5. storage.open
  BY <1>1, StorageShape DEF IInv, Appending
<1>6. Appending(storage', file', durable')
  BY <1>2, <1>5 DEF IInv, Appending
<1>7. LoadsFit(loader, storage, file, tmp, durable)'
  BY <1>2, QueueExcludesLoads DEF LoadsFit
<1>8. Room(storage, durable, requests)'
  <2> DEFINE n == Len(durable.log)
             q == Len(storage.queue)
             made == requests.made
  <2>1. n + q <= made + 0
    BY DEF IInv, Room
  <2>2. n \in Nat /\ q \in Nat /\ made \in Nat
    BY <1>1, StorageShape, LenProperties DEF IInv, Kept, Typed, RequestsType
  <2>3. n + (q - 1) <= made + 0
    <3> HIDE DEF n, q, made
    <3> QED BY <2>1, <2>2
  <2> QED BY <1>2, <1>3, <2>3 DEF Room
<1> QED BY <1>2, <1>4, <1>6, <1>7, <1>8 DEF IInv

LEMMA RefusePreserves ==
    ASSUME IInv, Refuse PROVE IInv'
  BY RejectPreserves DEF Refuse

LEMMA AppendFailsPreserves ==
    ASSUME Careful, IInv, AppendFails PROVE IInv'
<1>1. storage.phase = "none"
  BY DEF Careful, AppendFails
<1>2. storage.queue # <<>>
  BY <1>1 DEF IInv, Appending
<1> QED BY <1>1, <1>2, RejectPreserves DEF AppendFails
-----------------------------------------------------------------------------
(* The line of an append.                                                  *)

LEMMA StoreHolds ==
    ASSUME Kept(file, durable), NEW f, Holds(f, durable.log), Store(f)
    PROVE  file' = f /\ durable' = durable /\ Kept(file', durable')
<1>1. Restored(f) = durable
  BY RestoredIs DEF Kept
<1> QED BY <1>1 DEF Store, Kept

\* Complete files end in a newline, and no other.
LEMMA Endings ==
    ASSUME NEW ms
    PROVE  /\ Complete(ms).ended /\ ~Unended(ms).ended
           /\ ~TornAfter(ms).ended
  BY Zenon DEF Complete, Unended, TornAfter

LEMMA WritePartPreserves ==
    ASSUME IInv, WritePart PROVE IInv' /\ durable' = durable
<1>1. /\ storage \in StorageType /\ storage.phase = "none"
      /\ storage.queue # <<>> /\ storage.open
  BY StorageShape DEF IInv, Typed, WritePart, Appending
<1>2. /\ Kept(file, durable) /\ durable.log \in Seq(Mutation)
      /\ file = Complete(durable.log) /\ storage.state = durable.state
      /\ Accepts(storage.state, Head(storage.queue))
  BY <1>1 DEF IInv, Appending, Kept
<1>3. file.ended
  BY <1>2, Endings
<1>4. /\ storage' \in StorageType /\ storage'.queue = storage.queue
      /\ storage'.open = storage.open /\ storage'.state = storage.state
      /\ storage'.phase = "partial" /\ ~storage'.orphan
      /\ ~storage'.glued
  <2> DEFINE yes == FALSE
             glue == ~file.ended
  <2>1. storage' = [storage EXCEPT !.phase = "partial", !.orphan = yes,
                                   !.glued = glue]
    BY DEF WritePart
  <2>2. yes \in BOOLEAN /\ glue \in BOOLEAN /\ ~yes /\ ~glue
    BY <1>3
  <2> HIDE DEF yes, glue
  <2>3. /\ storage' \in StorageType /\ storage'.queue = storage.queue
        /\ storage'.open = storage.open /\ storage'.state = storage.state
        /\ storage'.phase = "partial" /\ storage'.orphan = yes
        /\ storage'.glued = glue
    BY <1>1, <2>1, <2>2 DEF StorageType, Phases
  <2> QED BY <2>2, <2>3
<1>5. /\ file' = TornAfter(durable.log) /\ durable' = durable
      /\ Kept(file', durable')
  <2>1. Store(TornAfter(durable.log))
    BY <1>2, FileSteps DEF WritePart
  <2>2. Holds(TornAfter(durable.log), durable.log)
    BY DEF Holds
  <2> QED BY <1>2, <2>1, <2>2, StoreHolds
<1>6. UNCHANGED <<tmp, loader, requests, acked, crashes>>
  BY DEF WritePart
<1>7. Typed'
  BY <1>4, <1>6 DEF IInv, Typed
<1>8. Appending(storage', file', durable')
  BY <1>1, <1>2, <1>4, <1>5 DEF Appending
<1>9. LoadsFit(loader, storage, file, tmp, durable)'
  BY <1>1, <1>6, QueueExcludesLoads DEF LoadsFit
<1>10. Room(storage, durable, requests)'
  BY <1>1, <1>4, <1>5, <1>6 DEF IInv, Room
<1>11. AcksKept(acked, durable)'
  BY <1>5, <1>6 DEF IInv
<1> QED BY <1>5, <1>7, <1>8, <1>9, <1>10, <1>11 DEF IInv

LEMMA WriteNewlinePreserves ==
    ASSUME IInv, WriteNewline PROVE IInv' /\ durable' = durable
<1>1. /\ storage \in StorageType /\ storage.phase = "whole"
      /\ storage.queue # <<>>
  BY DEF IInv, Typed, WriteNewline, Appending
<1>2. /\ Kept(file, durable) /\ durable.log \in Seq(Mutation)
      /\ file = Unended(durable.log) /\ ~storage.orphan
      /\ Ahead(storage, durable)
  BY <1>1 DEF IInv, Appending, Kept
<1>3. /\ storage' \in StorageType /\ storage'.queue = storage.queue
      /\ storage'.open = storage.open /\ storage'.state = storage.state
      /\ storage'.phase = "line"
  BY <1>1, PhaseSet DEF WriteNewline, Phases
<1>4. /\ file' = Complete(durable.log) /\ durable' = durable
      /\ Kept(file', durable')
  <2>1. Store(Complete(durable.log))
    BY <1>2, FileSteps DEF WriteNewline
  <2>2. Holds(Complete(durable.log), durable.log)
    BY DEF Holds
  <2> QED BY <1>2, <2>1, <2>2, StoreHolds
<1>5. UNCHANGED <<tmp, loader, requests, acked, crashes>>
  BY DEF WriteNewline
<1>6. Typed'
  BY <1>3, <1>5 DEF IInv, Typed
<1>7. Ahead(storage', durable')
  BY <1>2, <1>3, <1>4 DEF Ahead
<1>8. Appending(storage', file', durable')
  BY <1>1, <1>3, <1>4, <1>7 DEF IInv, Appending
<1>9. LoadsFit(loader, storage, file, tmp, durable)'
  BY <1>1, <1>5, QueueExcludesLoads DEF LoadsFit
<1>10. Room(storage, durable, requests)'
  BY <1>1, <1>3, <1>4, <1>5 DEF IInv, Room
<1>11. AcksKept(acked, durable)'
  BY <1>4, <1>5 DEF IInv
<1> QED BY <1>4, <1>6, <1>8, <1>9, <1>10, <1>11 DEF IInv

\* What the append of a whole line does to the session that a load restores.
LEMMA WriteRestStores ==
    ASSUME IInv, WriteRest
    PROVE  LET r == Head(storage.queue)
               m == MutationOf(durable.state, r)
           IN  /\ r \in Writes /\ r \in Requests /\ Current = m
               /\ Accepts(durable.state, r) /\ Valid(durable.state, m)
               /\ m \in Mutation
               /\ file' = Unended(Append(durable.log, m))
               /\ durable'.log = Append(durable.log, m)
               /\ durable'.state = Applied(durable.state, m)
               /\ Kept(file', durable')
<1> DEFINE r == Head(storage.queue)
           m == MutationOf(durable.state, r)
           ms == durable.log
<1>1. /\ storage \in StorageType /\ storage.phase = "partial"
      /\ storage.queue # <<>> /\ storage.open
  BY StorageShape DEF IInv, Typed, WriteRest, Appending
<1>2. /\ Kept(file, durable) /\ ms \in Seq(Mutation)
      /\ file = TornAfter(ms) /\ storage.state = durable.state
      /\ ~storage.glued /\ ~storage.orphan
      /\ Accepts(durable.state, r)
  BY <1>1 DEF IInv, Appending, Kept
<1>3. durable.state \in SessionStates /\ TreeOK(durable.state)
      /\ Replays(ms) /\ durable.state = Replay(ms)
  BY <1>2 DEF Kept, Session
<1>4. r \in Writes /\ r \in Requests
  BY <1>1, StorageShape, HeadTailProperties, WritesAssumption
<1>5. WellFormed(m) /\ Valid(durable.state, m)
  BY <1>2, <1>3, <1>4, MutationShape, AcceptedValid
<1>6. m \in Mutation
  BY <1>5 DEF WellFormed
<1>7. Current = m
  BY <1>2 DEF Current
<1> HIDE DEF r, m, ms
<1>8. /\ Append(ms, m) \in Seq(Mutation)
      /\ Replays(Append(ms, m))
      /\ Replay(Append(ms, m)) = Applied(durable.state, m)
  BY <1>2, <1>3, <1>5, <1>6, AppendProperties, ReplayAppend
<1>9. /\ Applied(durable.state, m) \in SessionStates
      /\ TreeOK(Applied(durable.state, m))
  BY <1>3, <1>5, AppliedShape, TreeStep
<1>10. Store(Unended(Append(ms, m)))
  <2>1. ~file.ended
    BY <1>2, Endings
  <2>2. [file EXCEPT !.lines[Len(file.lines)] = m] = Unended(Append(ms, m))
    BY <1>2, <1>6, LineCompleted
  <2>3. Store([file EXCEPT !.lines[Len(file.lines)] = m])
    BY <1>2, <1>7, <2>1, Zenon DEF WriteRest
  <2> QED BY <2>2, <2>3
<1>11. Holds(Unended(Append(ms, m)), Append(ms, m))
  BY DEF Holds
<1>12. file' = Unended(Append(ms, m)) /\ durable' = Session(Append(ms, m))
  BY <1>8, <1>10, <1>11, RestoredIs DEF Store
<1>13. /\ durable'.log = Append(ms, m)
       /\ durable'.state = Applied(durable.state, m)
  BY <1>8, <1>12 DEF Session
<1>14. Kept(file', durable')
  BY <1>8, <1>9, <1>11, <1>12, <1>13 DEF Kept
<1> QED BY <1>2, <1>4, <1>5, <1>6, <1>7, <1>12, <1>13, <1>14 DEF r, m, ms

LEMMA SetAppended ==
    ASSUME NEW ms \in Seq(Mutation), NEW m \in Mutation
    PROVE  /\ ToSet(Append(ms, m)) = ToSet(ms) \cup {m}
           /\ Len(Append(ms, m)) = Len(ms) + 1 /\ Len(ms) \in Nat
           /\ Append(ms, m) \in Seq(Mutation)
<1> DEFINE c == Append(ms, m)
           n == Len(ms)
<1>1. /\ c \in Seq(Mutation) /\ n \in Nat /\ Len(c) = n + 1 /\ c[n + 1] = m
      /\ \A i \in 1..n : c[i] = ms[i]
  BY AppendProperties, LenProperties
<1>2. DOMAIN c = 1..n + 1 /\ DOMAIN ms = 1..n
  BY <1>1, LenProperties
<1> HIDE DEF c, n
<1>3. \A i \in 1..n + 1 : i \in 1..n \/ i = n + 1
  BY <1>1
<1>4. n + 1 \in 1..n + 1 /\ \A i \in 1..n : i \in 1..n + 1
  BY <1>1
<1>5. ToSet(c) = ToSet(ms) \cup {m}
  BY <1>1, <1>2, <1>3, <1>4 DEF ToSet
<1> QED BY <1>1, <1>5 DEF c, n

LEMMA WriteRestPreserves ==
    ASSUME IInv, WriteRest PROVE IInv'
<1> DEFINE r == Head(storage.queue)
           m == MutationOf(durable.state, r)
           ms == durable.log
<1>1. /\ storage \in StorageType /\ storage.phase = "partial"
      /\ storage.queue # <<>> /\ storage.open
      /\ storage.state = durable.state /\ ms \in Seq(Mutation)
  BY StorageShape DEF IInv, Typed, WriteRest, Appending, Kept
<1>2. /\ Valid(durable.state, m) /\ m \in Mutation
      /\ file' = Unended(Append(ms, m)) /\ durable'.log = Append(ms, m)
      /\ durable'.state = Applied(durable.state, m)
      /\ Kept(file', durable')
  BY WriteRestStores
<1>3. /\ storage' \in StorageType /\ storage'.queue = storage.queue
      /\ storage'.open = storage.open /\ storage'.state = storage.state
      /\ storage'.phase = "whole" /\ storage'.orphan = storage.orphan
  <2> DEFINE whole == "whole"
  <2>1. storage' = [storage EXCEPT !.phase = whole]
    BY DEF WriteRest
  <2>2. whole \in Phases
    BY DEF Phases
  <2> HIDE DEF r, m, ms, whole
  <2>3. /\ storage' \in StorageType /\ storage'.queue = storage.queue
        /\ storage'.open = storage.open /\ storage'.state = storage.state
        /\ storage'.phase = whole /\ storage'.orphan = storage.orphan
    BY <1>1, <2>1, <2>2 DEF StorageType
  <2> QED BY <2>3 DEF whole
<1>4. UNCHANGED <<tmp, loader, requests, acked, crashes>>
  BY DEF WriteRest
<1>5. ~storage.orphan
  BY <1>1 DEF IInv, Appending
<1>6. Typed'
  BY <1>3, <1>4 DEF IInv, Typed
<1>7. ToSet(durable'.log) = ToSet(ms) \cup {m}
      /\ Len(durable'.log) = Len(ms) + 1 /\ Len(ms) \in Nat
  BY <1>1, <1>2, SetAppended
<1>8. Ahead(storage', durable')
  <2>1. MutationOf(storage'.state, Head(storage'.queue)) = m
    BY <1>1, <1>3
  <2> HIDE DEF m
  <2> QED BY <1>1, <1>2, <1>3, <1>7, <2>1 DEF Ahead
<1>9. Appending(storage', file', durable')
  BY <1>1, <1>2, <1>3, <1>5, <1>8 DEF Appending
<1>10. LoadsFit(loader, storage, file, tmp, durable)'
  BY <1>1, <1>4, QueueExcludesLoads DEF LoadsFit
<1>11. Room(storage, durable, requests)'
  <2> DEFINE n == Len(ms)
             q == Len(storage.queue)
             made == requests.made
  <2>1. n + q <= made + 0
    BY <1>1 DEF IInv, Room
  <2>2. n \in Nat /\ q \in Nat /\ made \in Nat
    BY <1>1, <1>7, StorageShape DEF IInv, Typed, RequestsType
  <2>3. (n + 1) + q <= made + 1
    <3> HIDE DEF n, q, made
    <3> QED BY <2>1, <2>2
  <2> QED BY <1>3, <1>4, <1>7, <2>3 DEF Room
<1>12. AcksKept(acked, durable)'
  BY <1>4, <1>7 DEF IInv, AcksKept
<1> QED BY <1>2, <1>6, <1>9, <1>10, <1>11, <1>12 DEF IInv

LEMMA AppendSucceedsPreserves ==
    ASSUME IInv, AppendSucceeds PROVE IInv'
<1>1. /\ storage \in StorageType /\ storage.phase = "line"
      /\ storage.queue # <<>> /\ storage.open
  BY StorageShape DEF IInv, Typed, AppendSucceeds, Appending
<1>2. /\ Valid(storage.state, Current)
      /\ durable.state = Applied(storage.state, Current)
      /\ Current \in ToSet(durable.log) /\ file = Complete(durable.log)
  BY <1>1 DEF IInv, Appending, Ahead, Current
<1>3. /\ storage' = [After(storage) EXCEPT !.state = durable.state]
      /\ acked' = Append(acked, Current)
      /\ requests' = [requests EXCEPT !.settled = @ + 1]
      /\ UNCHANGED <<file, durable, tmp, loader, crashes>>
  BY <1>2 DEF AppendSucceeds, Remembered, disk
<1>4. durable.state \in SessionStates /\ durable.log \in Seq(Mutation)
  BY DEF IInv, Kept
<1>5. /\ storage' \in StorageType
      /\ Len(storage'.queue) = Len(storage.queue) - 1
      /\ storage'.open = storage.open /\ storage'.state = durable.state
      /\ storage'.phase = "idle"
  <2> DEFINE s == After(storage)
  <2>1. /\ s \in StorageType /\ Len(s.queue) = Len(storage.queue) - 1
        /\ s.open = storage.open /\ s.phase = "idle"
    BY <1>1, AfterShape
  <2> HIDE DEF s
  <2>2. storage' = [s EXCEPT !.state = durable.state]
    BY <1>3 DEF s
  <2> QED BY <1>4, <2>1, <2>2 DEF StorageType
<1>6. /\ requests' \in RequestsType /\ requests'.made = requests.made
      /\ requests'.made = requests'.settled + Len(storage'.queue)
  BY <1>1, <1>3, <1>5, Settles
<1>7. Current \in Mutation
  BY <1>2, <1>4 DEF ToSet
<1>8. acked' \in Seq(Mutation) /\ ToSet(acked') = ToSet(acked) \cup {Current}
  BY <1>3, <1>7, SetAppended DEF IInv, Typed
<1>9. Typed'
  BY <1>3, <1>5, <1>6, <1>8 DEF IInv, Typed
<1>10. Appending(storage', file', durable')
  BY <1>1, <1>2, <1>3, <1>5 DEF Appending
<1>11. LoadsFit(loader, storage, file, tmp, durable)'
  BY <1>1, <1>3, QueueExcludesLoads DEF LoadsFit
<1>12. Room(storage, durable, requests)'
  <2> DEFINE n == Len(durable.log)
             q == Len(storage.queue)
             made == requests.made
  <2>1. n + q <= made + 1
    BY <1>1 DEF IInv, Room
  <2>2. n \in Nat /\ q \in Nat /\ made \in Nat
    BY <1>1, <1>4, LenProperties, StorageShape DEF IInv, Typed, RequestsType
  <2>3. n + (q - 1) <= made + 0
    <3> HIDE DEF n, q, made
    <3> QED BY <2>1, <2>2
  <2> QED BY <1>3, <1>5, <1>6, <2>3 DEF Room
<1>13. AcksKept(acked, durable)'
  BY <1>2, <1>3, <1>8 DEF IInv, AcksKept
<1> QED BY <1>3, <1>9, <1>10, <1>11, <1>12, <1>13 DEF IInv
-----------------------------------------------------------------------------
(* Loads.                                                                  *)

LEMMA SpareFiles == Absent \in File /\ EmptyFile \in File /\ EmptyFile # Absent
<1>1. Absent \in File /\ EmptyFile \in File
  BY DEF Absent, EmptyFile, File
<1>2. EmptyFile.ended /\ ~Absent.ended
  BY Zenon DEF Absent, EmptyFile
<1> QED BY <1>1, <1>2

\* What a load has read is what it restores.
LEMMA LoadReads ==
    ASSUME IInv, NEW l \in Loaders, loader[l].stage # "idle"
    PROVE  /\ loader[l].read = file /\ storage.queue = <<>>
           /\ storage.phase = "idle" /\ durable.log \in Seq(Mutation)
           /\ Kept(file, durable) /\ Holds(file, durable.log)
           /\ LoadFits(l, loader, storage, file, tmp, durable)
           /\ ValidPrefix(file) = Lines(durable.log)
           /\ Mutations(ValidPrefix(file)) = durable.log
           /\ TornTail(file) <=> file = TornAfter(durable.log)
           /\ ~file.ended <=> file # Complete(durable.log)
<1>1. LoadFits(l, loader, storage, file, tmp, durable)
  BY DEF IInv, LoadsFit
<1>2. loader[l].read = file /\ storage.queue = <<>>
  BY <1>1 DEF LoadFits
<1>3. storage.phase = "idle"
  BY <1>2 DEF IInv, Appending
<1>4. /\ durable.log \in Seq(Mutation) /\ Kept(file, durable)
      /\ Holds(file, durable.log)
  BY DEF IInv, Kept
<1> QED BY <1>1, <1>2, <1>3, <1>4, HoldsShape, MutationsOfLines

LEMMA LoadersMoved ==
    ASSUME IInv, NEW l \in Loaders, NEW st \in Stages, MoveTo(l, st)
    PROVE  /\ loader' \in LoaderType /\ loader'[l].stage = st
           /\ loader'[l].read = loader[l].read
           /\ \A k \in Loaders : k # l => loader'[k] = loader[k]
<1>1. loader \in LoaderType /\ loader' = [loader EXCEPT ![l].stage = st]
  BY DEF IInv, Typed, MoveTo
<1> QED BY <1>1 DEF LoaderType

\* A load goes on to its next step.
LEMMA LoadMoves ==
    ASSUME IInv, NEW l \in Loaders, loader[l].stage # "idle",
           NEW st \in Stages, MoveTo(l, st), tmp' \in File,
           UNCHANGED <<file, durable, storage, requests, acked, crashes>>,
           st # "displaced",
           st \in {"staging", "populating", "publishing"} =>
             file = TornAfter(durable.log),
           st = "terminating" => file = Unended(durable.log),
           st = "populating" => tmp' = EmptyFile,
           st = "publishing" => tmp' = Complete(durable.log)
    PROVE  IInv'
<1>1. /\ loader' \in LoaderType /\ loader'[l].stage = st
      /\ loader'[l].read = loader[l].read
      /\ \A k \in Loaders : k # l => loader'[k] = loader[k]
  BY LoadersMoved
<1>2. LoadFits(l, loader, storage, file, tmp, durable)
  BY LoadReads
<1>3. /\ storage.queue = <<>> /\ loader[l].read = file
      /\ \A k \in Loaders : k # l => loader[k].stage = "idle"
      /\ l = "open" => ~storage.open
  BY <1>2 DEF LoadFits
<1>4. LoadFits(l, loader', storage, file, tmp', durable)
  BY <1>1, <1>3 DEF LoadFits
<1>5. LoadsFit(loader', storage, file, tmp', durable)
  BY <1>1, <1>3, <1>4 DEF LoadsFit
<1>6. Typed'
  BY <1>1 DEF IInv, Typed
<1> QED BY <1>5, <1>6 DEF IInv

\* A load is over: the file is whole.
LEMMA LoadEnds ==
    ASSUME IInv, NEW l \in Loaders, loader[l].stage # "idle",
           file' = Complete(durable.log), durable' = durable,
           Kept(file', durable'), tmp' \in File,
           loader' \in LoaderType,
           \A k \in Loaders : loader'[k].stage = "idle",
           \/ storage' = Opened(durable.log)
           \/ /\ storage' \in StorageType /\ storage'.open = storage.open
              /\ storage'.state = storage.state
              /\ storage'.queue = storage.queue
              /\ storage'.phase = storage.phase,
           UNCHANGED <<requests, acked, crashes>>
    PROVE  IInv'
<1>1. storage.queue = <<>> /\ storage.phase = "idle"
  BY LoadReads
<1>2. durable.state = Replay(durable.log) /\ durable.state \in SessionStates
  BY DEF IInv, Kept, Session
<1>3. /\ storage' \in StorageType /\ storage'.queue = <<>>
      /\ storage'.phase = "idle"
      /\ storage'.open => storage'.state = durable.state
  <2>1. CASE storage' = Opened(durable.log)
    BY <1>2, <2>1, OpenedShape
  <2>2. CASE storage' # Opened(durable.log)
    BY <1>1, <2>2 DEF IInv, Appending
  <2> QED BY <2>1, <2>2
<1>4. Typed'
  BY <1>1, <1>3 DEF IInv, Typed
<1>5. Appending(storage', file', durable')
  BY <1>3 DEF Appending
<1>6. LoadsFit(loader, storage, file, tmp, durable)'
  BY DEF LoadsFit
<1>7. Room(storage, durable, requests)'
  BY <1>1, <1>3 DEF IInv, Room
<1> QED BY <1>4, <1>5, <1>6, <1>7 DEF IInv

\* A loader without a load.
LEMMA LoaderRests ==
    ASSUME IInv, NEW l \in Loaders, loader[l].stage # "idle",
           loader' = [loader EXCEPT ![l] = NoLoad]
    PROVE  /\ loader' \in LoaderType
           /\ \A k \in Loaders : loader'[k].stage = "idle"
<1>1. loader \in LoaderType /\ NoLoad \in [stage : Stages, read : File]
  BY SpareFiles DEF IInv, Typed, NoLoad, Stages
<1>2. NoLoad.stage = "idle"
  BY DEF NoLoad
<1>3. \A k \in Loaders : k # l => loader[k].stage = "idle"
  BY LoadReads DEF LoadFits
<1> HIDE DEF NoLoad
<1> QED BY <1>1, <1>2, <1>3 DEF LoaderType

LEMMA ReadPreserves ==
    ASSUME Careful, IInv, NEW l \in Loaders, Read(l) PROVE IInv'
<1>1. /\ l = "open" => ~storage.open
      /\ ~Loading /\ storage.queue = <<>>
      /\ loader' = [loader EXCEPT ![l] = [stage |-> "read", read |-> file]]
      /\ UNCHANGED <<file, durable, tmp, storage, requests, acked, crashes>>
  <2>1. CASE Serialized
    BY <2>1 DEF Read, disk
  <2>2. CASE "fork" \notin Loaders
    <3>1. \A k \in Loaders : k = "open"
      BY <2>2, ParametersAssumption
    <3>2. l = "open" /\ ~Loading
      BY <3>1 DEF Read, Loading
    <3>3. storage.queue = <<>>
      BY <3>2 DEF Read, IInv, Appending
    <3> QED BY <3>2, <3>3 DEF Read, disk
  <2> QED BY <2>1, <2>2 DEF Careful
<1>2. file \in File
  BY HoldsShape DEF IInv, Kept
<1>3. loader \in LoaderType /\ \A k \in Loaders : loader[k].stage = "idle"
  BY <1>1 DEF IInv, Typed, Loading
<1>4. /\ loader' \in LoaderType /\ loader'[l].stage = "read"
      /\ loader'[l].read = file
      /\ \A k \in Loaders : k # l => loader'[k].stage = "idle"
  <2> DEFINE new == [stage |-> "read", read |-> file]
  <2>1. /\ new \in [stage : Stages, read : File]
        /\ new.stage = "read" /\ new.read = file
    BY <1>2 DEF Stages
  <2> HIDE DEF new
  <2>2. loader' = [loader EXCEPT ![l] = new]
    BY <1>1 DEF new
  <2> QED BY <1>3, <2>1, <2>2 DEF LoaderType
<1>5. LoadFits(l, loader', storage, file, tmp, durable)
  BY <1>1, <1>4 DEF LoadFits
<1>6. LoadsFit(loader', storage, file, tmp, durable)
  BY <1>4, <1>5 DEF LoadsFit
<1>7. Typed'
  BY <1>1, <1>4 DEF IInv, Typed
<1> QED BY <1>1, <1>6, <1>7 DEF IInv

LEMMA StorageStays ==
    ASSUME IInv
    PROVE  /\ storage \in StorageType /\ tmp \in File /\ file \in File
           /\ loader \in LoaderType
  BY HoldsShape DEF IInv, Typed, Kept

LEMMA ParsePreserves ==
    ASSUME IInv, NEW l \in Loaders, Parse(l) PROVE IInv'
<1>1. /\ loader[l].stage = "read" /\ loader[l].stage # "idle"
      /\ UNCHANGED <<file, durable, tmp, requests, acked, crashes>>
  BY DEF Parse, disk
<1>2. /\ loader[l].read = file /\ Kept(file, durable)
      /\ Holds(file, durable.log)
      /\ Mutations(ValidPrefix(file)) = durable.log
      /\ TornTail(file) <=> file = TornAfter(durable.log)
      /\ ~file.ended <=> file # Complete(durable.log)
  BY <1>1, LoadReads
<1>3. tmp' \in File /\ storage \in StorageType
  BY <1>1, StorageStays
<1>4. "staging" \in Stages /\ "terminating" \in Stages
  BY DEF Stages
<1>5. CASE TornTail(file) /\ MoveTo(l, "staging") /\ UNCHANGED storage
  <2>1. file = TornAfter(durable.log)
    BY <1>2, <1>5
  <2> QED BY <1>1, <1>3, <1>4, <1>5, <2>1, LoadMoves
<1>6. CASE /\ ~TornTail(file) /\ Unterminated(file)
           /\ MoveTo(l, "terminating") /\ UNCHANGED storage
  <2>1. file = Unended(durable.log)
    BY <1>2, <1>6 DEF Holds, Unterminated
  <2> QED BY <1>1, <1>3, <1>4, <1>6, <2>1, LoadMoves
<1>7. CASE ~TornTail(file) /\ ~Unterminated(file) /\ Loaded(l)
  <2>1. file = Complete(durable.log)
    BY <1>2, <1>7 DEF Unterminated
  <2>2. loader' = [loader EXCEPT ![l] = NoLoad]
    BY <1>7 DEF Loaded
  <2>3. storage' = Opened(durable.log) \/ storage' = storage
    BY <1>2, <1>7 DEF Loaded
  <2>4. loader' \in LoaderType /\ \A k \in Loaders : loader'[k].stage = "idle"
    BY <1>1, <2>2, LoaderRests
  <2>5. /\ file' = Complete(durable.log) /\ durable' = durable
        /\ Kept(file', durable')
    BY <1>1, <1>2, <2>1
  <2> QED BY <1>1, <1>3, <2>3, <2>4, <2>5, LoadEnds
<1> QED BY <1>2, <1>5, <1>6, <1>7 DEF Parse

LEMMA TerminatePreserves ==
    ASSUME IInv, NEW l \in Loaders, Terminate(l)
    PROVE  IInv' /\ durable' = durable
<1>1. /\ loader[l].stage = "terminating" /\ loader[l].stage # "idle"
      /\ Store(WithNewline(file)) /\ Loaded(l)
      /\ UNCHANGED <<tmp, requests, acked, crashes>>
  BY DEF Terminate
<1>2. /\ loader[l].read = file /\ Kept(file, durable)
      /\ Mutations(ValidPrefix(file)) = durable.log
      /\ durable.log \in Seq(Mutation)
      /\ LoadFits(l, loader, storage, file, tmp, durable)
  BY <1>1, LoadReads
<1>3. WithNewline(file) = Complete(durable.log)
  <2>1. file = Unended(durable.log)
    BY <1>1, <1>2 DEF LoadFits
  <2> QED BY <1>2, <2>1, FileSteps
<1>4. /\ file' = Complete(durable.log) /\ durable' = durable
      /\ Kept(file', durable')
  <2>1. Holds(Complete(durable.log), durable.log)
    BY DEF Holds
  <2> QED BY <1>1, <1>2, <1>3, <2>1, StoreHolds
<1>5. loader' = [loader EXCEPT ![l] = NoLoad]
  BY <1>1 DEF Loaded
<1>6. storage' = Opened(durable.log) \/ storage' = storage
  BY <1>1, <1>2 DEF Loaded
<1>7. loader' \in LoaderType /\ \A k \in Loaders : loader'[k].stage = "idle"
  BY <1>1, <1>5, LoaderRests
<1>8. tmp' \in File /\ storage \in StorageType
  BY <1>1, StorageStays
<1> QED BY <1>1, <1>4, <1>6, <1>7, <1>8, LoadEnds

LEMMA OpenTemporaryPreserves ==
    ASSUME IInv, NEW l \in Loaders, OpenTemporary(l) PROVE IInv'
<1>1. /\ loader[l].stage = "staging" /\ loader[l].stage # "idle"
      /\ tmp' = EmptyFile /\ MoveTo(l, "populating")
      /\ UNCHANGED <<file, durable, storage, requests, acked, crashes>>
  BY DEF OpenTemporary, disk
<1>2. file = TornAfter(durable.log)
  BY <1>1, LoadReads DEF LoadFits
<1>3. tmp' \in File /\ "populating" \in Stages
  BY <1>1, SpareFiles DEF Stages
<1> QED BY <1>1, <1>2, <1>3, LoadMoves

LEMMA PopulatePreserves ==
    ASSUME IInv, NEW l \in Loaders, Populate(l)
    PROVE  IInv' /\ durable' = durable
<1>1. loader[l].stage # "idle" /\ MoveTo(l, "publishing")
      /\ UNCHANGED <<storage, requests, acked, crashes>>
  BY DEF Populate
<1>2. loader[l].stage = "populating"
  BY <1>1, LoadReads DEF Populate, LoadFits
<1>3. file = TornAfter(durable.log) /\ tmp = EmptyFile
  BY <1>1, <1>2, LoadReads DEF LoadFits
<1>4. ValidPrefix(loader[l].read) = Lines(durable.log)
      /\ durable.log \in Seq(Mutation)
  BY <1>1, LoadReads
<1>5. tmp' = Complete(durable.log) /\ UNCHANGED <<file, durable>>
  <2>1. tmp' = [lines |-> ValidPrefix(loader[l].read), ended |-> TRUE]
        /\ UNCHANGED disk
    BY <1>2, <1>3, SpareFiles DEF Populate
  <2> QED BY <1>4, <2>1 DEF Complete, disk
<1>6. tmp' \in File /\ "publishing" \in Stages
  <2>1. Holds(Complete(durable.log), durable.log)
    BY DEF Holds
  <2> QED BY <1>4, <1>5, <2>1, HoldsShape DEF Stages
<1> QED BY <1>1, <1>3, <1>5, <1>6, LoadMoves

LEMMA PublishPreserves ==
    ASSUME IInv, NEW l \in Loaders, Publish(l)
    PROVE  IInv' /\ durable' = durable
<1>1. /\ loader[l].stage = "publishing" /\ loader[l].stage # "idle"
      /\ Store(tmp) /\ tmp' = Absent
      /\ UNCHANGED <<requests, acked, crashes>>
  BY DEF Publish
<1>2. /\ loader[l].read = file /\ Kept(file, durable)
      /\ Mutations(ValidPrefix(file)) = durable.log
      /\ LoadFits(l, loader, storage, file, tmp, durable)
      /\ storage.queue = <<>>
  BY <1>1, LoadReads
<1>3. tmp = Complete(durable.log)
  BY <1>1, <1>2 DEF LoadFits
<1>4. /\ file' = Complete(durable.log) /\ durable' = durable
      /\ Kept(file', durable')
  <2>1. Holds(Complete(durable.log), durable.log)
    BY DEF Holds
  <2> QED BY <1>1, <1>2, <1>3, <2>1, StoreHolds
<1>5. loader' = [loader EXCEPT ![l] = NoLoad]
  <2>1. \A k \in Loaders : k # l => loader[k].stage = "idle"
    BY <1>2 DEF LoadFits
  <2>2. loader' = [k \in Loaders |->
                     IF k = l THEN NoLoad
                     ELSE IF loader[k].stage = "populating"
                     THEN [loader[k] EXCEPT !.stage = "displaced"]
                     ELSE loader[k]]
    BY DEF Publish
  <2>3. \A k \in Loaders : k # l => loader[k].stage # "populating"
    BY <2>1
  <2>4. loader' = [k \in Loaders |-> IF k = l THEN NoLoad ELSE loader[k]]
    BY <2>2, <2>3, Zenon
  <2>5. loader \in LoaderType
    BY StorageStays
  <2> HIDE DEF NoLoad
  <2> QED BY <2>4, <2>5 DEF LoaderType
<1>6. loader' \in LoaderType /\ \A k \in Loaders : loader'[k].stage = "idle"
  BY <1>1, <1>5, LoaderRests
<1>7. \/ storage' = Opened(durable.log)
      \/ /\ storage' \in StorageType /\ storage'.open = storage.open
         /\ storage'.state = storage.state
         /\ storage'.queue = storage.queue
         /\ storage'.phase = storage.phase
  <2>1. CASE l = "open"
    BY <1>2, <2>1 DEF Publish
  <2>2. CASE l # "open"
    <3>1. storage' = [storage EXCEPT !.orphan = TRUE]
      BY <2>2 DEF Publish
    <3> QED BY <3>1, StorageStays DEF StorageType
  <2> QED BY <2>1, <2>2
<1>8. tmp' \in File
  BY <1>1, SpareFiles
<1> QED BY <1>1, <1>4, <1>6, <1>7, <1>8, LoadEnds

LEMMA RepairFailsPreserves ==
    ASSUME IInv, NEW l \in Loaders, RepairFails(l) PROVE IInv'
<1>1. /\ loader[l].stage # "idle"
      /\ loader' = [loader EXCEPT ![l] = NoLoad]
      /\ tmp' = tmp \/ tmp' = Absent
      /\ UNCHANGED <<file, durable, storage, requests, acked, crashes>>
  BY DEF RepairFails, Repairing, disk
<1>2. loader' \in LoaderType /\ \A k \in Loaders : loader'[k].stage = "idle"
  BY <1>1, LoaderRests
<1>3. tmp' \in File
  BY <1>1, SpareFiles, StorageStays
<1>4. Typed'
  BY <1>1, <1>2, <1>3 DEF IInv, Typed
<1>5. LoadsFit(loader, storage, file, tmp, durable)'
  BY <1>2 DEF LoadsFit
<1> QED BY <1>1, <1>4, <1>5 DEF IInv

LEMMA CrashPreserves ==
    ASSUME IInv, Crash PROVE IInv'
<1>1. /\ crashes < MaxCrashes /\ storage' = Closed
      /\ loader' = [l \in Loaders |-> NoLoad]
      /\ requests' = [requests EXCEPT !.settled = requests.made]
      /\ crashes' = crashes + 1
      /\ UNCHANGED <<file, durable, tmp, acked>>
  BY DEF Crash, disk
<1>2. /\ storage' \in StorageType /\ ~storage'.open /\ storage'.queue = <<>>
      /\ storage'.phase = "idle"
  BY <1>1, ClosedShape
<1>3. loader' \in LoaderType /\ \A k \in Loaders : loader'[k].stage = "idle"
  <2>1. NoLoad \in [stage : Stages, read : File] /\ NoLoad.stage = "idle"
    BY SpareFiles DEF NoLoad, Stages
  <2> HIDE DEF NoLoad
  <2> QED BY <1>1, <2>1 DEF LoaderType
<1>4. /\ requests' \in RequestsType /\ requests'.made = requests.made
      /\ requests'.made = requests'.settled + 0
  BY <1>1 DEF IInv, Typed, RequestsType
<1>5. crashes' \in 0..MaxCrashes
  BY <1>1, ParametersAssumption DEF IInv, Typed
<1>6. Typed'
  BY <1>1, <1>2, <1>3, <1>4, <1>5 DEF IInv, Typed
<1>7. Appending(storage', file', durable')
  BY <1>2 DEF Appending
<1>8. LoadsFit(loader, storage, file, tmp, durable)'
  BY <1>3 DEF LoadsFit
<1>9. Room(storage, durable, requests)'
  <2> DEFINE n == Len(durable.log)
             q == Len(storage.queue)
             made == requests.made
             more == IF storage.phase \in {"whole", "line"} THEN 1 ELSE 0
  <2>1. n + q <= made + more
    BY DEF IInv, Room
  <2>2. n \in Nat /\ q \in Nat /\ made \in Nat /\ more \in {0, 1}
    BY StorageShape, LenProperties DEF IInv, Kept, Typed, RequestsType
  <2>3. more = 1 => q # 0
    BY EmptyQueue DEF IInv, Appending, Typed
  <2>4. n + 0 <= made + 0
    <3> HIDE DEF n, q, made, more
    <3> QED BY <2>1, <2>2, <2>3
  <2> QED BY <1>1, <1>2, <1>4, <2>4 DEF Room
<1> QED BY <1>1, <1>6, <1>7, <1>8, <1>9 DEF IInv
-----------------------------------------------------------------------------
(* What it gives.                                                          *)

LEMMA NextPreserves ==
    ASSUME Careful, IInv, [Next]_vars PROVE IInv'
<1>1. CASE Enqueue
  BY <1>1, EnqueuePreserves
<1>2. CASE Begin
  BY <1>2, BeginPreserves
<1>3. CASE Refuse
  BY <1>3, RefusePreserves
<1>4. CASE WritePart
  BY <1>4, WritePartPreserves
<1>5. CASE WriteRest
  BY <1>5, WriteRestPreserves
<1>6. CASE WriteNewline
  BY <1>6, WriteNewlinePreserves
<1>7. CASE AppendSucceeds
  BY <1>7, AppendSucceedsPreserves
<1>8. CASE AppendFails
  BY <1>8, AppendFailsPreserves
<1>9. CASE Crash
  BY <1>9, CrashPreserves
<1>10. ASSUME NEW l \in Loaders, Read(l) PROVE IInv'
  BY <1>10, ReadPreserves
<1>11. ASSUME NEW l \in Loaders, Load(l) PROVE IInv'
  BY <1>11, ParsePreserves, TerminatePreserves, OpenTemporaryPreserves,
     PopulatePreserves, PublishPreserves, RepairFailsPreserves DEF Load
<1>12. CASE UNCHANGED vars
  BY <1>12 DEF vars, IInv, Typed, Room
<1> QED BY <1>1, <1>2, <1>3, <1>4, <1>5, <1>6, <1>7, <1>8, <1>9, <1>10,
           <1>11, <1>12 DEF Next, Progress

LEMMA Invariance == ASSUME Careful PROVE Spec => []IInv
<1>1. Init => IInv
  BY InitEstablishes
<1>2. IInv /\ [Next]_vars => IInv'
  BY NextPreserves
<1> QED BY <1>1, <1>2, PTL DEF Spec

-----------------------------------------------------------------------------

LEMMA SessionReadable ==
    ASSUME NEW ms PROVE Session(ms).readable
  BY Zenon DEF Session

\* What was acknowledged is in what the next load restores, at every moment:
\* a crash anywhere, also in the middle of the repair that a load makes,
\* loses nothing that a caller was told of.
THEOREM AcknowledgedSurvivesCorrect ==
    ASSUME Careful PROVE Spec => []AcknowledgedSurvives
<1>1. IInv => AcknowledgedSurvives
  BY SessionReadable DEF IInv, Kept, AcksKept, AcknowledgedSurvives
<1> QED BY <1>1, Invariance, PTL

\* The storage object, its queue and the file fit together; between writes
\* the state in memory is the one a load of the file would restore.
THEOREM StorageConsistentCorrect ==
    ASSUME Careful PROVE Spec => []StorageConsistent
<1>1. IInv => TypeOK
  <2> SUFFICES ASSUME IInv PROVE TypeOK
    OBVIOUS
  <2>1. durable = Restored(file) /\ file \in File
    BY RestoredIs, HoldsShape DEF IInv, Kept
  <2> QED BY <2>1 DEF IInv, Typed, TypeOK, StorageType, Phases, LoaderType,
                      RequestsType
<1>2. IInv => MemoryMatchesFile
  <2> SUFFICES ASSUME IInv, storage.open, storage.phase = "idle"
               PROVE  file.ended /\ durable.readable
                      /\ storage.state = durable.state
    BY DEF MemoryMatchesFile
  <2>1. file = Complete(durable.log) /\ storage.state = durable.state
        /\ durable = Session(durable.log)
    BY DEF IInv, Appending, Kept
  <2>2. file.ended
    BY <2>1, Endings
  <2>3. durable.readable
    BY <2>1, SessionReadable
  <2> QED BY <2>1, <2>2, <2>3
<1> QED BY <1>1, <1>2, Invariance, PTL DEF StorageConsistent
-----------------------------------------------------------------------------
(* The refinement.  The session in memory is made of the same operators.   *)

LEMMA SameOperators ==
    ASSUME NEW s, NEW r, NEW m
    PROVE  /\ Log!Accepts(s, r) <=> Accepts(s, r)
           /\ Log!MutationOf(s, r) = MutationOf(s, r)
           /\ Log!Valid(s, m) <=> Valid(s, m)
           /\ Log!Applied(s, m) = Applied(s, m)
           /\ Log!Requests = Requests /\ Log!RecordKinds = RecordKinds
           /\ Log!Empty = Empty
<1>1. /\ \A p : Log!Known(s, p) <=> Known(s, p)
      /\ \A l : Log!HasLane(s, l) <=> HasLane(s, l)
      /\ Log!RecordKinds = RecordKinds /\ Log!EntryIds(s) = EntryIds(s)
  BY DEF Log!Known, Known, Log!EntryIds, EntryIds, Log!HasLane, HasLane,
         Log!RecordKinds, RecordKinds
<1>2. Log!Accepts(s, r) <=> Accepts(s, r)
  BY Zenon DEF Log!Accepts, Accepts, Log!Known, Known, Log!EntryIds, EntryIds,
               Log!HasLane, HasLane, Log!RecordKinds, RecordKinds
<1>3. Log!MutationOf(s, r) = MutationOf(s, r)
  BY <1>1, Zenon DEF Log!MutationOf, MutationOf, Log!Lane, Lane, Log!Entry,
     Entry, Log!Record, Record, Log!Fact, Fact
<1>4. Log!Valid(s, m) <=> Valid(s, m)
  BY <1>1, Zenon DEF Log!Valid, Valid
<1>5. Log!Applied(s, m) = Applied(s, m)
  BY <1>1, Zenon DEF Log!Applied, Applied, Log!SequenceAfter, SequenceAfter,
     Log!LanesAfter, LanesAfter, Log!OpenAfter, OpenAfter
<1>6. Log!Requests = Requests
  BY DEF Log!Requests, Requests, Log!Pointers, Pointers, Log!EntryTypes,
         EntryTypes
<1>7. Log!Empty = Empty
  BY DEF Log!Empty, Empty
<1> QED BY <1>1, <1>2, <1>3, <1>4, <1>5, <1>6, <1>7

LEMMA WriteIsWrite ==
    ASSUME IInv, WriteRest PROVE Log!Next
<1> DEFINE r == Head(storage.queue)
           m == MutationOf(durable.state, r)
<1>1. /\ r \in Requests /\ Accepts(durable.state, r)
      /\ Valid(durable.state, m) /\ durable'.log = Append(durable.log, m)
      /\ durable'.state = Applied(durable.state, m)
  BY WriteRestStores
<1>2. Len(durable.log) < MaxRequests
  <2> DEFINE n == Len(durable.log)
             q == Len(storage.queue)
             made == requests.made
  <2>1. storage \in StorageType /\ storage.phase = "partial"
        /\ storage.queue # <<>>
    BY DEF IInv, Typed, WriteRest, Appending
  <2>2. n + q <= made + 0
    BY <2>1 DEF IInv, Room
  <2>3. n \in Nat /\ q \in Nat /\ made \in 0..MaxRequests /\ q # 0
    BY <2>1, StorageShape, EmptyQueue, LenProperties
    DEF IInv, Kept, Typed, RequestsType
  <2> HIDE DEF n, q, made
  <2>4. n < MaxRequests
    BY <2>2, <2>3, ParametersAssumption
  <2> QED BY <2>4 DEF n
<1>3. Log!Write(r)
  BY <1>1, <1>2, SameOperators DEF Log!Write
<1>4. \/ r.op \in {"createLane", "moveLane", "appendEntry", "setName",
                   "setLabel"}
      \/ r.op \in RecordKinds
  BY <1>1 DEF Requests, RecordKinds
<1> HIDE DEF r
<1> QED BY <1>1, <1>3, <1>4, SameOperators
        DEF Log!Next, Log!CreateLane, Log!MoveLane, Log!AppendEntry,
            Log!AppendRecord, Log!SetName, Log!SetLabel

LEMMA StepRefines ==
    ASSUME IInv, [Next]_vars PROVE Log!Next \/ durable' = durable
<1>1. CASE WritePart
  BY <1>1, WritePartPreserves
<1>2. CASE WriteNewline
  BY <1>2, WriteNewlinePreserves
<1>3. ASSUME NEW l \in Loaders, Load(l) PROVE durable' = durable
  BY <1>3, TerminatePreserves, PopulatePreserves, PublishPreserves
  DEF Load, Parse, OpenTemporary, RepairFails, disk
<1>4. ASSUME NEW l \in Loaders, Read(l) PROVE durable' = durable
  BY <1>4 DEF Read, disk
<1>5. CASE \/ Enqueue \/ Begin \/ Refuse \/ AppendSucceeds \/ AppendFails
           \/ Crash \/ UNCHANGED vars
  BY <1>5 DEF Enqueue, Begin, Refuse, Reject, AppendSucceeds, AppendFails,
              Crash, vars, disk
<1>6. CASE WriteRest
  BY <1>6, WriteIsWrite
<1> QED BY <1>1, <1>2, <1>3, <1>4, <1>5, <1>6 DEF Next, Progress

\* The file is a session in memory that survives: every step of the storage
\* object, a load or a crash is one write of the session, the one at the head
\* of the queue, or leaves it as it was.
THEOREM ImplementsSessionLogCorrect ==
    ASSUME Careful PROVE Spec => ImplementsSessionLog
<1>1. Init => Log!Init
  <2> SUFFICES ASSUME Init PROVE Log!Init
    OBVIOUS
  <2>1. <<>> \in Seq(Mutation) /\ Replays(<<>>) /\ Replay(<<>>) = Empty
    BY ReplayEmpty
  <2>2. Holds(NewFile, <<>>)
    BY DEF NewFile, Holds, Complete, Lines
  <2>3. durable = Session(<<>>)
    BY <2>1, <2>2, RestoredIs DEF Init
  <2>4. durable.log = <<>> /\ durable.state = Empty
    BY <2>1, <2>3 DEF Session
  <2> QED BY <2>4, SameOperators DEF Log!Init
<1>2. IInv /\ [Next]_vars => [Log!Next]_(Log!vars)
  BY StepRefines DEF Log!vars
<1> QED BY <1>1, <1>2, Invariance, PTL DEF Spec, ImplementsSessionLog, Log!Spec
=============================================================================

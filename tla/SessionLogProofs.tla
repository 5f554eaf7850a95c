-------------------------- MODULE SessionLogProofs --------------------------
(***************************************************************************)
(* Safety theorems about SessionLog, for every value of its constants: a   *)
(* session that is written to or forked keeps its tree intact, has at most *)
(* one open operation on a lane, is what its log says when it is read      *)
(* again, and is copied faithfully by a fork.                              *)
(*                                                                         *)
(* The invariant is that the log is well formed and replays, and that the  *)
(* state is its replay; what the properties need is shown of the replay of *)
(* any such log.  Only the open operations need a part of their own.       *)
(***************************************************************************)
EXTENDS SessionLog, SessionStateProofs

-----------------------------------------------------------------------------
(* The states a log goes through.                                          *)

LEMMA ReplayedValue ==
    ASSUME NEW ms \in Seq(Mutation)
    PROVE  /\ Len(ms) \in Nat /\ DOMAIN ms = 1..Len(ms)
           /\ Replayed(ms)[0] = Empty
           /\ \A k \in 1..Len(ms) :
                Replayed(ms)[k] = Applied(Replayed(ms)[k - 1], ms[k])
           /\ Replay(ms) = Replayed(ms)[Len(ms)]
<1>1. Len(ms) \in Nat /\ DOMAIN ms = 1..Len(ms)
  BY LenProperties
<1>2. Course(Replayed(ms), ms, Len(ms))
  BY ReplayedIsCourse
<1> QED BY <1>1, <1>2, CourseValue DEF Replay

LEMMA BoundedInduction ==
    ASSUME NEW N \in Nat, NEW S, 0 \in S,
           \A n \in 1..N : n - 1 \in S => n \in S
    PROVE  \A n \in 0..N : n \in S
<1> DEFINE T == {n \in Nat : n <= N => n \in S}
<1>1. 0 \in T
  OBVIOUS
<1>2. ASSUME NEW n \in Nat, n \in T PROVE n + 1 \in T
  <2> SUFFICES ASSUME n + 1 <= N PROVE n + 1 \in S
    BY SMT
  <2>1. n <= N /\ n + 1 \in 1..N /\ (n + 1) - 1 = n
    BY SMT
  <2> QED BY <1>2, <2>1
<1> HIDE DEF T
<1>3. \A n \in Nat : n \in T
  BY <1>1, <1>2, SetInduction
<1>4. \A n \in 0..N : n \in Nat /\ n <= N
  BY SMT
<1> QED BY <1>3, <1>4 DEF T

\* The main lane is never removed, and a session has finitely many lanes.
LanesOK(s) == HasLane(s, Main) /\ IsFiniteSet({l \in Lanes : HasLane(s, l)})

LEMMA LanesEmpty == LanesOK(Empty)
<1>1. /\ Empty.lanes[Main] = None
      /\ \A l \in Lanes : l # Main => Empty.lanes[l] = Missing
  BY MainAssumption DEF Empty
<1>2. {l \in Lanes : HasLane(Empty, l)} = {Main}
  BY <1>1, MainAssumption, NoneAssumption DEF HasLane
<1>3. IsFiniteSet({Main})
  BY FS_Singleton
<1> QED BY <1>1, <1>2, <1>3, NoneAssumption DEF LanesOK, HasLane

LEMMA LanesStep ==
    ASSUME NEW s \in SessionStates, LanesOK(s), NEW m, WellFormed(m)
    PROVE  LanesOK(Applied(s, m))
<1> DEFINE t == Applied(s, m)
           S == {l \in Lanes : HasLane(s, l)}
           T == {l \in Lanes : HasLane(t, l)}
<1>1. t.lanes = LanesAfter(s, m) /\ DOMAIN s.lanes = Lanes
  BY StateShape DEF Applied
<1>2. Missing \notin Pointers
  BY NoneAssumption DEF Pointers
<1> HIDE DEF t
<1>3. \A l \in Lanes : \/ t.lanes[l] = s.lanes[l]
                       \/ l = m.lane /\ t.lanes[l] \in Pointers
  <2>1. CASE m.kind = "lane"
    <3>1. m.ref \in Pointers
      BY <2>1 DEF WellFormed
    <3> QED BY <1>1, <2>1, <3>1 DEF LanesAfter
  <2>2. CASE m.kind = "entry" /\ m.lane # None
    <3>1. m.id \in Pointers
      BY <2>2 DEF WellFormed, Pointers
    <3> QED BY <1>1, <2>2, <3>1 DEF LanesAfter
  <2>3. CASE m.kind # "lane" /\ ~(m.kind = "entry" /\ m.lane # None)
    BY <1>1, <2>3 DEF LanesAfter
  <2> QED BY <2>1, <2>2, <2>3
<1>4. HasLane(t, Main)
  BY <1>2, <1>3, MainAssumption DEF LanesOK, HasLane
<1>5. T \subseteq S \cup {m.lane}
  BY <1>3 DEF HasLane
<1>6. IsFiniteSet(S \cup {m.lane})
  BY FS_AddElement DEF LanesOK
<1>7. IsFiniteSet(T)
  BY <1>5, <1>6, FS_Subset
<1> QED BY <1>4, <1>7 DEF LanesOK, t

\* A log of well-formed mutations.
WellFormedLog(ms) ==
    ms \in Seq(Mutation) /\ \A k \in 1..Len(ms) : WellFormed(ms[k])

Sound(s) == s \in SessionStates /\ TreeOK(s) /\ LanesOK(s)

LEMMA ReplayIsSound ==
    ASSUME NEW ms, WellFormedLog(ms), Replays(ms)
    PROVE  \A n \in 0..Len(ms) :
             Sound(Replayed(ms)[n]) /\ Replayed(ms)[n].sequence = n
<1> DEFINE f == Replayed(ms)
           N == Len(ms)
           S == {n \in Nat : Sound(f[n]) /\ f[n].sequence = n}
<1>1. ms \in Seq(Mutation) /\ N \in Nat /\ f[0] = Empty
      /\ \A k \in 1..N : /\ f[k] = Applied(f[k - 1], ms[k])
                         /\ WellFormed(ms[k]) /\ Valid(f[k - 1], ms[k])
  BY ReplayedValue DEF WellFormedLog, Replays
<1> HIDE DEF f, N
<1>2. 0 \in S
  <2>1. Sound(Empty) /\ Empty.sequence = 0
    BY EmptyShape, TreeEmpty, LanesEmpty DEF Sound, Empty
  <2> QED BY <1>1, <2>1
<1>3. ASSUME NEW n \in 1..N, n - 1 \in S PROVE n \in S
  <2>1. /\ f[n] = Applied(f[n - 1], ms[n]) /\ WellFormed(ms[n])
        /\ Valid(f[n - 1], ms[n])
    BY <1>1
  <2>2. Sound(f[n - 1]) /\ f[n - 1].sequence = n - 1
    BY <1>3
  <2>3. Sound(f[n])
    BY <2>1, <2>2, AppliedShape, TreeStep, LanesStep DEF Sound
  <2>4. f[n].sequence = ms[n].seq
    <3>1. Applied(f[n - 1], ms[n]).sequence = ms[n].seq
      BY DEF Applied, SequenceAfter
    <3> QED BY <2>1, <3>1
  <2>5. ms[n].seq = (n - 1) + 1
    BY <2>1, <2>2 DEF Valid
  <2>6. (n - 1) + 1 = n /\ n \in Nat
    BY <1>1, SMT
  <2> QED BY <2>3, <2>4, <2>5, <2>6
<1> HIDE DEF S
<1>4. \A n \in 0..N : n \in S
  BY <1>1, <1>2, <1>3, BoundedInduction
<1> QED BY <1>4 DEF S, f, N

LEMMA ReplayIs ==
    ASSUME NEW ms, WellFormedLog(ms), Replays(ms)
    PROVE  Sound(Replay(ms)) /\ Replay(ms).sequence = Len(ms)
<1>1. Len(ms) \in 0..Len(ms) /\ Replay(ms) = Replayed(ms)[Len(ms)]
  BY ReplayedValue DEF WellFormedLog
<1> QED BY <1>1, ReplayIsSound

-----------------------------------------------------------------------------
(* The entries that have a label.                                          *)

\* The function in the definition of Labelled, up to some index.
Chooses(f, s, c, n) ==
    f = [k \in 0..n |->
           IF k = 0 THEN <<>>
           ELSE IF s.labels[c[k].id] = None THEN f[k - 1]
           ELSE Append(f[k - 1], c[k])]

LEMMA ChoosesValue ==
    ASSUME NEW f, NEW s, NEW c, NEW n \in Nat, Chooses(f, s, c, n)
    PROVE  /\ f[0] = <<>>
           /\ \A k \in 1..n :
                f[k] = IF s.labels[c[k].id] = None THEN f[k - 1]
                       ELSE Append(f[k - 1], c[k])
<1> DEFINE F(k) == IF k = 0 THEN <<>>
                   ELSE IF s.labels[c[k].id] = None THEN f[k - 1]
                   ELSE Append(f[k - 1], c[k])
<1>1. f = [k \in 0..n |-> F(k)]
  BY DEF Chooses
<1>2. \A k \in 0..n : f[k] = F(k)
  <2> HIDE DEF F
  <2> QED BY <1>1
<1>3. 0 \in 0..n /\ \A k \in 1..n : k \in 0..n /\ k # 0
  BY SMT
<1> QED BY <1>2, <1>3, Zenon

LEMMA ChoosesExists ==
    ASSUME NEW s, NEW c
    PROVE  \A n \in Nat : \E f : Chooses(f, s, c, n)
<1> DEFINE S == {n \in Nat : \E f : Chooses(f, s, c, n)}
<1>1. 0 \in S
  <2> DEFINE f == [k \in 0..0 |-> <<>>]
  <2>1. \A k \in 0..0 : k = 0
    BY SMT
  <2>2. Chooses(f, s, c, 0)
    BY <2>1 DEF Chooses
  <2> QED BY <2>2
<1>2. ASSUME NEW n \in Nat, n \in S PROVE n + 1 \in S
  <2>1. PICK f : Chooses(f, s, c, n)
    BY <1>2
  <2> DEFINE new == IF s.labels[c[n + 1].id] = None THEN f[n]
                    ELSE Append(f[n], c[n + 1])
             g == [k \in 0..n + 1 |-> IF k = n + 1 THEN new ELSE f[k]]
             G(k) == IF k = 0 THEN <<>>
                     ELSE IF s.labels[c[k].id] = None THEN g[k - 1]
                     ELSE Append(g[k - 1], c[k])
  <2>2. ASSUME NEW k \in 0..n + 1 PROVE g[k] = G(k)
    <3>1. CASE k = 0
      <4>1. 0 \in 0..n + 1 /\ 0 # n + 1
        BY SMT
      <4>2. g[0] = f[0]
        BY <4>1
      <4> QED BY <2>1, <3>1, <4>2, ChoosesValue
    <3>2. CASE k \in 1..n
      <4>1. k # n + 1 /\ k - 1 \in 0..n + 1 /\ k - 1 # n + 1 /\ k # 0
            /\ k \in 0..n + 1
        BY <3>2, SMT
      <4>2. g[k] = f[k] /\ g[k - 1] = f[k - 1]
        BY <4>1
      <4>3. f[k] = IF s.labels[c[k].id] = None THEN f[k - 1]
                   ELSE Append(f[k - 1], c[k])
        BY <2>1, <3>2, ChoosesValue
      <4> HIDE DEF g
      <4> QED BY <4>1, <4>2, <4>3
    <3>3. CASE k = n + 1
      <4>1. k - 1 = n /\ n \in 0..n + 1 /\ n # n + 1 /\ k # 0
            /\ k \in 0..n + 1
        BY <3>3, SMT
      <4>2. g[k] = new /\ g[k - 1] = f[n]
        BY <3>3, <4>1
      <4> HIDE DEF g
      <4> QED BY <3>3, <4>1, <4>2
    <3>4. k = 0 \/ k \in 1..n \/ k = n + 1
      BY SMT
    <3> QED BY <3>1, <3>2, <3>3, <3>4
  <2>3. g = [k \in 0..n + 1 |-> G(k)]
    <3>1. g = [k \in 0..n + 1 |-> g[k]]
      OBVIOUS
    <3> HIDE DEF g, G
    <3> QED BY <2>2, <3>1
  <2>4. Chooses(g, s, c, n + 1)
    <3> HIDE DEF g
    <3> QED BY <2>3 DEF Chooses
  <2> HIDE DEF g
  <2> QED BY <2>4
<1> HIDE DEF S
<1>3. \A n \in Nat : n \in S
  BY <1>1, <1>2, SetInduction
<1> QED BY <1>3 DEF S

\* d has the labelled ones among the first n elements of c, and no other.
LabelledOf(d, s, c, n) ==
    /\ d \in Seq(Entries)
    /\ \A j \in 1..Len(d) :
         s.labels[d[j].id] # None /\ \E i \in 1..n : c[i] = d[j]
    /\ \A i \in 1..n :
         s.labels[c[i].id] # None => \E j \in 1..Len(d) : d[j] = c[i]

LEMMA LabelledStep ==
    ASSUME NEW s, NEW c \in Seq(Entries), NEW n \in Nat, n + 1 \in 1..Len(c),
           NEW d, LabelledOf(d, s, c, n)
    PROVE  LabelledOf(IF s.labels[c[n + 1].id] = None THEN d
                      ELSE Append(d, c[n + 1]), s, c, n + 1)
<1> DEFINE x == c[n + 1]
           e == Append(d, x)
           q == Len(d)
<1>1. /\ \A i \in 1..n : i \in 1..n + 1
      /\ \A i \in 1..n + 1 : i \in 1..n \/ i = n + 1
      /\ n + 1 \in 1..n + 1
  BY SMT
<1>2. d \in Seq(Entries) /\ q \in Nat
  BY LenProperties DEF LabelledOf
<1>3. CASE s.labels[x.id] = None
  <2>1. LabelledOf(d, s, c, n + 1)
    BY <1>1, <1>3 DEF LabelledOf
  <2> QED BY <1>3, <2>1
<1>4. CASE s.labels[x.id] # None
  <2>1. x \in Entries
    OBVIOUS
  <2>2. /\ e \in Seq(Entries) /\ Len(e) = q + 1 /\ e[q + 1] = x
        /\ \A j \in 1..q : e[j] = d[j]
    BY <1>2, <2>1, AppendProperties
  <2>3. /\ \A j \in 1..q : j \in 1..q + 1
        /\ \A j \in 1..q + 1 : j \in 1..q \/ j = q + 1
        /\ q + 1 \in 1..q + 1
    BY <1>2, SMT
  <2>4. /\ \A j \in 1..q :
             s.labels[d[j].id] # None /\ \E i \in 1..n : c[i] = d[j]
        /\ \A i \in 1..n :
             s.labels[c[i].id] # None => \E j \in 1..q : d[j] = c[i]
    BY DEF LabelledOf
  <2> HIDE DEF e, q
  <2>5. ASSUME NEW j \in 1..q + 1
        PROVE  s.labels[e[j].id] # None /\ \E i \in 1..n + 1 : c[i] = e[j]
    <3>1. CASE j \in 1..q
      BY <1>1, <2>2, <2>4, <3>1, SMTT(30)
    <3>2. CASE j = q + 1
      BY <1>1, <1>4, <2>2, <3>2
    <3> QED BY <2>3, <3>1, <3>2
  <2>6. ASSUME NEW i \in 1..n + 1, s.labels[c[i].id] # None
        PROVE  \E j \in 1..q + 1 : e[j] = c[i]
    <3>1. CASE i \in 1..n
      BY <2>2, <2>3, <2>4, <2>6, <3>1
    <3>2. CASE i = n + 1
      BY <2>2, <2>3, <3>2
    <3> QED BY <1>1, <3>1, <3>2
  <2>7. LabelledOf(e, s, c, n + 1)
    BY <2>2, <2>5, <2>6 DEF LabelledOf
  <2> QED BY <1>4, <2>7 DEF e
<1> QED BY <1>3, <1>4

LEMMA LabelledIs ==
    ASSUME NEW s, NEW c \in Seq(Entries)
    PROVE  LabelledOf(Labelled(s, c), s, c, Len(c))
<1> DEFINE n == Len(c)
           first == CHOOSE f : Chooses(f, s, c, n)
<1>1. n \in Nat
  BY LenProperties
<1>2. Chooses(first, s, c, n)
  <2>1. \E f : Chooses(f, s, c, n)
    BY <1>1, ChoosesExists
  <2> HIDE DEF n
  <2> QED BY <2>1
<1>3. Labelled(s, c) = first[n]
  BY DEF Labelled, Chooses
<1> HIDE DEF first
<1> DEFINE S == {k \in Nat : k <= n => LabelledOf(first[k], s, c, k)}
<1>4. 0 \in S
  <2>1. first[0] = <<>>
    BY <1>1, <1>2, ChoosesValue
  <2>2. LabelledOf(<<>>, s, c, 0)
    BY DEF LabelledOf
  <2> QED BY <2>1, <2>2
<1>5. ASSUME NEW k \in Nat, k \in S PROVE k + 1 \in S
  <2> SUFFICES ASSUME k + 1 <= n PROVE LabelledOf(first[k + 1], s, c, k + 1)
    BY SMT
  <2>1. k <= n /\ k + 1 \in 1..n /\ (k + 1) - 1 = k
    BY <1>1, SMT
  <2>2. LabelledOf(first[k], s, c, k)
    BY <1>5, <2>1
  <2>3. first[k + 1] = IF s.labels[c[k + 1].id] = None
                       THEN first[(k + 1) - 1]
                       ELSE Append(first[(k + 1) - 1], c[k + 1])
    BY <1>1, <1>2, <2>1, ChoosesValue
  <2>4. LabelledOf(IF s.labels[c[k + 1].id] = None THEN first[k]
                   ELSE Append(first[k], c[k + 1]), s, c, k + 1)
    BY <2>1, <2>2, LabelledStep
  <2> QED BY <2>1, <2>3, <2>4
<1> HIDE DEF S
<1>6. \A k \in Nat : k \in S
  BY <1>4, <1>5, SetInduction
<1>7. n <= n
  BY <1>1, SMT
<1> QED BY <1>1, <1>3, <1>6, <1>7 DEF S
-----------------------------------------------------------------------------
(* The lanes in some order.                                                *)

LEMMA SetToSeqIs ==
    ASSUME NEW S, IsFiniteSet(S)
    PROVE  LET q == SetToSeq(S)
           IN  /\ q \in Seq(S)
               /\ \A x \in S : \E i \in 1..Len(q) : q[i] = x
<1> DEFINE n == Cardinality(S)
           q == SetToSeq(S)
<1>1. n \in Nat /\ ExistsBijection(1..n, S)
  BY FS_CardinalityType
<1>2. \E f \in [1..n -> S] : \A a, b \in DOMAIN f : f[a] = f[b] => a = b
  <2>1. PICK f : f \in Bijection(1..n, S)
    BY <1>1 DEF ExistsBijection
  <2>2. f \in [1..n -> S] /\ IsInjective(f)
    BY <2>1 DEF Bijection, Injection
  <2> QED BY <2>2 DEF IsInjective
<1>3. q \in [1..n -> S] /\ \A a, b \in DOMAIN q : q[a] = q[b] => a = b
  BY <1>2 DEF SetToSeq, IsInjective
<1> HIDE DEF q
<1>4. q \in Seq(S) /\ Len(q) = n
  BY <1>1, <1>3
<1>5. \A x \in S : \E i \in 1..n : q[i] = x
  <2>1. q \in Injection(1..n, S)
    BY <1>3 DEF Injection, IsInjective
  <2>2. IsFiniteSet(1..n) /\ Cardinality(1..n) = n
    BY <1>1, FS_Interval
  <2>3. q \in Surjection(1..n, S)
    BY <2>1, <2>2, FS_Injection
  <2> QED BY <2>3 DEF Surjection
<1> QED BY <1>4, <1>5 DEF q

-----------------------------------------------------------------------------
(* Branches.                                                               *)

Position(s, e) == CHOOSE i \in DOMAIN s.entries : s.entries[i].id = e

LEMMA PositionIs ==
    ASSUME NEW s \in SessionStates, NEW e \in EntryIds(s)
    PROVE  /\ Position(s, e) \in 1..Len(s.entries)
           /\ s.entries[Position(s, e)].id = e
           /\ EntryOf(s, e) = s.entries[Position(s, e)]
           /\ EntryOf(s, e) \in Entries /\ EntryOf(s, e).id = e
<1>1. s.entries \in Seq(Entries) /\ DOMAIN s.entries = 1..Len(s.entries)
  BY StateShape, LenProperties DEF Entries
<1>2. \E i \in DOMAIN s.entries : s.entries[i].id = e
  BY DEF EntryIds
<1>3. /\ Position(s, e) \in DOMAIN s.entries
      /\ s.entries[Position(s, e)].id = e
  BY <1>2 DEF Position
<1>4. EntryOf(s, e) = s.entries[Position(s, e)]
  BY DEF EntryOf, Position
<1> HIDE DEF Position
<1> QED BY <1>1, <1>3, <1>4

LEMMA EntryAt ==
    ASSUME NEW s \in SessionStates, TreeOK(s), NEW i \in 1..Len(s.entries)
    PROVE  /\ s.entries[i].id \in EntryIds(s)
           /\ Position(s, s.entries[i].id) = i
           /\ EntryOf(s, s.entries[i].id) = s.entries[i]
<1>1. DOMAIN s.entries = 1..Len(s.entries)
  BY StateShape, LenProperties
<1>2. s.entries[i].id \in EntryIds(s)
  BY <1>1 DEF EntryIds
<1>3. Position(s, s.entries[i].id) = i
  BY <1>1, <1>2, PositionIs DEF TreeOK
<1> QED BY <1>2, <1>3, PositionIs

LEMMA ParentIsEarlier ==
    ASSUME NEW s \in SessionStates, TreeOK(s), NEW e \in EntryIds(s),
           EntryOf(s, e).parent # None
    PROVE  LET p == EntryOf(s, e).parent
           IN  p \in EntryIds(s) /\ Position(s, p) < Position(s, e)
<1> DEFINE i == Position(s, e)
           p == EntryOf(s, e).parent
<1>1. i \in 1..Len(s.entries) /\ EntryOf(s, e) = s.entries[i]
  BY PositionIs
<1>2. DOMAIN s.entries = 1..Len(s.entries) /\ Len(s.entries) \in Nat
  BY StateShape, LenProperties
<1> HIDE DEF i
<1>3. PICK j \in 1..(i - 1) : s.entries[j].id = p
  BY <1>1, <1>2 DEF TreeOK
<1>4. j \in 1..Len(s.entries) /\ j < i
  BY <1>1, <1>2, SMT
<1>5. p \in EntryIds(s) /\ Position(s, p) = j
  BY <1>3, <1>4, EntryAt
<1> QED BY <1>4, <1>5 DEF i

\* The function in the definition of Branch, for the first n entries.
Extended(s, f, e) ==
    IF EntryOf(s, e).parent = None THEN <<EntryOf(s, e)>>
    ELSE Append(f[EntryOf(s, e).parent], EntryOf(s, e))
Walks(f, s, n) ==
    \A e \in EntryIds(s) : Position(s, e) <= n => f[e] = Extended(s, f, e)

LEMMA WalksExists ==
    ASSUME NEW s \in SessionStates, TreeOK(s)
    PROVE  \A n \in Nat : \E f : f = [e \in EntryIds(s) |-> f[e]]
                                 /\ Walks(f, s, n)
<1> DEFINE I == EntryIds(s)
           S == {n \in Nat : \E f : f = [e \in I |-> f[e]] /\ Walks(f, s, n)}
<1>1. 0 \in S
  <2> DEFINE f == [e \in I |-> <<>>]
  <2>1. f = [e \in I |-> f[e]]
    OBVIOUS
  <2>2. \A e \in I : ~(Position(s, e) <= 0)
    <3>1. \A e \in I : Position(s, e) \in 1..Len(s.entries)
      BY PositionIs
    <3>2. Len(s.entries) \in Nat
      BY StateShape, LenProperties
    <3> HIDE DEF I
    <3> QED BY <3>1, <3>2, SMT
  <2>3. Walks(f, s, 0)
    BY <2>2 DEF Walks
  <2> QED BY <2>1, <2>3
<1>2. ASSUME NEW n \in Nat, n \in S PROVE n + 1 \in S
  <2>1. PICK f : f = [e \in I |-> f[e]] /\ Walks(f, s, n)
    BY <1>2
  <2> DEFINE g == [e \in I |-> IF Position(s, e) = n + 1
                               THEN Extended(s, f, e) ELSE f[e]]
  <2>2. g = [e \in I |-> g[e]]
    OBVIOUS
  <2>3. \A e \in I : g[e] = IF Position(s, e) = n + 1
                            THEN Extended(s, f, e) ELSE f[e]
    OBVIOUS
  <2> HIDE DEF g
  <2>4. ASSUME NEW e \in I, Position(s, e) <= n + 1
        PROVE  g[e] = Extended(s, g, e)
    <3>1. Position(s, e) \in Nat
      <4>1. Position(s, e) \in 1..Len(s.entries)
        BY PositionIs
      <4> QED BY <4>1
    <3>2. Extended(s, g, e) = Extended(s, f, e)
      <4>1. CASE EntryOf(s, e).parent = None
        BY <4>1 DEF Extended
      <4>2. CASE EntryOf(s, e).parent # None
        <5> DEFINE p == EntryOf(s, e).parent
        <5>1. p \in I /\ Position(s, p) < Position(s, e)
          BY <4>2, ParentIsEarlier
        <5>2. Position(s, p) \in Nat
          <6>1. Position(s, p) \in 1..Len(s.entries)
            BY <5>1, PositionIs
          <6> QED BY <6>1
        <5>3. Position(s, p) # n + 1
          BY <2>4, <3>1, <5>1, <5>2, SMT
        <5>4. g[p] = f[p]
          BY <2>3, <5>1, <5>3
        <5> QED BY <5>4 DEF Extended
      <4> QED BY <4>1, <4>2
    <3>3. CASE Position(s, e) = n + 1
      BY <2>3, <3>2, <3>3
    <3>4. CASE Position(s, e) # n + 1
      <4>1. Position(s, e) <= n
        BY <2>4, <3>1, <3>4, SMT
      <4>2. f[e] = Extended(s, f, e)
        BY <2>1, <4>1 DEF Walks
      <4> QED BY <2>3, <3>2, <3>4, <4>2
    <3> QED BY <3>3, <3>4
  <2>5. Walks(g, s, n + 1)
    BY <2>4 DEF Walks
  <2> QED BY <2>2, <2>5
<1> HIDE DEF S
<1>3. \A n \in Nat : n \in S
  BY <1>1, <1>2, SetInduction
<1> QED BY <1>3 DEF S

\* Some entries of the tree in an order in which they can be written again.
Copyable(s, c) ==
    /\ c \in Seq(Entries)
    /\ \A i \in 1..Len(c) :
         c[i].id \in EntryIds(s) /\ c[i] = EntryOf(s, c[i].id)
    /\ \A i, j \in 1..Len(c) : c[i].id = c[j].id => i = j
    /\ \A i \in 1..Len(c) :
         c[i].parent # None => \E j \in 1..(i - 1) : c[j].id = c[i].parent

\* The branch of an entry ends with it and has nothing that came later.
BranchOf(s, c, e) ==
    /\ Copyable(s, c)
    /\ \E i \in 1..Len(c) : c[i].id = e
    /\ \A i \in 1..Len(c) : Position(s, c[i].id) <= Position(s, e)

LEMMA BranchExtended ==
    ASSUME NEW s \in SessionStates, TreeOK(s), NEW e \in EntryIds(s), NEW f,
           EntryOf(s, e).parent # None =>
             BranchOf(s, f[EntryOf(s, e).parent], EntryOf(s, e).parent)
    PROVE  BranchOf(s, Extended(s, f, e), e)
<1> DEFINE x == EntryOf(s, e)
           p == x.parent
           c == f[p]
           q == Len(c)
           b == Append(c, x)
<1>1. /\ x \in Entries /\ x.id = e /\ x.id \in EntryIds(s)
      /\ x = EntryOf(s, x.id) /\ Position(s, e) \in Nat
  <2>1. x \in Entries /\ x.id = e /\ Position(s, e) \in 1..Len(s.entries)
    BY PositionIs
  <2> QED BY <2>1
<1>2. CASE p = None
  <2>1. Extended(s, f, e) = <<x>>
    BY <1>2 DEF Extended
  <2> HIDE DEF x
  <2>2. /\ <<x>> \in Seq(Entries) /\ Len(<<x>>) = 1
        /\ \A i \in 1..Len(<<x>>) : i = 1 /\ <<x>>[i] = x
        /\ 1 \in 1..Len(<<x>>)
    BY <1>1
  <2> DEFINE r == <<x>>
  <2> HIDE DEF r
  <2>3. Position(s, e) <= Position(s, e)
    BY <1>1, SMT
  <2>4. /\ r \in Seq(Entries) /\ \A i \in 1..Len(r) : i = 1 /\ r[i] = x
        /\ 1 \in 1..Len(r)
    BY <2>2 DEF r
  <2>5. x.parent = None
    BY <1>2
  <2>6. BranchOf(s, r, e)
    BY <1>1, <2>3, <2>4, <2>5, Zenon DEF BranchOf, Copyable
  <2> QED BY <2>1, <2>6 DEF r
<1>3. CASE p # None
  <2>1. Extended(s, f, e) = b
    BY <1>3 DEF Extended
  <2>2. p \in EntryIds(s) /\ Position(s, p) < Position(s, e)
    BY <1>3, ParentIsEarlier
  <2>3. BranchOf(s, c, p)
    BY <1>3
  <2>4. Position(s, p) \in Nat
    <3>1. Position(s, p) \in 1..Len(s.entries)
      BY <2>2, PositionIs
    <3> QED BY <3>1
  <2> HIDE DEF x, p, c
  <2>5. /\ c \in Seq(Entries) /\ q \in Nat
        /\ \A i \in 1..q :
             c[i].id \in EntryIds(s) /\ c[i] = EntryOf(s, c[i].id)
        /\ \A i, j \in 1..q : c[i].id = c[j].id => i = j
        /\ \A i \in 1..q :
             c[i].parent # None =>
               \E j \in 1..(i - 1) : c[j].id = c[i].parent
        /\ \E i \in 1..q : c[i].id = p
        /\ \A i \in 1..q : Position(s, c[i].id) <= Position(s, p)
    BY <2>3, LenProperties DEF BranchOf, Copyable
  <2>6. /\ b \in Seq(Entries) /\ Len(b) = q + 1 /\ b[q + 1] = x
        /\ \A i \in 1..q : b[i] = c[i]
    BY <1>1, <2>5, AppendProperties
  <2>7. /\ \A i \in 1..q : i \in 1..q + 1
        /\ \A i \in 1..q + 1 : i \in 1..q \/ i = q + 1
        /\ q + 1 \in 1..q + 1 /\ (q + 1) - 1 = q
        /\ \A i \in 1..q : \A j \in 1..(i - 1) : j \in 1..q
    BY <2>5, SMT
  <2>8. \A i \in 1..q :
          Position(s, c[i].id) < Position(s, e) /\ c[i].id # e
    <3> TAKE i \in 1..q
    <3>1. Position(s, c[i].id) <= Position(s, p)
      BY <2>5
    <3>2. Position(s, c[i].id) \in Nat
      <4>1. Position(s, c[i].id) \in 1..Len(s.entries)
        BY <2>5, PositionIs
      <4> QED BY <4>1
    <3>3. Position(s, c[i].id) < Position(s, e)
      BY <1>1, <2>2, <2>4, <3>1, <3>2, SMT
    <3> QED BY <3>2, <3>3, SMT
  <2> HIDE DEF b, q
  <2>9. \A i \in 1..q + 1 :
          b[i].id \in EntryIds(s) /\ b[i] = EntryOf(s, b[i].id)
    BY <1>1, <2>5, <2>6, <2>7
  <2>10. \A i, j \in 1..q + 1 : b[i].id = b[j].id => i = j
    <3> SUFFICES ASSUME NEW i \in 1..q + 1, NEW j \in 1..q + 1,
                        b[i].id = b[j].id
                 PROVE  i = j
      OBVIOUS
    <3>1. CASE i \in 1..q /\ j \in 1..q
      BY <2>5, <2>6, <3>1
    <3>2. \A k \in 1..q : b[k].id # b[q + 1].id
      BY <1>1, <2>6, <2>8
    <3>3. CASE i = q + 1 /\ j \in 1..q
      BY <3>2, <3>3
    <3>4. CASE i \in 1..q /\ j = q + 1
      BY <3>2, <3>4
    <3>5. CASE i = q + 1 /\ j = q + 1
      BY <3>5
    <3>6. (i \in 1..q \/ i = q + 1) /\ (j \in 1..q \/ j = q + 1)
      BY <2>7
    <3> QED BY <3>1, <3>3, <3>4, <3>5, <3>6, Zenon
  <2>11. ASSUME NEW i \in 1..q + 1, b[i].parent # None
         PROVE  \E j \in 1..(i - 1) : b[j].id = b[i].parent
    <3>1. CASE i \in 1..q
      <4>1. PICK j \in 1..(i - 1) : c[j].id = c[i].parent
        BY <2>5, <2>6, <2>11, <3>1
      <4> QED BY <2>6, <2>7, <3>1, <4>1
    <3>2. CASE i = q + 1
      <4>1. b[i].parent = p
        BY <2>6, <3>2 DEF p
      <4>2. PICK j \in 1..q : c[j].id = p
        BY <2>5
      <4> QED BY <2>6, <2>7, <3>2, <4>1, <4>2
    <3> QED BY <2>7, <3>1, <3>2
  <2>12. Position(s, x.id) <= Position(s, e)
    BY <1>1, SMT
  <2>13. \A i \in 1..q + 1 : Position(s, b[i].id) <= Position(s, e)
    <3> TAKE i \in 1..q + 1
    <3>1. CASE i \in 1..q
      <4>1. Position(s, c[i].id) <= Position(s, p)
            /\ Position(s, c[i].id) < Position(s, e)
        BY <2>5, <2>8, <3>1
      <4>2. Position(s, c[i].id) \in Nat
        <5>1. Position(s, c[i].id) \in 1..Len(s.entries)
          BY <2>5, <3>1, PositionIs
        <5> QED BY <5>1
      <4>3. Position(s, c[i].id) <= Position(s, e)
        BY <1>1, <4>1, <4>2, SMT
      <4> QED BY <2>6, <3>1, <4>3
    <3>2. CASE i = q + 1
      BY <2>6, <2>12, <3>2
    <3> QED BY <2>7, <3>1, <3>2
  <2>14. \E i \in 1..q + 1 : b[i].id = e
    BY <1>1, <2>6, <2>7
  <2>15. BranchOf(s, b, e)
    BY <2>6, <2>9, <2>10, <2>11, <2>13, <2>14 DEF BranchOf, Copyable
  <2> QED BY <2>1, <2>15
<1> QED BY <1>2, <1>3

LEMMA BranchIs ==
    ASSUME NEW s \in SessionStates, TreeOK(s), NEW e \in EntryIds(s)
    PROVE  BranchOf(s, Branch(s, e), e)
<1> DEFINE I == EntryIds(s)
           n == Len(s.entries)
           path == CHOOSE f : f = [x \in I |-> Extended(s, f, x)]
<1>0. n \in Nat /\ \A x \in I : Position(s, x) \in 1..n
  BY StateShape, LenProperties, PositionIs
<1>1. \A x \in I : path[x] = Extended(s, path, x)
  <2>1. PICK f : f = [x \in I |-> f[x]] /\ Walks(f, s, n)
    BY <1>0, WalksExists
  <2>2. \A x \in I : Position(s, x) <= n
    <3> HIDE DEF n, I
    <3> QED BY <1>0, SMT
  <2>3. \A x \in I : f[x] = Extended(s, f, x)
    BY <2>1, <2>2 DEF Walks
  <2>4. f = [x \in I |-> Extended(s, f, x)]
    <3> HIDE DEF I
    <3> QED BY <2>1, <2>3
  <2>5. path = [x \in I |-> Extended(s, path, x)]
    BY <2>4
  <2> HIDE DEF path, I
  <2>6. \A x \in I : [y \in I |-> Extended(s, path, y)][x]
                     = Extended(s, path, x)
    OBVIOUS
  <2> QED BY <2>5, <2>6
<1>2. Branch(s, e) = path[e]
  <2>1. e # None
    <3>1. e \in Ids
      <4>1. EntryOf(s, e) \in Entries /\ EntryOf(s, e).id = e
        BY PositionIs
      <4> QED BY <4>1 DEF Entries
    <3> QED BY <3>1, NoneAssumption
  <2> QED BY <2>1 DEF Branch, Extended
<1> HIDE DEF path
<1> DEFINE S == {k \in Nat : \A x \in I : Position(s, x) <= k =>
                                            BranchOf(s, path[x], x)}
<1>3. 0 \in S
  <2>1. \A x \in I : ~(Position(s, x) <= 0)
    <3> HIDE DEF n, I
    <3> QED BY <1>0, SMT
  <2> QED BY <2>1
<1>4. ASSUME NEW k \in Nat, k \in S PROVE k + 1 \in S
  <2> SUFFICES ASSUME NEW x \in I, Position(s, x) <= k + 1
               PROVE  BranchOf(s, path[x], x)
    OBVIOUS
  <2>1. EntryOf(s, x).parent # None =>
          BranchOf(s, path[EntryOf(s, x).parent], EntryOf(s, x).parent)
    <3> SUFFICES ASSUME EntryOf(s, x).parent # None
                 PROVE  BranchOf(s, path[EntryOf(s, x).parent],
                                 EntryOf(s, x).parent)
      OBVIOUS
    <3> DEFINE p == EntryOf(s, x).parent
    <3>1. p \in I /\ Position(s, p) < Position(s, x)
      BY ParentIsEarlier
    <3>2. Position(s, p) <= k
      <4>1. Position(s, p) \in 1..n /\ Position(s, x) \in 1..n
        BY <1>0, <3>1
      <4> HIDE DEF p, n
      <4> QED BY <1>0, <3>1, <4>1, SMT
    <3> QED BY <1>4, <3>1, <3>2
  <2>2. BranchOf(s, Extended(s, path, x), x)
    BY <2>1, BranchExtended
  <2> QED BY <1>1, <2>2
<1> HIDE DEF S
<1>5. \A k \in Nat : k \in S
  BY <1>3, <1>4, SetInduction
<1>6. Position(s, e) \in Nat /\ Position(s, e) <= Position(s, e)
  <2>1. Position(s, e) \in 1..n
    BY <1>0
  <2> HIDE DEF n
  <2> QED BY <2>1, <1>0, SMT
<1> QED BY <1>2, <1>5, <1>6 DEF S

-----------------------------------------------------------------------------
(* What a fork copies.                                                     *)

\* The leaves of the lanes of a fork.
ForkLeaves(s, options) ==
    IF options.scope = "tree" THEN s.lanes
    ELSE [Empty.lanes EXCEPT ![Main] = ForkTarget(s, options)]

\* A pointer to one of some entries.
Within(c, pointer) == pointer = None \/ \E i \in 1..Len(c) : c[i].id = pointer

LEMMA TreeCopyable ==
    ASSUME NEW s \in SessionStates, TreeOK(s)
    PROVE  /\ Copyable(s, s.entries)
           /\ \A p : Known(s, p) => Within(s.entries, p)
<1>1. s.entries \in Seq(Entries) /\ DOMAIN s.entries = 1..Len(s.entries)
  BY StateShape, LenProperties DEF Entries
<1>2. \A i \in 1..Len(s.entries) :
        /\ s.entries[i].id \in EntryIds(s)
        /\ s.entries[i] = EntryOf(s, s.entries[i].id)
  BY EntryAt
<1>3. Copyable(s, s.entries)
  BY <1>1, <1>2 DEF Copyable, TreeOK
<1>4. \A p : Known(s, p) => Within(s.entries, p)
  BY <1>1 DEF Known, Within, EntryIds
<1> QED BY <1>3, <1>4

LEMMA EmptyCopyable ==
    ASSUME NEW s PROVE Copyable(s, <<>>)
<1> DEFINE c == <<>>
<1>1. c \in Seq(Entries) /\ \A i \in 1..Len(c) : FALSE
  OBVIOUS
<1> HIDE DEF c
<1>2. Copyable(s, c)
  BY <1>1 DEF Copyable
<1> QED BY <1>2 DEF c

LEMMA TargetKnown ==
    ASSUME NEW s \in SessionStates, TreeOK(s), NEW options \in ForkOptions,
           options.scope = "branch", Forkable(s, options)
    PROVE  Known(s, ForkTarget(s, options))
<1> DEFINE id == Selected(s, options)
           e == EntryOf(s, id)
<1>1. id # None => id \in EntryIds(s)
  BY DEF Forkable
<1>2. CASE id = None \/ options.position = "at"
  BY <1>1, <1>2 DEF ForkTarget, Known
<1>3. CASE id # None /\ options.position # "at"
  <2>1. ForkTarget(s, options) = e.parent
    BY <1>3 DEF ForkTarget
  <2>2. e.parent # None => e.parent \in EntryIds(s)
    BY <1>1, <1>3, ParentIsEarlier
  <2> QED BY <2>1, <2>2 DEF Known
<1> QED BY <1>2, <1>3

\* What is copied can be written again in its order, and the lanes of the
\* fork end in it.
LEMMA CopiedIs ==
    ASSUME NEW s, Sound(s), NEW options \in ForkOptions, Forkable(s, options)
    PROVE  /\ Copyable(s, Copied(s, options))
           /\ ForkLeaves(s, options) \in [Lanes -> Pointers \cup {Missing}]
           /\ ForkLeaves(s, options)[Main] # Missing
           /\ \A l \in Lanes :
                ForkLeaves(s, options)[l] # Missing =>
                  Within(Copied(s, options), ForkLeaves(s, options)[l])
<1>0. s \in SessionStates /\ TreeOK(s) /\ LanesOK(s)
  BY DEF Sound
<1>1. CASE options.scope = "tree"
  <2>1. Copied(s, options) = s.entries /\ ForkLeaves(s, options) = s.lanes
    BY <1>1 DEF Copied, ForkLeaves
  <2>2. \A l \in Lanes : s.lanes[l] # Missing => Known(s, s.lanes[l])
    BY <1>0 DEF TreeOK, HasLane
  <2>3. s.lanes[Main] # Missing
    BY <1>0 DEF LanesOK, HasLane
  <2> QED BY <1>0, <2>1, <2>2, <2>3, TreeCopyable, StateShape
<1>2. CASE options.scope = "branch"
  <2> DEFINE target == ForkTarget(s, options)
             c == Branch(s, target)
             leaves == [Empty.lanes EXCEPT ![Main] = target]
  <2>1. Copied(s, options) = c /\ ForkLeaves(s, options) = leaves
    BY <1>2 DEF Copied, ForkLeaves
  <2>2. Known(s, target)
    BY <1>0, <1>2, TargetKnown
  <2>3. target \in Pointers
    <3>1. \A e \in EntryIds(s) : e \in Ids
      <4>1. \A e \in EntryIds(s) :
              EntryOf(s, e) \in Entries /\ EntryOf(s, e).id = e
        BY <1>0, PositionIs
      <4> QED BY <4>1 DEF Entries
    <3> QED BY <2>2, <3>1 DEF Known, Pointers
  <2> HIDE DEF target
  <2>4. Copyable(s, c) /\ Within(c, target)
    <3>1. CASE target = None
      <4>1. c = <<>>
        BY <3>1 DEF Branch
      <4> QED BY <3>1, <4>1, EmptyCopyable DEF Within
    <3>2. CASE target # None
      <4>1. target \in EntryIds(s)
        BY <2>2, <3>2 DEF Known
      <4>2. BranchOf(s, c, target)
        BY <1>0, <4>1, BranchIs
      <4> QED BY <4>2 DEF BranchOf, Within
    <3> QED BY <3>1, <3>2
  <2>5. /\ leaves[Main] = target
        /\ \A l \in Lanes : l # Main => leaves[l] = Missing
        /\ leaves \in [Lanes -> Pointers \cup {Missing}]
    BY <2>3, MainAssumption DEF Empty, Pointers
  <2> HIDE DEF c, leaves
  <2>6. target # Missing
    BY <2>3, NoneAssumption DEF Pointers
  <2>7. \A l \in Lanes : leaves[l] # Missing => Within(c, leaves[l])
    BY <2>4, <2>5
  <2> QED BY <2>1, <2>4, <2>5, <2>6, <2>7
<1> QED BY <1>1, <1>2 DEF ForkOptions

LaneLeaf == [lane : Lanes, leaf : Pointers]

LEMMA ForkLanesAre ==
    ASSUME NEW s, Sound(s), NEW options \in ForkOptions, Forkable(s, options)
    PROVE  LET q == ForkLanes(s, options)
               leaves == ForkLeaves(s, options)
           IN  /\ q \in Seq(LaneLeaf)
               /\ \A i \in 1..Len(q) : /\ leaves[q[i].lane] = q[i].leaf
                                       /\ q[i].leaf # Missing
               /\ \A l \in Lanes : leaves[l] # Missing =>
                                     \E i \in 1..Len(q) : q[i].lane = l
<1> DEFINE leaves == ForkLeaves(s, options)
<1>0. /\ s \in SessionStates /\ LanesOK(s) /\ Missing \notin Pointers
      /\ leaves \in [Lanes -> Pointers \cup {Missing}]
      /\ leaves[Main] # Missing
  BY CopiedIs, NoneAssumption DEF Sound, Pointers
<1>1. CASE options.scope = "tree"
  <2> DEFINE S == {l \in Lanes : HasLane(s, l)}
             x == SetToSeq(S)
             q == [i \in DOMAIN x |-> [lane |-> x[i], leaf |-> s.lanes[x[i]]]]
  <2>1. ForkLanes(s, options) = q /\ leaves = s.lanes
    BY <1>1 DEF ForkLanes, ForkLeaves
  <2>2. x \in Seq(S) /\ \A l \in S : \E i \in 1..Len(x) : x[i] = l
    BY <1>0, SetToSeqIs DEF LanesOK
  <2> HIDE DEF x
  <2>3. DOMAIN x = 1..Len(x) /\ Len(x) \in Nat
        /\ \A i \in 1..Len(x) : x[i] \in S
    BY <2>2, LenProperties
  <2>4. \A i \in 1..Len(x) : /\ x[i] \in Lanes /\ s.lanes[x[i]] # Missing
                             /\ s.lanes[x[i]] \in Pointers
    BY <1>0, <2>1, <2>3 DEF HasLane
  <2>5. /\ q \in Seq(LaneLeaf) /\ Len(q) = Len(x)
        /\ \A i \in 1..Len(x) : q[i].lane = x[i] /\ q[i].leaf = s.lanes[x[i]]
    BY <2>3, <2>4 DEF LaneLeaf
  <2> HIDE DEF q
  <2>6. \A l \in Lanes : s.lanes[l] # Missing => l \in S
    BY DEF HasLane
  <2>7. \A l \in Lanes : s.lanes[l] # Missing =>
                           \E i \in 1..Len(q) : q[i].lane = l
    BY <2>2, <2>5, <2>6
  <2> QED BY <2>1, <2>4, <2>5, <2>7
<1>2. CASE options.scope = "branch"
  <2> DEFINE target == ForkTarget(s, options)
             r == [lane |-> Main, leaf |-> target]
             q == <<r>>
  <2>1. ForkLanes(s, options) = q
        /\ leaves = [Empty.lanes EXCEPT ![Main] = target]
    BY <1>2 DEF ForkLanes, ForkLeaves
  <2>2. /\ leaves[Main] = target
        /\ \A l \in Lanes : l # Main => leaves[l] = Missing
    BY <2>1, MainAssumption DEF Empty
  <2> HIDE DEF target
  <2>3. target \in Pointers
    BY <1>0, <2>2, MainAssumption
  <2>4. r \in LaneLeaf /\ r.lane = Main /\ r.leaf = target
    BY <2>3, MainAssumption DEF LaneLeaf
  <2> HIDE DEF r
  <2>5. /\ q \in Seq(LaneLeaf) /\ 1 \in 1..Len(q)
        /\ \A i \in 1..Len(q) : i = 1 /\ q[i] = r
    BY <2>4
  <2> HIDE DEF q, leaves
  <2>6. \A l \in Lanes : leaves[l] # Missing => q[1].lane = l
    BY <2>2, <2>4, <2>5
  <2> QED BY <1>0, <2>1, <2>2, <2>3, <2>4, <2>5, <2>6 DEF leaves
<1> QED BY <1>1, <1>2 DEF ForkOptions

-----------------------------------------------------------------------------
(* The mutations of a fork.                                                *)

CopyOf(m, e) ==
    /\ m.kind = "entry" /\ m.id = e.id /\ m.lane = None
    /\ m.ref = e.parent /\ m.value = e.type
LeafOf(m, leaves, l) == m.kind = "lane" /\ m.lane = l /\ m.ref = leaves[l]
NameOf(m, s) == m.kind = "name" /\ m.value = s.name
LabelOf(m, s, id) ==
    m.kind = "label" /\ m.ref = id /\ m.value = s.labels[id]

\* What follows the entries c copied from s.
Trailing(m, s, c, leaves) ==
    \/ \E l \in Lanes : LeafOf(m, leaves, l) /\ leaves[l] # Missing
    \/ NameOf(m, s)
    \/ \E i \in 1..Len(c) : LabelOf(m, s, c[i].id)

\* Mutations that write the entries, lanes, name and labels of a fork, and
\* nothing else.
ForkLog(ms, s, c, leaves) ==
    /\ WellFormedLog(ms) /\ Len(c) <= Len(ms)
    /\ \A k \in 1..Len(c) : CopyOf(ms[k], c[k])
    /\ \A k \in 1..Len(ms) : k > Len(c) => Trailing(ms[k], s, c, leaves)
    /\ \A l \in Lanes : leaves[l] # Missing =>
         \E k \in 1..Len(ms) : LeafOf(ms[k], leaves, l)
    /\ s.name # None => \E k \in 1..Len(ms) : NameOf(ms[k], s)
    /\ \A i \in 1..Len(c) : s.labels[c[i].id] # None =>
         \E k \in 1..Len(ms) : LabelOf(ms[k], s, c[i].id)

Numbered(ms) == \A k \in 1..Len(ms) : ms[k].seq = k

LEMMA FunctionIsSequence ==
    ASSUME NEW S, NEW n \in Nat, NEW f \in [1..n -> S]
    PROVE  f \in Seq(S) /\ Len(f) = n
  OBVIOUS

\* w has the elements of u and then those of v.
Joined(w, u, v) ==
    /\ Len(w) \in Nat /\ Len(u) \in Nat /\ Len(u) <= Len(w)
    /\ \A i \in 1..Len(u) : i \in 1..Len(w) /\ w[i] = u[i]
    /\ \A i \in 1..Len(v) :
         Len(u) + i \in 1..Len(w) /\ w[Len(u) + i] = v[i]
    /\ \A i \in 1..Len(w) :
         i > Len(u) => \E j \in 1..Len(v) : w[i] = v[j]

LEMMA ConcatElements ==
    ASSUME NEW S, NEW u \in Seq(S), NEW v \in Seq(S), NEW w, w = u \o v
    PROVE  w \in Seq(S) /\ Joined(w, u, v)
<1> DEFINE p == Len(u)
           q == Len(v)
<1>1. /\ w \in Seq(S) /\ Len(w) = p + q /\ p \in Nat /\ q \in Nat
      /\ \A i \in 1..p + q : w[i] = IF i <= p THEN u[i] ELSE v[i - p]
  BY ConcatProperties, LenProperties
<1> HIDE DEF p, q
<1>2. /\ \A i \in 1..p : i \in 1..p + q /\ i <= p
      /\ \A i \in 1..q : /\ p + i \in 1..p + q /\ ~(p + i <= p)
                         /\ (p + i) - p = i
      /\ \A i \in 1..p + q : i > p => ~(i <= p) /\ i - p \in 1..q
      /\ p + q \in Nat /\ p <= p + q
  BY <1>1, SMT
<1>3. \A i \in 1..p : w[i] = u[i]
  BY <1>1, <1>2
<1>4. \A i \in 1..q : w[p + i] = v[i]
  <2> TAKE i \in 1..q
  <2>1. w[p + i] = v[(p + i) - p]
    BY <1>1, <1>2, Zenon
  <2> QED BY <1>2, <2>1, Zenon
<1>5. \A i \in 1..p + q : i > p => \E j \in 1..q : w[i] = v[j]
  <2> TAKE i \in 1..p + q
  <2> HAVE i > p
  <2>1. w[i] = v[i - p] /\ i - p \in 1..q
    BY <1>1, <1>2, Zenon
  <2> QED BY <2>1
<1> QED BY <1>1, <1>2, <1>3, <1>4, <1>5, Zenon DEF Joined, p, q

\* The parts a fork's log is put together from.
Segments(s, c, leaves, q, d, E, L, N, B) ==
    /\ E \in Seq(Mutation) /\ Len(E) = Len(c)
    /\ L \in Seq(Mutation) /\ Len(L) = Len(q)
    /\ N \in Seq(Mutation) /\ (s.name # None => 1 \in 1..Len(N))
    /\ B \in Seq(Mutation) /\ Len(B) = Len(d)
    /\ \A i \in 1..Len(E) : WellFormed(E[i]) /\ CopyOf(E[i], c[i])
    /\ \A i \in 1..Len(L) : /\ WellFormed(L[i]) /\ q[i].lane \in Lanes
                            /\ LeafOf(L[i], leaves, q[i].lane)
    /\ \A i \in 1..Len(N) : WellFormed(N[i]) /\ NameOf(N[i], s)
    /\ \A i \in 1..Len(B) : WellFormed(B[i]) /\ LabelOf(B[i], s, d[i].id)

LEMMA EntriesSegment ==
    ASSUME NEW c \in Seq(Entries), NEW E,
           E = [i \in DOMAIN c |-> Entry(0, c[i].id, None, c[i].parent,
                                         c[i].type)]
    PROVE  /\ E \in Seq(Mutation) /\ Len(E) = Len(c)
           /\ \A i \in 1..Len(E) : WellFormed(E[i]) /\ CopyOf(E[i], c[i])
<1>0. /\ c \in Seq(Entries) /\ DOMAIN c = 1..Len(c)
      /\ Len(c) \in Nat
  BY LenProperties
<1> DEFINE M(i) == Entry(0, c[i].id, None, c[i].parent, c[i].type)
<1>1. ASSUME NEW i \in 1..Len(c)
      PROVE  WellFormed(M(i)) /\ CopyOf(M(i), c[i]) /\ M(i) \in Mutation
  <2>1. /\ c[i].id \in Ids /\ c[i].parent \in Pointers
        /\ c[i].type \in EntryTypes
    <3>1. c[i] \in Entries
      BY <1>0
    <3> QED BY <3>1 DEF Entries
  <2>2. CopyOf(M(i), c[i])
    BY DEF CopyOf, Entry
  <2>3. WellFormed(M(i))
    BY <2>1 DEF WellFormed, Mutation, Kinds, RecordKinds, Pointers, Entry
  <2> QED BY <2>2, <2>3 DEF WellFormed
<1>2. E = [i \in 1..Len(c) |-> M(i)]
  BY <1>0
<1> HIDE DEF M
<1>3. E \in [1..Len(c) -> Mutation] /\ \A i \in 1..Len(c) : E[i] = M(i)
  BY <1>1, <1>2
<1>4. E \in Seq(Mutation) /\ Len(E) = Len(c)
  BY <1>0, <1>3, FunctionIsSequence
<1> QED BY <1>1, <1>3, <1>4

LEMMA LanesSegment ==
    ASSUME NEW q \in Seq(LaneLeaf), NEW leaves,
           \A i \in 1..Len(q) : leaves[q[i].lane] = q[i].leaf,
           NEW L, L = [i \in DOMAIN q |-> Lane(0, q[i].lane, q[i].leaf)]
    PROVE  /\ L \in Seq(Mutation) /\ Len(L) = Len(q)
           /\ \A i \in 1..Len(L) : /\ WellFormed(L[i]) /\ q[i].lane \in Lanes
                                   /\ LeafOf(L[i], leaves, q[i].lane)
<1>0. /\ q \in Seq(LaneLeaf) /\ DOMAIN q = 1..Len(q)
      /\ Len(q) \in Nat
  BY LenProperties
<1> DEFINE M(i) == Lane(0, q[i].lane, q[i].leaf)
<1>1. ASSUME NEW i \in 1..Len(q)
      PROVE  /\ WellFormed(M(i)) /\ LeafOf(M(i), leaves, q[i].lane)
             /\ q[i].lane \in Lanes /\ M(i) \in Mutation
  <2>1. q[i].lane \in Lanes /\ q[i].leaf \in Pointers
        /\ leaves[q[i].lane] = q[i].leaf
    <3>1. q[i] \in LaneLeaf
      BY <1>0
    <3> QED BY <3>1 DEF LaneLeaf
  <2>2. LeafOf(M(i), leaves, q[i].lane)
    BY <2>1 DEF LeafOf, Lane
  <2>3. WellFormed(M(i))
    BY <2>1 DEF WellFormed, Mutation, Kinds, RecordKinds, Pointers, Lane
  <2> QED BY <2>1, <2>2, <2>3 DEF WellFormed
<1>2. L = [i \in 1..Len(q) |-> M(i)]
  BY <1>0
<1> HIDE DEF M
<1>3. L \in [1..Len(q) -> Mutation] /\ \A i \in 1..Len(q) : L[i] = M(i)
  BY <1>1, <1>2
<1>4. L \in Seq(Mutation) /\ Len(L) = Len(q)
  BY <1>0, <1>3, FunctionIsSequence
<1> QED BY <1>1, <1>3, <1>4

LEMMA NameSegment ==
    ASSUME NEW s \in SessionStates, NEW N,
           N = IF s.name = None THEN <<>>
               ELSE <<Fact(0, "name", None, s.name)>>
    PROVE  /\ N \in Seq(Mutation) /\ (s.name # None => 1 \in 1..Len(N))
           /\ \A i \in 1..Len(N) : WellFormed(N[i]) /\ NameOf(N[i], s)
<1>0. s.name \in Names \cup {None} /\ 0 \in Nat
  BY StateShape
<1> DEFINE m == Fact(0, "name", None, s.name)
<1>1. WellFormed(m) /\ NameOf(m, s) /\ m \in Mutation
  BY <1>0 DEF WellFormed, Mutation, Kinds, RecordKinds, Pointers, Fact,
              NameOf
<1> HIDE DEF m
<1>2. CASE s.name = None
  <2>1. N = <<>> /\ \A i \in 1..Len(<<>>) : FALSE
    BY <1>2
  <2>2. <<>> \in Seq(Mutation)
    OBVIOUS
  <2> QED BY <1>2, <2>1, <2>2
<1>3. CASE s.name # None
  <2>1. N = <<m>>
    BY <1>3 DEF m
  <2>2. /\ <<m>> \in Seq(Mutation) /\ 1 \in 1..Len(<<m>>)
        /\ \A i \in 1..Len(<<m>>) : <<m>>[i] = m
    BY <1>1
  <2> QED BY <1>1, <2>1, <2>2
<1> QED BY <1>2, <1>3

LEMMA LabelsSegment ==
    ASSUME NEW s \in SessionStates, NEW d \in Seq(Entries), NEW B,
           B = [i \in DOMAIN d |-> Fact(0, "label", d[i].id,
                                        s.labels[d[i].id])]
    PROVE  /\ B \in Seq(Mutation) /\ Len(B) = Len(d)
           /\ \A i \in 1..Len(B) :
                WellFormed(B[i]) /\ LabelOf(B[i], s, d[i].id)
<1>0. /\ d \in Seq(Entries) /\ DOMAIN d = 1..Len(d)
      /\ Len(d) \in Nat /\ s.labels \in [Ids -> Names \cup {None}]
  BY LenProperties, StateShape, SMTT(30)
<1> DEFINE M(i) == Fact(0, "label", d[i].id, s.labels[d[i].id])
<1>1. ASSUME NEW i \in 1..Len(d)
      PROVE  /\ WellFormed(M(i)) /\ LabelOf(M(i), s, d[i].id)
             /\ M(i) \in Mutation
  <2>1. d[i].id \in Ids /\ s.labels[d[i].id] \in Names \cup {None}
    <3>1. d[i] \in Entries
      BY <1>0
    <3>2. d[i].id \in Ids
      BY <3>1 DEF Entries
    <3> QED BY <1>0, <3>2
  <2>2. LabelOf(M(i), s, d[i].id)
    BY DEF LabelOf, Fact
  <2>3. WellFormed(M(i))
    BY <2>1 DEF WellFormed, Mutation, Kinds, RecordKinds, Pointers, Fact
  <2> QED BY <2>2, <2>3 DEF WellFormed
<1>2. B = [i \in 1..Len(d) |-> M(i)]
  BY <1>0
<1> HIDE DEF M
<1>3. B \in [1..Len(d) -> Mutation] /\ \A i \in 1..Len(d) : B[i] = M(i)
  BY <1>1, <1>2
<1>4. B \in Seq(Mutation) /\ Len(B) = Len(d)
  BY <1>0, <1>3, FunctionIsSequence
<1> QED BY <1>1, <1>3, <1>4, SMTT(30)

LEMMA ForkSegments ==
    ASSUME NEW s, Sound(s), NEW c, Copyable(s, c), NEW leaves,
           leaves \in [Lanes -> Pointers \cup {Missing}],
           NEW q \in Seq(LaneLeaf),
           \A i \in 1..Len(q) : leaves[q[i].lane] = q[i].leaf,
           \A i \in 1..Len(q) : q[i].leaf # Missing,
           NEW d, LabelledOf(d, s, c, Len(c)),
           NEW E, NEW L, NEW N, NEW B,
           E = [i \in DOMAIN c |-> Entry(0, c[i].id, None, c[i].parent,
                                         c[i].type)],
           L = [i \in DOMAIN q |-> Lane(0, q[i].lane, q[i].leaf)],
           N = IF s.name = None THEN <<>>
               ELSE <<Fact(0, "name", None, s.name)>>,
           B = [i \in DOMAIN d |-> Fact(0, "label", d[i].id,
                                        s.labels[d[i].id])]
    PROVE  Segments(s, c, leaves, q, d, E, L, N, B)
<1>0. s \in SessionStates /\ c \in Seq(Entries) /\ d \in Seq(Entries)
  BY DEF Sound, Copyable, LabelledOf
<1>1. /\ E \in Seq(Mutation) /\ Len(E) = Len(c)
      /\ \A i \in 1..Len(E) : WellFormed(E[i]) /\ CopyOf(E[i], c[i])
  BY <1>0, EntriesSegment
<1>2. /\ L \in Seq(Mutation) /\ Len(L) = Len(q)
      /\ \A i \in 1..Len(L) : /\ WellFormed(L[i]) /\ q[i].lane \in Lanes
                              /\ LeafOf(L[i], leaves, q[i].lane)
  BY LanesSegment
<1>3. /\ N \in Seq(Mutation) /\ (s.name # None => 1 \in 1..Len(N))
      /\ \A i \in 1..Len(N) : WellFormed(N[i]) /\ NameOf(N[i], s)
  BY <1>0, NameSegment
<1>4. /\ B \in Seq(Mutation) /\ Len(B) = Len(d)
      /\ \A i \in 1..Len(B) : WellFormed(B[i]) /\ LabelOf(B[i], s, d[i].id)
  BY <1>0, LabelsSegment
<1> QED BY <1>1, <1>2, <1>3, <1>4, Zenon DEF Segments

LEMMA Renumbered ==
    ASSUME NEW m, WellFormed(m), NEW i \in Nat
    PROVE  LET n == [m EXCEPT !.seq = i]
           IN  /\ WellFormed(n) /\ n.seq = i
               /\ \A e : CopyOf(m, e) => CopyOf(n, e)
               /\ \A leaves, l : LeafOf(m, leaves, l) => LeafOf(n, leaves, l)
               /\ \A s : NameOf(m, s) => NameOf(n, s)
               /\ \A s, id : LabelOf(m, s, id) => LabelOf(n, s, id)
<1> DEFINE n == [m EXCEPT !.seq = i]
<1>1. m \in Mutation
  BY DEF WellFormed
<1>2. /\ n.seq = i /\ n.kind = m.kind /\ n.id = m.id /\ n.lane = m.lane
      /\ n.ref = m.ref /\ n.value = m.value
  BY <1>1 DEF Mutation
<1>3. n \in Mutation
  BY <1>1 DEF Mutation
<1> HIDE DEF n
<1>4. WellFormed(n)
  BY <1>2, <1>3 DEF WellFormed
<1>5. /\ \A e : CopyOf(m, e) => CopyOf(n, e)
      /\ \A leaves, l : LeafOf(m, leaves, l) => LeafOf(n, leaves, l)
      /\ \A s : NameOf(m, s) => NameOf(n, s)
      /\ \A s, id : LabelOf(m, s, id) => LabelOf(n, s, id)
  BY <1>2 DEF CopyOf, LeafOf, NameOf, LabelOf
<1> QED BY <1>2, <1>4, <1>5 DEF n

LEMMA ForkConcatenated ==
    ASSUME NEW s, NEW c \in Seq(Entries), NEW leaves,
           NEW E \in Seq(Mutation), NEW L \in Seq(Mutation),
           NEW N \in Seq(Mutation), NEW B \in Seq(Mutation),
           Len(E) = Len(c),
           \A i \in 1..Len(E) : WellFormed(E[i]) /\ CopyOf(E[i], c[i]),
           \A i \in 1..Len(L) :
             /\ WellFormed(L[i])
             /\ \E l \in Lanes :
                  LeafOf(L[i], leaves, l) /\ leaves[l] # Missing,
           \A l \in Lanes : leaves[l] # Missing =>
             \E i \in 1..Len(L) : LeafOf(L[i], leaves, l),
           \A i \in 1..Len(N) : WellFormed(N[i]) /\ NameOf(N[i], s),
           s.name # None => 1 \in 1..Len(N),
           \A i \in 1..Len(B) :
             /\ WellFormed(B[i])
             /\ \E j \in 1..Len(c) : LabelOf(B[i], s, c[j].id),
           \A j \in 1..Len(c) : s.labels[c[j].id] # None =>
             \E i \in 1..Len(B) : LabelOf(B[i], s, c[j].id)
    PROVE  ForkLog((E \o L) \o (N \o B), s, c, leaves)
<1> DEFINE U == E \o L
           F == N \o B
           all == U \o F
<1>1. U \in Seq(Mutation) /\ Joined(U, E, L)
  BY ConcatElements
<1>2. F \in Seq(Mutation) /\ Joined(F, N, B)
  BY ConcatElements
<1> HIDE DEF U, F
<1>3. all \in Seq(Mutation) /\ Joined(all, U, F)
  BY <1>1, <1>2, ConcatElements
<1> HIDE DEF all
<1>4. \A i \in 1..Len(F) : \/ \E j \in 1..Len(N) : F[i] = N[j]
                           \/ \E j \in 1..Len(B) : F[i] = B[j]
  <2> TAKE i \in 1..Len(F)
  <2>1. i > Len(N) \/ i \in 1..Len(N)
    BY <1>2, SMT DEF Joined
  <2> QED BY <1>2, <2>1 DEF Joined
<1>5. \A k \in 1..Len(all) : k > Len(E) =>
        \/ \E j \in 1..Len(L) : all[k] = L[j]
        \/ \E j \in 1..Len(N) : all[k] = N[j]
        \/ \E j \in 1..Len(B) : all[k] = B[j]
  <2> TAKE k \in 1..Len(all)
  <2> HAVE k > Len(E)
  <2>1. k > Len(U) \/ k \in 1..Len(U)
    BY <1>1, <1>3, SMT DEF Joined
  <2>2. CASE k > Len(U)
    <3>1. PICK j \in 1..Len(F) : all[k] = F[j]
      BY <1>3, <2>2 DEF Joined
    <3> QED BY <1>4, <3>1
  <2>3. CASE k \in 1..Len(U)
    <3>1. all[k] = U[k]
      BY <1>3, <2>3 DEF Joined
    <3>2. \E j \in 1..Len(L) : U[k] = L[j]
      BY <1>1, <2>3 DEF Joined
    <3> QED BY <3>1, <3>2
  <2> QED BY <2>1, <2>2, <2>3
<1>6. \A k \in 1..Len(all) : k > Len(c) =>
        WellFormed(all[k]) /\ Trailing(all[k], s, c, leaves)
  <2> SUFFICES ASSUME NEW k \in 1..Len(all), k > Len(E)
               PROVE  WellFormed(all[k]) /\ Trailing(all[k], s, c, leaves)
    OBVIOUS
  <2>1. CASE \E j \in 1..Len(L) : all[k] = L[j]
    BY <2>1 DEF Trailing
  <2>2. CASE \E j \in 1..Len(N) : all[k] = N[j]
    BY <2>2 DEF Trailing
  <2>3. CASE \E j \in 1..Len(B) : all[k] = B[j]
    BY <2>3 DEF Trailing
  <2> QED BY <1>5, <2>1, <2>2, <2>3
<1>7. \A k \in 1..Len(c) : /\ k \in 1..Len(all)
                           /\ WellFormed(all[k]) /\ CopyOf(all[k], c[k])
  <2> TAKE k \in 1..Len(c)
  <2>1. k \in 1..Len(U) /\ U[k] = E[k]
    BY <1>1 DEF Joined
  <2>2. k \in 1..Len(all) /\ all[k] = E[k]
    BY <1>3, <2>1 DEF Joined
  <2> QED BY <2>2
<1>8. WellFormedLog(all)
  <2>1. \A k \in 1..Len(all) : k > Len(c) \/ k \in 1..Len(c)
    BY <1>1, <1>3, SMT DEF Joined
  <2> QED BY <1>3, <1>6, <1>7, <2>1 DEF WellFormedLog, Joined
<1>9. Len(c) <= Len(all)
  BY <1>1, <1>3, SMT DEF Joined
<1>10. \A l \in Lanes : leaves[l] # Missing =>
         \E k \in 1..Len(all) : LeafOf(all[k], leaves, l)
  <2> SUFFICES ASSUME NEW l \in Lanes, leaves[l] # Missing
               PROVE  \E k \in 1..Len(all) : LeafOf(all[k], leaves, l)
    OBVIOUS
  <2>1. PICK i \in 1..Len(L) : LeafOf(L[i], leaves, l)
    OBVIOUS
  <2>2. Len(E) + i \in 1..Len(U) /\ U[Len(E) + i] = L[i]
    BY <1>1 DEF Joined
  <2>3. Len(E) + i \in 1..Len(all) /\ all[Len(E) + i] = L[i]
    BY <1>3, <2>2 DEF Joined
  <2> QED BY <2>1, <2>3
<1>11. \A i \in 1..Len(F) : \E k \in 1..Len(all) : all[k] = F[i]
  BY <1>3 DEF Joined
<1>12. s.name # None => \E k \in 1..Len(all) : NameOf(all[k], s)
  <2> SUFFICES ASSUME s.name # None
               PROVE  \E k \in 1..Len(all) : NameOf(all[k], s)
    OBVIOUS
  <2>1. 1 \in 1..Len(N) /\ NameOf(N[1], s)
    OBVIOUS
  <2>2. PICK i \in 1..Len(F) : F[i] = N[1]
    BY <1>2, <2>1 DEF Joined
  <2> QED BY <1>11, <2>1, <2>2
<1>13. \A j \in 1..Len(c) : s.labels[c[j].id] # None =>
         \E k \in 1..Len(all) : LabelOf(all[k], s, c[j].id)
  <2> SUFFICES ASSUME NEW j \in 1..Len(c), s.labels[c[j].id] # None
               PROVE  \E k \in 1..Len(all) : LabelOf(all[k], s, c[j].id)
    OBVIOUS
  <2>1. PICK i \in 1..Len(B) : LabelOf(B[i], s, c[j].id)
    OBVIOUS
  <2>2. PICK h \in 1..Len(F) : F[h] = B[i]
    BY <1>2 DEF Joined
  <2>3. PICK k \in 1..Len(all) : all[k] = F[h]
    BY <1>11
  <2> QED BY <2>1, <2>2, <2>3
<1>14. ForkLog(all, s, c, leaves)
  BY <1>6, <1>7, <1>8, <1>9, <1>10, <1>12, <1>13 DEF ForkLog
<1> QED BY <1>14 DEF all, U, F

LEMMA ForkRenumbered ==
    ASSUME NEW all, NEW s, NEW c \in Seq(Entries), NEW leaves,
           ForkLog(all, s, c, leaves)
    PROVE  LET ms == [i \in DOMAIN all |-> [all[i] EXCEPT !.seq = i]]
           IN  ForkLog(ms, s, c, leaves) /\ Numbered(ms)
<1> DEFINE M(i) == [all[i] EXCEPT !.seq = i]
           ms == [i \in DOMAIN all |-> M(i)]
           N == Len(all)
<1>1. /\ all \in Seq(Mutation) /\ N \in Nat /\ DOMAIN all = 1..N
      /\ \A k \in 1..N : WellFormed(all[k])
      /\ Len(c) \in Nat /\ Len(c) <= N
  BY LenProperties DEF ForkLog, WellFormedLog
<1>2. ASSUME NEW i \in 1..N
      PROVE  /\ WellFormed(M(i)) /\ M(i) \in Mutation /\ M(i).seq = i
             /\ \A e : CopyOf(all[i], e) => CopyOf(M(i), e)
             /\ \A l : LeafOf(all[i], leaves, l) => LeafOf(M(i), leaves, l)
             /\ NameOf(all[i], s) => NameOf(M(i), s)
             /\ \A id : LabelOf(all[i], s, id) => LabelOf(M(i), s, id)
  <2>1. WellFormed(all[i]) /\ i \in Nat
    BY <1>1
  <2>2. /\ WellFormed(M(i)) /\ M(i).seq = i
        /\ \A e : CopyOf(all[i], e) => CopyOf(M(i), e)
        /\ \A x, l : LeafOf(all[i], x, l) => LeafOf(M(i), x, l)
        /\ \A x : NameOf(all[i], x) => NameOf(M(i), x)
        /\ \A x, id : LabelOf(all[i], x, id) => LabelOf(M(i), x, id)
    BY <2>1, Renumbered
  <2> HIDE DEF M
  <2>3. M(i) \in Mutation
    BY <2>2 DEF WellFormed
  <2> QED BY <2>2, <2>3
<1>3. ms = [i \in 1..N |-> M(i)]
  BY <1>1
<1> HIDE DEF ms, M, N
<1>4. ms \in [1..N -> Mutation] /\ \A i \in 1..N : ms[i] = M(i)
  BY <1>2, <1>3
<1>5. ms \in Seq(Mutation) /\ Len(ms) = N
  BY <1>1, <1>4, FunctionIsSequence
<1>6. WellFormedLog(ms) /\ Numbered(ms)
  BY <1>2, <1>4, <1>5 DEF WellFormedLog, Numbered
<1>7. \A k \in 1..Len(c) : k \in 1..N
  BY <1>1, SMT
<1>8. \A k \in 1..Len(c) : CopyOf(ms[k], c[k])
  BY <1>2, <1>4, <1>7 DEF ForkLog
<1>9. \A k \in 1..N : k > Len(c) => Trailing(ms[k], s, c, leaves)
  <2> SUFFICES ASSUME NEW k \in 1..N, k > Len(c)
               PROVE  Trailing(ms[k], s, c, leaves)
    OBVIOUS
  <2>1. Trailing(all[k], s, c, leaves)
    BY DEF ForkLog, N
  <2> QED BY <1>2, <1>4, <2>1 DEF Trailing
<1>10. \A l \in Lanes : leaves[l] # Missing =>
         \E k \in 1..N : LeafOf(ms[k], leaves, l)
  BY <1>2, <1>4 DEF ForkLog, N
<1>11. s.name # None => \E k \in 1..N : NameOf(ms[k], s)
  BY <1>2, <1>4 DEF ForkLog, N
<1>12. \A i \in 1..Len(c) : s.labels[c[i].id] # None =>
         \E k \in 1..N : LabelOf(ms[k], s, c[i].id)
  BY <1>2, <1>4 DEF ForkLog, N
<1>13. ForkLog(ms, s, c, leaves)
  BY <1>1, <1>5, <1>6, <1>8, <1>9, <1>10, <1>11, <1>12 DEF ForkLog
<1> QED BY <1>6, <1>13 DEF ms, M

LEMMA ForkWrites ==
    ASSUME NEW s, Sound(s), NEW options \in ForkOptions, Forkable(s, options)
    PROVE  LET ms == ForkMutations(s, options)
           IN  /\ ForkLog(ms, s, Copied(s, options), ForkLeaves(s, options))
               /\ Numbered(ms)
<1> DEFINE c == Copied(s, options)
           leaves == ForkLeaves(s, options)
           q == ForkLanes(s, options)
           d == Labelled(s, c)
           E == [i \in DOMAIN c |-> Entry(0, c[i].id, None, c[i].parent,
                                          c[i].type)]
           L == [i \in DOMAIN q |-> Lane(0, q[i].lane, q[i].leaf)]
           N == IF s.name = None THEN <<>>
                ELSE <<Fact(0, "name", None, s.name)>>
           B == [i \in DOMAIN d |-> Fact(0, "label", d[i].id,
                                         s.labels[d[i].id])]
           all == (E \o L) \o (N \o B)
           ms == [i \in DOMAIN all |-> [all[i] EXCEPT !.seq = i]]
<1>1. ForkMutations(s, options) = ms
  BY DEF ForkMutations
<1>2. Copyable(s, c) /\ leaves \in [Lanes -> Pointers \cup {Missing}]
  BY CopiedIs
<1>3. /\ q \in Seq(LaneLeaf)
      /\ \A i \in 1..Len(q) : leaves[q[i].lane] = q[i].leaf
      /\ \A i \in 1..Len(q) : q[i].leaf # Missing
      /\ \A l \in Lanes : leaves[l] # Missing =>
                            \E i \in 1..Len(q) : q[i].lane = l
  BY ForkLanesAre
<1>4. c \in Seq(Entries) /\ LabelledOf(d, s, c, Len(c))
  BY <1>2, LabelledIs DEF Copyable
<1> HIDE DEF c, leaves, q, d
<1>5. Segments(s, c, leaves, q, d, E, L, N, B)
  BY <1>2, <1>3, <1>4, ForkSegments
<1> HIDE DEF E, L, N, B
<1>6. \A i \in 1..Len(L) :
        \E l \in Lanes : LeafOf(L[i], leaves, l) /\ leaves[l] # Missing
  <2> TAKE i \in 1..Len(L)
  <2>1. /\ i \in 1..Len(q) /\ q[i].lane \in Lanes
        /\ LeafOf(L[i], leaves, q[i].lane)
    BY <1>5 DEF Segments
  <2>2. leaves[q[i].lane] # Missing
    BY <1>3, <2>1, Zenon
  <2> QED BY <2>1, <2>2
<1>7. \A l \in Lanes : leaves[l] # Missing =>
        \E i \in 1..Len(L) : LeafOf(L[i], leaves, l)
  BY <1>3, <1>5 DEF Segments
<1>8. \A i \in 1..Len(B) : \E j \in 1..Len(c) : LabelOf(B[i], s, c[j].id)
  <2> TAKE i \in 1..Len(B)
  <2>1. i \in 1..Len(d) /\ LabelOf(B[i], s, d[i].id)
    BY <1>5 DEF Segments
  <2>2. PICK j \in 1..Len(c) : c[j] = d[i]
    BY <1>4, <2>1 DEF LabelledOf
  <2> QED BY <2>1, <2>2
<1>9. \A j \in 1..Len(c) : s.labels[c[j].id] # None =>
        \E i \in 1..Len(B) : LabelOf(B[i], s, c[j].id)
  <2> SUFFICES ASSUME NEW j \in 1..Len(c), s.labels[c[j].id] # None
               PROVE  \E i \in 1..Len(B) : LabelOf(B[i], s, c[j].id)
    OBVIOUS
  <2>1. PICK i \in 1..Len(d) : d[i] = c[j]
    BY <1>4 DEF LabelledOf
  <2>2. i \in 1..Len(B) /\ LabelOf(B[i], s, d[i].id)
    BY <1>5 DEF Segments
  <2> QED BY <2>1, <2>2
<1>10. ForkLog(all, s, c, leaves)
  BY <1>4, <1>5, <1>6, <1>7, <1>8, <1>9, ForkConcatenated DEF Segments
<1> HIDE DEF all
<1>11. ForkLog(ms, s, c, leaves) /\ Numbered(ms)
  BY <1>4, <1>10, ForkRenumbered
<1> QED BY <1>1, <1>11, Zenon DEF c, leaves
-----------------------------------------------------------------------------
(* The replay of a fork: first its entries, then the rest.                 *)

Copying(c, n, t) ==
    /\ t \in SessionStates /\ t.sequence = n
    /\ Len(t.entries) = n /\ \A i \in 1..n : t.entries[i] = c[i]
    /\ t.usedIds = EntryIds(t) /\ t.lanes = Empty.lanes
    /\ t.open = Empty.open /\ t.name = None /\ t.labels = Empty.labels

LEMMA CopyStep ==
    ASSUME NEW s, NEW c, Copyable(s, c), NEW n \in 1..Len(c),
           NEW t, Copying(c, n - 1, t), NEW m, WellFormed(m),
           CopyOf(m, c[n]), m.seq = n
    PROVE  Valid(t, m) /\ Copying(c, n, Applied(t, m))
<1> DEFINE e == c[n]
           u == Applied(t, m)
           x == [id |-> m.id, parent |-> m.ref, type |-> m.value]
<1>1. /\ c \in Seq(Entries) /\ Len(c) \in Nat /\ e \in Entries
      /\ t \in SessionStates /\ t.sequence = n - 1 /\ n \in Nat
      /\ Len(t.entries) = n - 1
      /\ \A i \in 1..(n - 1) : t.entries[i] = c[i]
      /\ t.usedIds = EntryIds(t)
  BY LenProperties DEF Copyable, Copying
<1>2. /\ m.kind = "entry" /\ m.lane = None /\ m.id = e.id
      /\ m.ref = e.parent /\ m.value = e.type
  BY DEF CopyOf
<1>3. x = e
  BY <1>1, <1>2 DEF Entries
<1> HIDE DEF e
<1>4. /\ \A i \in 1..(n - 1) : i \in 1..Len(c) /\ i # n
      /\ (n - 1) + 1 = n
      /\ \A i \in 1..n : i \in 1..(n - 1) \/ i = n
  BY <1>1, SMT
<1>5. DOMAIN t.entries = 1..(n - 1)
  BY <1>1, StateShape, LenProperties
<1>6. m.id \notin EntryIds(t)
  <2>1. \A i \in 1..(n - 1) : c[i].id # c[n].id
    BY <1>4 DEF Copyable
  <2>2. \A i \in 1..(n - 1) : t.entries[i].id # m.id
    BY <1>1, <1>2, <2>1 DEF e
  <2> QED BY <1>5, <2>2 DEF EntryIds
<1>7. Known(t, m.ref)
  <2>1. c[n].parent # None =>
          \E j \in 1..(n - 1) : c[j].id = c[n].parent
    BY DEF Copyable
  <2>2. m.ref # None => \E j \in 1..(n - 1) : t.entries[j].id = m.ref
    BY <1>1, <1>2, <2>1 DEF e
  <2> QED BY <1>5, <2>2 DEF Known, EntryIds
<1>8. Valid(t, m)
  BY <1>1, <1>2, <1>4, <1>6, <1>7 DEF Valid, RecordKinds
<1>9. u \in SessionStates
  BY <1>1, AppliedShape
<1>10. /\ u.sequence = n /\ u.entries = Append(t.entries, x)
       /\ u.usedIds = t.usedIds \cup {m.id} /\ u.labels = t.labels
       /\ u.lanes = t.lanes /\ u.open = t.open /\ u.name = t.name
  BY <1>2 DEF Applied, SequenceAfter, LanesAfter, OpenAfter, RecordKinds
<1>11. x \in Entries /\ x.id = m.id
  <2>1. c[n] \in Entries
    BY <1>1 DEF e
  <2>2. x \in Entries
    BY <1>3, <2>1 DEF e
  <2> QED BY <2>2
<1> HIDE DEF u, x
<1>12. /\ Len(u.entries) = n /\ DOMAIN u.entries = 1..n
       /\ \A i \in 1..(n - 1) : u.entries[i] = t.entries[i]
       /\ u.entries[n] = x
  <2>1. Len(u.entries) = (n - 1) + 1
    BY <1>1, <1>10, <1>11, StateShape, AppendProperties DEF Entries
  <2> QED BY <1>1, <1>4, <1>10, <1>11, <2>1, IdsAppended
<1>13. \A i \in 1..n : u.entries[i] = c[i]
  BY <1>1, <1>3, <1>4, <1>12 DEF e
<1>14. u.usedIds = EntryIds(u)
  <2>1. n \in 1..n /\ \A i \in 1..(n - 1) : i \in 1..n
    BY <1>1, SMT
  <2> QED BY <1>1, <1>4, <1>5, <1>10, <1>11, <1>12, <2>1, SMTT(30)
       DEF EntryIds
<1>15. Copying(c, n, u)
  BY <1>9, <1>10, <1>12, <1>13, <1>14 DEF Copying
<1> QED BY <1>8, <1>15 DEF u

\* The lanes, name and labels that were written, after n mutations.
Finishing(ms, s, c, leaves, n, t) ==
    /\ t \in SessionStates /\ t.sequence = n
    /\ t.entries = c /\ t.open = Empty.open
    /\ \A l \in Lanes : t.lanes[l] \in {Empty.lanes[l], leaves[l]}
    /\ \A l \in Lanes : leaves[l] = Missing => t.lanes[l] = Empty.lanes[l]
    /\ \A k \in 1..n, l \in Lanes :
         LeafOf(ms[k], leaves, l) => t.lanes[l] = leaves[l]
    /\ t.name \in {None, s.name}
    /\ \A k \in 1..n : NameOf(ms[k], s) => t.name = s.name
    /\ \A id \in Ids : t.labels[id] \in {None, s.labels[id]}
    /\ \A k \in 1..n, id \in Ids :
         LabelOf(ms[k], s, id) => t.labels[id] = s.labels[id]

LEMMA CopyingFinishes ==
    ASSUME NEW ms, NEW s, NEW c, NEW leaves, ForkLog(ms, s, c, leaves),
           Copyable(s, c), NEW t, Copying(c, Len(c), t)
    PROVE  Finishing(ms, s, c, leaves, Len(c), t)
<1>1. t.entries = c
  <2>1. /\ c \in Seq(Entries) /\ t.entries \in Seq(Entries)
        /\ Len(t.entries) = Len(c)
        /\ \A i \in 1..Len(c) : t.entries[i] = c[i]
    BY StateShape DEF Copyable, Copying, Entries
  <2> QED BY <2>1, SeqEqual
<1>2. \A k \in 1..Len(c) : ms[k].kind = "entry"
  BY DEF ForkLog, CopyOf
<1>3. \A id \in Ids : Empty.labels[id] = None
  BY DEF Empty
<1> QED BY <1>1, <1>2, <1>3
        DEF Copying, Finishing, LeafOf, NameOf, LabelOf

LEMMA FinishStep ==
    ASSUME NEW ms, NEW s, s \in SessionStates, NEW c, NEW leaves,
           ForkLog(ms, s, c, leaves), Numbered(ms), Copyable(s, c),
           \A l \in Lanes : leaves[l] # Missing => Within(c, leaves[l]),
           NEW n \in 1..Len(ms), n > Len(c),
           NEW t, Finishing(ms, s, c, leaves, n - 1, t)
    PROVE  /\ Valid(t, ms[n])
           /\ Finishing(ms, s, c, leaves, n, Applied(t, ms[n]))
<1> DEFINE m == ms[n]
           u == Applied(t, m)
<1>1. WellFormed(m) /\ m.seq = n /\ Trailing(m, s, c, leaves)
  BY DEF ForkLog, WellFormedLog, Numbered
<1>2. /\ t \in SessionStates /\ t.sequence = n - 1 /\ t.entries = c
      /\ t.open = Empty.open /\ n \in Nat
      /\ \A l \in Lanes : t.lanes[l] \in {Empty.lanes[l], leaves[l]}
      /\ \A l \in Lanes : leaves[l] = Missing => t.lanes[l] = Empty.lanes[l]
      /\ \A k \in 1..(n - 1), l \in Lanes :
           LeafOf(ms[k], leaves, l) => t.lanes[l] = leaves[l]
      /\ t.name \in {None, s.name}
      /\ \A k \in 1..(n - 1) : NameOf(ms[k], s) => t.name = s.name
      /\ \A id \in Ids : t.labels[id] \in {None, s.labels[id]}
      /\ \A k \in 1..(n - 1), id \in Ids :
           LabelOf(ms[k], s, id) => t.labels[id] = s.labels[id]
  <2>1. Len(ms) \in Nat
    BY LenProperties DEF ForkLog, WellFormedLog
  <2> QED BY <2>1 DEF Finishing
<1>3. /\ (n - 1) + 1 = n /\ \A k \in 1..n : k \in 1..(n - 1) \/ k = n
  BY <1>2, SMT
<1>4. c \in Seq(Entries) /\ DOMAIN c = 1..Len(c)
      /\ EntryIds(t) = {c[i].id : i \in 1..Len(c)}
  <2>1. c \in Seq(Entries) /\ DOMAIN c = 1..Len(c)
    BY LenProperties DEF Copyable
  <2> QED BY <1>2, <2>1 DEF EntryIds
<1>5. u \in SessionStates /\ u.sequence = n
  <2>1. u.sequence = m.seq
    BY DEF Applied, SequenceAfter
  <2> QED BY <1>1, <1>2, <2>1, AppliedShape
<1>6. DOMAIN t.lanes = Lanes /\ DOMAIN t.labels = Ids
  BY <1>2, StateShape
<1>7. CASE \E l \in Lanes : LeafOf(m, leaves, l) /\ leaves[l] # Missing
  <2>1. PICK l \in Lanes : LeafOf(m, leaves, l) /\ leaves[l] # Missing
    BY <1>7
  <2>2. m.kind = "lane" /\ m.lane = l /\ m.ref = leaves[l]
    BY <2>1 DEF LeafOf
  <2>3. Known(t, m.ref)
    BY <1>4, <2>1, <2>2 DEF Known, Within
  <2>4. Valid(t, m)
    BY <1>1, <1>2, <1>3, <2>2, <2>3 DEF Valid, RecordKinds
  <2>5. /\ u.lanes = [t.lanes EXCEPT ![l] = leaves[l]]
        /\ u.entries = t.entries /\ u.open = t.open
        /\ u.name = t.name /\ u.labels = t.labels
    BY <2>2 DEF Applied, LanesAfter, OpenAfter
  <2> HIDE DEF u, m
  <2>6. /\ u.lanes[l] = leaves[l]
        /\ \A x \in Lanes : x # l => u.lanes[x] = t.lanes[x]
    BY <1>6, <2>5
  <2>7. ~NameOf(m, s) /\ \A id \in Ids : ~LabelOf(m, s, id)
    BY <2>2 DEF NameOf, LabelOf
  <2>8. \A x \in Lanes : u.lanes[x] \in {Empty.lanes[x], leaves[x]}
    BY <1>2, <2>6
  <2>9. \A x \in Lanes : leaves[x] = Missing => u.lanes[x] = Empty.lanes[x]
    BY <1>2, <2>1, <2>6
  <2>10. \A k \in 1..n, x \in Lanes :
           LeafOf(ms[k], leaves, x) => u.lanes[x] = leaves[x]
    <3> SUFFICES ASSUME NEW k \in 1..n, NEW x \in Lanes,
                        LeafOf(ms[k], leaves, x)
                 PROVE  u.lanes[x] = leaves[x]
      OBVIOUS
    <3>1. CASE x = l
      BY <2>6, <3>1
    <3>2. CASE x # l
      <4>1. m.lane # x
        BY <2>2, <3>2
      <4>2. k \in 1..(n - 1)
        BY <1>3, <4>1 DEF LeafOf, m
      <4> QED BY <1>2, <2>6, <3>2, <4>2
    <3> QED BY <3>1, <3>2
  <2>11. /\ \A k \in 1..n : NameOf(ms[k], s) => u.name = s.name
         /\ \A k \in 1..n, id \in Ids :
              LabelOf(ms[k], s, id) => u.labels[id] = s.labels[id]
    BY <1>2, <1>3, <2>5, <2>7 DEF m
  <2>12. Finishing(ms, s, c, leaves, n, u)
    BY <1>2, <1>5, <2>5, <2>8, <2>9, <2>10, <2>11 DEF Finishing
  <2> QED BY <2>4, <2>12 DEF u, m
<1>8. CASE NameOf(m, s)
  <2>1. m.kind = "name" /\ m.value = s.name
    BY <1>8 DEF NameOf
  <2>2. Valid(t, m)
    BY <1>1, <1>2, <1>3, <2>1 DEF Valid, RecordKinds
  <2>3. /\ u.lanes = t.lanes /\ u.entries = t.entries /\ u.open = t.open
        /\ u.name = s.name /\ u.labels = t.labels
    BY <2>1 DEF Applied, LanesAfter, OpenAfter
  <2> HIDE DEF u, m
  <2>4. /\ \A l \in Lanes : ~LeafOf(m, leaves, l)
        /\ \A id \in Ids : ~LabelOf(m, s, id)
    BY <2>1 DEF LeafOf, LabelOf
  <2>5. /\ \A k \in 1..n, l \in Lanes :
             LeafOf(ms[k], leaves, l) => u.lanes[l] = leaves[l]
        /\ \A k \in 1..n, id \in Ids :
             LabelOf(ms[k], s, id) => u.labels[id] = s.labels[id]
    BY <1>2, <1>3, <2>3, <2>4 DEF m
  <2>6. Finishing(ms, s, c, leaves, n, u)
    BY <1>2, <1>5, <2>3, <2>5 DEF Finishing
  <2> QED BY <2>2, <2>6 DEF u, m
<1>9. CASE \E i \in 1..Len(c) : LabelOf(m, s, c[i].id)
  <2>1. PICK i \in 1..Len(c) : LabelOf(m, s, c[i].id)
    BY <1>9
  <2> DEFINE id == c[i].id
  <2>2. m.kind = "label" /\ m.ref = id /\ m.value = s.labels[id]
    BY <2>1 DEF LabelOf
  <2>3. m.ref \in EntryIds(t) /\ id \in Ids
    <3>1. c[i] \in Entries
      BY <1>4
    <3> QED BY <1>4, <2>2, <3>1 DEF Entries
  <2>4. Valid(t, m)
    BY <1>1, <1>2, <1>3, <2>2, <2>3 DEF Valid, RecordKinds
  <2>5. /\ u.lanes = t.lanes /\ u.entries = t.entries /\ u.open = t.open
        /\ u.name = t.name
        /\ u.labels = [t.labels EXCEPT ![id] = s.labels[id]]
    BY <2>2 DEF Applied, LanesAfter, OpenAfter
  <2> HIDE DEF u, m, id
  <2>6. /\ u.labels[id] = s.labels[id]
        /\ \A x \in Ids : x # id => u.labels[x] = t.labels[x]
    BY <1>6, <2>3, <2>5
  <2>7. ~NameOf(m, s) /\ \A l \in Lanes : ~LeafOf(m, leaves, l)
    BY <2>2 DEF NameOf, LeafOf
  <2>8. \A x \in Ids : u.labels[x] \in {None, s.labels[x]}
    BY <1>2, <2>6
  <2>9. \A k \in 1..n, x \in Ids :
          LabelOf(ms[k], s, x) => u.labels[x] = s.labels[x]
    <3> SUFFICES ASSUME NEW k \in 1..n, NEW x \in Ids, LabelOf(ms[k], s, x)
                 PROVE  u.labels[x] = s.labels[x]
      OBVIOUS
    <3>1. CASE x = id
      BY <2>6, <3>1
    <3>2. CASE x # id
      <4>1. m.ref # x
        BY <2>2, <3>2
      <4>2. k \in 1..(n - 1)
        BY <1>3, <4>1 DEF LabelOf, m
      <4> QED BY <1>2, <2>6, <3>2, <4>2
    <3> QED BY <3>1, <3>2
  <2>10. /\ \A k \in 1..n : NameOf(ms[k], s) => u.name = s.name
         /\ \A k \in 1..n, l \in Lanes :
              LeafOf(ms[k], leaves, l) => u.lanes[l] = leaves[l]
    BY <1>2, <1>3, <2>5, <2>7 DEF m
  <2>11. Finishing(ms, s, c, leaves, n, u)
    BY <1>2, <1>5, <2>5, <2>8, <2>9, <2>10 DEF Finishing
  <2> QED BY <2>4, <2>11 DEF u, m
<1> QED BY <1>1, <1>7, <1>8, <1>9 DEF Trailing

LEMMA ForkReplays ==
    ASSUME NEW ms, NEW s, s \in SessionStates, NEW c, NEW leaves,
           ForkLog(ms, s, c, leaves), Numbered(ms), Copyable(s, c),
           \A l \in Lanes : leaves[l] # Missing => Within(c, leaves[l])
    PROVE  /\ Replays(ms)
           /\ Finishing(ms, s, c, leaves, Len(ms), Replay(ms))
<1> DEFINE f == Replayed(ms)
           a == Len(c)
           N == Len(ms)
           Step(n) == n > 0 => Valid(f[n - 1], ms[n])
           S == {n \in Nat : Copying(c, n, f[n]) /\ Step(n)}
           T == {n \in Nat : /\ n >= a => Finishing(ms, s, c, leaves, n, f[n])
                             /\ Step(n)}
<1>1. /\ ms \in Seq(Mutation) /\ N \in Nat /\ a \in Nat /\ a <= N
      /\ f[0] = Empty /\ \A k \in 1..N : f[k] = Applied(f[k - 1], ms[k])
      /\ Replay(ms) = f[N]
      /\ \A k \in 1..N : WellFormed(ms[k]) /\ ms[k].seq = k
      /\ \A k \in 1..a : CopyOf(ms[k], c[k])
  BY ReplayedValue, LenProperties
     DEF ForkLog, WellFormedLog, Numbered, Copyable
<1>2. \A k \in 1..a : k \in 1..N /\ k > 0 /\ k \in Nat
  BY <1>1, SMT
<1> HIDE DEF f
<1>3. 0 \in S
  <2>1. /\ Len(Empty.entries) = 0 /\ Empty.sequence = 0
        /\ Empty.usedIds = {} /\ Empty.name = None
        /\ DOMAIN Empty.entries = {} /\ \A i \in 1..0 : FALSE
    BY DEF Empty
  <2>2. Copying(c, 0, Empty)
    BY <2>1, EmptyShape DEF Copying, EntryIds
  <2> QED BY <1>1, <2>2
<1>4. ASSUME NEW n \in 1..a, n - 1 \in S PROVE n \in S
  <2>1. Copying(c, n - 1, f[n - 1])
    BY <1>4
  <2>2. Valid(f[n - 1], ms[n]) /\ Copying(c, n, Applied(f[n - 1], ms[n]))
    BY <1>1, <1>2, <2>1, CopyStep
  <2>3. f[n] = Applied(f[n - 1], ms[n])
    BY <1>1, <1>2
  <2> QED BY <1>2, <2>2, <2>3
<1>5. \A n \in 0..a : n \in S
  <2> HIDE DEF S, a
  <2> QED BY <1>1, <1>3, <1>4, BoundedInduction
<1>6. Finishing(ms, s, c, leaves, a, f[a])
  <2>1. a \in 0..a
    BY <1>1, SMT
  <2>2. Copying(c, a, f[a])
    BY <1>5, <2>1
  <2> QED BY <2>2, CopyingFinishes
<1>7. 0 \in T
  <2>1. 0 >= a => a = 0
    BY <1>1, SMT
  <2> QED BY <1>6, <2>1
<1>8. ASSUME NEW n \in 1..N, n - 1 \in T PROVE n \in T
  <2>0. n \in Nat /\ n > 0
    BY <1>1, SMT
  <2>1. CASE n \in 1..a
    <3>1. n \in 0..a
      BY <2>1, SMT
    <3>2. Step(n)
      BY <1>5, <3>1
    <3>3. n >= a => n = a
      BY <1>1, <2>1, SMT
    <3> HIDE DEF Step
    <3> QED BY <1>6, <2>0, <3>2, <3>3
  <2>2. CASE n > a
    <3>1. n - 1 >= a
      BY <1>1, <2>0, <2>2, SMT
    <3>2. Finishing(ms, s, c, leaves, n - 1, f[n - 1])
      BY <1>8, <3>1
    <3>3. /\ Valid(f[n - 1], ms[n])
          /\ Finishing(ms, s, c, leaves, n, Applied(f[n - 1], ms[n]))
      BY <2>2, <3>2, FinishStep
    <3>4. f[n] = Applied(f[n - 1], ms[n])
      BY <1>1
    <3> QED BY <2>0, <3>3, <3>4
  <2> QED BY <1>1, <2>0, <2>1, <2>2
<1>9. \A n \in 0..N : n \in T
  <2> HIDE DEF T, N
  <2> QED BY <1>1, <1>7, <1>8, BoundedInduction
<1>10. Replays(ms)
  <2>1. \A n \in 1..N : Step(n) /\ n > 0
    <3>1. \A n \in 1..N : n \in 0..N /\ n > 0
      BY <1>1, SMT
    <3> QED BY <1>9, <3>1
  <2> QED BY <2>1 DEF Replays, f
<1>11. Finishing(ms, s, c, leaves, N, f[N])
  <2>1. N \in 0..N /\ N >= a
    BY <1>1, SMT
  <2> QED BY <1>9, <2>1
<1> QED BY <1>1, <1>10, <1>11

\* A fork that was written has everything it copies.
LEMMA FinishedFork ==
    ASSUME NEW ms, NEW s, s \in SessionStates, NEW c, NEW leaves,
           ForkLog(ms, s, c, leaves), Copyable(s, c),
           leaves \in [Lanes -> Pointers \cup {Missing}],
           leaves[Main] # Missing,
           NEW t, Finishing(ms, s, c, leaves, Len(ms), t)
    PROVE  /\ t.entries = c /\ t.open = Empty.open
           /\ t.lanes = leaves /\ t.name = s.name
           /\ \A i \in 1..Len(c) : t.labels[c[i].id] = s.labels[c[i].id]
<1>1. t \in SessionStates /\ t.entries = c /\ t.open = Empty.open
  BY DEF Finishing
<1>2. t.lanes = leaves
  <2>1. ASSUME NEW l \in Lanes PROVE t.lanes[l] = leaves[l]
    <3>1. CASE leaves[l] = Missing
      <4>1. l # Main /\ t.lanes[l] = Empty.lanes[l]
        BY <3>1 DEF Finishing
      <4> QED BY <3>1, <4>1 DEF Empty
    <3>2. CASE leaves[l] # Missing
      <4>1. PICK k \in 1..Len(ms) : LeafOf(ms[k], leaves, l)
        BY <3>2 DEF ForkLog
      <4> QED BY <4>1 DEF Finishing
    <3> QED BY <3>1, <3>2
  <2>2. t.lanes \in [Lanes -> Pointers \cup {Missing}]
    BY <1>1, StateShape
  <2> QED BY <2>1, <2>2
<1>3. t.name = s.name
  <2>1. CASE s.name = None
    BY <2>1 DEF Finishing
  <2>2. CASE s.name # None
    <3>1. PICK k \in 1..Len(ms) : NameOf(ms[k], s)
      BY <2>2 DEF ForkLog
    <3> QED BY <3>1 DEF Finishing
  <2> QED BY <2>1, <2>2
<1>4. ASSUME NEW i \in 1..Len(c)
      PROVE  t.labels[c[i].id] = s.labels[c[i].id]
  <2>1. c[i].id \in Ids
    <3>1. c[i] \in Entries
      BY DEF Copyable
    <3> QED BY <3>1 DEF Entries
  <2>2. CASE s.labels[c[i].id] = None
    BY <2>1, <2>2 DEF Finishing
  <2>3. CASE s.labels[c[i].id] # None
    <3>1. PICK k \in 1..Len(ms) : LabelOf(ms[k], s, c[i].id)
      BY <2>3 DEF ForkLog
    <3> QED BY <2>1, <3>1 DEF Finishing
  <2> QED BY <2>2, <2>3
<1> QED BY <1>1, <1>2, <1>3, <1>4

-----------------------------------------------------------------------------
(* What a log says.                                                        *)

\* A mutation that moves a lane, and where to.
Moves(m, l) == m.kind \in {"lane", "entry"} /\ m.lane = l
Moved(m) == IF m.kind = "lane" THEN m.ref ELSE m.id
Labels(m, id) == m.kind = "label" /\ m.ref = id
Finishes(m, l, id) ==
    m.kind = "operation_finished" /\ m.lane = l /\ m.ref = id
Starts(m, l, id) ==
    m.kind = "operation_started" /\ m.id = id /\ m.lane = l

\* The maximum in the definition of LastOf does not lend itself to
\* induction: a projection comes from one of the first n mutations after
\* which no other is about the same thing, or there is none at all.
LanesRead(ms, n, s) ==
    \A l \in Lanes :
      \/ /\ s.lanes[l] = Empty.lanes[l]
         /\ \A i \in 1..n : ~Moves(ms[i], l)
      \/ \E i \in 1..n :
           /\ Moves(ms[i], l) /\ s.lanes[l] = Moved(ms[i])
           /\ \A j \in 1..n : Moves(ms[j], l) => j <= i
LabelsRead(ms, n, s) ==
    \A id \in Ids :
      \/ s.labels[id] = None /\ \A i \in 1..n : ~Labels(ms[i], id)
      \/ \E i \in 1..n :
           /\ Labels(ms[i], id) /\ s.labels[id] = ms[i].value
           /\ \A j \in 1..n : Labels(ms[j], id) => j <= i
OpenRead(ms, n, s) ==
    \A l \in Lanes :
      s.open[l] = {id \in Ids :
                     \E i \in 1..n :
                       /\ Starts(ms[i], l, id)
                       /\ \A j \in i..n : ~Finishes(ms[j], l, id)}

LEMMA LanesReadStep ==
    ASSUME NEW ms, NEW n \in Nat, NEW m, m = ms[n + 1], WellFormed(m),
           NEW s \in SessionStates, LanesRead(ms, n, s),
           NEW t, t = Applied(s, m)
    PROVE  LanesRead(ms, n + 1, t)
<1>1. n \in Nat /\ m = ms[n + 1]
  OBVIOUS
<1>2. /\ t.lanes = LanesAfter(s, m) /\ DOMAIN s.lanes = Lanes
      /\ WellFormed(m)
  BY StateShape DEF Applied
<1> SUFFICES ASSUME NEW l \in Lanes
             PROVE  \/ /\ t.lanes[l] = Empty.lanes[l]
                       /\ \A i \in 1..n + 1 : ~Moves(ms[i], l)
                    \/ \E i \in 1..n + 1 :
                         /\ Moves(ms[i], l)
                         /\ t.lanes[l] = Moved(ms[i])
                         /\ \A j \in 1..n + 1 : Moves(ms[j], l) => j <= i
  BY <1>1 DEF LanesRead
<1>3. CASE Moves(m, l)
  <2>1. l # None
    BY NoneAssumption
  <2>2. t.lanes[l] = Moved(m)
    BY <1>2, <1>3, <2>1 DEF Moves, Moved, LanesAfter
  <2>3. n + 1 \in 1..n + 1 /\ \A j \in 1..n + 1 : j <= n + 1
    BY <1>1
  <2> QED BY <1>1, <1>3, <2>2, <2>3
<1>4. CASE ~Moves(m, l)
  <2>1. t.lanes[l] = s.lanes[l]
    <3>1. CASE m.kind = "lane"
      BY <1>2, <1>4, <3>1 DEF Moves, LanesAfter
    <3>2. CASE m.kind = "entry" /\ m.lane # None
      BY <1>2, <1>4, <3>2 DEF Moves, LanesAfter
    <3>3. CASE m.kind # "lane" /\ ~(m.kind = "entry" /\ m.lane # None)
      BY <1>2, <3>3 DEF LanesAfter
    <3> QED BY <3>1, <3>2, <3>3
  <2>2. \A i \in 1..n + 1 : i \in 1..n \/ i = n + 1
    BY <1>1
  <2>3. \A i \in 1..n : i \in 1..n + 1
    BY <1>1
  <2>4. CASE /\ s.lanes[l] = Empty.lanes[l]
             /\ \A i \in 1..n : ~Moves(ms[i], l)
    BY <1>1, <1>4, <2>1, <2>2, <2>4
  <2>5. ASSUME NEW i \in 1..n, Moves(ms[i], l),
               s.lanes[l] = Moved(ms[i]),
               \A j \in 1..n : Moves(ms[j], l) => j <= i
        PROVE  \E k \in 1..n + 1 :
                 /\ Moves(ms[k], l) /\ t.lanes[l] = Moved(ms[k])
                 /\ \A j \in 1..n + 1 : Moves(ms[j], l) => j <= k
    <3>1. i \in 1..n + 1
      BY <1>1, <2>3
    <3>2. \A j \in 1..n + 1 : Moves(ms[j], l) => j <= i
      BY <1>1, <1>4, <2>2, <2>5
    <3> QED BY <2>1, <2>5, <3>1, <3>2
  <2> QED BY <2>4, <2>5 DEF LanesRead
<1> QED BY <1>3, <1>4

LEMMA LabelsReadStep ==
    ASSUME NEW ms, NEW n \in Nat, NEW m, m = ms[n + 1], WellFormed(m),
           NEW s \in SessionStates, LabelsRead(ms, n, s),
           NEW t, t = Applied(s, m)
    PROVE  LabelsRead(ms, n + 1, t)
<1>1. n \in Nat /\ m = ms[n + 1]
  OBVIOUS
<1>2. /\ m.kind = "label" =>
           t.labels = [s.labels EXCEPT ![m.ref] = m.value]
      /\ m.kind # "label" => t.labels = s.labels
      /\ DOMAIN s.labels = Ids
  BY StateShape DEF Applied
<1> SUFFICES ASSUME NEW id \in Ids
             PROVE  \/ /\ t.labels[id] = None
                       /\ \A i \in 1..n + 1 : ~Labels(ms[i], id)
                    \/ \E i \in 1..n + 1 :
                         /\ Labels(ms[i], id)
                         /\ t.labels[id] = ms[i].value
                         /\ \A j \in 1..n + 1 : Labels(ms[j], id) => j <= i
  BY <1>1 DEF LabelsRead
<1>3. CASE Labels(m, id)
  <2>1. t.labels[id] = m.value
    BY <1>2, <1>3 DEF Labels
  <2>2. n + 1 \in 1..n + 1 /\ \A j \in 1..n + 1 : j <= n + 1
    BY <1>1
  <2> QED BY <1>1, <1>3, <2>1, <2>2
<1>4. CASE ~Labels(m, id)
  <2>1. t.labels[id] = s.labels[id]
    BY <1>2, <1>4 DEF Labels
  <2>2. \A i \in 1..n + 1 : i \in 1..n \/ i = n + 1
    BY <1>1
  <2>3. \A i \in 1..n : i \in 1..n + 1
    BY <1>1
  <2>4. CASE /\ s.labels[id] = None
             /\ \A i \in 1..n : ~Labels(ms[i], id)
    BY <1>1, <1>4, <2>1, <2>2, <2>4
  <2>5. ASSUME NEW i \in 1..n, Labels(ms[i], id),
               s.labels[id] = ms[i].value,
               \A j \in 1..n : Labels(ms[j], id) => j <= i
        PROVE  \E k \in 1..n + 1 :
                 /\ Labels(ms[k], id) /\ t.labels[id] = ms[k].value
                 /\ \A j \in 1..n + 1 : Labels(ms[j], id) => j <= k
    <3>1. i \in 1..n + 1
      BY <1>1, <2>3
    <3>2. \A j \in 1..n + 1 : Labels(ms[j], id) => j <= i
      BY <1>1, <1>4, <2>2, <2>5
    <3> QED BY <2>1, <2>5, <3>1, <3>2
  <2> QED BY <2>4, <2>5 DEF LabelsRead
<1> QED BY <1>3, <1>4

LEMMA OpenReadStep ==
    ASSUME NEW ms, NEW n \in Nat, NEW m, m = ms[n + 1], WellFormed(m),
           NEW s \in SessionStates, OpenRead(ms, n, s),
           NEW t, t = Applied(s, m)
    PROVE  OpenRead(ms, n + 1, t)
<1>1. n \in Nat /\ m = ms[n + 1]
  OBVIOUS
<1>2. /\ t.open = OpenAfter(s, m)
      /\ s.open \in [Lanes -> SUBSET Ids] /\ WellFormed(m)
  BY StateShape DEF Applied
<1> SUFFICES ASSUME NEW l \in Lanes
             PROVE  t.open[l] =
                      {id \in Ids :
                         \E i \in 1..n + 1 :
                           /\ Starts(ms[i], l, id)
                           /\ \A j \in i..n + 1 : ~Finishes(ms[j], l, id)}
  BY DEF OpenRead
<1> DEFINE Open(id) ==
             \E i \in 1..n : /\ Starts(ms[i], l, id)
                             /\ \A j \in i..n : ~Finishes(ms[j], l, id)
           Opened(id) ==
             \E i \in 1..n + 1 :
               /\ Starts(ms[i], l, id)
               /\ \A j \in i..n + 1 : ~Finishes(ms[j], l, id)
<1>3. \A id \in Ids : id \in s.open[l] <=> Open(id)
  BY DEF OpenRead
<1>4. \A id \in Ids : Opened(id) <=>
                        \/ Starts(m, l, id)
                        \/ Open(id) /\ ~Finishes(m, l, id)
  <2> TAKE id \in Ids
  <2>1. ASSUME Starts(m, l, id) PROVE Opened(id)
    <3>1. ~Finishes(m, l, id)
      BY <2>1 DEF Starts, Finishes
    <3>2. n + 1 \in 1..n + 1 /\ \A j \in (n + 1)..(n + 1) : j = n + 1
      BY <1>1
    <3> QED BY <1>1, <2>1, <3>1, <3>2
  <2>2. ASSUME Open(id), ~Finishes(m, l, id) PROVE Opened(id)
    <3>1. PICK i \in 1..n : /\ Starts(ms[i], l, id)
                            /\ \A j \in i..n : ~Finishes(ms[j], l, id)
      BY <2>2
    <3>2. i \in 1..n + 1
      BY <1>1
    <3>3. \A j \in i..n + 1 : j = n + 1 \/ (j \in i..n /\ j \in 1..n)
      BY <1>1
    <3>4. \A j \in i..n + 1 : ~Finishes(ms[j], l, id)
      BY <1>1, <2>2, <3>1, <3>3
    <3>5. Starts(ms[i], l, id)
      BY <1>1, <3>1
    <3> QED BY <3>2, <3>4, <3>5
  <2>3. ASSUME Opened(id), ~Starts(m, l, id)
        PROVE  Open(id) /\ ~Finishes(m, l, id)
    <3>1. PICK i \in 1..n + 1 :
            /\ Starts(ms[i], l, id)
            /\ \A j \in i..n + 1 : ~Finishes(ms[j], l, id)
      BY <2>3
    <3>2. i # n + 1
      BY <1>1, <2>3, <3>1
    <3>3. /\ i \in 1..n /\ n + 1 \in i..n + 1
          /\ \A j \in i..n : j \in i..n + 1 /\ j \in 1..n
      BY <1>1, <3>2
    <3> QED BY <1>1, <3>1, <3>3
  <2> QED BY <2>1, <2>2, <2>3
<1> HIDE DEF Open, Opened
<1>5. \A id \in Ids : id \in t.open[l] <=>
                        \/ Starts(m, l, id)
                        \/ id \in s.open[l] /\ ~Finishes(m, l, id)
  <2>1. CASE m.kind = "operation_started"
    <3>1. m.id \in Ids /\ m.lane \in Lanes
      BY <1>2, <2>1 DEF WellFormed, RecordKinds
    <3>2. t.open = [s.open EXCEPT ![m.lane] = @ \cup {m.id}]
      BY <1>2, <2>1 DEF OpenAfter
    <3> QED BY <1>2, <2>1, <3>1, <3>2 DEF Starts, Finishes
  <2>2. CASE m.kind = "operation_finished"
    <3>1. m.lane \in Lanes
      BY <1>2, <2>2 DEF WellFormed, RecordKinds
    <3>2. t.open = [s.open EXCEPT ![m.lane] = @ \ {m.ref}]
      BY <1>2, <2>2 DEF OpenAfter
    <3> QED BY <1>2, <2>2, <3>1, <3>2 DEF Starts, Finishes
  <2>3. CASE m.kind \notin RecordKinds
    BY <1>2, <2>3 DEF OpenAfter, RecordKinds, Starts, Finishes
  <2> QED BY <2>1, <2>2, <2>3 DEF RecordKinds
<1>6. t.open[l] \subseteq Ids
  <2>1. t \in SessionStates
    BY AppliedShape
  <2> QED BY <2>1, StateShape
<1>7. \A id \in Ids : id \in t.open[l] <=> Opened(id)
  BY <1>3, <1>4, <1>5
<1>8. t.open[l] = {id \in Ids : Opened(id)}
  BY <1>6, <1>7
<1> QED BY <1>8 DEF Opened

\* The state of a session says what its log says.
LEMMA ReplayReadsLog ==
    ASSUME NEW ms, WellFormedLog(ms), Replays(ms)
    PROVE  LET n == Len(ms)
               s == Replay(ms)
           IN  /\ LanesRead(ms, n, s) /\ LabelsRead(ms, n, s)
               /\ OpenRead(ms, n, s)
<1> DEFINE f == Replayed(ms)
           N == Len(ms)
           S == {n \in Nat : /\ LanesRead(ms, n, f[n])
                             /\ LabelsRead(ms, n, f[n])
                             /\ OpenRead(ms, n, f[n])}
<1>1. /\ N \in Nat /\ f[0] = Empty /\ Replay(ms) = f[N]
      /\ \A k \in 1..N : f[k] = Applied(f[k - 1], ms[k]) /\ WellFormed(ms[k])
  BY ReplayedValue DEF WellFormedLog
<1>2. \A k \in 0..N : f[k] \in SessionStates
  BY ReplayIsSound DEF Sound
<1> HIDE DEF f, N
<1>3. 0 \in S
  <2>1. /\ \A l \in Lanes : Empty.open[l] = {}
        /\ \A id \in Ids : Empty.labels[id] = None
        /\ \A i \in 1..0 : FALSE
    BY DEF Empty
  <2>2. LanesRead(ms, 0, Empty) /\ LabelsRead(ms, 0, Empty)
    BY <2>1 DEF LanesRead, LabelsRead
  <2>3. OpenRead(ms, 0, Empty)
    BY <2>1 DEF OpenRead
  <2> QED BY <1>1, <2>2, <2>3
<1>4. ASSUME NEW n \in 1..N, n - 1 \in S PROVE n \in S
  <2> DEFINE k == n - 1
  <2>1. k \in Nat /\ k + 1 = n /\ k \in 0..N /\ n \in Nat
    BY <1>1, SMT
  <2>2. LanesRead(ms, k, f[k]) /\ LabelsRead(ms, k, f[k])
        /\ OpenRead(ms, k, f[k])
    BY <1>4
  <2>3. f[n] = Applied(f[k], ms[n]) /\ WellFormed(ms[n])
    BY <1>1
  <2>4. f[k] \in SessionStates
    BY <1>2, <2>1
  <2> HIDE DEF k
  <2>5. ms[n] = ms[k + 1]
    BY <2>1
  <2>6. /\ LanesRead(ms, k + 1, f[n]) /\ LabelsRead(ms, k + 1, f[n])
        /\ OpenRead(ms, k + 1, f[n])
    BY <2>1, <2>2, <2>3, <2>4, <2>5, LanesReadStep, LabelsReadStep,
       OpenReadStep
  <2> QED BY <2>1, <2>6
<1>5. \A n \in 0..N : n \in S
  <2> HIDE DEF S
  <2> QED BY <1>1, <1>3, <1>4, BoundedInduction
<1>6. N \in 0..N
  BY <1>1, SMT
<1> QED BY <1>1, <1>5, <1>6 DEF N

-----------------------------------------------------------------------------
(* What a fork is.                                                         *)

\* t is the fork of s that the options ask for.
ForkOf(s, options, t) ==
    LET c == Copied(s, options)
    IN  /\ t \in SessionStates /\ t.entries = c /\ t.open = Empty.open
        /\ t.lanes = ForkLeaves(s, options) /\ t.name = s.name
        /\ \A i \in 1..Len(c) : t.labels[c[i].id] = s.labels[c[i].id]

LEMMA ForkIs ==
    ASSUME NEW s, Sound(s), NEW options \in ForkOptions, Forkable(s, options)
    PROVE  LET ms == ForkMutations(s, options)
           IN  /\ WellFormedLog(ms) /\ Replays(ms)
               /\ ForkOf(s, options, Replay(ms))
<1> DEFINE ms == ForkMutations(s, options)
           c == Copied(s, options)
           leaves == ForkLeaves(s, options)
<1>1. s \in SessionStates
  BY DEF Sound
<1>2. ForkLog(ms, s, c, leaves) /\ Numbered(ms)
  BY ForkWrites
<1>3. /\ Copyable(s, c) /\ leaves \in [Lanes -> Pointers \cup {Missing}]
      /\ leaves[Main] # Missing
      /\ \A l \in Lanes : leaves[l] # Missing => Within(c, leaves[l])
  BY CopiedIs
<1> HIDE DEF ms, c, leaves
<1>4. Replays(ms) /\ Finishing(ms, s, c, leaves, Len(ms), Replay(ms))
  BY <1>1, <1>2, <1>3, ForkReplays
<1>5. LET t == Replay(ms)
      IN  /\ t.entries = c /\ t.open = Empty.open
          /\ t.lanes = leaves /\ t.name = s.name
          /\ \A i \in 1..Len(c) : t.labels[c[i].id] = s.labels[c[i].id]
  BY <1>1, <1>2, <1>3, <1>4, FinishedFork
<1>6. WellFormedLog(ms) /\ Replay(ms) \in SessionStates
  BY <1>2, <1>4 DEF ForkLog, Finishing
<1> QED BY <1>4, <1>5, <1>6 DEF ForkOf, ms, c, leaves

LEMMA ForkIsFaithful ==
    ASSUME NEW s, Sound(s), NEW options \in ForkOptions, Forkable(s, options)
    PROVE  LET mutations == ForkMutations(s, options)
               fork == Replay(mutations)
               ids == EntryIds(fork)
           IN  /\ Replays(mutations)
               /\ ids = IF options.scope = "tree" THEN EntryIds(s)
                        ELSE {id \in EntryIds(s) :
                                LET branch == Branch(s,
                                                     ForkTarget(s, options))
                                IN  \E i \in DOMAIN branch :
                                      branch[i].id = id}
               /\ \A id \in ids : /\ EntryOf(fork, id) = EntryOf(s, id)
                                  /\ fork.labels[id] = s.labels[id]
               /\ fork.name = s.name
               /\ options.scope = "tree" => fork.lanes = s.lanes
               /\ options.scope = "branch" =>
                    fork.lanes = [Empty.lanes EXCEPT ![Main] =
                                    ForkTarget(s, options)]
               /\ \A l \in Lanes : fork.open[l] = {}
<1> DEFINE mutations == ForkMutations(s, options)
           fork == Replay(mutations)
           c == Copied(s, options)
           branch == Branch(s, ForkTarget(s, options))
<1>1. Replays(mutations) /\ ForkOf(s, options, fork)
  BY ForkIs
<1>2. Copyable(s, c)
  BY CopiedIs
<1> HIDE DEF mutations, fork
<1>3. /\ fork.entries = c /\ fork.open = Empty.open
      /\ fork.lanes = ForkLeaves(s, options) /\ fork.name = s.name
      /\ \A i \in 1..Len(c) : fork.labels[c[i].id] = s.labels[c[i].id]
  BY <1>1 DEF ForkOf
<1>4. /\ options.scope = "tree" => c = s.entries
      /\ options.scope # "tree" => c = branch
  BY DEF Copied
<1> HIDE DEF c, branch
<1>5. DOMAIN c = 1..Len(c)
  BY <1>2, LenProperties DEF Copyable
<1>6. EntryIds(fork) = {c[i].id : i \in 1..Len(c)}
  BY <1>3, <1>5 DEF EntryIds
<1>7. options.scope = "tree" => EntryIds(fork) = EntryIds(s)
  BY <1>3, <1>4 DEF EntryIds
<1>8. options.scope # "tree" =>
        EntryIds(fork) = {id \in EntryIds(s) :
                            \E i \in DOMAIN branch : branch[i].id = id}
  <2>1. \A i \in 1..Len(c) : c[i].id \in EntryIds(s)
    BY <1>2 DEF Copyable
  <2>2. EntryIds(fork) = {id \in EntryIds(s) :
                            \E i \in DOMAIN c : c[i].id = id}
    BY <1>5, <1>6, <2>1
  <2> QED BY <1>4, <2>2
<1>9. ASSUME NEW id \in EntryIds(fork)
      PROVE  EntryOf(fork, id) = EntryOf(s, id)
             /\ fork.labels[id] = s.labels[id]
  <2>1. PICK i \in 1..Len(c) : c[i].id = id
    BY <1>6
  <2>2. \A j \in 1..Len(c) : c[j].id = id => j = i
    BY <1>2, <2>1 DEF Copyable
  <2> DEFINE k == CHOOSE j \in DOMAIN c : c[j].id = id
  <2>3. k \in 1..Len(c) /\ c[k].id = id
    BY <1>5, <2>1
  <2>4. EntryOf(fork, id) = c[k]
    BY <1>3 DEF EntryOf
  <2> HIDE DEF k
  <2>5. EntryOf(fork, id) = c[i]
    BY <2>2, <2>3, <2>4
  <2>6. c[i] = EntryOf(s, id)
    BY <1>2, <2>1 DEF Copyable
  <2> QED BY <1>3, <2>1, <2>5, <2>6
<1>10. /\ options.scope = "tree" => fork.lanes = s.lanes
       /\ options.scope = "branch" =>
            fork.lanes = [Empty.lanes EXCEPT ![Main] = ForkTarget(s, options)]
  BY <1>3 DEF ForkLeaves
<1>11. \A l \in Lanes : fork.open[l] = {}
  BY <1>3 DEF Empty
<1> QED BY <1>1, <1>3, <1>7, <1>8, <1>9, <1>10, <1>11
        DEF mutations, fork, branch
-----------------------------------------------------------------------------
(* Steps: one well-formed, valid mutation is applied and logged.           *)

Logged(m) ==
    /\ WellFormed(m) /\ Valid(state, m)
    /\ m.kind = "operation_started" => state.open[m.lane] = {}
    /\ state' = Applied(state, m)
    /\ log' = Append(log, m)

LEMMA StepLogs ==
    ASSUME state \in SessionStates, Next
    PROVE  \E m : Logged(m)
<1>1. PICK r \in Requests : Write(r)
  BY DEF Next, CreateLane, MoveLane, AppendEntry, AppendRecord, SetName,
         SetLabel
<1>2. /\ Accepts(state, r) /\ Valid(state, MutationOf(state, r))
      /\ state' = Applied(state, MutationOf(state, r))
      /\ log' = Append(log, MutationOf(state, r))
  BY <1>1 DEF Write
<1>3. Logged(MutationOf(state, r))
  BY <1>2, MutationShape DEF Logged
<1> QED BY <1>3

(* At most one open operation.                                             *)

\* An induction does not see what an operation's removal leaves of a set of
\* which only the cardinality is known.
AtMostOne ==
    \A l \in Lanes :
      state.open[l] = {} \/ \E id \in Ids : state.open[l] = {id}

LEMMA AtMostOnePreserved ==
    ASSUME state \in SessionStates, AtMostOne, NEW m, Logged(m)
    PROVE  AtMostOne'
<1>1. state'.open = OpenAfter(state, m) /\ state.open \in [Lanes -> SUBSET Ids]
  BY AppliedProjections, StateShape DEF Logged
<1>2. CASE m.kind = "operation_started"
  <2>1. m.id \in Ids /\ m.lane \in Lanes /\ state.open[m.lane] = {}
    BY <1>2 DEF Logged, WellFormed, RecordKinds
  <2>2. state'.open = [state.open EXCEPT ![m.lane] = {m.id}]
    BY <1>1, <1>2, <2>1 DEF OpenAfter
  <2> QED BY <1>1, <2>1, <2>2 DEF AtMostOne
<1>3. CASE m.kind = "operation_finished"
  <2>1. m.lane \in Lanes
    BY <1>3 DEF Logged, WellFormed, RecordKinds
  <2>2. state'.open = [state.open EXCEPT ![m.lane] = @ \ {m.ref}]
    BY <1>1, <1>3 DEF OpenAfter
  <2>3. \A l \in Lanes : state'.open[l] \subseteq state.open[l]
    BY <1>1, <2>1, <2>2
  <2> QED BY <2>3 DEF AtMostOne
<1>4. CASE m.kind \notin RecordKinds
  <2>1. OpenAfter(state, m) = state.open
    BY <1>4 DEF OpenAfter, RecordKinds
  <2> QED BY <1>1, <2>1 DEF AtMostOne
<1> QED BY <1>2, <1>3, <1>4 DEF RecordKinds

LEMMA AtMostOneSuffices ==
    ASSUME AtMostOne PROVE OneOpenOperation
<1> SUFFICES ASSUME NEW l \in Lanes PROVE Cardinality(state.open[l]) <= 1
  BY DEF OneOpenOperation
<1>1. CASE state.open[l] = {}
  <2>1. Cardinality(state.open[l]) = 0
    BY <1>1, FS_EmptySet
  <2> QED BY <2>1
<1>2. CASE \E id \in Ids : state.open[l] = {id}
  <2>1. Cardinality(state.open[l]) = 1
    BY <1>2, FS_Singleton
  <2> QED BY <2>1
<1> QED BY <1>1, <1>2 DEF AtMostOne

(* What the log says.                                                      *)

LEMMA LogSaysState ==
    ASSUME log \in Seq(Mutation), LanesRead(log, Len(log), state),
           LabelsRead(log, Len(log), state), OpenRead(log, Len(log), state)
    PROVE  ProjectionsMatchLog
<1>0. DOMAIN log = 1..Len(log) /\ Len(log) \in Nat
  BY LenProperties
<1>1. ASSUME NEW l \in Lanes PROVE state.lanes[l] = LeafInLog(l)
  <2> DEFINE found == {i \in DOMAIN log : Moves(log[i], l)}
             last == CHOOSE i \in found : \A j \in found : j <= i
             index == IF found = {} THEN 0 ELSE last
  <2>1. LeafInLog(l) = IF index = 0 THEN Empty.lanes[l] ELSE Moved(log[index])
    BY DEF LeafInLog, LastOf, Moves, Moved
  <2>2. CASE /\ state.lanes[l] = Empty.lanes[l]
             /\ \A i \in DOMAIN log : ~Moves(log[i], l)
    <3>1. found = {}
      BY <2>2
    <3> HIDE DEF found, last
    <3> QED BY <2>1, <2>2, <3>1
  <2>3. ASSUME NEW i \in DOMAIN log, Moves(log[i], l),
               state.lanes[l] = Moved(log[i]),
               \A j \in DOMAIN log : Moves(log[j], l) => j <= i
        PROVE  state.lanes[l] = LeafInLog(l)
    <3>1. i \in found /\ (\A j \in found : j <= i) /\ found \subseteq Nat
      BY <1>0, <2>3
    <3> HIDE DEF found
    <3>2. last \in found /\ \A j \in found : j <= last
      BY <3>1
    <3>3. last = i /\ i # 0
      <4>1. /\ i <= last /\ last <= i /\ i \in Nat
            /\ last \in Nat /\ i \in 1..Len(log)
        BY <1>0, <2>3, <3>1, <3>2
      <4> HIDE DEF last
      <4> QED BY <4>1
    <3> HIDE DEF last
    <3> QED BY <2>1, <2>3, <3>1, <3>3
  <2> QED BY <1>0, <2>2, <2>3 DEF LanesRead
<1>2. ASSUME NEW id \in Ids PROVE state.labels[id] = LabelInLog(id)
  <2> DEFINE found == {i \in DOMAIN log : Labels(log[i], id)}
             last == CHOOSE i \in found : \A j \in found : j <= i
             index == IF found = {} THEN 0 ELSE last
  <2>1. LabelInLog(id) = IF index = 0 THEN None ELSE log[index].value
    BY DEF LabelInLog, LastOf, Labels
  <2>2. CASE /\ state.labels[id] = None
             /\ \A i \in DOMAIN log : ~Labels(log[i], id)
    <3>1. found = {}
      BY <2>2
    <3> HIDE DEF found, last
    <3> QED BY <2>1, <2>2, <3>1
  <2>3. ASSUME NEW i \in DOMAIN log, Labels(log[i], id),
               state.labels[id] = log[i].value,
               \A j \in DOMAIN log : Labels(log[j], id) => j <= i
        PROVE  state.labels[id] = LabelInLog(id)
    <3>1. i \in found /\ (\A j \in found : j <= i) /\ found \subseteq Nat
      BY <1>0, <2>3
    <3> HIDE DEF found
    <3>2. last \in found /\ \A j \in found : j <= last
      BY <3>1
    <3>3. last = i /\ i # 0
      <4>1. /\ i <= last /\ last <= i /\ i \in Nat
            /\ last \in Nat /\ i \in 1..Len(log)
        BY <1>0, <2>3, <3>1, <3>2
      <4> HIDE DEF last
      <4> QED BY <4>1
    <3> HIDE DEF last
    <3> QED BY <2>1, <2>3, <3>1, <3>3
  <2> QED BY <1>0, <2>2, <2>3 DEF LabelsRead
<1>3. ASSUME NEW l \in Lanes PROVE state.open[l] = OpenInLog(l)
  BY <1>0 DEF OpenRead, OpenInLog, Starts, Finishes
<1> QED BY <1>1, <1>2, <1>3 DEF ProjectionsMatchLog
-----------------------------------------------------------------------------
(* The state is the replay of the log.                                     *)

IInv ==
    /\ WellFormedLog(log) /\ Replays(log) /\ state = Replay(log)
    /\ AtMostOne

LEMMA StateIsSound ==
    ASSUME IInv
    PROVE  Sound(state) /\ state \in SessionStates /\ TypeOK
  BY ReplayIs DEF IInv, WellFormedLog, TypeOK, Sound

LEMMA InitEstablishes == Init => IInv
<1> SUFFICES ASSUME Init PROVE IInv
  OBVIOUS
<1>1. log = <<>> /\ state = Empty
  BY DEF Init
<1>2. WellFormedLog(log)
  <2>1. log \in Seq(Mutation) /\ \A k \in 1..Len(log) : FALSE
    BY <1>1
  <2> QED BY <2>1 DEF WellFormedLog
<1>3. AtMostOne
  BY <1>1 DEF AtMostOne, Empty
<1> QED BY <1>1, <1>2, <1>3, ReplayEmpty DEF IInv

LEMMA WritePreserves ==
    ASSUME IInv, NEW m, Logged(m)
    PROVE  IInv'
<1>1. /\ log \in Seq(Mutation) /\ \A k \in 1..Len(log) : WellFormed(log[k])
      /\ WellFormed(m) /\ m \in Mutation /\ log' = Append(log, m)
      /\ Valid(Replay(log), m) /\ state' = Applied(Replay(log), m)
  BY DEF IInv, WellFormedLog, Logged, WellFormed
<1>2. WellFormedLog(log')
  <2>1. /\ log' \in Seq(Mutation) /\ Len(log') = Len(log) + 1
        /\ log'[Len(log) + 1] = m
        /\ \A i \in 1..Len(log) : log'[i] = log[i]
    BY <1>1, AppendProperties
  <2>2. \A i \in 1..Len(log) + 1 : i \in 1..Len(log) \/ i = Len(log) + 1
    <3>1. Len(log) \in Nat
      BY <1>1, LenProperties
    <3> QED BY <3>1, SMT
  <2> QED BY <1>1, <2>1, <2>2 DEF WellFormedLog
<1>3. Replays(log') /\ state' = Replay(log')
  BY <1>1, ReplayAppend DEF IInv
<1>4. AtMostOne'
  BY StateIsSound, AtMostOnePreserved DEF IInv
<1> QED BY <1>2, <1>3, <1>4 DEF IInv

LEMMA ForkPreserves ==
    ASSUME IInv, NEW options \in ForkOptions, Fork(options)
    PROVE  IInv'
<1>1. /\ log' = ForkMutations(state, options) /\ state' = Replay(log')
      /\ Forkable(state, options)
  BY DEF Fork
<1>2. /\ WellFormedLog(log') /\ Replays(log')
      /\ ForkOf(state, options, state')
  BY <1>1, StateIsSound, ForkIs
<1>3. \A l \in Lanes : state'.open[l] = {}
  BY <1>2 DEF ForkOf, Empty
<1> QED BY <1>1, <1>2, <1>3 DEF IInv, AtMostOne

ForkNext == Next \/ \E options \in ForkOptions : Fork(options)

LEMMA NextPreserves == IInv /\ [ForkNext]_vars => IInv'
<1> SUFFICES ASSUME IInv, [ForkNext]_vars PROVE IInv'
  OBVIOUS
<1>1. CASE Next
  BY <1>1, StateIsSound, StepLogs, WritePreserves
<1>2. CASE \E options \in ForkOptions : Fork(options)
  BY <1>2, ForkPreserves
<1>3. CASE UNCHANGED vars
  BY <1>3 DEF vars, IInv, AtMostOne
<1> QED BY <1>1, <1>2, <1>3 DEF ForkNext

LEMMA Invariance == ForkSpec => []IInv
  BY InitEstablishes, NextPreserves, PTL DEF ForkSpec, ForkNext

\* A session that is only written to is one that is never forked.
LEMMA WritesAlone == Spec => ForkSpec
<1>1. [Next]_vars => [Next \/ \E options \in ForkOptions : Fork(options)]_vars
  OBVIOUS
<1> QED BY <1>1, PTL DEF Spec, ForkSpec

\* The types of the log and of the state projected from it.
THEOREM SessionTypeCorrect == ForkSpec => []TypeOK
  BY StateIsSound, Invariance, PTL

\* No lane ever has two operations open (appendRecord).
THEOREM OneOpenOperationCorrect == ForkSpec => []OneOpenOperation
<1>1. IInv => OneOpenOperation
  BY AtMostOneSuffices DEF IInv
<1> QED BY <1>1, Invariance, PTL

\* Entries follow their parents and are unique; lanes and labels point at
\* entries of the tree (applyMutation, validateTarget).
THEOREM TreeIntactCorrect == ForkSpec => []TreeIntact
<1>1. IInv => TreeIntact
  BY StateIsSound DEF Sound, TreeOK, TreeIntact
<1> QED BY <1>1, Invariance, PTL

\* The projections are what the log says when it is read as a whole, and
\* what an operation accepts applyMutation does not refuse.
THEOREM LogReplaysCorrect == ForkSpec => []LogReplays
<1>1. IInv => ProjectionsMatchLog
  BY LogSaysState, ReplayReadsLog DEF IInv, WellFormedLog
<1>2. IInv => AcceptedIsValid
  BY StateIsSound, AcceptedValid DEF Sound, AcceptedIsValid
<1>3. IInv => LogReplays
  BY <1>1, <1>2, StateIsSound DEF LogReplays
<1> QED BY <1>3, Invariance, PTL

\* A fork can be replayed and has the entries, labels, lanes and name that
\* its options ask for, and nothing to recover (createForkMutations).
THEOREM ForkFaithfulCorrect == ForkSpec => []ForkFaithful
<1>1. IInv => ForkFaithful
  BY StateIsSound, ForkIsFaithful DEF ForkFaithful
<1> QED BY <1>1, Invariance, PTL
=============================================================================

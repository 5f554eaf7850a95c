------------------------- MODULE SessionStateProofs -------------------------
(***************************************************************************)
(* Lemmas about the state of a session and its replay, for every value of  *)
(* the constants: the mutations of requests are well formed, applying a    *)
(* valid one keeps the state well formed and its tree intact, what an      *)
(* operation accepts is valid, and a log is replayed mutation by mutation. *)
(***************************************************************************)
EXTENDS SessionState, SequenceTheorems, FiniteSetTheorems,
        WellFoundedInduction, TLAPS

\* A mutation has what its kind needs.
WellFormed(m) ==
    /\ m \in Mutation /\ m.seq \in Nat /\ m.kind \in Kinds
    /\ m.kind = "entry" =>
         m.id \in Ids /\ m.ref \in Pointers /\ m.value \in EntryTypes
    /\ m.kind \in RecordKinds =>
         m.id \in Ids /\ m.lane \in Lanes /\ m.ref \in Pointers
    /\ m.kind = "lane" => m.lane \in Lanes /\ m.ref \in Pointers
    /\ m.kind = "name" => m.value \in Names \cup {None}
    /\ m.kind = "label" => m.ref \in Ids /\ m.value \in Names \cup {None}

LEMMA RequestShape ==
    ASSUME NEW r \in Requests
    PROVE  /\ r.op \in {"createLane", "moveLane", "appendEntry",
                        "operation_started", "operation_finished",
                        "setName", "setLabel"}
           /\ r.op \in {"createLane", "moveLane"} =>
                r.lane \in Lanes /\ r.ref \in Pointers
           /\ r.op = "appendEntry" =>
                r.id \in Ids /\ r.lane \in Lanes /\ r.value \in EntryTypes
           /\ r.op = "operation_started" =>
                r.id \in Ids /\ r.lane \in Lanes /\ r.ref = None
           /\ r.op = "operation_finished" =>
                r.id \in Ids /\ r.lane \in Lanes /\ r.ref \in Ids
           /\ r.op = "setName" => r.value \in Names \cup {None}
           /\ r.op = "setLabel" =>
                r.ref \in Ids /\ r.value \in Names \cup {None}
  BY DEF Requests

LEMMA StateShape ==
    ASSUME NEW s \in SessionStates
    PROVE  /\ s.sequence \in Nat /\ s.usedIds \in SUBSET Ids
           /\ s.entries \in Seq([id : Ids, parent : Pointers,
                                 type : EntryTypes])
           /\ s.lanes \in [Lanes -> Pointers \cup {Missing}]
           /\ s.open \in [Lanes -> SUBSET Ids]
           /\ s.name \in Names \cup {None}
           /\ s.labels \in [Ids -> Names \cup {None}]
  BY DEF SessionStates

LEMMA ConstructorShape ==
    ASSUME NEW seq \in Nat
    PROVE  /\ \A lane \in Lanes, leaf \in Pointers :
                LET m == Lane(seq, lane, leaf)
                IN  WellFormed(m) /\ m.kind = "lane" /\ m.seq = seq
           /\ \A id \in Ids, lane \in Lanes, parent \in Pointers,
                type \in EntryTypes :
                LET m == Entry(seq, id, lane, parent, type)
                IN  WellFormed(m) /\ m.kind = "entry" /\ m.seq = seq
           /\ \A kind \in RecordKinds, id \in Ids, lane \in Lanes,
                runId \in Pointers :
                LET m == Record(seq, kind, id, lane, runId)
                IN  /\ WellFormed(m) /\ m.kind = kind /\ m.seq = seq
                    /\ m.lane = lane
           /\ \A value \in Names \cup {None} :
                LET m == Fact(seq, "name", None, value)
                IN  WellFormed(m) /\ m.kind = "name" /\ m.seq = seq
           /\ \A id \in Ids, value \in Names \cup {None} :
                LET m == Fact(seq, "label", id, value)
                IN  WellFormed(m) /\ m.kind = "label" /\ m.seq = seq
<1> USE DEF WellFormed, Mutation, Kinds, RecordKinds, Pointers
<1>1. \A lane \in Lanes, leaf \in Pointers :
        LET m == Lane(seq, lane, leaf)
        IN  WellFormed(m) /\ m.kind = "lane" /\ m.seq = seq
  BY DEF Lane
<1>2. \A id \in Ids, lane \in Lanes, parent \in Pointers,
        type \in EntryTypes :
        LET m == Entry(seq, id, lane, parent, type)
        IN  WellFormed(m) /\ m.kind = "entry" /\ m.seq = seq
  BY DEF Entry
<1>3. \A kind \in RecordKinds, id \in Ids, lane \in Lanes,
        runId \in Pointers :
        LET m == Record(seq, kind, id, lane, runId)
        IN  WellFormed(m) /\ m.kind = kind /\ m.seq = seq /\ m.lane = lane
  BY DEF Record
<1>4. \A value \in Names \cup {None} :
        LET m == Fact(seq, "name", None, value)
        IN  WellFormed(m) /\ m.kind = "name" /\ m.seq = seq
  BY DEF Fact
<1>5. \A id \in Ids, value \in Names \cup {None} :
        LET m == Fact(seq, "label", id, value)
        IN  WellFormed(m) /\ m.kind = "label" /\ m.seq = seq
  BY DEF Fact
<1> QED BY <1>1, <1>2, <1>3, <1>4, <1>5

\* What a request makes is well formed; an operation is only started on a
\* lane that has none open.
LEMMA MutationShape ==
    ASSUME NEW s \in SessionStates, NEW r \in Requests, Accepts(s, r)
    PROVE  /\ WellFormed(MutationOf(s, r))
           /\ MutationOf(s, r).seq = s.sequence + 1
           /\ MutationOf(s, r).kind = "operation_started" =>
                s.open[MutationOf(s, r).lane] = {}
<1> DEFINE seq == s.sequence + 1
<1>0. seq \in Nat
  BY StateShape
<1>1. CASE r.op \in {"createLane", "moveLane"}
  <2>1. MutationOf(s, r) = Lane(seq, r.lane, r.ref)
    BY <1>1 DEF MutationOf, RecordKinds
  <2>2. r.lane \in Lanes /\ r.ref \in Pointers
    BY <1>1, RequestShape
  <2> HIDE DEF seq
  <2>3. LET m == MutationOf(s, r)
        IN  WellFormed(m) /\ m.kind = "lane" /\ m.seq = seq
    BY <1>0, <2>1, <2>2, ConstructorShape
  <2> QED BY <2>3 DEF seq
<1>2. CASE r.op = "appendEntry"
  <2>1. MutationOf(s, r) =
          Entry(seq, r.id, r.lane, s.lanes[r.lane], r.value)
    BY <1>2 DEF MutationOf, RecordKinds
  <2>2. r.id \in Ids /\ r.lane \in Lanes /\ r.value \in EntryTypes
    BY <1>2, RequestShape
  <2>3. s.lanes[r.lane] \in Pointers
    BY <1>2, <2>2, StateShape DEF Accepts, HasLane
  <2> HIDE DEF seq
  <2>4. LET m == MutationOf(s, r)
        IN  WellFormed(m) /\ m.kind = "entry" /\ m.seq = seq
    BY <1>0, <2>1, <2>2, <2>3, ConstructorShape
  <2> QED BY <2>4 DEF seq
<1>3. CASE r.op \in RecordKinds
  <2>1. MutationOf(s, r) = Record(seq, r.op, r.id, r.lane, r.ref)
    BY <1>3 DEF MutationOf, RecordKinds
  <2>2. r.id \in Ids /\ r.lane \in Lanes /\ r.ref \in Pointers
    BY <1>3, RequestShape DEF RecordKinds, Pointers
  <2>3. r.op = "operation_started" => s.open[r.lane] = {}
    BY <1>3 DEF Accepts, RecordKinds
  <2> HIDE DEF seq
  <2>4. LET m == MutationOf(s, r)
        IN  WellFormed(m) /\ m.kind = r.op /\ m.seq = seq /\ m.lane = r.lane
    BY <1>0, <1>3, <2>1, <2>2, ConstructorShape
  <2> QED BY <2>3, <2>4 DEF seq
<1>4. CASE r.op = "setName"
  <2>1. MutationOf(s, r) = Fact(seq, "name", None, r.value)
    BY <1>4 DEF MutationOf, RecordKinds
  <2>2. r.value \in Names \cup {None}
    BY <1>4, RequestShape
  <2> HIDE DEF seq
  <2>3. LET m == MutationOf(s, r)
        IN  WellFormed(m) /\ m.kind = "name" /\ m.seq = seq
    BY <1>0, <2>1, <2>2, ConstructorShape
  <2> QED BY <2>3 DEF seq
<1>5. CASE r.op = "setLabel"
  <2>1. MutationOf(s, r) = Fact(seq, "label", r.ref, r.value)
    BY <1>5 DEF MutationOf, RecordKinds
  <2>2. r.ref \in Ids /\ r.value \in Names \cup {None}
    BY <1>5, RequestShape
  <2> HIDE DEF seq
  <2>3. LET m == MutationOf(s, r)
        IN  WellFormed(m) /\ m.kind = "label" /\ m.seq = seq
    BY <1>0, <2>1, <2>2, ConstructorShape
  <2> QED BY <2>3 DEF seq
<1> QED BY <1>1, <1>2, <1>3, <1>4, <1>5, RequestShape DEF RecordKinds

LEMMA AppliedShape ==
    ASSUME NEW s \in SessionStates, NEW m, WellFormed(m)
    PROVE  Applied(s, m) \in SessionStates
<1> USE StateShape
<1>1. SequenceAfter(s, m) \in Nat
  BY DEF SequenceAfter, WellFormed
<1>2. (IF m.kind \in RecordKinds \cup {"entry"}
       THEN s.usedIds \cup {m.id} ELSE s.usedIds) \in SUBSET Ids
  BY DEF WellFormed
<1>3. (IF m.kind = "entry"
       THEN Append(s.entries, [id |-> m.id, parent |-> m.ref,
                               type |-> m.value])
       ELSE s.entries) \in Seq([id : Ids, parent : Pointers,
                                type : EntryTypes])
  <2>1. m.kind = "entry" => [id |-> m.id, parent |-> m.ref,
                             type |-> m.value]
                            \in [id : Ids, parent : Pointers,
                                 type : EntryTypes]
    BY DEF WellFormed
  <2> QED BY <2>1, AppendProperties
<1>4. LanesAfter(s, m) \in [Lanes -> Pointers \cup {Missing}]
  BY DEF LanesAfter, WellFormed, Pointers
<1>5. OpenAfter(s, m) \in [Lanes -> SUBSET Ids]
  <2>1. CASE m.kind = "operation_started"
    <3>1. m.id \in Ids /\ m.lane \in Lanes
      BY <2>1 DEF WellFormed, RecordKinds
    <3> QED BY <2>1, <3>1 DEF OpenAfter
  <2>2. CASE m.kind = "operation_finished"
    <3>1. m.lane \in Lanes
      BY <2>2 DEF WellFormed, RecordKinds
    <3> QED BY <2>2, <3>1 DEF OpenAfter
  <2> QED BY <2>1, <2>2 DEF OpenAfter
<1>6. (IF m.kind = "name" THEN m.value ELSE s.name) \in Names \cup {None}
  BY DEF WellFormed
<1>7. (IF m.kind = "label" THEN [s.labels EXCEPT ![m.ref] = m.value]
       ELSE s.labels) \in [Ids -> Names \cup {None}]
  BY DEF WellFormed
<1> QED BY <1>1, <1>2, <1>3, <1>4, <1>5, <1>6, <1>7
     DEF Applied, SessionStates

LEMMA EmptyShape == Empty \in SessionStates
<1>1. <<>> \in Seq([id : Ids, parent : Pointers, type : EntryTypes])
  OBVIOUS
<1> QED BY <1>1 DEF Empty, SessionStates, Pointers

\* What a mutation does to the projections.
LEMMA AppliedProjections ==
    ASSUME NEW s, NEW m
    PROVE  /\ Applied(s, m).open = OpenAfter(s, m)
           /\ Applied(s, m).lanes = LanesAfter(s, m)
           /\ Applied(s, m).sequence = m.seq
           /\ m.kind = "label" =>
                Applied(s, m).labels = [s.labels EXCEPT ![m.ref] = m.value]
           /\ m.kind # "label" => Applied(s, m).labels = s.labels
           /\ m.kind = "entry" =>
                /\ Applied(s, m).entries =
                     Append(s.entries, [id |-> m.id, parent |-> m.ref,
                                        type |-> m.value])
                /\ Applied(s, m).usedIds = s.usedIds \cup {m.id}
           /\ m.kind # "entry" =>
                /\ Applied(s, m).entries = s.entries
                /\ s.usedIds \subseteq Applied(s, m).usedIds
  BY DEF Applied, SequenceAfter

Entries == [id : Ids, parent : Pointers, type : EntryTypes]

LEMMA IdsAppended ==
    ASSUME NEW s \in SessionStates, NEW e \in Entries
    PROVE  LET grown == Append(s.entries, e)
           IN  /\ DOMAIN s.entries = 1..Len(s.entries)
               /\ Len(s.entries) \in Nat
               /\ DOMAIN grown = 1..(Len(s.entries) + 1)
               /\ \A i \in 1..Len(s.entries) : grown[i] = s.entries[i]
               /\ grown[Len(s.entries) + 1] = e
  BY StateShape, AppendProperties, LenProperties DEF Entries
-----------------------------------------------------------------------------
(* The tree: an entry has its parent before it, ids are unique and in use, *)
(* and lanes and labels point at entries.                                  *)

TreeOK(s) ==
    /\ \A i \in DOMAIN s.entries :
         LET parent == s.entries[i].parent
         IN  parent # None => \E j \in 1..(i - 1) : s.entries[j].id = parent
    /\ \A i, j \in DOMAIN s.entries :
         s.entries[i].id = s.entries[j].id => i = j
    /\ \A l \in Lanes : HasLane(s, l) => Known(s, s.lanes[l])
    /\ \A i \in Ids : s.labels[i] # None => i \in EntryIds(s)
    /\ EntryIds(s) \subseteq s.usedIds

LEMMA TreeEmpty == TreeOK(Empty)
<1>1. /\ Empty.entries = <<>> /\ DOMAIN Empty.entries = {}
      /\ \A l \in Lanes : Empty.lanes[l] \in {None, Missing}
      /\ \A i \in Ids : Empty.labels[i] = None
  BY DEF Empty
<1> QED BY <1>1 DEF TreeOK, EntryIds, Known, HasLane

LEMMA TreeEntry ==
    ASSUME NEW s \in SessionStates, TreeOK(s), NEW m, WellFormed(m),
           Valid(s, m), m.kind = "entry"
    PROVE  TreeOK(Applied(s, m))
<1> DEFINE e == [id |-> m.id, parent |-> m.ref, type |-> m.value]
           n == Len(s.entries)
           t == Applied(s, m)
<1>1. /\ m.id \in Ids /\ m.lane \in Lanes \cup {None} /\ e \in Entries
      /\ e.id = m.id /\ e.parent = m.ref
      /\ m.id \notin s.usedIds /\ Known(s, m.ref)
  BY DEF WellFormed, Valid, Entries, Mutation
<1>2. /\ t.entries = Append(s.entries, e)
      /\ t.usedIds = s.usedIds \cup {m.id}
      /\ t.labels = s.labels
      /\ t.lanes = LanesAfter(s, m)
  BY DEF Applied
<1>3. \A l \in Lanes : t.lanes[l] = s.lanes[l] \/ t.lanes[l] = m.id
  <2>1. DOMAIN s.lanes = Lanes
    BY StateShape
  <2>2. CASE m.lane = None
    BY <1>2, <2>2 DEF LanesAfter
  <2>3. CASE m.lane # None
    <3>1. t.lanes = [s.lanes EXCEPT ![m.lane] = m.id]
      BY <1>2, <2>3 DEF LanesAfter
    <3> HIDE DEF t
    <3> QED BY <2>1, <3>1
  <2> QED BY <2>2, <2>3
<1>4. /\ DOMAIN s.entries = 1..n /\ n \in Nat
      /\ DOMAIN t.entries = 1..(n + 1)
      /\ \A i \in 1..n : t.entries[i] = s.entries[i]
      /\ t.entries[n + 1] = e
  BY <1>1, <1>2, IdsAppended
<1> HIDE DEF e, n, t
<1>5. EntryIds(t) = EntryIds(s) \cup {m.id}
  BY <1>1, <1>4 DEF EntryIds
<1>6. \A i \in DOMAIN t.entries :
        LET parent == t.entries[i].parent
        IN  parent # None => \E j \in 1..(i - 1) : t.entries[j].id = parent
  <2> SUFFICES ASSUME NEW i \in 1..(n + 1), t.entries[i].parent # None
               PROVE  \E j \in 1..(i - 1) :
                        t.entries[j].id = t.entries[i].parent
    BY <1>4
  <2>1. CASE i \in 1..n
    <3>1. PICK j \in 1..(i - 1) : s.entries[j].id = s.entries[i].parent
      BY <1>4, <2>1 DEF TreeOK
    <3>2. j \in 1..n /\ t.entries[j] = s.entries[j]
          /\ t.entries[i] = s.entries[i]
      BY <1>4, <2>1
    <3> QED BY <3>1, <3>2
  <2>2. CASE i = n + 1
    <3>1. PICK j \in 1..n : s.entries[j].id = m.ref
      BY <1>1, <1>4, <2>2 DEF Known, EntryIds
    <3>2. t.entries[j].id = s.entries[j].id
      BY <1>4
    <3>3. t.entries[i].parent = m.ref
      BY <1>1, <1>4, <2>2
    <3>4. j \in 1..(i - 1)
      BY <1>4, <2>2
    <3> QED BY <3>1, <3>2, <3>3, <3>4
  <2> QED BY <1>4, <2>1, <2>2
<1>7. \A i, j \in DOMAIN t.entries : t.entries[i].id = t.entries[j].id => i = j
  <2>1. \A i \in 1..n : s.entries[i].id # m.id
    BY <1>1, <1>4 DEF TreeOK, EntryIds
  <2>2. \A i, j \in 1..n : s.entries[i].id = s.entries[j].id => i = j
    BY <1>4 DEF TreeOK
  <2> QED BY <1>1, <1>4, <2>1, <2>2
<1>8. \A l \in Lanes : HasLane(t, l) => Known(t, t.lanes[l])
  BY <1>3, <1>5 DEF TreeOK, HasLane, Known
<1>9. \A i \in Ids : t.labels[i] # None => i \in EntryIds(t)
  BY <1>2, <1>5 DEF TreeOK
<1>10. EntryIds(t) \subseteq t.usedIds
  BY <1>2, <1>5 DEF TreeOK
<1> QED BY <1>6, <1>7, <1>8, <1>9, <1>10 DEF TreeOK, t

LEMMA TreeOther ==
    ASSUME NEW s \in SessionStates, TreeOK(s), NEW m, WellFormed(m),
           Valid(s, m), m.kind # "entry"
    PROVE  TreeOK(Applied(s, m))
<1> DEFINE t == Applied(s, m)
<1>1. /\ t.entries = s.entries
      /\ s.usedIds \subseteq t.usedIds
      /\ t.lanes = LanesAfter(s, m)
      /\ m.kind = "label" => t.labels = [s.labels EXCEPT ![m.ref] = m.value]
      /\ m.kind # "label" => t.labels = s.labels
  BY AppliedProjections
<1> HIDE DEF t
<1>2. EntryIds(t) = EntryIds(s)
  BY <1>1 DEF EntryIds
<1>3. \A l \in Lanes : HasLane(t, l) => Known(t, t.lanes[l])
  <2>1. CASE m.kind = "lane"
    <3>1. m.lane \in Lanes /\ Known(s, m.ref)
      BY <2>1 DEF WellFormed, Valid
    <3>2. t.lanes = [s.lanes EXCEPT ![m.lane] = m.ref]
      BY <1>1, <2>1 DEF LanesAfter
    <3>3. DOMAIN s.lanes = Lanes
      BY StateShape
    <3>4. \A l \in Lanes : t.lanes[l] = s.lanes[l] \/ t.lanes[l] = m.ref
      BY <3>2, <3>3
    <3>5. \A l \in Lanes : l # m.lane => t.lanes[l] = s.lanes[l]
      BY <3>2, <3>3
    <3>6. t.lanes[m.lane] = m.ref
      BY <3>1, <3>2, <3>3
    <3>7. \A l \in Lanes : l # m.lane /\ HasLane(t, l) => Known(t, t.lanes[l])
      BY <1>2, <3>5 DEF TreeOK, HasLane, Known
    <3>8. Known(t, t.lanes[m.lane])
      BY <1>2, <3>1, <3>6 DEF Known
    <3> QED BY <3>7, <3>8
  <2>2. CASE m.kind # "lane"
    <3>1. t.lanes = s.lanes
      BY <1>1, <2>2 DEF LanesAfter
    <3> QED BY <1>2, <3>1 DEF TreeOK, HasLane, Known
  <2> QED BY <2>1, <2>2
<1>4. \A i \in Ids : t.labels[i] # None => i \in EntryIds(t)
  <2>1. CASE m.kind = "label"
    <3>1. m.ref \in EntryIds(s)
      BY <2>1 DEF Valid
    <3>2. t.labels = [s.labels EXCEPT ![m.ref] = m.value]
      BY <1>1, <2>1
    <3>3. DOMAIN s.labels = Ids
      BY StateShape
    <3>4. \A i \in Ids : i # m.ref => t.labels[i] = s.labels[i]
      BY <3>2, <3>3
    <3> QED BY <1>2, <3>1, <3>4 DEF TreeOK
  <2>2. CASE m.kind # "label"
    BY <1>1, <1>2, <2>2 DEF TreeOK
  <2> QED BY <2>1, <2>2
<1>5. EntryIds(t) \subseteq t.usedIds
  BY <1>1, <1>2 DEF TreeOK
<1> QED BY <1>1, <1>2, <1>3, <1>4, <1>5 DEF TreeOK, t

LEMMA TreeStep ==
    ASSUME NEW s \in SessionStates, TreeOK(s), NEW m, WellFormed(m),
           Valid(s, m)
    PROVE  TreeOK(Applied(s, m))
  BY TreeEntry, TreeOther

\* An operation's checks are those of applyMutation.
LEMMA AcceptedValid ==
    ASSUME NEW s \in SessionStates, TreeOK(s), NEW r \in Requests,
           Accepts(s, r)
    PROVE  Valid(s, MutationOf(s, r))
<1>1. CASE r.op \in {"createLane", "moveLane"}
  <2>1. MutationOf(s, r) = Lane(s.sequence + 1, r.lane, r.ref)
    BY <1>1 DEF MutationOf, RecordKinds
  <2>2. Known(s, r.ref)
    BY <1>1 DEF Accepts, RecordKinds
  <2> QED BY <2>1, <2>2 DEF Valid, Lane, RecordKinds
<1>2. CASE r.op = "appendEntry"
  <2>1. MutationOf(s, r) =
          Entry(s.sequence + 1, r.id, r.lane, s.lanes[r.lane], r.value)
    BY <1>2 DEF MutationOf, RecordKinds
  <2>2. HasLane(s, r.lane) /\ r.id \notin s.usedIds
    BY <1>2 DEF Accepts, RecordKinds
  <2>3. Known(s, s.lanes[r.lane])
    BY <1>2, <2>2, RequestShape DEF TreeOK
  <2> QED BY <2>1, <2>2, <2>3 DEF Valid, Entry, RecordKinds
<1>3. CASE r.op \in RecordKinds
  <2>1. MutationOf(s, r) =
          Record(s.sequence + 1, r.op, r.id, r.lane, r.ref)
    BY <1>3 DEF MutationOf, RecordKinds
  <2>2. HasLane(s, r.lane) /\ r.id \notin s.usedIds
    BY <1>3 DEF Accepts, RecordKinds
  <2> QED BY <1>3, <2>1, <2>2 DEF Valid, Record, RecordKinds
<1>4. CASE r.op = "setName"
  <2>1. MutationOf(s, r) = Fact(s.sequence + 1, "name", None, r.value)
    BY <1>4 DEF MutationOf, RecordKinds
  <2> QED BY <2>1 DEF Valid, Fact, RecordKinds
<1>5. CASE r.op = "setLabel"
  <2>1. MutationOf(s, r) = Fact(s.sequence + 1, "label", r.ref, r.value)
    BY <1>5 DEF MutationOf, RecordKinds
  <2>2. Known(s, r.ref)
    BY <1>5 DEF Accepts, RecordKinds
  <2>3. r.ref # None
    BY <1>5, RequestShape, NoneAssumption
  <2> QED BY <2>1, <2>2, <2>3 DEF Valid, Fact, RecordKinds, Known
<1> QED BY <1>1, <1>2, <1>3, <1>4, <1>5, RequestShape DEF RecordKinds
-----------------------------------------------------------------------------
(* Replay.                                                                 *)

LEMMA SetInduction ==
    ASSUME NEW S, 0 \in S, \A n \in Nat : n \in S => n + 1 \in S
    PROVE  \A n \in Nat : n \in S
<1> SUFFICES ASSUME NEW m \in Nat, m \notin S PROVE FALSE
  OBVIOUS
<1> DEFINE R == OpToRel(<, Nat)
           T == Nat \ S
<1>1. T \subseteq Nat /\ T # {}
  OBVIOUS
<1>2. PICK x \in T : \A y \in T : <<y, x>> \notin R
  <2> HIDE DEF T, R
  <2>1. IsWellFoundedOn(R, Nat)
    BY NatLessThanWellFounded DEF R
  <2> QED BY <1>1, <2>1, WFMin
<1>3. x \in Nat /\ x # 0 /\ x \notin S
  OBVIOUS
<1>4. x - 1 \in Nat /\ x - 1 < x /\ (x - 1) + 1 = x
  BY <1>3
<1>5. x - 1 \notin S
  BY <1>3, <1>4
<1>6. <<x - 1, x>> \in R
  BY <1>3, <1>4, SMT DEF OpToRel
<1> QED BY <1>2, <1>4, <1>5, <1>6

\* The states after the first mutations of a log, up to n of them.
Course(f, ms, n) ==
    f = [k \in 0..n |-> IF k = 0 THEN Empty ELSE Applied(f[k - 1], ms[k])]

LEMMA CourseValue ==
    ASSUME NEW f, NEW ms, NEW n \in Nat, Course(f, ms, n)
    PROVE  /\ f[0] = Empty
           /\ \A k \in 1..n : f[k] = Applied(f[k - 1], ms[k])
<1> DEFINE F(k) == IF k = 0 THEN Empty ELSE Applied(f[k - 1], ms[k])
<1>1. f = [k \in 0..n |-> F(k)]
  BY DEF Course
<1>2. \A k \in 0..n : f[k] = F(k)
  <2> HIDE DEF F
  <2> QED BY <1>1
<1>3. 0 \in 0..n /\ \A k \in 1..n : k \in 0..n /\ k # 0
  BY SMT
<1> QED BY <1>2, <1>3, Zenon

LEMMA CourseExists ==
    ASSUME NEW ms
    PROVE  \A n \in Nat : \E f : Course(f, ms, n)
<1> DEFINE S == {n \in Nat : \E f : Course(f, ms, n)}
<1>1. 0 \in S
  <2> DEFINE f == [k \in 0..0 |-> Empty]
  <2>1. \A k \in 0..0 : k = 0
    BY SMT
  <2>2. Course(f, ms, 0)
    BY <2>1 DEF Course
  <2> QED BY <2>2
<1>2. ASSUME NEW n \in Nat, n \in S PROVE n + 1 \in S
  <2>1. PICK f : Course(f, ms, n)
    BY <1>2
  <2> DEFINE new == Applied(f[n], ms[n + 1])
             g == [k \in 0..n + 1 |-> IF k = n + 1 THEN new ELSE f[k]]
             G(k) == IF k = 0 THEN Empty ELSE Applied(g[k - 1], ms[k])
  <2>2. ASSUME NEW k \in 0..n + 1 PROVE g[k] = G(k)
    <3>1. CASE k = 0
      <4>1. 0 \in 0..n + 1 /\ 0 # n + 1
        BY SMT
      <4>2. g[0] = f[0]
        BY <4>1
      <4> QED BY <2>1, <3>1, <4>2, CourseValue
    <3>2. CASE k \in 1..n
      <4>1. k # n + 1 /\ k - 1 \in 0..n + 1 /\ k - 1 # n + 1 /\ k # 0
        BY <3>2, SMT
      <4>2. g[k] = f[k] /\ g[k - 1] = f[k - 1]
        BY <4>1
      <4>3. f[k] = Applied(f[k - 1], ms[k])
        BY <2>1, <3>2, CourseValue
      <4> HIDE DEF g
      <4> QED BY <4>1, <4>2, <4>3
    <3>3. CASE k = n + 1
      <4>1. k - 1 = n /\ n \in 0..n + 1 /\ n # n + 1 /\ k # 0
        BY <3>3, SMT
      <4>2. g[k] = new /\ g[k - 1] = f[n]
        BY <3>3, <4>1
      <4> HIDE DEF g
      <4> QED BY <3>3, <4>1, <4>2
    <3>4. k = 0 \/ k \in 1..n \/ k = n + 1
      BY SMT
    <3> QED BY <3>1, <3>2, <3>3, <3>4
  <2>3. g = [k \in 0..n + 1 |-> G(k)]
    <3>1. g = [k \in 0..n + 1 |-> g[k]]
      OBVIOUS
    <3> HIDE DEF g, G
    <3> QED BY <2>2, <3>1
  <2>4. Course(g, ms, n + 1)
    <3> HIDE DEF g
    <3> QED BY <2>3 DEF Course
  <2> HIDE DEF g
  <2> QED BY <2>4
<1> HIDE DEF S
<1>3. \A n \in Nat : n \in S
  BY <1>1, <1>2, SetInduction
<1> QED BY <1>3 DEF S

LEMMA ReplayedIsCourse ==
    ASSUME NEW ms \in Seq(Mutation)
    PROVE  Course(Replayed(ms), ms, Len(ms))
<1> DEFINE after == CHOOSE f : Course(f, ms, Len(ms))
<1>1. Course(after, ms, Len(ms))
  <2>1. \E f : Course(f, ms, Len(ms))
    BY CourseExists, LenProperties
  <2> QED BY <2>1
<1>2. Replayed(ms) = after
  BY DEF Replayed, Course
<1> HIDE DEF after
<1> QED BY <1>1, <1>2

\* Two logs with a common beginning have the same states after it.
LEMMA CoursesAgree ==
    ASSUME NEW f, NEW g, NEW ms, NEW ns, NEW m \in Nat, NEW n \in Nat, m <= n,
           Course(f, ms, m), Course(g, ns, n), \A k \in 1..m : ms[k] = ns[k]
    PROVE  \A k \in 0..m : f[k] = g[k]
<1> DEFINE S == {k \in Nat : k <= m => f[k] = g[k]}
<1>1. 0 \in S
  BY CourseValue
<1>2. ASSUME NEW i \in Nat, i \in S PROVE i + 1 \in S
  <2> SUFFICES ASSUME i + 1 <= m PROVE f[i + 1] = g[i + 1]
    BY SMT
  <2>1. i <= m /\ i + 1 \in 1..m /\ i + 1 \in 1..n /\ (i + 1) - 1 = i
    BY SMT
  <2>2. f[i] = g[i] /\ ms[i + 1] = ns[i + 1]
    BY <1>2, <2>1
  <2> DEFINE k == i + 1
  <2> HIDE DEF k
  <2>3. k \in 1..m /\ k \in 1..n /\ k - 1 = i /\ ms[k] = ns[k]
    BY <2>1, <2>2 DEF k
  <2>4. f[k] = Applied(f[k - 1], ms[k]) /\ g[k] = Applied(g[k - 1], ns[k])
    BY <2>3, CourseValue
  <2>5. f[k - 1] = g[k - 1]
    BY <2>2, <2>3, Zenon
  <2>6. f[k] = g[k]
    BY <2>3, <2>4, <2>5, Zenon
  <2> QED BY <2>6 DEF k
<1> HIDE DEF S
<1>3. \A k \in Nat : k \in S
  BY <1>1, <1>2, SetInduction
<1> QED BY <1>3, SMT DEF S

LEMMA ReplayEmpty == Replay(<<>>) = Empty /\ Replays(<<>>)
<1> DEFINE ms == <<>>
<1>1. ms \in Seq(Mutation) /\ Len(ms) = 0
  OBVIOUS
<1> HIDE DEF ms
<1>2. Course(Replayed(ms), ms, 0)
  BY <1>1, ReplayedIsCourse
<1>3. Replayed(ms)[0] = Empty
  BY <1>2, CourseValue
<1>4. \A n \in 1..Len(ms) : FALSE
  BY <1>1, SMT
<1>5. Replay(ms) = Empty /\ Replays(ms)
  BY <1>1, <1>3, <1>4 DEF Replay, Replays
<1> QED BY <1>5 DEF ms

LEMMA ReplayAppend ==
    ASSUME NEW ms \in Seq(Mutation), NEW m \in Mutation
    PROVE  /\ Replay(Append(ms, m)) = Applied(Replay(ms), m)
           /\ Replays(Append(ms, m)) <=> Replays(ms) /\ Valid(Replay(ms), m)
<1> DEFINE c == Append(ms, m)
           n == Len(ms)
<1>1. /\ c \in Seq(Mutation) /\ n \in Nat /\ Len(c) = n + 1
      /\ c[n + 1] = m /\ \A k \in 1..n : c[k] = ms[k]
  BY AppendProperties, LenProperties
<1>2. Course(Replayed(ms), ms, n)
  BY ReplayedIsCourse
<1> HIDE DEF c, n
<1>3. Course(Replayed(c), c, n + 1)
  <2>1. Course(Replayed(c), c, Len(c))
    BY <1>1, ReplayedIsCourse
  <2> QED BY <1>1, <2>1
<1>4. /\ n + 1 \in Nat /\ n <= n + 1 /\ n + 1 \in 1..n + 1 /\ (n + 1) - 1 = n
      /\ n \in 0..n /\ \A k \in 1..n : k - 1 \in 0..n /\ k \in 1..n + 1
      /\ \A k \in 1..n + 1 : k \in 1..n \/ k = n + 1
  BY <1>1, SMT
<1>5. \A k \in 0..n : Replayed(ms)[k] = Replayed(c)[k]
  BY <1>1, <1>2, <1>3, <1>4, CoursesAgree
<1>6. Replayed(c)[n + 1] = Applied(Replayed(c)[(n + 1) - 1], c[n + 1])
  BY <1>3, <1>4, CourseValue
<1>7. Replay(c) = Replayed(c)[n + 1] /\ Replay(ms) = Replayed(ms)[n]
  BY <1>1 DEF Replay, n
<1>8. Replay(c) = Applied(Replay(ms), m)
  BY <1>1, <1>4, <1>5, <1>6, <1>7, Zenon
<1>9. Replays(c) <=> \A k \in 1..n + 1 : Valid(Replayed(c)[k - 1], c[k])
  BY <1>1 DEF Replays
<1>10. Replays(ms) <=> \A k \in 1..n : Valid(Replayed(ms)[k - 1], ms[k])
  BY DEF Replays, n
<1>11. \A k \in 1..n : Valid(Replayed(c)[k - 1], c[k])
                        <=> Valid(Replayed(ms)[k - 1], ms[k])
  BY <1>1, <1>4, <1>5, Zenon
<1>12. Valid(Replayed(c)[(n + 1) - 1], c[n + 1]) <=> Valid(Replay(ms), m)
  BY <1>1, <1>4, <1>5, <1>7, Zenon
<1>13. Replays(c) <=> Replays(ms) /\ Valid(Replay(ms), m)
  BY <1>4, <1>9, <1>10, <1>11, <1>12, Zenon
<1> QED BY <1>8, <1>13 DEF c
=============================================================================

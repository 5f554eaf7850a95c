-------------------------- MODULE AuthStorageProofs --------------------------
(***************************************************************************)
(* Refreshes of a credential exclude each other and none is wasted, unless *)
(* a storage is constructed in the middle of a slow one.                   *)
(***************************************************************************)
EXTENDS AuthStorage, FiniteSetTheorems, TLAPS

(* The inductive invariant *)

\* Who is between reading the file and releasing its lock holds the lock, and
\* has touched it in time.
Holds(o) ==
    op[o].pc \in Holding =>
      lock # None /\ lock.owner = o /\ lock.age \in 0..TouchEvery
Locked == \A o \in Ops : Holds(o) /\ ~op[o].compromised

\* Refresh tokens are those issued.
Issued ==
    /\ valid \subseteq 1..issued
    /\ file.cred \in -1..issued
    /\ \A o \in Ops : op[o].cred \in 0..issued

\* A login that has not written yet brings a token of its own; a logout
\* brings none.
Pending(o) == op[o].kind = "login" /\ op[o].pc \in {"locking", "locked"}
Fresh(o) ==
    Pending(o) =>
      /\ op[o].cred \in valid /\ op[o].cred # file.cred
      /\ \A q \in Ops : q # o /\ (Pending(q) \/ op[q].pc = "replying")
                        => op[q].cred # op[o].cred
Brings(o) ==
    op[o].kind = "logout" /\ op[o].pc \in {"locking", "locked"}
      => op[o].cred = NoCredential

\* What is shown to the provider is what is stored; what it answered is good.
Shows(o) ==
    /\ op[o].pc = "waiting" => op[o].kind \in {"getAuth", "reload"}
    /\ op[o].pc \in {"refreshing", "replying"} => op[o].kind = "getAuth"
    /\ op[o].pc = "refreshing" => op[o].cred = file.cred
                                  /\ op[o].cred # NoCredential
    /\ op[o].pc = "replying" => op[o].cred \in valid
Rotating == \A o \in Ops : Fresh(o) /\ Brings(o) /\ Shows(o)

\* Unless an answer was lost.
Stored ==
    \/ lost \/ file.cred = NoCredential \/ file.cred \in valid
    \/ \E o \in Ops : op[o].pc = "replying"

IInv == TypeOK /\ Locked /\ Issued /\ Rotating /\ Stored /\ RefreshedOnce
-----------------------------------------------------------------------------
(* Type correctness *)

Results == {None, "ok", "failed", "aborted", "refused", "died"}

LEMMA Numbers ==
    /\ Calls \subseteq Ops /\ Reloads \subseteq Ops /\ Ops \subseteq Nat
    /\ 1 \in Tokens /\ Tokens \subseteq Nat \ {0}
  BY BoundsAssumption, SMT DEF Calls, Reloads, Ops, Tokens

Pcs == Holding \cup {"idle", "waiting", "locking", "returning", "done"}
Kinds == {None, "getAuth", "login", "logout", "reload"}

LEMMA UnusedTyped == Unused \in Operations
  BY BoundsAssumption, SMT
  DEF Unused, Operations, NoCredential, Unknown, LockDeadline, Holding

LEMMA SetPc ==
    ASSUME NEW r \in Operations, NEW v \in Pcs
    PROVE  [r EXCEPT !.pc = v] \in Operations
  BY SMT DEF Operations, Pcs
LEMMA SetProc ==
    ASSUME NEW r \in Operations, NEW v \in Processes
    PROVE  [r EXCEPT !.proc = v] \in Operations
  BY SMT DEF Operations
LEMMA SetKind ==
    ASSUME NEW r \in Operations, NEW v \in Kinds
    PROVE  [r EXCEPT !.kind = v] \in Operations
  BY SMT DEF Operations, Kinds
LEMMA SetCred ==
    ASSUME NEW r \in Operations, NEW v \in Tokens \cup {NoCredential}
    PROVE  [r EXCEPT !.cred = v] \in Operations
  BY SMT DEF Operations
LEMMA SetSeen ==
    ASSUME NEW r \in Operations, NEW v \in Nat
    PROVE  [r EXCEPT !.seen = v] \in Operations
  BY SMT DEF Operations
LEMMA SetShown ==
    ASSUME NEW r \in Operations, NEW v \in Tokens \cup {NoCredential}
    PROVE  [r EXCEPT !.shown = v] \in Operations
  BY SMT DEF Operations
LEMMA SetReads ==
    ASSUME NEW r \in Operations, NEW v \in Reloads \cup {None}
    PROVE  [r EXCEPT !.reads = v] \in Operations
  BY SMT DEF Operations
LEMMA SetTimer ==
    ASSUME NEW r \in Operations, NEW v \in 0..LockDeadline
    PROVE  [r EXCEPT !.timer = v] \in Operations
  BY SMT DEF Operations
LEMMA SetCancelled ==
    ASSUME NEW r \in Operations, NEW v \in BOOLEAN
    PROVE  [r EXCEPT !.cancelled = v] \in Operations
  BY SMT DEF Operations
LEMMA SetCompromised ==
    ASSUME NEW r \in Operations, NEW v \in BOOLEAN
    PROVE  [r EXCEPT !.compromised = v] \in Operations
  BY SMT DEF Operations
LEMMA SetResult ==
    ASSUME NEW r \in Operations, NEW v \in Results
    PROVE  [r EXCEPT !.result = v] \in Operations
  BY SMT DEF Operations, Results

(* These fields say nothing of how far an operation is. *)

LEMMA TimerTyped ==
    ASSUME NEW r \in Operations, NEW n \in 0..LockDeadline
    PROVE  LET m == [r EXCEPT !.timer = n] IN
           /\ m \in Operations
           /\ m.pc = r.pc /\ m.kind = r.kind /\ m.cred = r.cred
           /\ m.result = r.result /\ m.compromised = r.compromised
  <1> DEFINE m == [r EXCEPT !.timer = n]
  <1>1. m \in Operations
    BY SetTimer
  <1>2. /\ m.pc = r.pc /\ m.kind = r.kind /\ m.cred = r.cred
        /\ m.result = r.result
    BY SMT DEF Operations
  <1>3. m.compromised = r.compromised
    BY Zenon DEF Operations
  <1> QED
    BY <1>1, <1>2, <1>3

LEMMA SeenTyped ==
    ASSUME NEW r \in Operations, NEW n \in Nat
    PROVE  LET m == [r EXCEPT !.seen = n] IN
           /\ m \in Operations
           /\ m.pc = r.pc /\ m.kind = r.kind /\ m.cred = r.cred
           /\ m.result = r.result /\ m.compromised = r.compromised
  <1> DEFINE m == [r EXCEPT !.seen = n]
  <1>1. m \in Operations
    BY SetSeen
  <1>2. /\ m.pc = r.pc /\ m.kind = r.kind /\ m.cred = r.cred
        /\ m.result = r.result
    BY SMT DEF Operations
  <1>3. m.compromised = r.compromised
    BY Zenon DEF Operations
  <1> QED
    BY <1>1, <1>2, <1>3

LEMMA ShownTyped ==
    ASSUME NEW r \in Operations, NEW n \in Tokens \cup {NoCredential}
    PROVE  LET m == [r EXCEPT !.shown = n] IN
           /\ m \in Operations
           /\ m.pc = r.pc /\ m.kind = r.kind /\ m.cred = r.cred
           /\ m.result = r.result /\ m.compromised = r.compromised
  <1> DEFINE m == [r EXCEPT !.shown = n]
  <1>1. m \in Operations
    BY SetShown
  <1>2. /\ m.pc = r.pc /\ m.kind = r.kind /\ m.cred = r.cred
        /\ m.result = r.result
    BY SMT DEF Operations
  <1>3. m.compromised = r.compromised
    BY Zenon DEF Operations
  <1> QED
    BY <1>1, <1>2, <1>3

(* The records the actions put together *)

Ended(outcome, b) ==
    [Unused EXCEPT !.pc = "done", !.result = outcome, !.cancelled = b]

LEMMA EndedTyped ==
    ASSUME NEW outcome \in Results, NEW b \in BOOLEAN
    PROVE  /\ Ended(outcome, b) \in Operations
           /\ Ended(outcome, b).pc = "done"
           /\ Ended(outcome, b).cred = NoCredential
           /\ Ended(outcome, b).result = outcome
           /\ ~Ended(outcome, b).compromised
  <1>1. "done" \in Pcs
    BY DEF Pcs
  <1>2. Ended(outcome, b) \in Operations
    BY <1>1, UnusedTyped, SetPc, SetResult, SetCancelled DEF Ended
  <1>3. /\ Ended(outcome, b).pc = "done"
        /\ Ended(outcome, b).cred = NoCredential
        /\ Ended(outcome, b).result = outcome
    BY SMT DEF Ended, Unused
  <1>4. ~Ended(outcome, b).compromised
    BY Zenon DEF Ended, Unused
  <1> QED
    BY <1>2, <1>3, <1>4

LEMMA OverTyped ==
    ASSUME TypeOK, NEW o \in Ops, NEW outcome \in Results
    PROVE  /\ Over(o, outcome) \in Operations
           /\ Over(o, outcome).pc = "done"
           /\ Over(o, outcome).cred = NoCredential
           /\ Over(o, outcome).result = outcome
           /\ ~Over(o, outcome).compromised
  <1> DEFINE b == op[o].cancelled /\ outcome = "aborted"
  <1>1. Over(o, outcome) = Ended(outcome, b)
    BY Zenon DEF Over, Ended
  <1>2. b \in BOOLEAN
    OBVIOUS
  <1> HIDE DEF b
  <1> QED
    BY <1>1, <1>2, EndedTyped

LEMMA BegunTyped ==
    ASSUME NEW p \in Processes, NEW k \in Kinds \ {None},
           NEW label \in {"waiting", "locking"}
    PROVE  /\ Begun(p, k, label) \in Operations
           /\ Begun(p, k, label).pc = label
           /\ Begun(p, k, label).kind = k
           /\ Begun(p, k, label).cred = NoCredential
           /\ ~Begun(p, k, label).compromised
           /\ Begun(p, k, label).result = None
  <1>1. label \in Pcs /\ k \in Kinds
    BY DEF Pcs
  <1>2. Begun(p, k, label) \in Operations
    BY <1>1, UnusedTyped, SetProc, SetKind, SetPc DEF Begun
  <1>3. /\ Begun(p, k, label).pc = label
        /\ Begun(p, k, label).kind = k
        /\ Begun(p, k, label).cred = NoCredential
        /\ Begun(p, k, label).result = None
    BY SMT DEF Begun, Unused
  <1>4. ~Begun(p, k, label).compromised
    BY Zenon DEF Begun, Unused
  <1> QED
    BY <1>2, <1>3, <1>4

LEMMA ReadsTyped ==
    ASSUME TypeOK, NEW c \in Ops, NEW t
    PROVE  /\ Reads(c, t) \in Operations
           /\ \/ Reads(c, t) = Over(c, "ok")
              \/ /\ Reads(c, t).pc = "locking"
                 /\ Reads(c, t).kind = op[c].kind
                 /\ Reads(c, t).cred = op[c].cred
                 /\ Reads(c, t).compromised = op[c].compromised
                 /\ Reads(c, t).result = op[c].result
  <1> DEFINE m == [op[c] EXCEPT !.pc = "locking", !.reads = None]
  <1>1. op[c] \in Operations
    BY DEF TypeOK
  <1>2. "locking" \in Pcs /\ None \in Reloads \cup {None} /\ "ok" \in Results
    BY DEF Pcs, Results
  <1>3. m \in Operations
    BY <1>1, <1>2, SetPc, SetReads
  <1>4. /\ m.pc = "locking" /\ m.kind = op[c].kind /\ m.cred = op[c].cred
        /\ m.result = op[c].result
    BY <1>1, SMT DEF Operations
  <1>5. m.compromised = op[c].compromised
    BY <1>1, Zenon DEF Operations
  <1>6. Reads(c, t) = Over(c, "ok") \/ Reads(c, t) = m
    BY Zenon DEF Reads
  <1> HIDE DEF m
  <1> QED
    BY <1>2, <1>3, <1>4, <1>5, <1>6, OverTyped
-----------------------------------------------------------------------------
(* What a step does to the operations *)

\* It leaves what the invariant looks at.
Same(c) ==
    /\ op'[c].pc = op[c].pc /\ op'[c].kind = op[c].kind
    /\ op'[c].cred = op[c].cred /\ op'[c].result = op[c].result
    /\ op'[c].compromised = op[c].compromised

\* It gets the lock.
Enters(c) ==
    /\ op[c].pc = "locking" /\ op'[c].pc = "locked"
    /\ op'[c].kind = op[c].kind /\ op'[c].cred = op[c].cred
    /\ op'[c].result = op[c].result
    /\ op'[c].compromised = op[c].compromised

\* It ends or releases the lock, or begins without a token.
Rests(c) ==
    /\ \/ op'[c].pc \in {"done", "returning"}
       \/ /\ op'[c].pc \in {"waiting", "locking"}
          /\ op'[c].kind \in {"getAuth", "reload"}
       \/ /\ op'[c].pc = "locking" /\ op'[c].kind = "logout"
          /\ op'[c].cred = NoCredential
       \/ op'[c].pc = "releasing" /\ op[c].pc \in Holding
    /\ op'[c].cred \in 0..issued
    /\ ~op'[c].compromised

\* It asks the provider for the stored credential.
Asks(c) ==
    /\ op[c].pc = "locked" /\ op'[c].pc = "refreshing"
    /\ op'[c].kind = "getAuth"
    /\ op'[c].cred = file.cred /\ op'[c].cred # NoCredential
    /\ op'[c].cred \in 0..issued /\ ~op'[c].compromised

Moves(c) == Same(c) \/ Rests(c) \/ Enters(c) \/ Asks(c)
Stays(c) == op'[c].pc \in Holding => op[c].pc \in Holding

LEMMA OneChanged ==
    ASSUME TypeOK, NEW o \in Ops, NEW m \in Operations,
           op' = [op EXCEPT ![o] = m]
    PROVE  /\ op' \in [Ops -> Operations] /\ op'[o] = m
           /\ \A c \in Ops : c # o => op'[c] = op[c]
  BY DEF TypeOK

LEMMA SameUnchanged ==
    ASSUME NEW c, op'[c] = op[c]
    PROVE  Same(c)
  BY DEF Same

LEMMA OverRests ==
    ASSUME TypeOK, Issued, NEW o \in Ops, NEW outcome \in Results,
           op'[o] = Over(o, outcome)
    PROVE  Rests(o) /\ op'[o].result = outcome /\ op'[o] \in Operations
  <1>1. NoCredential \in 0..issued
    BY Numbers, SMT DEF TypeOK, NoCredential
  <1> QED
    BY <1>1, OverTyped DEF Rests

LEMMA FinishMoves ==
    ASSUME TypeOK, Locked, Issued, Rotating,
           NEW o \in Ops, NEW outcome \in Results, Finish(o, outcome)
    PROVE  /\ op' \in [Ops -> Operations]
           /\ reload' \in [Processes -> Reloads \cup {None}]
           /\ Rests(o) /\ \A c \in Ops : Moves(c)
           /\ \A c \in Ops : op'[c].result \in {op[c].result, outcome, "ok"}
           /\ \A c \in Ops : c # o /\ op[c].pc # "waiting" => Same(c)
  <1> DEFINE new(c) == IF c = o THEN Over(o, outcome)
                       ELSE IF c \notin ReadersOf(o) THEN op[c]
                       ELSE IF outcome = "ok" THEN Reads(c, op[o].cred)
                       ELSE Over(c, outcome)
  <1>1. op' = [c \in Ops |-> new(c)]
    BY Zenon DEF Finish
  <1>2. \A c \in Ops : op'[c] = new(c)
    BY <1>1
  <1>3. "ok" \in Results
    BY DEF Results
  <1>4. ASSUME NEW c \in Ops
        PROVE  /\ new(c) \in Operations /\ Moves(c)
               /\ op'[c].result \in {op[c].result, outcome, "ok"}
               /\ c # o /\ op[c].pc # "waiting" => Same(c)
    <2>1. CASE c = o
      BY <1>2, <2>1, OverTyped, OverRests DEF Moves
    <2>2. CASE c # o /\ c \notin ReadersOf(o)
      BY <1>2, <2>2, SameUnchanged DEF Moves, TypeOK
    <2>3. CASE c # o /\ c \in ReadersOf(o) /\ new(c) = Over(c, outcome)
      BY <1>2, <2>3, OverTyped, OverRests DEF Moves, ReadersOf
    <2>4. CASE c # o /\ c \in ReadersOf(o) /\ new(c) = Reads(c, op[o].cred)
      <3>1. op[c].pc = "waiting" /\ op[c].kind \in {"getAuth", "reload"}
        BY <2>4 DEF ReadersOf, Rotating, Shows
      <3>2. ~op[c].compromised /\ op[c].cred \in 0..issued
        BY DEF Locked, Issued
      <3>3. CASE Reads(c, op[o].cred) = Over(c, "ok")
        BY <1>2, <1>3, <2>4, <3>1, <3>3, OverTyped, OverRests DEF Moves
      <3>4. CASE Reads(c, op[o].cred) # Over(c, "ok")
        BY <1>2, <2>4, <3>1, <3>2, <3>4, ReadsTyped DEF Moves, Rests
      <3> QED
        BY <3>3, <3>4
    <2> QED
      BY <2>1, <2>2, <2>3, <2>4, Zenon
  <1>5. Rests(o)
    BY <1>2, OverRests
  <1>6. op' \in [Ops -> Operations]
    BY <1>1, <1>4
  <1>7. reload' \in [Processes -> Reloads \cup {None}]
    BY DEF Finish, TypeOK
  <1>8. \A c \in Ops : Moves(c)
    BY <1>4
  <1>9. \A c \in Ops : op'[c].result \in {op[c].result, outcome, "ok"}
    BY <1>4
  <1>10. \A c \in Ops : c # o /\ op[c].pc # "waiting" => Same(c)
    BY <1>4
  <1> QED
    BY <1>5, <1>6, <1>7, <1>8, <1>9, <1>10
-----------------------------------------------------------------------------
(* Steps that neither write, nor take or release the lock, nor ask the       *)
(* provider                                                                  *)

LEMMA StayLocked ==
    ASSUME Locked, \A c \in Ops : Stays(c) /\ ~op'[c].compromised,
           lock' = lock
    PROVE  Locked'
  BY DEF Locked, Holds, Stays

LEMMA QuietLocked ==
    ASSUME Locked, \A c \in Ops : Moves(c) /\ Stays(c), lock' = lock
    PROVE  Locked'
  <1>1. ASSUME NEW c \in Ops
        PROVE  Holds(c)' /\ ~op'[c].compromised
    <2>1. Holds(c) /\ ~op[c].compromised /\ Moves(c) /\ Stays(c)
      BY DEF Locked
    <2>2. ~op'[c].compromised
      BY <2>1 DEF Moves, Same, Rests, Enters, Asks
    <2> QED
      BY <2>1, <2>2 DEF Holds, Stays
  <1> QED
    BY <1>1 DEF Locked

LEMMA QuietIssued ==
    ASSUME Issued, \A c \in Ops : Moves(c),
           UNCHANGED <<valid, issued>>, file'.cred = file.cred
    PROVE  Issued'
  <1>1. \A c \in Ops : op'[c].cred \in 0..issued
    BY DEF Moves, Same, Rests, Enters, Asks, Issued
  <1> QED
    BY <1>1 DEF Issued

LEMMA QuietRotating ==
    ASSUME Rotating, \A c \in Ops : Moves(c),
           UNCHANGED valid, file'.cred = file.cred
    PROVE  Rotating'
  <1>1. ASSUME NEW c \in Ops
        PROVE  Shows(c)' /\ Brings(c)'
    <2>1. Moves(c) /\ Shows(c) /\ Brings(c)
      BY DEF Rotating
    <2>2. CASE Same(c)
      BY <2>1, <2>2 DEF Same, Shows, Brings
    <2>3. CASE Rests(c)
      BY <2>3 DEF Rests, Shows, Brings
    <2>4. CASE Enters(c)
      BY <2>1, <2>4 DEF Enters, Shows, Brings
    <2>5. CASE Asks(c)
      BY <2>5 DEF Asks, Shows, Brings
    <2> QED
      BY <2>1, <2>2, <2>3, <2>4, <2>5 DEF Moves
  <1>2. ASSUME NEW c \in Ops
        PROVE  /\ Pending(c)' => Pending(c) /\ op'[c].cred = op[c].cred
               /\ op'[c].pc = "replying" => op[c].pc = "replying"
                                            /\ op'[c].cred = op[c].cred
    <2>1. Moves(c)
      OBVIOUS
    <2>2. CASE Same(c)
      BY <2>2 DEF Same, Pending
    <2>3. CASE Rests(c)
      BY <2>3 DEF Rests, Pending
    <2>4. CASE Enters(c)
      BY <2>4 DEF Enters, Pending
    <2>5. CASE Asks(c)
      BY <2>5 DEF Asks, Pending
    <2> QED
      BY <2>1, <2>2, <2>3, <2>4, <2>5 DEF Moves
  <1>3. ASSUME NEW c \in Ops
        PROVE  Fresh(c)'
    <2> SUFFICES ASSUME Pending(c)'
                 PROVE  /\ op'[c].cred \in valid /\ op'[c].cred # file.cred
                        /\ \A q \in Ops :
                             q # c /\ (Pending(q)' \/ op'[q].pc = "replying")
                               => op'[q].cred # op'[c].cred
      BY DEF Fresh
    <2>1. Fresh(c) /\ Pending(c) /\ op'[c].cred = op[c].cred
      BY <1>2 DEF Rotating
    <2>2. ASSUME NEW q \in Ops, q # c, Pending(q)' \/ op'[q].pc = "replying"
          PROVE  op'[q].cred # op'[c].cred
      BY <1>2, <2>1, <2>2 DEF Fresh
    <2> QED
      BY <2>1, <2>2 DEF Fresh
  <1> QED
    BY <1>1, <1>3 DEF Rotating

\* No answer is dropped without a note, and no refusal taken.
Kept ==
    /\ lost => lost'
    /\ lost' \/ \A c \in Ops : op[c].pc = "replying" => op'[c].pc = "replying"
Unrefused ==
    \A c \in Ops : op'[c].result = "refused" =>
      lost \/ \E q \in Ops : op[q].result = "refused"

LEMMA QuietStored ==
    ASSUME Stored, UNCHANGED valid, file'.cred = file.cred, Kept
    PROVE  Stored'
  BY DEF Stored, Kept

LEMMA QuietRefreshed ==
    ASSUME RefreshedOnce, Kept, Unrefused
    PROVE  RefreshedOnce'
  BY DEF RefreshedOnce, Kept, Unrefused

\* What such steps have in common.
Quiet ==
    /\ UNCHANGED <<valid, issued>> /\ file'.cred = file.cred
    /\ \A c \in Ops : Moves(c)
    /\ Kept /\ Unrefused

LEMMA QuietStep ==
    ASSUME IInv, TypeOK', Quiet, Locked'
    PROVE  IInv'
  BY QuietIssued, QuietRotating, QuietStored, QuietRefreshed
  DEF IInv, Quiet

LEMMA OneQuiet ==
    ASSUME IInv, NEW o \in Ops, NEW m \in Operations,
           op' = [op EXCEPT ![o] = m], Moves(o),
           m.result = "refused" => lost \/ m.result = op[o].result,
           op[o].pc = "replying" => lost' \/ m.pc = "replying",
           lost => lost', UNCHANGED <<valid, issued>>, file'.cred = file.cred
    PROVE  Quiet /\ op' \in [Ops -> Operations]
  <1>1. TypeOK
    BY DEF IInv
  <1>2. /\ op' \in [Ops -> Operations] /\ op'[o] = m
        /\ \A c \in Ops : c # o => op'[c] = op[c]
    BY <1>1, OneChanged
  <1>3. \A c \in Ops : Moves(c)
    BY <1>2, SameUnchanged DEF Moves
  <1>4. Kept
    BY <1>2 DEF Kept
  <1>5. Unrefused
    BY <1>2 DEF Unrefused
  <1> QED
    BY <1>2, <1>3, <1>4, <1>5 DEF Quiet

LEMMA Unmoved ==
    ASSUME NEW r \in Operations, NEW e \in BOOLEAN
    PROVE  LET m == [r EXCEPT !.cancelled = e] IN
           /\ m \in Operations
           /\ m.pc = r.pc /\ m.kind = r.kind /\ m.cred = r.cred
           /\ m.result = r.result /\ m.compromised = r.compromised
  <1> DEFINE m == [r EXCEPT !.cancelled = e]
  <1>1. m \in Operations
    BY SetCancelled
  <1>2. /\ m.pc = r.pc /\ m.kind = r.kind /\ m.cred = r.cred
        /\ m.result = r.result
    BY SMT DEF Operations
  <1>3. m.compromised = r.compromised
    BY Zenon DEF Operations
  <1> QED
    BY <1>1, <1>2, <1>3

LEMMA CancelInv ==
    ASSUME IInv, NEW c \in Calls, Cancel(c)
    PROVE  IInv'
  <1> DEFINE m == [op[c] EXCEPT !.cancelled = TRUE]
  <1>1. c \in Ops /\ op[c] \in Operations
    BY Numbers DEF IInv, TypeOK
  <1>2. op' = [op EXCEPT ![c] = m]
    BY <1>1, Zenon DEF Cancel
  <1>3. /\ m \in Operations
        /\ m.pc = op[c].pc /\ m.kind = op[c].kind /\ m.cred = op[c].cred
        /\ m.result = op[c].result /\ m.compromised = op[c].compromised
    BY <1>1, Unmoved
  <1> HIDE DEF m
  <1>4. op'[c] = m /\ \A d \in Ops : d # c => op'[d] = op[d]
    BY <1>1, <1>2, <1>3, OneChanged DEF IInv
  <1>5. Moves(c)
    BY <1>3, <1>4 DEF Moves, Same
  <1>6. UNCHANGED <<fileVars, providerVars, worldVars, lost>>
    BY DEF Cancel
  <1>7. Quiet /\ op' \in [Ops -> Operations]
    BY <1>1, <1>2, <1>3, <1>5, <1>6, OneQuiet DEF fileVars, providerVars
  <1>8. TypeOK'
    BY <1>6, <1>7 DEF IInv, TypeOK, fileVars, providerVars, worldVars
  <1>9. Locked'
    <2>1. \A d \in Ops : Stays(d)
      BY <1>3, <1>4 DEF Stays
    <2> QED
      BY <1>6, <1>7, <2>1, QuietLocked DEF IInv, Quiet, fileVars
  <1> QED
    BY <1>7, <1>8, <1>9, QuietStep

LEMMA StillQuiet ==
    ASSUME op' = op, UNCHANGED <<valid, issued>>, file'.cred = file.cred,
           lost' = lost
    PROVE  Quiet
  BY DEF Quiet, Moves, Same, Kept, Unrefused

LEMMA MovesKeepHealthy ==
    ASSUME Locked, NEW c \in Ops, Moves(c)
    PROVE  ~op'[c].compromised
  BY DEF Locked, Moves, Same, Rests, Enters, Asks

\* One operation moves and the lock stays as it is.
LEMMA OneQuietInv ==
    ASSUME IInv, NEW o \in Ops, NEW m \in Operations,
           op' = [op EXCEPT ![o] = m], Moves(o), Stays(o),
           m.result = "refused" => lost \/ m.result = op[o].result,
           op[o].pc = "replying" => lost' \/ m.pc = "replying",
           lost => lost', UNCHANGED <<valid, issued>>, file'.cred = file.cred,
           lock' = lock, op' \in [Ops -> Operations] => TypeOK'
    PROVE  IInv'
  <1>1. Quiet /\ op' \in [Ops -> Operations]
    BY OneQuiet
  <1>2. \A c \in Ops : Stays(c)
    BY OneChanged DEF IInv, Stays
  <1>3. Locked'
    BY <1>1, <1>2, QuietLocked DEF IInv, Quiet
  <1> QED
    BY <1>1, <1>3, QuietStep

LEMMA LogoutInv ==
    ASSUME IInv, NEW c \in Calls, NEW p \in Processes, Logout(c, p)
    PROVE  IInv'
  <1> DEFINE m == Begun(p, "logout", "locking")
  <1>1. c \in Ops /\ op[c].pc = "idle"
    BY Numbers DEF Logout, Begins
  <1>2. op' = [op EXCEPT ![c] = m]
    BY DEF Logout
  <1>3. "logout" \in Kinds \ {None}
    BY NoneAssumption DEF Kinds
  <1>4. /\ m \in Operations /\ m.pc = "locking" /\ m.kind = "logout"
        /\ m.cred = NoCredential /\ ~m.compromised /\ m.result = None
    BY <1>3, BegunTyped
  <1> HIDE DEF m
  <1>5. op'[c] = m
    BY <1>1, <1>2, <1>4, OneChanged DEF IInv
  <1>6. NoCredential \in 0..issued
    BY Numbers, SMT DEF IInv, TypeOK, NoCredential
  <1>7. Moves(c) /\ Stays(c)
    BY <1>4, <1>5, <1>6 DEF Moves, Rests, Stays, Holding
  <1>8. UNCHANGED <<fileVars, providerVars, worldVars, lost>>
    BY DEF Logout
  <1>9. op' \in [Ops -> Operations] => TypeOK'
    BY <1>8 DEF IInv, TypeOK, fileVars, providerVars, worldVars
  <1>10. m.result # "refused"
    BY <1>4, NoneAssumption
  <1> QED
    BY <1>1, <1>2, <1>4, <1>7, <1>8, <1>9, <1>10, OneQuietInv
    DEF fileVars, providerVars

LEMMA GetAuthInv ==
    ASSUME IInv, NEW c \in Calls, NEW p \in Processes, GetAuth(c, p)
    PROVE  IInv'
  <1>1. c \in Ops /\ op[c].pc = "idle" /\ "getAuth" \in Kinds \ {None}
    BY Numbers, NoneAssumption DEF GetAuth, Begins, Kinds
  <1>2. UNCHANGED <<file, lock, cache, providerVars, worldVars, lost>>
    BY DEF GetAuth
  <1>3. NoCredential \in 0..issued
    BY Numbers, SMT DEF IInv, TypeOK, NoCredential
  <1>4. "ok" \in Results
    BY DEF Results
  <1>5. TypeOK
    BY DEF IInv
  <1>6. CASE Cached(p)
    <2> DEFINE m == IF Decided(cache[p].cred) = "done" THEN Over(c, "ok")
                    ELSE Begun(p, "getAuth", "locking")
    <2>1. op' = [op EXCEPT ![c] = m] /\ UNCHANGED reload
      BY <1>6 DEF GetAuth
    <2>2. /\ m \in Operations /\ m.cred = NoCredential /\ ~m.compromised
          /\ m.result \in {"ok", None}
          /\ m.pc = "done" \/ (m.pc = "locking" /\ m.kind = "getAuth")
      BY <1>1, <1>4, <1>5, OverTyped, BegunTyped
    <2> HIDE DEF m
    <2>3. op'[c] = m
      BY <1>1, <1>5, <2>1, <2>2, OneChanged
    <2>4. Moves(c) /\ Stays(c)
      BY <1>3, <2>2, <2>3 DEF Moves, Rests, Stays, Holding
    <2>5. op' \in [Ops -> Operations] => TypeOK'
      BY <1>2, <1>5, <2>1 DEF TypeOK, providerVars, worldVars
    <2>6. m.result # "refused"
      BY <2>2, NoneAssumption
    <2> QED
      BY <1>1, <1>2, <2>1, <2>2, <2>4, <2>5, <2>6, OneQuietInv
      DEF providerVars
  <1>7. CASE ~Cached(p)
    <2> DEFINE b == Begun(p, "getAuth", "waiting")
    <2>1. PICK r \in Reloads :
            /\ reload' = [reload EXCEPT ![p] = r]
            /\ op' = [op EXCEPT
                 ![c] = [b EXCEPT !.reads = r],
                 ![r] = IF reload[p] = r THEN @
                        ELSE Begun(p, "reload", "locking")]
            /\ reload[p] = r \/ Begins(r, p)
      BY <1>7 DEF GetAuth
    <2>2. r \in Ops /\ r # c /\ "reload" \in Kinds \ {None}
      BY Numbers, NoneAssumption, BoundsAssumption, SMT
      DEF Calls, Reloads, Kinds
    <2> DEFINE m == [b EXCEPT !.reads = r]
    <2>3. /\ b \in Operations /\ b.pc = "waiting" /\ b.kind = "getAuth"
          /\ b.cred = NoCredential /\ ~b.compromised /\ b.result = None
      BY <1>1, BegunTyped
    <2> HIDE DEF b
    <2>4. m \in Operations
      BY <2>1, <2>3, SetReads
    <2>5. /\ m.pc = "waiting" /\ m.kind = "getAuth" /\ m.cred = NoCredential
          /\ m.result = None
      BY <2>3, SMT DEF Operations
    <2>6. ~m.compromised
      BY <2>3, Zenon DEF Operations
    <2> HIDE DEF m
    <2> DEFINE n == IF reload[p] = r THEN op[r]
                    ELSE Begun(p, "reload", "locking")
    <2>7. op' = [[op EXCEPT ![c] = m] EXCEPT ![r] = n]
      BY <1>5, <2>1, <2>2 DEF TypeOK, m
    <2>8. /\ n \in Operations
          /\ n = op[r] \/ (/\ n.pc = "locking" /\ n.kind = "reload"
                           /\ n.cred = NoCredential /\ ~n.compromised
                           /\ n.result = None /\ op[r].pc = "idle")
      BY <1>5, <2>1, <2>2, BegunTyped DEF TypeOK, Begins
    <2> HIDE DEF n
    <2>9. /\ op' \in [Ops -> Operations] /\ op'[c] = m /\ op'[r] = n
          /\ \A d \in Ops : d # c /\ d # r => op'[d] = op[d]
      BY <1>1, <1>5, <2>2, <2>4, <2>7, <2>8 DEF TypeOK
    <2>10. Rests(c) /\ (Same(r) \/ Rests(r))
      BY <1>3, <2>5, <2>6, <2>8, <2>9, SameUnchanged DEF Rests
    <2>11. \A d \in Ops : Moves(d)
      BY <2>9, <2>10, SameUnchanged DEF Moves
    <2>12. \A d \in Ops : Stays(d)
      BY <2>5, <2>8, <2>9 DEF Stays, Holding
    <2>13. Kept
      BY <1>1, <1>2, <2>8, <2>9 DEF Kept
    <2>14. Unrefused
      BY <2>5, <2>8, <2>9, NoneAssumption DEF Unrefused
    <2>15. Quiet
      BY <1>2, <2>11, <2>13, <2>14 DEF Quiet, providerVars
    <2>16. TypeOK'
      BY <1>2, <1>5, <2>1, <2>9 DEF TypeOK, providerVars, worldVars
    <2>17. Locked'
      BY <1>2, <2>11, <2>12, QuietLocked DEF IInv
    <2> QED
      BY <2>15, <2>16, <2>17, QuietStep
  <1> QED
    BY <1>6, <1>7

LEMMA CancelReaderInv ==
    ASSUME IInv, NEW c \in Calls, CancelReader(c)
    PROVE  IInv'
  <1> DEFINE over == Over(c, "aborted")
             m == [over EXCEPT !.cancelled = TRUE]
             told(d) == [op[d] EXCEPT !.cancelled =
                                        op[d].cancelled \/ Abandoned(c)]
  <1>1. c \in Ops /\ op[c].pc = "waiting" /\ TypeOK
    BY Numbers DEF CancelReader, IInv, TypeOK
  <1>2. "aborted" \in Results
    BY DEF Results
  <1>3. /\ over \in Operations /\ over.pc = "done"
        /\ over.cred = NoCredential /\ ~over.compromised
        /\ over.result = "aborted"
    BY <1>1, <1>2, OverTyped
  <1>4. op' = [d \in Ops |-> IF d = c THEN m
                             ELSE IF d = op[c].reads THEN told(d) ELSE op[d]]
    BY Zenon DEF CancelReader
  <1> HIDE DEF over
  <1>5. /\ m \in Operations /\ m.pc = "done" /\ m.cred = NoCredential
        /\ ~m.compromised /\ m.result = "aborted"
    BY <1>3, Unmoved
  <1>6. ASSUME NEW d \in Ops
        PROVE  /\ told(d) \in Operations
               /\ told(d).pc = op[d].pc /\ told(d).kind = op[d].kind
               /\ told(d).cred = op[d].cred
               /\ told(d).result = op[d].result
               /\ told(d).compromised = op[d].compromised
    <2> DEFINE e == op[d].cancelled \/ Abandoned(c)
    <2>1. e \in BOOLEAN /\ op[d] \in Operations
      BY <1>1 DEF TypeOK
    <2> HIDE DEF e
    <2> QED
      BY <2>1, Unmoved DEF e
  <1> HIDE DEF m, told
  <1>7. /\ op' \in [Ops -> Operations] /\ op'[c] = m
        /\ \A d \in Ops : d # c => op'[d] = told(d) \/ op'[d] = op[d]
    BY <1>1, <1>4, <1>5, <1>6 DEF TypeOK
  <1>8. UNCHANGED <<file, lock, cache, providerVars, worldVars, lost>>
    BY DEF CancelReader
  <1>9. reload' \in [Processes -> Reloads \cup {None}]
    BY <1>1 DEF CancelReader, TypeOK
  <1>10. NoCredential \in 0..issued
    BY <1>1, Numbers, SMT DEF TypeOK, NoCredential
  <1>11. Rests(c)
    BY <1>5, <1>7, <1>10 DEF Rests
  <1>12. \A d \in Ops : d # c => Same(d)
    BY <1>6, <1>7 DEF Same
  <1>13. \A d \in Ops : Moves(d)
    BY <1>11, <1>12 DEF Moves
  <1>14. \A d \in Ops : Stays(d)
    BY <1>5, <1>7, <1>12 DEF Stays, Same, Holding
  <1>15. Kept
    BY <1>1, <1>8, <1>12 DEF Kept, Same
  <1>16. Unrefused
    BY <1>5, <1>7, <1>12 DEF Unrefused, Same
  <1>17. Quiet
    BY <1>8, <1>13, <1>15, <1>16 DEF Quiet, providerVars
  <1>18. TypeOK'
    BY <1>1, <1>7, <1>8, <1>9 DEF TypeOK, providerVars, worldVars
  <1>19. Locked'
    BY <1>8, <1>13, <1>14, QuietLocked DEF IInv
  <1> QED
    BY <1>17, <1>18, <1>19, QuietStep

\* Operation o ends or fails to get the lock.
LEMMA FinishInv ==
    ASSUME IInv, NEW o \in Ops, NEW outcome \in Results, Finish(o, outcome),
           op[o].pc \in {"locking", "returning"},
           outcome = "refused" => op[o].result = "refused",
           UNCHANGED <<file, lock, providerVars, worldVars, lost>>,
           cache' \in
             [Processes -> [rev : Nat, cred : Tokens \cup {NoCredential}]]
    PROVE  IInv'
  <1>1. TypeOK /\ Locked /\ Issued /\ Rotating
    BY DEF IInv
  <1>2. /\ op' \in [Ops -> Operations]
        /\ reload' \in [Processes -> Reloads \cup {None}]
        /\ Rests(o) /\ \A c \in Ops : Moves(c)
    BY <1>1, FinishMoves
  <1>9. \A c \in Ops : c # o /\ op[c].pc # "waiting" => Same(c)
    BY ONLY <1>1, FinishMoves, Finish(o, outcome), o \in Ops,
            outcome \in Results
  <1>10. \A c \in Ops : op'[c].result \in {op[c].result, outcome, "ok"}
    BY <1>1, FinishMoves
  <1>3. TypeOK'
    BY <1>1, <1>2 DEF TypeOK, providerVars, worldVars
  <1>4. ASSUME NEW c \in Ops
        PROVE  Stays(c)
    <2>1. CASE c = o
      BY <1>2, <2>1 DEF Rests, Stays, Holding
    <2>2. CASE c # o /\ op[c].pc # "waiting"
      BY <1>9, <2>2 DEF Same, Stays
    <2>3. CASE op[c].pc = "waiting"
      BY <1>2, <2>3 DEF Moves, Same, Rests, Enters, Asks, Stays, Holding
    <2> QED
      BY <2>1, <2>2, <2>3
  <1>5. Locked'
    BY <1>1, <1>2, <1>4, QuietLocked
  <1>6. Kept
    BY <1>9 DEF Kept, Same
  <1>7. Unrefused
    BY <1>10 DEF Unrefused
  <1>8. Quiet
    BY <1>2, <1>6, <1>7 DEF Quiet, providerVars
  <1> QED
    BY <1>3, <1>5, <1>8, QuietStep

LEMMA GiveUpInv ==
    ASSUME IInv, NEW o \in Ops, GiveUp(o)
    PROVE  IInv'
  <1>1. PICK outcome \in {"aborted", "failed"} : Finish(o, outcome)
    BY DEF GiveUp
  <1>2. /\ op[o].pc = "locking"
        /\ UNCHANGED <<file, lock, cache, providerVars, worldVars, lost>>
    BY DEF GiveUp
  <1>3. outcome \in Results /\ outcome # "refused"
    BY DEF Results
  <1>4. cache' \in
          [Processes -> [rev : Nat, cred : Tokens \cup {NoCredential}]]
    BY <1>2 DEF IInv, TypeOK
  <1> QED
    BY <1>1, <1>2, <1>3, <1>4, FinishInv

LEMMA ReturnInv ==
    ASSUME IInv, NEW o \in Ops, Return(o)
    PROVE  IInv'
  <1>1. /\ Finish(o, op[o].result) /\ op[o].pc = "returning"
        /\ UNCHANGED <<file, lock, providerVars, worldVars, lost>>
    BY DEF Return
  <1>2. TypeOK /\ op[o] \in Operations
    BY DEF IInv, TypeOK
  <1>3. /\ op[o].result \in Results /\ op[o].seen \in Nat
        /\ op[o].cred \in Tokens \cup {NoCredential}
    BY <1>2, SMT DEF Operations, Results
  <1>4. cache' \in
          [Processes -> [rev : Nat, cred : Tokens \cup {NoCredential}]]
    BY <1>2, <1>3 DEF Return, TypeOK
  <1> QED
    BY <1>1, <1>3, <1>4, FinishInv

LEMMA AcquireInv ==
    ASSUME IInv, NEW o \in Ops, Acquire(o)
    PROVE  IInv'
  <1> DEFINE l == [op[o] EXCEPT !.pc = "locked"]
             m == [l EXCEPT !.timer = 0]
  <1>1. /\ op[o] \in Operations /\ op[o].pc = "locking" /\ Locked
        /\ "locked" \in Pcs /\ 0 \in 0..LockDeadline
    BY SMT DEF IInv, TypeOK, Acquire, Pcs, Holding, LockDeadline
  <1>2. op' = [op EXCEPT ![o] = m]
    BY DEF Acquire, IInv, TypeOK
  <1>3. /\ l \in Operations /\ l.pc = "locked" /\ l.kind = op[o].kind
        /\ l.cred = op[o].cred /\ l.result = op[o].result
    BY <1>1, SetPc, SMT DEF Operations
  <1>4. l.compromised = op[o].compromised
    BY <1>1, Zenon DEF Operations
  <1> HIDE DEF l
  <1>5. /\ m \in Operations /\ m.pc = "locked" /\ m.kind = op[o].kind
        /\ m.cred = op[o].cred /\ m.result = op[o].result
        /\ m.compromised = op[o].compromised
    BY <1>1, <1>3, <1>4, TimerTyped
  <1> HIDE DEF m
  <1>6. op'[o] = m /\ \A d \in Ops : d # o => op'[d] = op[d]
    BY <1>2, <1>5, OneChanged DEF IInv
  <1>7. Moves(o)
    BY <1>1, <1>5, <1>6 DEF Moves, Enters
  <1>8. UNCHANGED <<file, cache, reload, providerVars, worldVars, lost>>
    BY DEF Acquire
  <1>9. Quiet /\ op' \in [Ops -> Operations]
    BY <1>1, <1>2, <1>5, <1>7, <1>8, OneQuiet DEF providerVars
  <1>10. lock' = [owner |-> o, age |-> 0] /\ Available(AsyncStale)
    BY DEF Acquire
  <1>11. lock' \in {None} \cup [owner : Ops, age : 0..AsyncStale]
    BY <1>10, SMT DEF AsyncStale
  <1>12. TypeOK'
    BY <1>8, <1>9, <1>11 DEF IInv, TypeOK, providerVars, worldVars
  <1>13. \A d \in Ops : op[d].pc \notin Holding
    <2> SUFFICES ASSUME NEW d \in Ops, op[d].pc \in Holding PROVE FALSE
      OBVIOUS
    <2>1. lock # None /\ lock.age \in 0..TouchEvery
      BY <1>1 DEF Locked, Holds
    <2> QED
      BY <1>10, <2>1, SMT DEF Available, AsyncStale, TouchEvery
  <1>14. lock' # None /\ lock'.owner = o /\ lock'.age \in 0..TouchEvery
    <2>1. lock' \in [owner : Nat, age : Nat]
      BY <1>10, Numbers
    <2> QED
      BY <1>10, <2>1, NoneAssumption, SMT DEF TouchEvery
  <1>15. \A d \in Ops : ~op'[d].compromised
    BY <1>1, <1>9, MovesKeepHealthy DEF Quiet
  <1>16. Locked'
    BY <1>6, <1>13, <1>14, <1>15 DEF Locked, Holds
  <1> QED
    BY <1>9, <1>12, <1>16, QuietStep

LEMMA TouchInv ==
    ASSUME IInv, NEW o \in Ops, Touch(o)
    PROVE  IInv'
  <1>1. lock # None /\ lock.owner = o /\ Locked /\ TypeOK
    BY DEF IInv, Locked, Holds, Touch
  <1>2. /\ lock' = [lock EXCEPT !.age = 0] /\ op' = op
        /\ UNCHANGED <<file, cache, reload, providerVars, worldVars, lost>>
    BY <1>1 DEF Touch
  <1>3. lock \in [owner : Ops, age : 0..AsyncStale]
    BY <1>1 DEF TypeOK
  <1>4. lock' \in [owner : Ops, age : 0..AsyncStale] /\ lock'.owner = o
        /\ lock'.age = 0
    <2>1. 0 \in 0..AsyncStale
      BY SMT DEF AsyncStale
    <2> QED
      BY <1>1, <1>2, <1>3, <2>1
  <1>5. Quiet
    BY <1>2, StillQuiet DEF providerVars
  <1>6. TypeOK'
    BY <1>1, <1>2, <1>4 DEF TypeOK, providerVars, worldVars
  <1>7. lock' # None /\ lock'.age \in 0..TouchEvery
    <2>1. lock' \in [owner : Nat, age : Nat]
      BY <1>4, Numbers, SMT DEF AsyncStale
    <2> QED
      BY <1>4, <2>1, NoneAssumption, SMT DEF TouchEvery
  <1>8. Locked'
    BY <1>1, <1>2, <1>4, <1>7 DEF Locked, Holds
  <1> QED
    BY <1>5, <1>6, <1>8, QuietStep

LEMMA ConstructInv ==
    ASSUME IInv, ~LateStarts, NEW p \in Processes, Construct(p)
    PROVE  IInv'
  <1>1. /\ lock' = None /\ ~HolderWorks /\ TypeOK /\ Locked
        /\ UNCHANGED <<file, reload, op, providerVars, worldVars, lost>>
    BY DEF Construct, IInv
  <1>2. file.cred # Torn =>
          file \in [rev : Nat, cred : Tokens \cup {NoCredential}]
    BY <1>1, SMT DEF TypeOK, Unknown
  <1>3. cache' \in
          [Processes -> [rev : Nat, cred : Tokens \cup {NoCredential}]]
    BY <1>1, <1>2 DEF Construct, TypeOK
  <1>4. TypeOK'
    BY <1>1, <1>3 DEF TypeOK, providerVars, worldVars
  <1>5. \A o \in Ops : op[o].pc \notin Holding
    BY <1>1 DEF HolderWorks, Locked, Holds
  <1>6. Locked'
    BY <1>1, <1>5 DEF Locked, Holds
  <1>7. Quiet
    BY <1>1, StillQuiet DEF providerVars
  <1> QED
    BY <1>4, <1>6, <1>7, QuietStep

LEMMA ReleaseInv ==
    ASSUME IInv, NEW o \in Ops, Release(o)
    PROVE  IInv'
  <1> DEFINE l == [op[o] EXCEPT !.pc = "returning"]
             m == [l EXCEPT !.shown = NoCredential]
  <1>1. /\ op[o] \in Operations /\ op[o].pc = "releasing" /\ Locked
        /\ Issued /\ "returning" \in Pcs
    BY DEF IInv, TypeOK, Release, Pcs
  <1>2. op' = [op EXCEPT ![o] = m]
    BY DEF Release, IInv, TypeOK
  <1>3. /\ l \in Operations /\ l.pc = "returning" /\ l.cred = op[o].cred
        /\ l.result = op[o].result
    BY <1>1, SetPc, SMT DEF Operations
  <1>4. l.compromised = op[o].compromised
    BY <1>1, Zenon DEF Operations
  <1> HIDE DEF l
  <1>5. /\ m \in Operations /\ m.pc = "returning" /\ m.cred = op[o].cred
        /\ m.result = op[o].result /\ m.compromised = op[o].compromised
    BY <1>3, <1>4, ShownTyped
  <1> HIDE DEF m
  <1>6. op'[o] = m /\ \A d \in Ops : d # o => op'[d] = op[d]
    BY <1>2, <1>5, OneChanged DEF IInv
  <1>7. Rests(o)
    BY <1>1, <1>5, <1>6 DEF Rests, Locked, Issued
  <1>8. lock.owner = o /\ ~op[o].compromised
    BY <1>1 DEF Locked, Holds, Holding
  <1>9. /\ lock' = None
        /\ UNCHANGED <<file, cache, reload, providerVars, worldVars, lost>>
    BY <1>8 DEF Release
  <1>10. Quiet /\ op' \in [Ops -> Operations]
    BY <1>1, <1>2, <1>5, <1>7, <1>9, OneQuiet DEF providerVars, Moves
  <1>11. TypeOK'
    BY <1>9, <1>10 DEF IInv, TypeOK, providerVars, worldVars
  <1>12. \A d \in Ops : op'[d].pc \notin Holding
    BY <1>1, <1>5, <1>6, <1>8 DEF Locked, Holds, Holding
  <1>13. \A d \in Ops : ~op'[d].compromised
    BY <1>1, <1>10, MovesKeepHealthy DEF Quiet
  <1>14. Locked'
    BY <1>12, <1>13 DEF Locked, Holds
  <1> QED
    BY <1>10, <1>11, <1>14, QuietStep

LEMMA ExpireInv ==
    ASSUME IInv, Expire
    PROVE  IInv'
  <1>1. /\ TypeOK /\ Locked /\ file.cred # NoCredential /\ file.cred # Torn
        /\ expired' = expired \cup {file.cred}
        /\ UNCHANGED <<fileVars, op, providerVars, dead, lost>>
    BY DEF IInv, Expire, Usable
  <1>2. file.cred \in Tokens
    BY <1>1 DEF TypeOK
  <1>3. TypeOK'
    BY <1>1, <1>2 DEF TypeOK, fileVars, providerVars
  <1>4. Quiet
    BY <1>1, StillQuiet DEF fileVars, providerVars
  <1>5. Locked'
    BY <1>1 DEF Locked, Holds, fileVars
  <1> QED
    BY <1>3, <1>4, <1>5, QuietStep

LEMMA TickInv ==
    ASSUME IInv, Tick
    PROVE  IInv'
  <1> DEFINE waits(d) == op[d].pc \in {"locking", "refreshing", "replying"}
             later(d) == [op[d] EXCEPT !.timer = op[d].timer + 1]
  <1>1. /\ TypeOK /\ Locked
        /\ UNCHANGED <<file, cache, reload, providerVars, worldVars, lost>>
    BY DEF IInv, Tick
  <1>2. op' = [d \in Ops |-> IF waits(d) THEN later(d) ELSE op[d]]
    BY Zenon DEF Tick
  <1>3. ASSUME NEW d \in Ops, waits(d)
        PROVE  /\ later(d) \in Operations
               /\ later(d).pc = op[d].pc /\ later(d).kind = op[d].kind
               /\ later(d).cred = op[d].cred
               /\ later(d).result = op[d].result
               /\ later(d).compromised = op[d].compromised
    <2>1. op[d] \in Operations /\ Patient(d)
      BY <1>1 DEF TypeOK, Tick
    <2>2. op[d].timer \in 0..LockDeadline
      BY <2>1, SMT DEF Operations
    <2>3. op[d].timer < LockDeadline
      BY <1>3, <2>1, <2>2, SMT DEF Patient, LockDeadline, RefreshTimeout
    <2>4. op[d].timer + 1 \in 0..LockDeadline
      BY <2>2, <2>3, SMT DEF LockDeadline
    <2> QED
      BY <2>1, <2>4, TimerTyped
  <1> HIDE DEF waits, later
  <1>4. /\ op' \in [Ops -> Operations]
        /\ \A d \in Ops : (waits(d) /\ op'[d] = later(d)) \/ op'[d] = op[d]
    BY <1>1, <1>2, <1>3 DEF TypeOK
  <1>5. \A d \in Ops : Same(d)
    BY <1>3, <1>4 DEF Same
  <1>6. Quiet
    <2>1. \A d \in Ops : Moves(d)
      BY <1>5 DEF Moves
    <2>2. Kept /\ Unrefused
      BY <1>1, <1>5 DEF Kept, Unrefused, Same
    <2> QED
      BY <1>1, <2>1, <2>2 DEF Quiet, providerVars
  <1>7. lock' \in {None} \cup [owner : Ops, age : 0..AsyncStale]
    <2>1. CASE lock = None \/ lock.age = AsyncStale
      BY <1>1, <2>1 DEF Tick, TypeOK
    <2>2. CASE lock # None /\ lock.age # AsyncStale
      <3>1. lock' = [lock EXCEPT !.age = lock.age + 1]
        BY <2>2 DEF Tick
      <3>2. lock \in [owner : Ops, age : 0..AsyncStale]
        BY <1>1, <2>2 DEF TypeOK
      <3>3. lock.age + 1 \in 0..AsyncStale
        BY <2>2, <3>2, SMT DEF AsyncStale
      <3> QED
        BY <3>1, <3>2, <3>3
    <2> QED
      BY <2>1, <2>2
  <1>8. TypeOK'
    BY <1>1, <1>4, <1>7 DEF TypeOK, providerVars, worldVars
  <1>9. Locked'
    <2>1. ASSUME NEW d \in Ops
          PROVE  ~op'[d].compromised
      BY <1>1, <1>5 DEF Locked, Same
    <2>2. ASSUME NEW d \in Ops, op'[d].pc \in Holding
          PROVE  lock' # None /\ lock'.owner = d /\ lock'.age \in 0..TouchEvery
      <3>1. /\ op[d].pc \in Holding /\ lock # None /\ lock.owner = d
            /\ lock.age \in 0..TouchEvery /\ lock.age # TouchEvery
        BY <1>1, <1>5, <2>2 DEF Same, Locked, Holds, Tick, TouchDue
      <3>2. lock.age # AsyncStale /\ lock.age + 1 \in 0..TouchEvery
        BY <3>1, SMT DEF TouchEvery, AsyncStale
      <3>3. lock' = [lock EXCEPT !.age = lock.age + 1]
        BY <3>1, <3>2 DEF Tick
      <3>4. lock \in [owner : Ops, age : 0..AsyncStale]
        BY <1>1, <3>1 DEF TypeOK
      <3>5. lock'.owner = d /\ lock'.age \in 0..TouchEvery
        BY <3>1, <3>2, <3>3, <3>4
      <3>6. lock' \in [owner : Nat, age : Nat]
        <4> DEFINE ages == 0..AsyncStale
        <4>1. ages \subseteq Nat
          BY SMT DEF AsyncStale
        <4>3. lock \in [owner : Ops, age : ages]
          BY <3>4
        <4> HIDE DEF ages
        <4>4. lock \in [owner : Nat, age : Nat]
          BY <4>1, <4>3, Numbers
        <4>2. lock.age + 1 \in Nat
          BY <3>2, SMT DEF TouchEvery
        <4> QED
          BY <3>3, <4>2, <4>4
      <3> QED
        BY <3>5, <3>6, NoneAssumption
    <2> QED
      BY <2>1, <2>2 DEF Locked, Holds
  <1> QED
    BY <1>6, <1>8, <1>9, QuietStep

\* Operation o has the lock and ends without writing.
LEMMA EndsMoves ==
    ASSUME IInv, NEW o \in Ops, op[o].pc \in Holding,
           NEW outcome \in Results, Ends(o, outcome)
    PROVE  \E m \in Operations :
             /\ op' = [op EXCEPT ![o] = m] /\ op'[o] = m
             /\ m.pc = "releasing" /\ m.result = outcome
             /\ m.cred = op[o].cred /\ Moves(o) /\ Stays(o)
  <1> DEFINE mid == [op[o] EXCEPT !.pc = "releasing"]
             late == [mid EXCEPT !.result = outcome]
             m == [late EXCEPT !.timer = 0]
  <1>1. op[o] \in Operations /\ "releasing" \in Pcs /\ Locked /\ Issued
        /\ 0 \in 0..LockDeadline
    BY SMT DEF IInv, TypeOK, Pcs, Holding, LockDeadline
  <1>2. op' = [op EXCEPT ![o] = m]
    BY <1>1 DEF Ends, IInv, TypeOK
  <1>3. /\ mid \in Operations /\ mid.pc = "releasing"
        /\ mid.cred = op[o].cred
    BY <1>1, SetPc, SMT DEF Operations
  <1>4. mid.compromised = op[o].compromised
    BY <1>1, Zenon DEF Operations
  <1> HIDE DEF mid
  <1>5. /\ late \in Operations /\ late.pc = mid.pc /\ late.cred = mid.cred
        /\ late.result = outcome
    BY <1>3, SetResult, SMT DEF Operations
  <1>6. late.compromised = mid.compromised
    BY <1>3, Zenon DEF Operations
  <1> HIDE DEF late
  <1>7. /\ m \in Operations /\ m.pc = mid.pc /\ m.cred = mid.cred
        /\ m.result = outcome /\ m.compromised = mid.compromised
    BY <1>1, <1>5, <1>6, TimerTyped
  <1> HIDE DEF m
  <1>8. op'[o] = m
    BY <1>2, <1>7, OneChanged DEF IInv
  <1>9. Rests(o)
    BY <1>1, <1>3, <1>4, <1>8, <1>7 DEF Rests, Locked, Issued
  <1> QED
    BY <1>2, <1>3, <1>8, <1>9, <1>7 DEF Moves, Stays

LEMMA EndsInv ==
    ASSUME IInv, NEW o \in Ops, op[o].pc \in Holding,
           NEW outcome \in Results, Ends(o, outcome),
           outcome = "refused" => lost, op[o].pc = "replying" => lost',
           lost' \in BOOLEAN, lost => lost',
           UNCHANGED <<fileVars, providerVars, worldVars>>
    PROVE  IInv'
  <1>1. PICK m \in Operations :
             /\ op' = [op EXCEPT ![o] = m] /\ op'[o] = m
             /\ m.pc = "releasing" /\ m.result = outcome
             /\ m.cred = op[o].cred /\ Moves(o) /\ Stays(o)
    BY EndsMoves
  <1>2. op' \in [Ops -> Operations] => TypeOK'
    BY DEF IInv, TypeOK, fileVars, providerVars, worldVars
  <1> QED
    BY <1>1, <1>2, OneQuietInv DEF fileVars, providerVars

LEMMA RefreshFailsInv ==
    ASSUME IInv, NEW o \in Ops, RefreshFails(o)
    PROVE  IInv'
  <1>1. op[o].pc \in Holding /\ "failed" \in Results
    BY DEF RefreshFails, Holding, Results
  <1>2. lost' \in BOOLEAN /\ (lost => lost')
        /\ (op[o].pc = "replying" => lost')
    BY Zenon DEF RefreshFails, IInv, TypeOK
  <1> QED
    BY <1>1, <1>2, EndsInv DEF RefreshFails
-----------------------------------------------------------------------------
(* Steps that write the file or ask the provider *)

LEMMA OneHolds ==
    ASSUME Locked, NEW o \in Ops, NEW q \in Ops,
           op[o].pc \in Holding, op[q].pc \in Holding
    PROVE  o = q
  BY DEF Locked, Holds

\* Operation o writes what it brings.
LEMMA WriteInv ==
    ASSUME IInv, NEW o \in Ops, Writes(o),
           \/ op[o].pc = "replying"
           \/ op[o].pc = "locked" /\ op[o].kind \in {"login", "logout"},
           UNCHANGED <<lock, cache, reload, providerVars, worldVars, lost>>
    PROVE  IInv'
  <1>1. op[o].pc \in Holding /\ "ok" \in Results
    BY DEF Holding, Results
  <1>2. PICK m \in Operations :
             /\ op' = [op EXCEPT ![o] = m] /\ op'[o] = m
             /\ m.pc = "releasing" /\ m.result = "ok"
             /\ m.cred = op[o].cred /\ Moves(o) /\ Stays(o)
    BY <1>1, EndsMoves DEF Writes
  <1>3. TypeOK /\ Locked /\ Issued /\ Rotating /\ RefreshedOnce
    BY DEF IInv
  <1>4. op' \in [Ops -> Operations] /\ \A d \in Ops : d # o => op'[d] = op[d]
    BY <1>2, <1>3, OneChanged
  <1>5. \A d \in Ops : Moves(d) /\ Stays(d)
    BY <1>2, <1>4, SameUnchanged DEF Moves, Stays
  <1>6. Locked'
    BY <1>3, <1>5, QuietLocked
  <1>7. /\ op[o].cred \in 0..issued
        /\ op[o].cred \in Tokens \cup {NoCredential}
        /\ file' = [rev |-> file.rev + 1, cred |-> op[o].cred]
    BY <1>3, SMT DEF Issued, TypeOK, Operations, Writes
  <1>8. file'.cred = op[o].cred
    BY <1>7
  <1>9. TypeOK'
    <2>1. file.rev \in Nat
      BY <1>3, SMT DEF TypeOK
    <2>2. file.rev + 1 \in Nat \ {Unknown}
      BY <2>1, SMT DEF Unknown
    <2>3. file' \in [rev : Nat \ {Unknown},
                    cred : Tokens \cup {NoCredential, Torn}]
      BY <1>7, <2>2
    <2> QED
      BY <1>3, <1>4, <2>3 DEF TypeOK, providerVars, worldVars
  <1>10. Issued'
    <2>1. op[o].cred \in -1..issued
      BY <1>3, <1>7, Numbers, SMT DEF TypeOK
    <2>2. \A d \in Ops : op'[d].cred \in 0..issued
      BY <1>2, <1>3, <1>4 DEF Issued
    <2> QED
      BY <1>3, <1>8, <2>1, <2>2 DEF Issued, providerVars
  <1>11. op[o].cred \in valid \/ op[o].cred = NoCredential
    BY <1>3 DEF Rotating, Shows, Fresh, Brings, Pending
  <1>12. NoCredential \notin valid
    BY <1>3, SMT DEF Issued, NoCredential, TypeOK
  <1>13. \A d \in Ops : Pending(d)' => d # o /\ Pending(d)
    BY <1>2, <1>4 DEF Pending
  <1>14. ASSUME NEW q \in Ops, Pending(q)'
         PROVE  Fresh(q)'
    <2>1. q # o /\ Fresh(q) /\ Pending(q) /\ op'[q] = op[q]
      BY <1>3, <1>4, <1>13, <1>14 DEF Rotating
    <2>2. op[q].cred \in valid
      BY <2>1 DEF Fresh
    <2>3. op[q].cred # op[o].cred
      <3>1. CASE Pending(o) \/ op[o].pc = "replying"
        BY <2>1, <3>1 DEF Fresh
      <3>2. CASE ~(Pending(o) \/ op[o].pc = "replying")
        BY <1>3, <1>12, <2>2, <3>2 DEF Rotating, Brings, Pending
      <3> QED
        BY <3>1, <3>2
    <2>4. ASSUME NEW d \in Ops, d # q, Pending(d)' \/ op'[d].pc = "replying"
          PROVE  op'[d].cred # op'[q].cred
      <3>1. op'[d] = op[d] /\ (Pending(d) \/ op[d].pc = "replying")
        BY <1>2, <1>4, <1>13, <2>4
      <3> QED
        BY <2>1, <2>4, <3>1 DEF Fresh
    <2> QED
      BY <1>8, <2>1, <2>2, <2>3, <2>4 DEF Fresh, providerVars
  <1>15. ASSUME NEW q \in Ops
         PROVE  Brings(q)' /\ Shows(q)'
    <2>1. CASE q = o
      BY <1>2, <2>1 DEF Brings, Shows
    <2>2. CASE q # o
      <3>1. op'[q] = op[q] /\ Brings(q) /\ Shows(q)
        BY <1>3, <1>4, <2>2 DEF Rotating
      <3>2. op[q].pc # "refreshing"
        BY <1>1, <1>3, <2>2, OneHolds DEF Holding
      <3> QED
        BY <3>1, <3>2 DEF Brings, Shows, providerVars
    <2> QED
      BY <2>1, <2>2
  <1>16. Rotating'
    <2>1. \A q \in Ops : ~Pending(q)' => Fresh(q)'
      BY DEF Fresh
    <2> QED
      BY <1>14, <1>15, <2>1 DEF Rotating
  <1>17. Stored'
    BY <1>8, <1>11 DEF Stored, providerVars
  <1>18. RefreshedOnce'
    BY <1>2, <1>3, <1>4 DEF RefreshedOnce
  <1> QED
    BY <1>6, <1>9, <1>10, <1>16, <1>17, <1>18 DEF IInv

LEMMA AnsweredInv ==
    ASSUME IInv, NEW o \in Ops, Answered(o)
    PROVE  IInv'
  <1>1. /\ op[o].pc = "replying" /\ op[o].pc \in Holding
        /\ UNCHANGED <<lock, cache, reload, providerVars, worldVars>>
    BY DEF Answered, Holding
  <1>2. CASE Refused(o)
    <2>1. /\ Ends(o, RefusedAs(o)) /\ lost' = TRUE /\ UNCHANGED file
      BY <1>2 DEF Answered
    <2>2. RefusedAs(o) \in Results /\ RefusedAs(o) # "refused"
      BY DEF RefusedAs, Results
    <2> QED
      BY <1>1, <2>1, <2>2, EndsInv DEF fileVars
  <1>3. CASE ~Refused(o)
    BY <1>1, <1>3, WriteInv DEF Answered
  <1> QED
    BY <1>2, <1>3

LEMMA ReadFailsInv ==
    ASSUME IInv, NEW o \in Ops, op[o].pc = "locked", ReadFails(o),
           UNCHANGED <<fileVars, providerVars, worldVars, lost>>
    PROVE  IInv'
  <1>1. op[o].pc \in Holding
    BY DEF Holding
  <1>2. PICK outcome \in {"failed", "aborted"} : Ends(o, outcome)
    BY DEF ReadFails, RefusedAs
  <1>3. outcome \in Results /\ outcome # "refused"
    BY DEF Results
  <1>4. lost' \in BOOLEAN /\ lost' = lost
    BY DEF IInv, TypeOK
  <1> QED
    BY <1>1, <1>2, <1>3, <1>4, EndsInv

\* The operation with the credential of the file in it.
Taken(o, label, outcome) ==
    [[[op[o] EXCEPT !.pc = label] EXCEPT !.result = outcome]
       EXCEPT !.cred = file.cred]

LEMMA TakenTyped ==
    ASSUME IInv, NEW o \in Ops, file.cred # Torn,
           NEW label \in Pcs, NEW outcome \in Results
    PROVE  /\ Taken(o, label, outcome) \in Operations
           /\ Taken(o, label, outcome).pc = label
           /\ Taken(o, label, outcome).kind = op[o].kind
           /\ Taken(o, label, outcome).cred = file.cred
           /\ file.cred \in 0..issued
           /\ Taken(o, label, outcome).result = outcome
           /\ ~Taken(o, label, outcome).compromised
  <1> DEFINE m == [op[o] EXCEPT !.pc = label]
             n == [m EXCEPT !.result = outcome]
             t == [n EXCEPT !.cred = file.cred]
  <1>1. op[o] \in Operations /\ ~op[o].compromised
    BY DEF IInv, TypeOK, Locked
  <1>2. file.cred \in Tokens \cup {NoCredential} /\ file.cred \in 0..issued
    BY SMT DEF IInv, TypeOK, Issued, Torn
  <1>3. m \in Operations /\ m.pc = label /\ m.kind = op[o].kind
    BY <1>1, SetPc, SMT DEF Operations
  <1>4. ~m.compromised
    BY <1>1, Zenon DEF Operations
  <1> HIDE DEF m
  <1>5. /\ n \in Operations /\ n.pc = label /\ n.kind = op[o].kind
        /\ n.result = outcome
    BY <1>3, SetResult, SMT DEF Operations
  <1>6. ~n.compromised
    BY <1>3, <1>4, Zenon DEF Operations
  <1> HIDE DEF n
  <1>7. /\ t \in Operations /\ t.pc = label /\ t.kind = op[o].kind
        /\ t.result = outcome /\ t.cred = file.cred
    BY <1>2, <1>5, SetCred, SMT DEF Operations
  <1>8. ~t.compromised
    BY <1>5, <1>6, Zenon DEF Operations
  <1>9. Taken(o, label, outcome) = t
    BY Zenon DEF Taken, m, n
  <1> HIDE DEF t
  <1> QED
    BY <1>2, <1>7, <1>8, <1>9

LEMMA ReloadInv ==
    ASSUME IInv, NEW o \in Ops, op[o].pc = "locked", Reload(o),
           file.cred # Torn,
           UNCHANGED <<lock, reload, providerVars, worldVars, lost>>
    PROVE  IInv'
  <1> DEFINE t == Taken(o, "releasing", "ok")
  <1>1. /\ TypeOK /\ op[o].pc \in Holding
        /\ "releasing" \in Pcs /\ "ok" \in Results
    BY DEF IInv, Holding, Pcs, Results
  <1>2. op' = [op EXCEPT ![o] = t]
    BY <1>1 DEF Reload, Taken, TypeOK
  <1>3. /\ t \in Operations /\ t.pc = "releasing" /\ t.cred = file.cred
        /\ file.cred \in 0..issued /\ t.result = "ok" /\ ~t.compromised
    BY <1>1, TakenTyped
  <1> HIDE DEF t
  <1>4. op'[o] = t
    BY <1>1, <1>2, <1>3, OneChanged
  <1>5. Moves(o) /\ Stays(o)
    BY <1>1, <1>3, <1>4 DEF Moves, Rests, Stays
  <1>6. file \in [rev : Nat, cred : Tokens \cup {NoCredential}]
    BY <1>1, SMT DEF TypeOK, Unknown
  <1>7. /\ UNCHANGED file
        /\ cache' \in
             [Processes -> [rev : Nat, cred : Tokens \cup {NoCredential}]]
    BY <1>1, <1>6 DEF Reload, TypeOK
  <1>8. op' \in [Ops -> Operations] => TypeOK'
    BY <1>1, <1>7 DEF TypeOK, providerVars, worldVars
  <1> QED
    BY <1>2, <1>3, <1>5, <1>7, <1>8, OneQuietInv DEF providerVars

LEMMA RecheckInv ==
    ASSUME IInv, NEW o \in Ops, op[o].pc = "locked", Recheck(o),
           file.cred # Torn,
           UNCHANGED <<lock, reload, providerVars, worldVars, lost>>
    PROVE  IInv'
  <1>1. /\ TypeOK /\ op[o].pc \in Holding
        /\ "releasing" \in Pcs /\ "ok" \in Results /\ "refreshing" \in Pcs
    BY DEF IInv, Holding, Pcs, Results
  <1>2. UNCHANGED <<file, cache>> /\ op[o].kind = "getAuth"
    BY DEF Recheck
  <1>3. op' \in [Ops -> Operations] => TypeOK'
    BY <1>1, <1>2 DEF TypeOK, providerVars, worldVars
  <1>4. CASE Decided(file.cred) = "done"
    <2> DEFINE t == Taken(o, "releasing", "ok")
               m == [t EXCEPT !.seen = file.rev]
    <2>1. op' = [op EXCEPT ![o] = m]
      BY <1>1, <1>4 DEF Recheck, Taken, TypeOK
    <2>2. /\ t \in Operations /\ t.pc = "releasing" /\ t.cred = file.cred
          /\ file.cred \in 0..issued /\ t.result = "ok" /\ ~t.compromised
      BY <1>1, TakenTyped
    <2>3. file.rev \in Nat
      BY <1>1, SMT DEF TypeOK
    <2> HIDE DEF t
    <2>4. /\ m \in Operations /\ m.pc = "releasing" /\ m.cred = file.cred
          /\ m.result = "ok" /\ ~m.compromised
      BY <2>2, <2>3, SeenTyped
    <2> HIDE DEF m
    <2>5. op'[o] = m
      BY <1>1, <2>1, <2>4, OneChanged
    <2>6. Moves(o) /\ Stays(o)
      BY <1>1, <2>2, <2>4, <2>5 DEF Moves, Rests, Stays
    <2> QED
      BY <1>2, <1>3, <2>1, <2>4, <2>6, OneQuietInv DEF providerVars
  <1>5. CASE Decided(file.cred) # "done"
    <2> DEFINE l == [op[o] EXCEPT !.pc = "refreshing"]
               m == [l EXCEPT !.cred = file.cred]
    <2>1. op' = [op EXCEPT ![o] = m]
      BY <1>1, <1>5 DEF Recheck, TypeOK
    <2>2. op[o] \in Operations /\ ~op[o].compromised
      BY DEF IInv, TypeOK, Locked
    <2>3. /\ file.cred \in Tokens \cup {NoCredential}
          /\ file.cred \in 0..issued
      BY SMT DEF IInv, TypeOK, Issued, Torn
    <2>4. /\ l \in Operations /\ l.pc = "refreshing" /\ l.kind = "getAuth"
          /\ l.result = op[o].result
      BY <1>1, <1>2, <2>2, SetPc, SMT DEF Operations
    <2>5. ~l.compromised
      BY <2>2, Zenon DEF Operations
    <2> HIDE DEF l
    <2>6. /\ m \in Operations /\ m.pc = "refreshing" /\ m.kind = "getAuth"
          /\ m.result = op[o].result /\ m.cred = file.cred
      BY <2>3, <2>4, SetCred, SMT DEF Operations
    <2>7. ~m.compromised
      BY <2>4, <2>5, Zenon DEF Operations
    <2> HIDE DEF m
    <2>8. op'[o] = m
      BY <1>1, <2>1, <2>6, OneChanged
    <2>9. file.cred # NoCredential
      BY <1>5 DEF Decided
    <2>10. Moves(o) /\ Stays(o)
      BY <1>1, <2>3, <2>6, <2>7, <2>8, <2>9 DEF Moves, Asks, Stays
    <2>11. op[o].pc # "replying"
      OBVIOUS
    <2> QED
      BY <1>2, <1>3, <2>1, <2>6, <2>10, <2>11, OneQuietInv DEF providerVars
  <1> QED
    BY <1>4, <1>5

LEMMA ReadFileInv ==
    ASSUME IInv, NEW o \in Ops, ReadFile(o)
    PROVE  IInv'
  <1>1. /\ op[o].pc = "locked"
        /\ UNCHANGED <<lock, reload, providerVars, worldVars, lost>>
    BY DEF ReadFile
  <1>2. CASE Refused(o) \/ file.cred = Torn
    BY <1>1, <1>2, ReadFailsInv DEF ReadFile, fileVars
  <1>3. CASE ~(Refused(o) \/ file.cred = Torn)
    <2>1. Reload(o) \/ Recheck(o) \/ Modify(o)
      BY <1>3 DEF ReadFile
    <2>2. CASE Modify(o)
      BY <1>1, <2>2, WriteInv DEF Modify
    <2> QED
      BY <1>1, <1>3, <2>1, <2>2, ReloadInv, RecheckInv
  <1> QED
    BY <1>2, <1>3

\* A new refresh token is one that nobody has.
LEMMA LoginInv ==
    ASSUME IInv, NEW c \in Calls, NEW p \in Processes, Login(c, p)
    PROVE  IInv'
  <1> DEFINE b == Begun(p, "login", "locking")
             m == [b EXCEPT !.cred = issued']
  <1>1. /\ c \in Ops /\ op[c].pc = "idle" /\ "login" \in Kinds \ {None}
        /\ issued < MaxTokens /\ issued' = issued + 1
        /\ valid' = valid \cup {issued'}
        /\ UNCHANGED <<fileVars, worldVars, lost>>
    BY Numbers, NoneAssumption DEF Login, Begins, Kinds
  <1>2. TypeOK /\ Locked /\ Issued /\ Rotating /\ Stored /\ RefreshedOnce
    BY DEF IInv
  <1>3. op' = [op EXCEPT ![c] = m]
    BY DEF Login
  <1>4. /\ b \in Operations /\ b.pc = "locking" /\ b.kind = "login"
        /\ ~b.compromised /\ b.result = None
    BY <1>1, BegunTyped
  <1> HIDE DEF b
  <1>5. issued \in Nat /\ issued' \in Tokens /\ issued' > issued
    BY <1>1, <1>2, Numbers, BoundsAssumption, SMT DEF TypeOK, Tokens
  <1>6. /\ m \in Operations /\ m.pc = "locking" /\ m.kind = "login"
        /\ m.cred = issued' /\ m.result = None
    BY <1>4, <1>5, SetCred, SMT DEF Operations
  <1>7. ~m.compromised
    BY <1>4, Zenon DEF Operations
  <1> HIDE DEF m
  <1>8. /\ op' \in [Ops -> Operations] /\ op'[c] = m
        /\ \A d \in Ops : d # c => op'[d] = op[d]
    BY <1>1, <1>2, <1>3, <1>6, OneChanged
  <1>9. TypeOK'
    BY <1>1, <1>2, <1>5, <1>8 DEF TypeOK, fileVars, worldVars
  <1>10. Locked'
    <2>1. \A d \in Ops : Stays(d) /\ ~op'[d].compromised
      BY <1>2, <1>6, <1>7, <1>8 DEF Stays, Holding, Locked
    <2> QED
      BY <1>1, <1>2, <2>1, StayLocked DEF fileVars
  <1>11. /\ valid' \subseteq 1..issued' /\ file'.cred \in -1..issued'
    <2>1. /\ 1..issued \subseteq 1..issued' /\ -1..issued \subseteq -1..issued'
          /\ issued' \in 1..issued'
      BY <1>5, SMT DEF Tokens
    <2>2. file' = file
      BY <1>1 DEF fileVars
    <2> QED
      BY <1>1, <1>2, <2>1, <2>2 DEF Issued
  <1>12. \A d \in Ops : op'[d].cred \in 0..issued'
    <2>1. 0..issued \subseteq 0..issued' /\ issued' \in 0..issued'
      BY <1>5, SMT DEF Tokens
    <2> QED
      BY <1>2, <1>6, <1>8, <2>1 DEF Issued
  <1>13. Issued'
    BY <1>11, <1>12 DEF Issued
  <1>14. /\ file.cred # issued'
         /\ \A d \in Ops : op[d].cred # issued'
    BY <1>2, <1>5, SMT DEF Issued
  <1>15. ASSUME NEW q \in Ops
         PROVE  Brings(q)' /\ Shows(q)'
    <2>1. CASE q = c
      BY <1>6, <1>8, <2>1 DEF Brings, Shows
    <2>2. CASE q # c
      BY <1>1, <1>2, <1>8, <2>2 DEF Rotating, Brings, Shows, fileVars
    <2> QED
      BY <2>1, <2>2
  <1>16. ASSUME NEW q \in Ops, Pending(q)'
         PROVE  Fresh(q)'
    <2>1. file' = file
      BY <1>1 DEF fileVars
    <2>2. CASE q = c
      <3>1. op'[q].cred = issued'
        BY <1>6, <1>8, <2>2
      <3>2. \A d \in Ops : d # q => op'[d].cred # issued'
        BY <1>8, <1>14, <2>2
      <3> QED
        BY <1>1, <1>14, <2>1, <3>1, <3>2 DEF Fresh
    <2>3. CASE q # c
      <3>1. Fresh(q) /\ Pending(q) /\ op'[q] = op[q]
        BY <1>2, <1>8, <1>16, <2>3 DEF Rotating, Pending
      <3>2. op[q].cred \in valid /\ op[q].cred # file.cred
        BY <3>1 DEF Fresh
      <3>3. ASSUME NEW d \in Ops, d # q, Pending(d)' \/ op'[d].pc = "replying"
            PROVE  op'[d].cred # op'[q].cred
        <4>1. CASE d = c
          BY <1>6, <1>8, <1>14, <3>1, <4>1
        <4>2. CASE d # c
          BY <1>8, <3>1, <3>3, <4>2 DEF Fresh, Pending
        <4> QED
          BY <4>1, <4>2
      <3> QED
        BY <1>1, <2>1, <3>1, <3>2, <3>3 DEF Fresh
    <2> QED
      BY <2>2, <2>3
  <1>17. Rotating'
    <2>1. \A q \in Ops : ~Pending(q)' => Fresh(q)'
      BY DEF Fresh
    <2> QED
      BY <1>15, <1>16, <2>1 DEF Rotating
  <1>18. Stored'
    BY <1>1, <1>2, <1>8 DEF Stored, fileVars
  <1>19. RefreshedOnce'
    BY <1>1, <1>2, <1>6, <1>8, NoneAssumption DEF RefreshedOnce
  <1> QED
    BY <1>9, <1>10, <1>13, <1>17, <1>18, <1>19 DEF IInv

LEMMA RotateInv ==
    ASSUME IInv, NEW o \in Ops, Rotate(o)
    PROVE  IInv'
  <1>1. /\ op[o].pc = "refreshing" /\ op[o].pc \in Holding
        /\ UNCHANGED <<fileVars, worldVars, lost>> /\ "replying" \in Pcs
    BY DEF Rotate, Holding, Pcs
  <1>2. TypeOK /\ Locked /\ Issued /\ Rotating /\ Stored /\ RefreshedOnce
    BY DEF IInv
  <1>3. /\ op[o].kind = "getAuth" /\ op[o].cred = file.cred
        /\ op[o].cred # NoCredential
    BY <1>1, <1>2 DEF Rotating, Shows
  <1>4. \A q \in Ops : op[q].pc \in Holding => q = o
    BY <1>1, <1>2, OneHolds
  <1>5. CASE op[o].cred \notin valid
    <2>1. Ends(o, "refused") /\ UNCHANGED providerVars
      BY <1>5 DEF Rotate
    <2>2. lost
      BY <1>1, <1>2, <1>3, <1>4, <1>5 DEF Stored, Holding
    <2>3. "refused" \in Results
      BY DEF Results
    <2>4. lost' \in BOOLEAN /\ lost'
      BY <1>1, <1>2, <2>2 DEF TypeOK
    <2> QED
      BY <1>1, <2>1, <2>2, <2>3, <2>4, EndsInv
  <1>6. CASE op[o].cred \in valid
    <2> DEFINE l == [op[o] EXCEPT !.pc = "replying"]
               n == [l EXCEPT !.cred = issued']
               m == [n EXCEPT !.shown = op[o].cred]
    <2>1. /\ issued < MaxTokens /\ issued' = issued + 1
          /\ valid' = (valid \ {op[o].cred}) \cup {issued'}
      BY <1>6 DEF Rotate
    <2>2. op' = [op EXCEPT ![o] = m]
      BY <1>2, <1>6 DEF Rotate, TypeOK
    <2>3. issued \in Nat /\ issued' \in Tokens /\ issued' > issued
      BY <1>2, <2>1, Numbers, BoundsAssumption, SMT DEF TypeOK, Tokens
    <2>4. op[o] \in Operations /\ ~op[o].compromised
      BY <1>2 DEF TypeOK, Locked
    <2>5. /\ l \in Operations /\ l.pc = "replying" /\ l.kind = "getAuth"
          /\ l.result = op[o].result
      BY <1>1, <1>3, <2>4, SetPc, SMT DEF Operations
    <2>6. ~l.compromised
      BY <2>4, Zenon DEF Operations
    <2> HIDE DEF l
    <2>7. /\ n \in Operations /\ n.pc = "replying" /\ n.kind = "getAuth"
          /\ n.result = op[o].result /\ n.cred = issued' /\ ~n.compromised
      <3>1. n \in Operations /\ n.pc = "replying" /\ n.kind = "getAuth"
            /\ n.result = op[o].result /\ n.cred = issued'
        BY <2>3, <2>5, SetCred, SMT DEF Operations
      <3>2. ~n.compromised
        BY <2>5, <2>6, Zenon DEF Operations
      <3> QED
        BY <3>1, <3>2
    <2> HIDE DEF n
    <2>8. /\ m \in Operations /\ m.pc = "replying" /\ m.kind = "getAuth"
          /\ m.result = op[o].result /\ m.cred = issued' /\ ~m.compromised
      <3>1. op[o].cred \in Tokens \cup {NoCredential}
        BY <2>4, SMT DEF Operations
      <3> QED
        BY <2>7, <3>1, ShownTyped
    <2> HIDE DEF m
    <2>9. /\ op' \in [Ops -> Operations] /\ op'[o] = m
          /\ \A d \in Ops : d # o => op'[d] = op[d]
      BY <1>2, <2>2, <2>8, OneChanged
    <2>10. file' = file /\ lock' = lock /\ lost' = lost
      BY <1>1 DEF fileVars
    <2>11. valid' \subseteq Tokens
      BY <1>2, <2>1, <2>3 DEF TypeOK
    <2>12. TypeOK'
      BY <1>1, <1>2, <2>3, <2>9, <2>11 DEF TypeOK, fileVars, worldVars
    <2>13. Locked'
      <3>1. \A d \in Ops : Stays(d) /\ ~op'[d].compromised
        BY <1>1, <1>2, <2>8, <2>9 DEF Stays, Locked
      <3> QED
        BY <1>2, <2>10, <3>1, StayLocked
    <2>14. /\ 1..issued \subseteq 1..issued'
           /\ -1..issued \subseteq -1..issued'
           /\ 0..issued \subseteq 0..issued'
           /\ issued' \in 1..issued' /\ issued' \in 0..issued'
      BY <2>3, SMT DEF Tokens
    <2>15. Issued'
      BY <1>2, <2>1, <2>8, <2>9, <2>10, <2>14 DEF Issued
    <2>16. \A d \in Ops : op[d].cred # issued'
      BY <1>2, <2>3, SMT DEF Issued
    <2>17. ASSUME NEW q \in Ops
           PROVE  Brings(q)' /\ Shows(q)'
      <3>1. CASE q = o
        BY <2>1, <2>8, <2>9, <3>1 DEF Brings, Shows
      <3>2. CASE q # o
        <4>1. op'[q] = op[q] /\ op[q].pc \notin {"refreshing", "replying"}
          BY <1>4, <2>9, <3>2 DEF Holding
        <4>2. Brings(q) /\ Shows(q)
          BY <1>2 DEF Rotating
        <4> QED
          BY <4>1, <4>2 DEF Brings, Shows
      <3> QED
        BY <3>1, <3>2
    <2>18. ASSUME NEW q \in Ops, Pending(q)'
           PROVE  Fresh(q)'
      <3>1. q # o /\ Fresh(q) /\ Pending(q) /\ op'[q] = op[q]
        BY <1>2, <2>8, <2>9, <2>18 DEF Rotating, Pending
      <3>2. op[q].cred \in valid' /\ op[q].cred # file'.cred
        BY <1>3, <2>1, <2>10, <3>1 DEF Fresh
      <3>3. ASSUME NEW d \in Ops, d # q, Pending(d)' \/ op'[d].pc = "replying"
            PROVE  op'[d].cred # op'[q].cred
        <4>1. CASE d = o
          BY <2>8, <2>9, <2>16, <3>1, <4>1
        <4>2. CASE d # o
          BY <2>9, <3>1, <3>3, <4>2 DEF Fresh, Pending
        <4> QED
          BY <4>1, <4>2
      <3> QED
        BY <3>1, <3>2, <3>3 DEF Fresh
    <2>19. Rotating'
      <3>1. \A q \in Ops : ~Pending(q)' => Fresh(q)'
        BY DEF Fresh
      <3> QED
        BY <2>17, <2>18, <3>1 DEF Rotating
    <2>20. Stored'
      BY <2>8, <2>9 DEF Stored
    <2>21. RefreshedOnce'
      BY <1>2, <2>8, <2>9, <2>10 DEF RefreshedOnce
    <2> QED
      BY <2>12, <2>13, <2>15, <2>19, <2>20, <2>21 DEF IInv
  <1> QED
    BY <1>5, <1>6

\* What a dying process was writing is lost, and nobody else was about to
\* show it to the provider.
LEMMA CrashInv ==
    ASSUME IInv, NEW p \in Processes, Crash(p)
    PROVE  IInv'
  <1>1. TypeOK /\ Locked /\ Issued /\ Rotating /\ Stored /\ RefreshedOnce
    BY DEF IInv
  <1>2. UNCHANGED <<lock, providerVars, expired>> /\ dead' = dead \cup {p}
    BY DEF Crash
  <1>3. "died" \in Results
    BY DEF Results
  <1>4. op' = [o \in Ops |-> IF o \in Of(p) THEN Over(o, "died") ELSE op[o]]
    BY DEF Crash
  <1>5. /\ op' \in [Ops -> Operations]
        /\ \A o \in Ops : o \in Of(p) => op'[o] = Over(o, "died")
        /\ \A o \in Ops : o \notin Of(p) => op'[o] = op[o]
    BY <1>1, <1>3, <1>4, OverTyped DEF TypeOK
  <1>6. \A o \in Ops : o \in Of(p) =>
          /\ Rests(o) /\ op'[o].pc = "done" /\ op'[o].result = "died"
    BY <1>1, <1>3, <1>5, OverRests, OverTyped
  <1>7. \A o \in Ops : o \notin Of(p) => Same(o)
    BY <1>5, SameUnchanged
  <1>8. \A o \in Ops : Moves(o)
    BY <1>6, <1>7 DEF Moves
  <1>9. \A o \in Ops : Stays(o)
    BY <1>6, <1>7 DEF Stays, Same, Holding
  <1>10. Locked'
    BY <1>1, <1>2, <1>8, <1>9, QuietLocked
  <1>11. /\ \/ file' = file
            \/ /\ \E o \in Of(p) : Writing(o)
               /\ \E left \in {NoCredential, Torn} :
                    file' = [rev |-> file.rev + 1, cred |-> left]
         /\ lost' = (lost \/ file' # file
                       \/ \E o \in Of(p) : op[o].pc = "replying")
    BY DEF Crash
  <1>12. lost' \in BOOLEAN /\ (lost => lost') /\ (file' # file => lost')
    BY <1>11, Zenon
  <1>13. file' = file \/ (/\ file'.cred \in {NoCredential, Torn}
                          /\ file'.rev = file.rev + 1
                          /\ \E o \in Of(p) : op[o].pc \in Holding
                          /\ file' \in
                               [rev : Nat \ {Unknown},
                                cred : Tokens \cup {NoCredential, Torn}])
    <2>1. file.rev \in Nat
      BY <1>1, SMT DEF TypeOK
    <2>2. file.rev + 1 \in Nat \ {Unknown}
      BY <2>1, SMT DEF Unknown
    <2>3. \A o \in Of(p) : Writing(o) => op[o].pc \in Holding
      BY DEF Writing, Holding
    <2> QED
      BY <1>11, <2>2, <2>3
  <1>14. /\ cache' \in
              [Processes -> [rev : Nat, cred : Tokens \cup {NoCredential}]]
         /\ reload' \in [Processes -> Reloads \cup {None}]
    <2>1. NoCopy \in [rev : Nat, cred : Tokens \cup {NoCredential}]
      BY DEF NoCopy, Unknown
    <2>2. /\ cache' = [cache EXCEPT ![p] = NoCopy]
          /\ reload' = [reload EXCEPT ![p] = None]
      BY DEF Crash
    <2> QED
      BY <1>1, <2>1, <2>2 DEF TypeOK
  <1>15. TypeOK'
    <2>1. file' \in [rev : Nat \ {Unknown},
                    cred : Tokens \cup {NoCredential, Torn}]
      BY <1>1, <1>13 DEF TypeOK
    <2> QED
      BY <1>1, <1>2, <1>5, <1>12, <1>14, <2>1 DEF TypeOK, providerVars
  <1>16. Kept
    <2>1. ASSUME NEW o \in Ops, op[o].pc = "replying", ~lost'
          PROVE  op'[o].pc = "replying"
      <3>1. o \notin Of(p)
        BY <1>11, <2>1, Zenon
      <3> QED
        BY <1>5, <2>1, <3>1
    <2> QED
      BY <1>12, <2>1 DEF Kept
  <1>17. Unrefused
    BY <1>5, <1>6 DEF Unrefused
  <1>18. CASE file' = file
    BY <1>2, <1>8, <1>10, <1>15, <1>16, <1>17, <1>18, QuietStep
    DEF Quiet, providerVars
  <1>19. CASE file' # file
    <2>1. lost' /\ Stored' /\ RefreshedOnce'
      BY <1>12, <1>19 DEF Stored, RefreshedOnce
    <2>2. file'.cred \in {NoCredential, Torn}
      BY <1>13, <1>19
    <2>3. Issued'
      <3>1. file'.cred \in -1..issued
        BY <1>1, <2>2, Numbers, SMT DEF TypeOK, NoCredential, Torn
      <3>2. \A d \in Ops : op'[d].cred \in 0..issued
        BY <1>1, <1>8 DEF Moves, Same, Rests, Enters, Asks, Issued
      <3> QED
        BY <1>1, <1>2, <3>1, <3>2 DEF Issued, providerVars
    <2>4. NoCredential \notin valid /\ Torn \notin valid
      BY <1>1, SMT DEF Issued, TypeOK, NoCredential, Torn
    <2>5. ASSUME NEW q \in Ops
          PROVE  Fresh(q)' /\ Brings(q)' /\ Shows(q)'
      <3>1. CASE q \in Of(p)
        BY <1>6, <3>1 DEF Fresh, Pending, Brings, Shows
      <3>2. CASE q \notin Of(p)
        <4>1. Fresh(q) /\ Brings(q) /\ Shows(q) /\ op'[q] = op[q]
          BY <1>1, <1>5, <3>2 DEF Rotating
        <4>2. op[q].pc # "refreshing"
          <5>1. PICK o \in Of(p) : op[o].pc \in Holding
            BY <1>13, <1>19
          <5>2. o \in Ops /\ o # q
            BY <3>2 DEF Of
          <5> QED
            BY <1>1, <5>1, <5>2, OneHolds DEF Holding
        <4>3. Brings(q)' /\ Shows(q)'
          BY <1>2, <4>1, <4>2 DEF Brings, Shows, providerVars
        <4>4. ASSUME NEW d \in Ops, d # q,
                     Pending(q)', Pending(d)' \/ op'[d].pc = "replying"
              PROVE  op'[d].cred # op'[q].cred
          <5>1. d \notin Of(p)
            BY <1>6, <4>4 DEF Pending
          <5> QED
            BY <1>5, <4>1, <4>4, <5>1 DEF Fresh, Pending
        <4>5. Pending(q)' => op'[q].cred \in valid' /\ op'[q].cred # file'.cred
          BY <1>2, <2>2, <2>4, <4>1 DEF Fresh, Pending, providerVars
        <4> QED
          BY <4>3, <4>4, <4>5 DEF Fresh
      <3> QED
        BY <3>1, <3>2
    <2>6. Rotating'
      BY <2>5 DEF Rotating
    <2> QED
      BY <1>10, <1>15, <2>1, <2>3, <2>6 DEF IInv
  <1> QED
    BY <1>18, <1>19
-----------------------------------------------------------------------------
(* The specification *)

LEMMA InitInv == Init => IInv
  <1> SUFFICES ASSUME Init PROVE IInv
    OBVIOUS
  <1>1. \A o \in Ops : op[o] = Unused /\ op[o] \in Operations
    BY UnusedTyped DEF Init
  <1>2. /\ Unused.pc = "idle" /\ Unused.cred = NoCredential
        /\ Unused.kind = None /\ Unused.result = None
    BY SMT DEF Unused
  <1>3. ~Unused.compromised
    BY Zenon DEF Unused
  <1>4. NoCopy \in [rev : Nat, cred : Tokens \cup {NoCredential}]
    BY DEF NoCopy, Unknown
  <1>5. /\ file \in [rev : Nat \ {Unknown},
                     cred : Tokens \cup {NoCredential, Torn}]
        /\ file.cred = 1
    BY Numbers, SMT DEF Init, Unknown
  <1>6. TypeOK
    BY <1>1, <1>4, <1>5, Numbers DEF Init, TypeOK
  <1>7. Locked
    BY <1>1, <1>2, <1>3 DEF Locked, Holds, Holding
  <1>8. Issued
    BY <1>1, <1>2, <1>5, SMT DEF Init, Issued, NoCredential
  <1>9. Rotating
    BY <1>1, <1>2 DEF Rotating, Fresh, Pending, Brings, Shows
  <1>10. Stored
    BY <1>5 DEF Init, Stored
  <1>11. RefreshedOnce
    BY <1>1, <1>2, NoneAssumption DEF RefreshedOnce
  <1> QED
    BY <1>6, <1>7, <1>8, <1>9, <1>10, <1>11 DEF IInv

LEMMA StutterInv ==
    ASSUME IInv, UNCHANGED vars
    PROVE  IInv'
  <1>1. UNCHANGED <<file, lock, cache, reload, op, valid, issued, expired,
                    dead, lost>>
    BY DEF vars, fileVars, providerVars, worldVars
  <1>2. TypeOK' /\ Locked'
    BY <1>1 DEF IInv, TypeOK, Locked, Holds
  <1>3. Quiet
    BY <1>1, StillQuiet
  <1> QED
    BY <1>2, <1>3, QuietStep

LEMMA ProgressInv ==
    ASSUME IInv, NEW o \in Ops, Progress(o)
    PROVE  IInv'
  BY AcquireInv, GiveUpInv, TouchInv, ReadFileInv, RotateInv, AnsweredInv,
     RefreshFailsInv, ReleaseInv, ReturnInv
  DEF Progress

LEMMA StepInv ==
    ASSUME ~LateStarts, IInv, [Next]_vars
    PROVE  IInv'
  <1>1. CASE \E o \in Ops : Progress(o)
    BY <1>1, ProgressInv
  <1>2. CASE \E c \in Calls, p \in Processes :
               GetAuth(c, p) \/ Login(c, p) \/ Logout(c, p)
    BY <1>2, GetAuthInv, LoginInv, LogoutInv
  <1>3. CASE \E c \in Calls : Cancel(c) \/ CancelReader(c)
    BY <1>3, CancelInv, CancelReaderInv
  <1>4. CASE \E p \in Processes : Construct(p) \/ Crash(p)
    BY <1>4, ConstructInv, CrashInv
  <1>5. CASE Tick
    BY <1>5, TickInv
  <1>6. CASE Expire
    BY <1>6, ExpireInv
  <1>7. CASE UNCHANGED vars
    BY <1>7, StutterInv
  <1> QED
    BY <1>1, <1>2, <1>3, <1>4, <1>5, <1>6, <1>7 DEF Next

LEMMA LockedExcludes ==
    ASSUME IInv
    PROVE  MutualExclusion
  <1>1. Critical \subseteq {lock.owner}
    BY DEF IInv, Locked, Holds, Critical
  <1>2. Critical = {} \/ Critical = {lock.owner}
    BY <1>1
  <1>3. Cardinality({}) = 0 /\ Cardinality({lock.owner}) = 1
    BY FS_EmptySet, FS_Singleton
  <1> QED
    BY <1>2, <1>3, SMT DEF MutualExclusion

\* The invariant that the runs check as well.
THEOREM InvariantHolds ==
    ASSUME ~LateStarts
    PROVE  Spec => []IInv
  <1>1. Init => IInv
    BY InitInv
  <1>2. IInv /\ [Next]_vars => IInv'
    BY StepInv
  <1> QED
    BY <1>1, <1>2, PTL DEF Spec

\* However many processes share auth.json, and wherever they die: the locked
\* parts of auth-storage.ts exclude each other, and no refresh token is shown
\* to the provider twice unless an answer was lost, as long as no storage is
\* constructed while a refresh is slower than lockSync's limit.
THEOREM RotationIsSafe ==
    ASSUME ~LateStarts
    PROVE  Spec => []RotationSafe
  <1>1. IInv => RotationSafe
    BY LockedExcludes DEF IInv, RotationSafe
  <1>2. Spec => []IInv
    BY InvariantHolds
  <1> QED
    BY <1>1, <1>2, PTL

\* What modify() leaves in auth.json can be used for the next refresh, or the
\* operation that brings its replacement holds the lock.
THEOREM StoredStaysUsable ==
    ASSUME ~LateStarts
    PROVE  Spec => []StoredIsUsable
  <1>1. IInv => StoredIsUsable
    BY DEF IInv, Stored, Rotating, Shows, StoredIsUsable, Critical, Holding
  <1>2. Spec => []IInv
    BY InvariantHolds
  <1> QED
    BY <1>1, <1>2, PTL
-----------------------------------------------------------------------------
(* The cached copies *)

\* A copy with this revision is no older than it says.
Current(rev, cred) ==
    rev <= file.rev /\ (rev = file.rev => cred = file.cred)

\* Only a call that is about to return has noted a revision.
Noted(o) ==
    op[o].seen # Unknown =>
      /\ op[o].pc \in {"releasing", "returning"}
      /\ Current(op[o].seen, op[o].cred)
Copies ==
    /\ \A p \in Processes : Current(cache[p].rev, cache[p].cred)
    /\ \A o \in Ops : Noted(o)

\* A step forgets, keeps or notes what an operation has seen.
Notes(o) ==
    \/ op'[o].seen = Unknown
    \/ /\ op'[o].seen = op[o].seen /\ op'[o].cred = op[o].cred
       /\ op'[o].pc \in {op[o].pc, "releasing", "returning"}
    \/ /\ op'[o].seen = file.rev /\ op'[o].cred = file.cred
       /\ op'[o].pc = "releasing" /\ file' = file

\* It keeps the copy of a process, drops it, reads the file or takes the copy
\* from an operation.
Copied(p) ==
    \/ cache'[p] = cache[p] \/ cache'[p] = NoCopy
    \/ cache'[p].rev = file.rev /\ cache'[p].cred = file.cred
       /\ file' = file
    \/ \E o \in Ops : /\ cache'[p].rev = op[o].seen
                      /\ cache'[p].cred = op[o].cred

\* A new content has a new revision.
Revised == file' = file \/ file'.rev = file.rev + 1

\* What is current stays so, whatever it is called after the step.
LEMMA CurrentStays ==
    ASSUME TypeOK, Revised, NEW rev \in Nat, NEW cred,
           rev = Unknown \/ Current(rev, cred)
    PROVE  rev <= file'.rev /\ (rev = file'.rev => cred = file'.cred)
  <1>1. /\ file.rev \in Nat /\ file.rev > 0
        /\ file' = file \/ file'.rev = file.rev + 1
    BY SMT DEF TypeOK, Unknown, Revised
  <1> QED
    BY <1>1, SMT DEF Current, Unknown

LEMMA CopiesStep ==
    ASSUME TypeOK, Copies, Revised, \A o \in Ops : Notes(o),
           \A p \in Processes : Copied(p)
    PROVE  Copies'
  <1>1. \A o \in Ops : op[o].seen \in Nat
    BY SMT DEF TypeOK, Operations
  <1>2. file.rev \in Nat /\ Current(file.rev, file.cred)
    BY SMT DEF TypeOK, Current
  <1>3. ASSUME NEW o \in Ops
        PROVE  op[o].seen = Unknown \/ Current(op[o].seen, op[o].cred)
    BY DEF Copies, Noted
  <1>4. ASSUME NEW o \in Ops
        PROVE  Noted(o)'
    <2>1. CASE op'[o].seen = Unknown
      BY <2>1 DEF Noted
    <2>2. CASE /\ op'[o].seen = op[o].seen /\ op'[o].cred = op[o].cred
               /\ op'[o].pc \in {op[o].pc, "releasing", "returning"}
      <3>1. /\ op[o].seen <= file'.rev
            /\ op[o].seen = file'.rev => op[o].cred = file'.cred
        BY <1>1, <1>3, CurrentStays
      <3> QED
        BY <2>2, <3>1 DEF Copies, Noted, Current
    <2>3. CASE /\ op'[o].seen = file.rev /\ op'[o].cred = file.cred
               /\ op'[o].pc = "releasing" /\ file' = file
      BY <1>2, <2>3 DEF Noted, Current
    <2> QED
      BY <2>1, <2>2, <2>3 DEF Notes
  <1>5. ASSUME NEW p \in Processes
        PROVE  Current(cache[p].rev, cache[p].cred)'
    <2>1. cache[p].rev \in Nat /\ Current(cache[p].rev, cache[p].cred)
      BY DEF TypeOK, Copies
    <2>2. CASE cache'[p] = cache[p]
      BY <2>1, <2>2, CurrentStays DEF Current
    <2>3. CASE cache'[p] = NoCopy
      BY <1>2, <2>3, CurrentStays DEF NoCopy, Current, Unknown
    <2>4. CASE /\ cache'[p].rev = file.rev /\ cache'[p].cred = file.cred
               /\ file' = file
      BY <1>2, <2>4 DEF Current
    <2>5. CASE \E o \in Ops : /\ cache'[p].rev = op[o].seen
                              /\ cache'[p].cred = op[o].cred
      BY <1>1, <1>3, <2>5, CurrentStays DEF Current
    <2> QED
      BY <2>2, <2>3, <2>4, <2>5 DEF Copied
  <1> QED
    BY <1>4, <1>5 DEF Copies

(* What each step does to the copies *)

LEMMA SameNotes ==
    ASSUME NEW o, op'[o] = op[o]
    PROVE  Notes(o)
  BY DEF Notes

\* What is neither releasing nor returning has seen nothing.
LEMMA UnseenNotes ==
    ASSUME Copies, NEW o \in Ops, op[o].pc \notin {"releasing", "returning"},
           op'[o].seen = op[o].seen
    PROVE  Notes(o)
  BY DEF Copies, Noted, Notes

LEMMA OverForgets ==
    ASSUME NEW o, NEW outcome
    PROVE  Over(o, outcome).seen = Unknown
  BY Zenon DEF Over, Unused

LEMMA BegunForgets ==
    ASSUME NEW p, NEW k, NEW label
    PROVE  Begun(p, k, label).seen = Unknown
  BY Zenon DEF Begun, Unused

LEMMA FinishNotes ==
    ASSUME TypeOK, Copies, NEW o \in Ops, NEW outcome, Finish(o, outcome)
    PROVE  \A c \in Ops : Notes(c)
  <1> TAKE c \in Ops
  <1>1. op'[c] = IF c = o THEN Over(o, outcome)
                 ELSE IF c \notin ReadersOf(o) THEN op[c]
                 ELSE IF outcome = "ok" THEN Reads(c, op[o].cred)
                 ELSE Over(c, outcome)
    BY Zenon DEF Finish
  <1>2. CASE op'[c] = op[c]
    BY <1>2, SameNotes
  <1>3. CASE \E x : op'[c] = Over(c, x)
    BY <1>3, OverForgets DEF Notes
  <1>4. CASE c \in ReadersOf(o) /\ op'[c] = Reads(c, op[o].cred)
    <2>1. op[c] \in Operations /\ op[c].pc = "waiting"
      BY <1>4 DEF TypeOK, ReadersOf
    <2>2. [op[c] EXCEPT !.pc = "locking", !.reads = None].seen = op[c].seen
      BY <2>1, SMT DEF Operations
    <2>3. op'[c].seen = op[c].seen \/ op'[c].seen = Unknown
      BY <1>4, <2>2, OverForgets, Zenon DEF Reads
    <2> QED
      BY <2>1, <2>3, UnseenNotes DEF Notes
  <1> QED
    BY <1>1, <1>2, <1>3, <1>4, Zenon

\* An outcome is kept with what has been seen.
LEMMA EndsNotes ==
    ASSUME TypeOK, NEW o \in Ops, NEW outcome, Ends(o, outcome)
    PROVE  \A c \in Ops : Notes(c)
  <1>1. op[o] \in Operations
    BY DEF TypeOK
  <1>2. op' = [op EXCEPT ![o] = [[[op[o] EXCEPT !.pc = "releasing"]
                                   EXCEPT !.result = outcome]
                                   EXCEPT !.timer = 0]]
    BY DEF Ends, TypeOK
  <1>3. /\ op'[o].seen = op[o].seen /\ op'[o].cred = op[o].cred
        /\ op'[o].pc = "releasing"
    BY <1>1, <1>2, SMT DEF Operations, TypeOK
  <1>4. \A c \in Ops : c # o => op'[c] = op[c]
    BY <1>2 DEF TypeOK
  <1> QED
    BY <1>3, <1>4, SameNotes DEF Notes

\* The step writes nothing and leaves the copies alone.
LEMMA QuietCopies ==
    ASSUME TypeOK, Copies, UNCHANGED <<file, cache>>,
           \A o \in Ops : Notes(o)
    PROVE  Copies'
  BY CopiesStep DEF Revised, Copied
\* What a getAuth makes of the operations.
LEMMA GetAuthForms ==
    ASSUME TypeOK, NEW c \in Calls, NEW p, GetAuth(c, p), NEW o \in Ops
    PROVE  \/ op'[o] = op[o] \/ \E x : op'[o] = Over(o, x)
           \/ \E k, l : l # "replying" /\ op'[o] = Begun(p, k, l)
           \/ \E r : op'[o] =
                [Begun(p, "getAuth", "waiting") EXCEPT !.reads = r]
  <1>1. c \in Ops
    BY Numbers
  <1>2. CASE op' = [op EXCEPT ![c] =
               IF Decided(cache[p].cred) = "done" THEN Over(c, "ok")
               ELSE Begun(p, "getAuth", "locking")]
    BY <1>2, <1>1, Zenon DEF TypeOK
  <1>3. CASE \E r \in Reloads : op' = [op EXCEPT
               ![c] = [Begun(p, "getAuth", "waiting") EXCEPT !.reads = r],
               ![r] = IF reload[p] = r THEN @
                      ELSE Begun(p, "reload", "locking")]
    <2>1. PICK r \in Reloads : op' = [op EXCEPT
            ![c] = [Begun(p, "getAuth", "waiting") EXCEPT !.reads = r],
            ![r] = IF reload[p] = r THEN @
                   ELSE Begun(p, "reload", "locking")]
      BY <1>3
    <2>2. r \in Ops /\ r # c
      BY Numbers, BoundsAssumption, SMT DEF Calls, Reloads
    <2> QED
      BY <1>1, <2>1, <2>2 DEF TypeOK
  <1> QED
    BY <1>2, <1>3, Zenon DEF GetAuth

LEMMA GetAuthCopies ==
    ASSUME TypeOK, Copies, NEW c \in Calls, NEW p, GetAuth(c, p)
    PROVE  Copies'
  <1>1. UNCHANGED <<file, cache>> /\ c \in Ops
    BY Numbers DEF GetAuth
  <1>2. \A o \in Ops :
          \/ op'[o] = op[o] \/ \E x : op'[o] = Over(o, x)
          \/ \E k, l : l # "replying" /\ op'[o] = Begun(p, k, l)
          \/ \E r : op'[o] =
               [Begun(p, "getAuth", "waiting") EXCEPT !.reads = r]
    BY GetAuthForms
  <1>3. \A r : [Begun(p, "getAuth", "waiting") EXCEPT !.reads = r].seen
                 = Unknown
    BY Zenon DEF Begun, Unused
  <1>4. ASSUME NEW o \in Ops
        PROVE  op'[o] = op[o] \/ op'[o].seen = Unknown
    <2>1. CASE \E x : op'[o] = Over(o, x)
      BY <2>1, OverForgets
    <2>2. CASE \E k, l : l # "replying" /\ op'[o] = Begun(p, k, l)
      BY <2>2, BegunForgets
    <2>3. CASE \E r : op'[o] =
                 [Begun(p, "getAuth", "waiting") EXCEPT !.reads = r]
      BY <1>3, <2>3, Zenon
    <2> QED
      BY <1>2, <2>1, <2>2, <2>3, Zenon
  <1>5. \A o \in Ops : Notes(o)
    BY <1>4, SameNotes DEF Notes
  <1> QED
    BY <1>1, <1>5, QuietCopies

LEMMA LoginCopies ==
    ASSUME TypeOK, Copies, NEW c \in Calls, NEW p, Login(c, p)
    PROVE  Copies'
  <1>1. UNCHANGED <<file, cache>> /\ c \in Ops
    BY Numbers DEF Login, fileVars
  <1>2. [Begun(p, "login", "locking") EXCEPT !.cred = issued'].seen = Unknown
    BY Zenon DEF Begun, Unused
  <1>3. \A o \in Ops : op'[o] = op[o] \/ op'[o].seen = Unknown
    BY <1>1, <1>2 DEF Login, TypeOK
  <1> QED
    BY <1>1, <1>3, SameNotes, QuietCopies DEF Notes

LEMMA LogoutCopies ==
    ASSUME TypeOK, Copies, NEW c \in Calls, NEW p, Logout(c, p)
    PROVE  Copies'
  <1>1. UNCHANGED <<file, cache>> /\ c \in Ops
    BY Numbers DEF Logout, fileVars
  <1>2. \A o \in Ops : op'[o] = op[o] \/ op'[o].seen = Unknown
    BY <1>1, BegunForgets DEF Logout, TypeOK
  <1> QED
    BY <1>1, <1>2, SameNotes, QuietCopies DEF Notes

LEMMA CancelCopies ==
    ASSUME TypeOK, Copies, NEW c \in Calls, Cancel(c)
    PROVE  Copies'
  <1>1. UNCHANGED <<file, cache>> /\ c \in Ops /\ op[c] \in Operations
    BY Numbers DEF Cancel, fileVars, TypeOK
  <1>2. /\ op'[c].seen = op[c].seen
        /\ op[c].pc \notin {"releasing", "returning"}
    BY <1>1, SMT DEF Cancel, TypeOK, Operations
  <1>3. \A o \in Ops : o # c => op'[o] = op[o]
    BY <1>1 DEF Cancel, TypeOK
  <1> QED
    BY <1>1, <1>2, <1>3, SameNotes, UnseenNotes, QuietCopies

LEMMA CancelReaderCopies ==
    ASSUME TypeOK, Copies, NEW c \in Calls, CancelReader(c)
    PROVE  Copies'
  <1>1. UNCHANGED <<file, cache>> /\ c \in Ops
    BY Numbers DEF CancelReader
  <1>2. ASSUME NEW o \in Ops
        PROVE  Notes(o)
    <2>1. op[o] \in Operations
      BY DEF TypeOK
    <2>2. op'[o] = IF o = c
                   THEN [Over(c, "aborted") EXCEPT !.cancelled = TRUE]
                   ELSE IF o = op[c].reads
                   THEN [op[o] EXCEPT !.cancelled = @ \/ Abandoned(c)]
                   ELSE op[o]
      BY Zenon DEF CancelReader
    <2>3. [Over(c, "aborted") EXCEPT !.cancelled = TRUE].seen = Unknown
      BY Zenon DEF Over, Unused
    <2> DEFINE b == op[o].cancelled \/ Abandoned(c)
               m == [op[o] EXCEPT !.cancelled = b]
    <2>4. m.seen = op[o].seen /\ m.cred = op[o].cred /\ m.pc = op[o].pc
      <3> HIDE DEF b
      <3> QED
        BY <2>1, SMT DEF Operations
    <2>5. o = c \/ op'[o] = m \/ op'[o] = op[o]
      BY <2>2, Zenon
    <2> HIDE DEF m
    <2> QED
      BY <2>2, <2>3, <2>4, <2>5 DEF Notes
  <1> QED
    BY <1>1, <1>2, QuietCopies

\* A storage is constructed with the file's content.
LEMMA ConstructCopies ==
    ASSUME TypeOK, Copies, NEW p \in Processes, Construct(p)
    PROVE  Copies'
  <1>1. \A o \in Ops : Notes(o)
    BY SameNotes DEF Construct
  <1>2. file' = file
    BY DEF Construct
  <1>3. \A q \in Processes : cache'[q] = cache[q] \/ cache'[q] = file
    BY DEF Construct, TypeOK
  <1> QED
    BY <1>1, <1>2, <1>3, CopiesStep DEF Copied, Revised

LEMMA AcquireCopies ==
    ASSUME TypeOK, Copies, NEW o \in Ops, Acquire(o)
    PROVE  Copies'
  <1>1. /\ UNCHANGED <<file, cache>> /\ op[o] \in Operations
        /\ op[o].pc = "locking"
    BY DEF Acquire, TypeOK
  <1>2. op'[o].seen = op[o].seen
    BY <1>1, SMT DEF Acquire, TypeOK, Operations
  <1>3. \A c \in Ops : c # o => op'[c] = op[c]
    BY DEF Acquire, TypeOK
  <1> QED
    BY <1>1, <1>2, <1>3, SameNotes, UnseenNotes, QuietCopies

LEMMA GiveUpCopies ==
    ASSUME TypeOK, Copies, NEW o \in Ops, GiveUp(o)
    PROVE  Copies'
  <1>1. UNCHANGED <<file, cache>>
    BY DEF GiveUp
  <1>2. Finish(o, "aborted") \/ Finish(o, "failed")
    BY DEF GiveUp
  <1> QED
    BY <1>1, <1>2, FinishNotes, QuietCopies

LEMMA TouchCopies ==
    ASSUME TypeOK, Copies, NEW o \in Ops, Touch(o)
    PROVE  Copies'
  <1>1. UNCHANGED <<file, cache>> /\ op[o] \in Operations
    BY DEF Touch, TypeOK
  <1>2. CASE op' = op
    BY <1>1, <1>2, SameNotes, QuietCopies
  <1>3. CASE op' = [op EXCEPT ![o].compromised = TRUE]
    <2>1. /\ op'[o].seen = op[o].seen /\ op'[o].cred = op[o].cred
          /\ op'[o].pc = op[o].pc
      BY <1>1, <1>3, SMT DEF TypeOK, Operations
    <2>2. \A c \in Ops : c # o => op'[c] = op[c]
      BY <1>3 DEF TypeOK
    <2>3. \A c \in Ops : Notes(c)
      BY <2>1, <2>2, SameNotes DEF Notes
    <2> QED
      BY <1>1, <2>3, QuietCopies
  <1> QED
    BY <1>2, <1>3 DEF Touch

\* What is written has a revision of its own.
LEMMA WriteCopies ==
    ASSUME TypeOK, Copies, NEW o \in Ops, Writes(o), UNCHANGED cache
    PROVE  Copies'
  <1>1. Revised
    BY DEF Writes, Revised
  <1>2. \A c \in Ops : Notes(c)
    BY EndsNotes DEF Writes
  <1> QED
    BY <1>1, <1>2, CopiesStep DEF Copied

LEMMA ReloadCopies ==
    ASSUME TypeOK, Copies, NEW o \in Ops, op[o].pc = "locked", Reload(o)
    PROVE  Copies'
  <1>1. file' = file /\ op[o] \in Operations
    BY DEF Reload, TypeOK
  <1>2. op'[o].seen = op[o].seen
    BY <1>1, SMT DEF Reload, TypeOK, Operations
  <1>3. \A c \in Ops : c # o => op'[c] = op[c]
    BY DEF Reload, TypeOK
  <1>4. \A c \in Ops : Notes(c)
    BY <1>2, <1>3, SameNotes, UnseenNotes
  <1>5. \A p \in Processes : cache'[p] = cache[p] \/ cache'[p] = file
    BY DEF Reload, TypeOK
  <1> QED
    BY <1>1, <1>4, <1>5, CopiesStep DEF Copied, Revised

\* The revision is noted with the content, under the lock.
LEMMA RecheckCopies ==
    ASSUME TypeOK, Copies, NEW o \in Ops, op[o].pc = "locked", Recheck(o)
    PROVE  Copies'
  <1>1. UNCHANGED <<file, cache>> /\ op[o] \in Operations
    BY DEF Recheck, TypeOK
  <1>2. Notes(o)
    <2>1. CASE Decided(file.cred) = "done"
      <3>1. op'[o] = [op[o] EXCEPT !.pc = "releasing", !.result = "ok",
                                   !.cred = file.cred, !.seen = file.rev]
        BY <2>1 DEF Recheck, TypeOK
      <3>2. /\ op'[o].seen = file.rev /\ op'[o].cred = file.cred
            /\ op'[o].pc = "releasing"
        BY <1>1, <3>1, SMT DEF Operations
      <3> QED
        BY <1>1, <3>2 DEF Notes
    <2>2. CASE Decided(file.cred) # "done"
      <3>1. op'[o] = [op[o] EXCEPT !.pc = "refreshing", !.cred = file.cred]
        BY <2>2 DEF Recheck, TypeOK
      <3>2. op'[o].seen = op[o].seen
        BY <1>1, <3>1, SMT DEF Operations
      <3> QED
        BY <3>2, UnseenNotes
    <2> QED
      BY <2>1, <2>2
  <1>3. \A c \in Ops : c # o => op'[c] = op[c]
    BY DEF Recheck, TypeOK
  <1> QED
    BY <1>1, <1>2, <1>3, SameNotes, QuietCopies

LEMMA ReadFileCopies ==
    ASSUME TypeOK, Copies, NEW o \in Ops, ReadFile(o)
    PROVE  Copies'
  <1>1. CASE ReadFails(o) /\ UNCHANGED <<file, cache>>
    BY <1>1, EndsNotes, QuietCopies DEF ReadFails
  <1>2. CASE Modify(o)
    BY <1>2, WriteCopies DEF Modify
  <1> QED
    BY <1>1, <1>2, ReloadCopies, RecheckCopies DEF ReadFile

LEMMA RotateCopies ==
    ASSUME TypeOK, Copies, NEW o \in Ops, Rotate(o)
    PROVE  Copies'
  <1>1. /\ UNCHANGED <<file, cache>> /\ op[o] \in Operations
        /\ op[o].pc = "refreshing"
    BY DEF Rotate, TypeOK, fileVars
  <1>2. CASE Ends(o, "refused")
    BY <1>1, <1>2, EndsNotes, QuietCopies
  <1>3. CASE op' = [op EXCEPT ![o].pc = "replying", ![o].cred = issued',
                             ![o].shown = op[o].cred]
    <2>1. op'[o].seen = op[o].seen
      BY <1>1, <1>3, SMT DEF TypeOK, Operations
    <2>2. \A c \in Ops : c # o => op'[c] = op[c]
      BY <1>3 DEF TypeOK
    <2> QED
      BY <1>1, <2>1, <2>2, SameNotes, UnseenNotes, QuietCopies
  <1> QED
    BY <1>2, <1>3 DEF Rotate

LEMMA AnsweredCopies ==
    ASSUME TypeOK, Copies, NEW o \in Ops, Answered(o)
    PROVE  Copies'
  <1>1. UNCHANGED cache
    BY DEF Answered
  <1>2. CASE Ends(o, RefusedAs(o)) /\ UNCHANGED file
    BY <1>1, <1>2, EndsNotes, QuietCopies
  <1> QED
    BY <1>1, <1>2, WriteCopies DEF Answered

LEMMA RefreshFailsCopies ==
    ASSUME TypeOK, Copies, NEW o \in Ops, RefreshFails(o)
    PROVE  Copies'
  <1>1. Ends(o, "failed") /\ UNCHANGED <<file, cache>>
    BY DEF RefreshFails, fileVars
  <1> QED
    BY <1>1, EndsNotes, QuietCopies

LEMMA ReleaseCopies ==
    ASSUME TypeOK, Copies, NEW o \in Ops, Release(o)
    PROVE  Copies'
  <1>1. UNCHANGED <<file, cache>> /\ op[o] \in Operations
    BY DEF Release, TypeOK
  <1>2. /\ op'[o].seen = op[o].seen /\ op'[o].cred = op[o].cred
        /\ op'[o].pc = "returning"
    BY <1>1, SMT DEF Release, TypeOK, Operations
  <1>3. \A c \in Ops : c # o => op'[c] = op[c]
    BY DEF Release, TypeOK
  <1>4. \A c \in Ops : Notes(c)
    BY <1>2, <1>3, SameNotes DEF Notes
  <1> QED
    BY <1>1, <1>4, QuietCopies

\* A call leaves its copy under the revision that it noted.
LEMMA ReturnCopies ==
    ASSUME TypeOK, Copies, NEW o \in Ops, Return(o)
    PROVE  Copies'
  <1>1. file' = file
    BY DEF Return
  <1>2. \A c \in Ops : Notes(c)
    BY FinishNotes DEF Return
  <1>3. ASSUME NEW p \in Processes
        PROVE  Copied(p)
    <2> DEFINE copy == [rev |-> op[o].seen, cred |-> op[o].cred]
    <2>1. cache'[p] = cache[p] \/ cache'[p] = copy
      BY DEF Return, TypeOK
    <2>2. copy.rev = op[o].seen /\ copy.cred = op[o].cred
      OBVIOUS
    <2> HIDE DEF copy
    <2> QED
      BY <2>1, <2>2 DEF Copied
  <1> QED
    BY <1>1, <1>2, <1>3, CopiesStep DEF Revised

LEMMA TickCopies ==
    ASSUME TypeOK, Copies, Tick
    PROVE  Copies'
  <1>1. UNCHANGED <<file, cache>>
    BY DEF Tick
  <1>2. ASSUME NEW o \in Ops
        PROVE  Notes(o)
    <2>1. CASE op'[o] = op[o]
      BY <2>1, SameNotes
    <2>2. CASE op'[o] = [op[o] EXCEPT !.timer = @ + 1]
      <3>1. op[o] \in Operations
        BY DEF TypeOK
      <3>2. /\ op'[o].seen = op[o].seen /\ op'[o].cred = op[o].cred
            /\ op'[o].pc = op[o].pc
        BY <2>2, <3>1, SMT DEF Operations
      <3> QED
        BY <3>2 DEF Notes
    <2> QED
      BY <2>1, <2>2 DEF Tick
  <1> QED
    BY <1>1, <1>2, QuietCopies

LEMMA ExpireCopies ==
    ASSUME TypeOK, Copies, Expire
    PROVE  Copies'
  BY SameNotes, QuietCopies DEF Expire, fileVars

\* A torn write has a revision of its own as well.
LEMMA CrashCopies ==
    ASSUME TypeOK, Copies, NEW p \in Processes, Crash(p)
    PROVE  Copies'
  <1>1. Revised
    BY DEF Crash, Revised
  <1>2. ASSUME NEW o \in Ops
        PROVE  Notes(o)
    <2>1. op'[o] = op[o] \/ op'[o] = Over(o, "died")
      BY Zenon DEF Crash
    <2> QED
      BY <2>1, SameNotes, OverForgets DEF Notes
  <1>3. \A q \in Processes : cache'[q] = cache[q] \/ cache'[q] = NoCopy
    BY DEF Crash, TypeOK
  <1> QED
    BY <1>1, <1>2, <1>3, CopiesStep DEF Copied

LEMMA StepCopies ==
    ASSUME TypeOK, Copies, [Next]_vars
    PROVE  Copies'
  <1>1. CASE \E o \in Ops : Progress(o)
    BY <1>1, AcquireCopies, GiveUpCopies, TouchCopies, ReadFileCopies,
       RotateCopies, AnsweredCopies, RefreshFailsCopies, ReleaseCopies,
       ReturnCopies
    DEF Progress
  <1>2. CASE \E c \in Calls, p \in Processes :
               GetAuth(c, p) \/ Login(c, p) \/ Logout(c, p)
    BY <1>2, GetAuthCopies, LoginCopies, LogoutCopies
  <1>3. CASE \E c \in Calls : Cancel(c) \/ CancelReader(c)
    BY <1>3, CancelCopies, CancelReaderCopies
  <1>4. CASE \E p \in Processes : Construct(p) \/ Crash(p)
    BY <1>4, ConstructCopies, CrashCopies
  <1>5. CASE UNCHANGED vars
    BY <1>5, SameNotes, QuietCopies DEF vars, fileVars
  <1> QED
    BY <1>1, <1>2, <1>3, <1>4, <1>5, TickCopies, ExpireCopies DEF Next

LEMMA InitCopies == Init => Copies
  <1> SUFFICES ASSUME Init PROVE Copies
    OBVIOUS
  <1>1. \A o \in Ops : op[o].seen = Unknown
    BY Zenon DEF Init, Unused
  <1>2. file.rev = 1
    BY DEF Init
  <1>3. \A p \in Processes : cache[p].rev = 0
    BY DEF Init, NoCopy, Unknown
  <1> QED
    BY <1>1, <1>2, <1>3, SMT DEF Copies, Noted, Current

\* getAuth answers from the cached copy of its process only with what
\* auth.json holds, whoever has written in between: the revision that
\* AuthStorage keeps with a copy is the one of its content or an older one.
THEOREM CopiesAreCurrent ==
    ASSUME ~LateStarts
    PROVE  Spec => []CacheIsCurrent
  <1>1. Init => Copies
    BY InitCopies
  <1>2. IInv /\ Copies /\ [Next]_vars => Copies'
    BY StepCopies DEF IInv
  <1>3. Copies => CacheIsCurrent
    BY DEF Copies, Current, CacheIsCurrent, Cached
  <1>4. Spec => []IInv
    BY InvariantHolds
  <1> QED
    BY <1>1, <1>2, <1>3, <1>4, PTL DEF Spec
-----------------------------------------------------------------------------
(* Cancellations, and what a refresh was exchanged for *)

\* Who is told that it was aborted had been cancelled.
Honest(o) == op[o].result = "aborted" => op[o].cancelled

\* A reload that is cancelled has no readers and gets none; only one process
\* shares it, and not before it has begun.
Joined(r) ==
    /\ op[r].cancelled => ReadersOf(r) = {}
    /\ \A p \in Processes : reload[p] = r =>
         /\ ~op[r].cancelled /\ op[r].pc # "idle"
         /\ \A q \in Processes : reload[q] = r => q = p
Awaits(c) ==
    op[c].pc = "waiting" =>
      op[c].reads \in Reloads /\ op[c].proc \in Processes
Cancelling ==
    /\ \A o \in Ops : Honest(o)
    /\ \A r \in Reloads : Joined(r)
    /\ \A c \in Calls : Awaits(c)

\* A step after which an operation is what it was told, and neither waits for
\* a reload nor shares one that it did not before.
Tells(o) ==
    /\ Honest(o)'
    /\ op'[o].cancelled => op[o].cancelled \/ o \in Calls
    /\ op'[o].pc = "idle" => op[o].pc = "idle"
    /\ op'[o].pc = "waiting" =>
         /\ op[o].pc = "waiting" /\ op'[o].reads = op[o].reads
         /\ op'[o].proc = op[o].proc
Separate == \A p \in Processes : reload'[p] \in {reload[p], None}

LEMMA CallsAreNoReloads ==
    /\ \A r \in Reloads : r \notin Calls /\ r \in Ops /\ r # None
    /\ \A c \in Calls : c \notin Reloads /\ c \in Ops /\ c # None
  BY BoundsAssumption, NoneAssumption, Numbers, SMT DEF Calls, Reloads

LEMMA TellsStep ==
    ASSUME Cancelling, \A o \in Ops : Tells(o), Separate
    PROVE  Cancelling'
  <1>1. \A o \in Ops : Honest(o)'
    BY DEF Tells
  <1>2. ASSUME NEW r \in Reloads
        PROVE  Joined(r)'
    <2>1. Joined(r) /\ Tells(r) /\ r \notin Calls /\ r # None
      BY CallsAreNoReloads DEF Cancelling
    <2>2. \A c \in Calls : Tells(c)
      BY CallsAreNoReloads
    <2>3. op'[r].cancelled => ReadersOf(r)' = {}
      BY <2>1, <2>2 DEF Tells, Joined, ReadersOf
    <2>4. \A p \in Processes : reload'[p] = r => reload[p] = r
      BY <2>1 DEF Separate
    <2> QED
      BY <2>1, <2>3, <2>4 DEF Joined, Tells
  <1>3. \A c \in Calls : Awaits(c)'
    BY CallsAreNoReloads DEF Tells, Awaits, Cancelling
  <1> QED
    BY <1>1, <1>2, <1>3 DEF Cancelling

LEMMA SameTells ==
    ASSUME Cancelling, NEW o \in Ops, op'[o] = op[o]
    PROVE  Tells(o)
  BY DEF Cancelling, Honest, Tells

LEMMA OneTells ==
    ASSUME Cancelling, NEW o \in Ops, Tells(o), reload' = reload,
           \A c \in Ops : c # o => op'[c] = op[c]
    PROVE  Cancelling'
  BY SameTells, TellsStep DEF Separate

LEMMA OverTells ==
    ASSUME NEW o \in Ops, NEW outcome, op'[o] = Over(o, outcome),
           outcome = "aborted" => op[o].cancelled
    PROVE  Tells(o)
  <1> DEFINE b == op[o].cancelled /\ outcome = "aborted"
  <1>1. Over(o, outcome) = Ended(outcome, b)
    BY Zenon DEF Over, Ended
  <1>2. b \in BOOLEAN
    OBVIOUS
  <1> HIDE DEF b
  <1>3. /\ Ended(outcome, b).pc = "done"
        /\ Ended(outcome, b).result = outcome
    BY SMT DEF Ended, Unused
  <1>4. Ended(outcome, b).cancelled = b
    BY <1>2, SMT DEF Ended, Unused
  <1>5. /\ op'[o].pc = "done" /\ op'[o].result = outcome
        /\ op'[o].cancelled = b
    BY <1>1, <1>3, <1>4
  <1> QED
    BY <1>5 DEF Tells, Honest, b

LEMMA BegunTells ==
    ASSUME NEW o \in Ops, NEW p, NEW k, op'[o] = Begun(p, k, "locking")
    PROVE  Tells(o) /\ ~op'[o].cancelled /\ op'[o].pc = "locking"
  <1>1. /\ op'[o].pc = "locking" /\ op'[o].result = None
        /\ ~op'[o].cancelled
    BY Zenon DEF Begun, Unused
  <1>2. None # "aborted"
    BY NoneAssumption
  <1> QED
    BY <1>1, <1>2 DEF Tells, Honest

\* Whoever waited for a cancelled reload has left it.
LEMMA FinishTells ==
    ASSUME TypeOK, Cancelling, NEW o \in Ops, NEW outcome,
           Finish(o, outcome), outcome = "aborted" => op[o].cancelled
    PROVE  Cancelling'
  <1>1. ASSUME NEW c \in Ops
        PROVE  Tells(c)
    <2>1. op'[c] = IF c = o THEN Over(o, outcome)
                   ELSE IF c \notin ReadersOf(o) THEN op[c]
                   ELSE IF outcome = "ok" THEN Reads(c, op[o].cred)
                   ELSE Over(c, outcome)
      BY Zenon DEF Finish
    <2>2. CASE c = o
      BY <2>1, <2>2, OverTells
    <2>3. CASE c # o /\ c \notin ReadersOf(o)
      BY <2>1, <2>3, SameTells
    <2>4. CASE c # o /\ c \in ReadersOf(o)
      <3>1. o \in Reloads /\ Joined(o) /\ c \in Calls /\ op[c].pc = "waiting"
        BY <2>4 DEF ReadersOf, Awaits, Cancelling
      <3>2. outcome # "aborted"
        BY <2>4, <3>1 DEF Joined
      <3>3. CASE op'[c] = Over(c, outcome) \/ op'[c] = Over(c, "ok")
        BY <3>2, <3>3, OverTells
      <3>4. CASE op'[c] = [op[c] EXCEPT !.pc = "locking", !.reads = None]
        <4>1. op[c] \in Operations
          BY DEF TypeOK
        <4>2. /\ op'[c].pc = "locking" /\ op'[c].result = op[c].result
              /\ op'[c].cancelled = op[c].cancelled
          BY <3>4, <4>1, SMT DEF Operations
        <4> QED
          BY <4>2 DEF Tells, Honest, Cancelling
      <3> QED
        BY <2>1, <2>4, <3>3, <3>4, Zenon DEF Reads
    <2> QED
      BY <2>2, <2>3, <2>4
  <1>2. Separate
    BY DEF Separate, Finish
  <1> QED
    BY <1>1, <1>2, TellsStep

LEMMA EndsTells ==
    ASSUME TypeOK, Cancelling, NEW o \in Ops, NEW outcome, Ends(o, outcome),
           reload' = reload, outcome = "aborted" => op[o].cancelled
    PROVE  Cancelling'
  <1>1. op[o] \in Operations
    BY DEF TypeOK
  <1>2. op'[o] = [op[o] EXCEPT !.pc = "releasing", !.result = outcome,
                               !.timer = 0]
    BY DEF Ends, TypeOK
  <1>3. /\ op'[o].pc = "releasing" /\ op'[o].result = outcome
        /\ op'[o].cancelled = op[o].cancelled
    BY <1>1, <1>2, SMT DEF Operations
  <1>4. \A c \in Ops : c # o => op'[c] = op[c]
    BY DEF Ends, TypeOK
  <1> QED
    BY <1>3, <1>4, OneTells DEF Tells, Honest

\* A reader that comes joins a reload nobody has cancelled, or begins one.
LEMMA GetAuthTells ==
    ASSUME TypeOK, Cancelling, NEW c \in Calls, NEW p \in Processes,
           GetAuth(c, p)
    PROVE  Cancelling'
  <1>1. c \in Ops /\ op[c].pc = "idle"
    BY Numbers DEF GetAuth, Begins
  <1>2. CASE /\ op' = [op EXCEPT ![c] =
                   IF Decided(cache[p].cred) = "done" THEN Over(c, "ok")
                   ELSE Begun(p, "getAuth", "locking")]
             /\ UNCHANGED reload
    <2>1. \A d \in Ops : d # c => op'[d] = op[d]
      BY <1>2 DEF TypeOK
    <2>2. \/ op'[c] = Over(c, "ok")
          \/ op'[c] = Begun(p, "getAuth", "locking")
      BY <1>1, <1>2 DEF TypeOK
    <2>3. Tells(c)
      BY <1>1, <2>2, OverTells, BegunTells
    <2> QED
      BY <1>1, <1>2, <2>1, <2>3, OneTells
  <1>3. ASSUME NEW r \in Reloads, reload[p] = r \/ Begins(r, p),
               reload' = [reload EXCEPT ![p] = r],
               op' = [op EXCEPT
                   ![c] = [Begun(p, "getAuth", "waiting") EXCEPT !.reads = r],
                   ![r] = IF reload[p] = r THEN @
                          ELSE Begun(p, "reload", "locking")]
        PROVE  Cancelling'
    <2>1. r \in Ops /\ r # c /\ r \notin Calls /\ Joined(r)
      BY CallsAreNoReloads DEF Cancelling
    <2>2. /\ op'[c] = [Begun(p, "getAuth", "waiting") EXCEPT !.reads = r]
          /\ op'[r] = op[r] \/ op'[r] = Begun(p, "reload", "locking")
          /\ reload[p] = r => op'[r] = op[r]
          /\ reload[p] # r => op'[r] = Begun(p, "reload", "locking")
          /\ \A d \in Ops : d # c /\ d # r => op'[d] = op[d]
      BY <1>1, <1>3, <2>1 DEF TypeOK
    <2>3. /\ op'[c].pc = "waiting" /\ op'[c].reads = r
          /\ op'[c].proc = p
          /\ op'[c].result = None /\ ~op'[c].cancelled
      BY <2>2, Zenon DEF Begun, Unused
    <2>4. Honest(c)'
      BY <2>3, NoneAssumption DEF Honest
    <2>5. \A d \in Ops : d # c => Tells(d)
      BY <2>1, <2>2, SameTells, BegunTells
    <2>6. ~op'[r].cancelled /\ op'[r].pc # "idle"
      <3>1. CASE reload[p] = r
        BY <2>1, <2>2, <3>1 DEF Joined
      <3>2. CASE reload[p] # r
        BY <2>2, <3>2, Zenon DEF Begun, Unused
      <3> QED
        BY <3>1, <3>2
    <2>7. /\ reload'[p] = r
          /\ \A q \in Processes : q # p => reload'[q] = reload[q]
      BY <1>3 DEF TypeOK
    <2>8. \A q \in Processes : reload[q] = r => q = p
      BY <1>3, <2>1 DEF Joined, Begins
    <2>9. Joined(r)'
      BY <2>6, <2>7, <2>8 DEF Joined
    <2>10. ASSUME NEW s \in Reloads, s # r
           PROVE  Joined(s)'
      <3>1. op'[s] = op[s] /\ Joined(s) /\ s # c
        BY <2>2, <2>10, CallsAreNoReloads DEF Cancelling
      <3>2. \A q \in Processes : reload'[q] = s => reload[q] = s
        BY <2>7, <2>10
      <3>3. ReadersOf(s)' \subseteq ReadersOf(s)
        BY <2>3, <2>5, <2>10, CallsAreNoReloads DEF ReadersOf, Tells
      <3> QED
        BY <3>1, <3>2, <3>3 DEF Joined
    <2>11. \A d \in Calls : Awaits(d)'
      BY <2>3, <2>5, CallsAreNoReloads DEF Awaits, Tells, Cancelling
    <2>12. \A d \in Ops : Honest(d)'
      BY <2>4, <2>5 DEF Tells
    <2> QED
      BY <2>9, <2>10, <2>11, <2>12 DEF Cancelling
  <1> QED
    BY <1>2, <1>3 DEF GetAuth

\* Only the last reader to leave cancels the reload.
LEMMA CancelReaderTells ==
    ASSUME TypeOK, Cancelling, NEW c \in Calls, CancelReader(c)
    PROVE  Cancelling'
  <1>a. PICK s \in Reloads : s = op[c].reads
    BY DEF CancelReader, Cancelling, Awaits
  <1>1. c \in Ops /\ op[c].pc = "waiting" /\ s \in Ops
    BY CallsAreNoReloads DEF CancelReader
  <1>2. s # c /\ s \notin Calls /\ Joined(s)
    BY <1>1, CallsAreNoReloads DEF Cancelling
  <1>3. /\ op'[c] = [Over(c, "aborted") EXCEPT !.cancelled = TRUE]
        /\ op'[s] = [op[s] EXCEPT !.cancelled = @ \/ Abandoned(c)]
        /\ \A d \in Ops : d # c /\ d # s => op'[d] = op[d]
    BY <1>a, <1>1, <1>2, Zenon DEF CancelReader
  <1>4. op'[c].pc = "done" /\ op'[c].cancelled
    BY <1>3, Zenon DEF Over, Unused
  <1>5. /\ op'[s].pc = op[s].pc /\ op'[s].result = op[s].result
        /\ op'[s].reads = op[s].reads
        /\ op'[s].cancelled <=> op[s].cancelled \/ Abandoned(c)
    <2>1. op[s] \in Operations
      BY <1>1 DEF TypeOK
    <2> DEFINE b == op[s].cancelled \/ Abandoned(c)
    <2>2. op'[s] = [op[s] EXCEPT !.cancelled = b]
      BY <1>3
    <2>3. b \in BOOLEAN
      OBVIOUS
    <2> HIDE DEF b
    <2>4. /\ op'[s].pc = op[s].pc /\ op'[s].result = op[s].result
          /\ op'[s].reads = op[s].reads /\ op'[s].cancelled = b
      BY <2>1, <2>2, <2>3, SMT DEF Operations
    <2> QED
      BY <2>4 DEF b
  <1>6. \A d \in Ops : d # s => Tells(d)
    BY <1>3, <1>4, CallsAreNoReloads, SameTells DEF Tells, Honest
  <1>7. \A d \in Ops : Honest(d)'
    BY <1>1, <1>5, <1>6 DEF Tells, Honest, Cancelling
  <1>8. \A d \in Calls : Awaits(d)'
    BY <1>2, <1>6, CallsAreNoReloads DEF Tells, Awaits, Cancelling
  <1>9. \A d \in Calls : d \in ReadersOf(s)' => d \in ReadersOf(s) /\ d # c
    BY <1>a, <1>2, <1>4, <1>6, CallsAreNoReloads DEF ReadersOf, Tells
  <1>10. /\ Separate
         /\ Abandoned(c) => /\ ReadersOf(s) = {c}
                            /\ reload[op[c].proc] = s
                            /\ reload' = [reload EXCEPT
                                            ![op[c].proc] = None]
    BY <1>a DEF Separate, CancelReader, Abandoned, TypeOK
  <1>11. Joined(s)'
    <2>1. ReadersOf(s)' \subseteq Calls
      BY DEF ReadersOf
    <2>2. op'[s].cancelled => ReadersOf(s)' = {}
      BY <1>2, <1>5, <1>9, <1>10, <2>1 DEF Joined
    <2>3. ASSUME NEW p \in Processes, reload'[p] = s
          PROVE  reload[p] = s /\ ~Abandoned(c)
      <3>1. reload[p] = s /\ s # None
        BY <1>1, <1>10, <2>3, CallsAreNoReloads DEF Separate
      <3>2. CASE Abandoned(c)
        <4>1. op[c].proc = p
          <5>1. op[c].proc \in Processes
            BY <1>1 DEF Cancelling, Awaits
          <5> QED
            BY <1>2, <1>10, <3>1, <3>2, <5>1 DEF Joined
        <4> QED
          BY <1>10, <2>3, <3>1, <3>2, <4>1 DEF TypeOK
      <3> QED
        BY <3>1, <3>2
    <2> QED
      BY <1>2, <1>5, <2>2, <2>3 DEF Joined
  <1>12. ASSUME NEW r \in Reloads, r # s
         PROVE  Joined(r)'
    <2>1. r # c /\ r \in Ops /\ r \notin Calls /\ r # None /\ Joined(r)
      BY CallsAreNoReloads DEF Cancelling
    <2>2. op'[r] = op[r]
      BY <1>3, <1>12, <2>1
    <2>3. ReadersOf(r)' \subseteq ReadersOf(r)
      BY <1>2, <1>6, CallsAreNoReloads DEF ReadersOf, Tells
    <2>4. \A p \in Processes : reload'[p] = r => reload[p] = r
      BY <1>10, <2>1 DEF Separate
    <2> QED
      BY <2>1, <2>2, <2>3, <2>4 DEF Joined
  <1> QED
    BY <1>7, <1>8, <1>11, <1>12 DEF Cancelling

LEMMA LoginTells ==
    ASSUME TypeOK, Cancelling, NEW c \in Calls, NEW p, Login(c, p)
    PROVE  Cancelling'
  <1>1. c \in Ops /\ reload' = reload
    BY CallsAreNoReloads DEF Login, fileVars
  <1>2. /\ op'[c] = [Begun(p, "login", "locking") EXCEPT !.cred = issued']
        /\ \A d \in Ops : d # c => op'[d] = op[d]
    BY <1>1 DEF Login, TypeOK
  <1>3. /\ op'[c].pc = "locking" /\ op'[c].result = None
        /\ ~op'[c].cancelled
    BY <1>2, Zenon DEF Begun, Unused
  <1>4. Tells(c)
    BY <1>3, NoneAssumption DEF Tells, Honest
  <1> QED
    BY <1>1, <1>2, <1>4, OneTells

LEMMA LogoutTells ==
    ASSUME TypeOK, Cancelling, NEW c \in Calls, NEW p, Logout(c, p)
    PROVE  Cancelling'
  <1>1. c \in Ops /\ reload' = reload
    BY CallsAreNoReloads DEF Logout, fileVars
  <1>2. /\ op'[c] = Begun(p, "logout", "locking")
        /\ \A d \in Ops : d # c => op'[d] = op[d]
    BY <1>1 DEF Logout, TypeOK
  <1> QED
    BY <1>1, <1>2, BegunTells, OneTells

LEMMA CancelTells ==
    ASSUME TypeOK, Cancelling, NEW c \in Calls, Cancel(c)
    PROVE  Cancelling'
  <1>1. c \in Ops /\ reload' = reload /\ op[c] \in Operations
    BY CallsAreNoReloads DEF Cancel, fileVars, TypeOK
  <1>2. /\ op'[c] = [op[c] EXCEPT !.cancelled = TRUE]
        /\ \A d \in Ops : d # c => op'[d] = op[d]
    BY <1>1 DEF Cancel, TypeOK
  <1>3. op'[c].pc = op[c].pc /\ op'[c].cancelled
    BY <1>1, <1>2, SMT DEF Operations
  <1>4. Tells(c)
    BY <1>3 DEF Tells, Honest, Cancel
  <1> QED
    BY <1>1, <1>2, <1>4, OneTells

LEMMA ConstructTells ==
    ASSUME TypeOK, Cancelling, NEW p, Construct(p)
    PROVE  Cancelling'
  BY SameTells, TellsStep DEF Construct, Separate

LEMMA AcquireTells ==
    ASSUME TypeOK, Cancelling, NEW o \in Ops, Acquire(o)
    PROVE  Cancelling'
  <1>1. op[o] \in Operations /\ reload' = reload
    BY DEF Acquire, TypeOK
  <1>2. /\ op'[o].pc = "locked" /\ op'[o].result = op[o].result
        /\ op'[o].cancelled = op[o].cancelled
    BY <1>1, SMT DEF Acquire, TypeOK, Operations
  <1>3. \A c \in Ops : c # o => op'[c] = op[c]
    BY DEF Acquire, TypeOK
  <1>4. Tells(o)
    BY <1>2 DEF Tells, Honest, Cancelling
  <1> QED
    BY <1>1, <1>3, <1>4, OneTells

LEMMA GiveUpTells ==
    ASSUME TypeOK, Cancelling, NEW o \in Ops, GiveUp(o)
    PROVE  Cancelling'
  BY FinishTells DEF GiveUp

LEMMA TouchTells ==
    ASSUME TypeOK, Cancelling, NEW o \in Ops, Touch(o)
    PROVE  Cancelling'
  <1>1. op[o] \in Operations /\ reload' = reload
    BY DEF Touch, TypeOK
  <1>2. CASE op' = op
    BY <1>1, <1>2, SameTells, OneTells
  <1>3. CASE op' = [op EXCEPT ![o].compromised = TRUE]
    <2>1. /\ op'[o].pc = op[o].pc /\ op'[o].result = op[o].result
          /\ op'[o].cancelled = op[o].cancelled
      BY <1>1, <1>3, SMT DEF TypeOK, Operations
    <2>2. \A c \in Ops : c # o => op'[c] = op[c]
      BY <1>3 DEF TypeOK
    <2>3. op[o].pc # "waiting"
      BY DEF Touch, Holding
    <2>4. Tells(o)
      BY <2>1, <2>3 DEF Tells, Honest, Cancelling
    <2> QED
      BY <1>1, <2>2, <2>4, OneTells
  <1> QED
    BY <1>2, <1>3 DEF Touch

LEMMA ReadFileTells ==
    ASSUME TypeOK, Cancelling, NEW o \in Ops, ReadFile(o)
    PROVE  Cancelling'
  <1>1. op[o] \in Operations /\ reload' = reload
    BY DEF ReadFile, TypeOK
  <1>2. CASE ReadFails(o)
    BY <1>1, <1>2, EndsTells DEF ReadFails, Refused, RefusedAs
  <1>3. CASE Modify(o)
    BY <1>1, <1>3, EndsTells DEF Modify, Writes
  <1>4. ASSUME op'[o].pc \in {"releasing", "refreshing"},
               op'[o].result \in {op[o].result, "ok"},
               op'[o].cancelled = op[o].cancelled,
               \A c \in Ops : c # o => op'[c] = op[c]
        PROVE  Cancelling'
    <2>1. Tells(o)
      BY <1>4 DEF Tells, Honest, Cancelling
    <2> QED
      BY <1>1, <1>4, <2>1, OneTells
  <1>5. CASE Reload(o)
    <2>1. op'[o] = [op[o] EXCEPT !.pc = "releasing", !.result = "ok",
                                 !.cred = file.cred]
      BY <1>5 DEF Reload, TypeOK
    <2>2. /\ op'[o].pc = "releasing" /\ op'[o].result = "ok"
          /\ op'[o].cancelled = op[o].cancelled
      BY <1>1, <2>1, SMT DEF Operations
    <2>3. \A c \in Ops : c # o => op'[c] = op[c]
      BY <1>5 DEF Reload, TypeOK
    <2> QED
      BY <1>4, <2>2, <2>3
  <1>6. CASE Recheck(o)
    <2>1. \A c \in Ops : c # o => op'[c] = op[c]
      BY <1>6 DEF Recheck, TypeOK
    <2>2. CASE Decided(file.cred) = "done"
      <3>1. op'[o] = [op[o] EXCEPT !.pc = "releasing", !.result = "ok",
                                   !.cred = file.cred, !.seen = file.rev]
        BY <1>6, <2>2 DEF Recheck, TypeOK
      <3>2. /\ op'[o].pc = "releasing" /\ op'[o].result = "ok"
            /\ op'[o].cancelled = op[o].cancelled
        BY <1>1, <3>1, SMT DEF Operations
      <3> QED
        BY <1>4, <2>1, <3>2
    <2>3. CASE Decided(file.cred) # "done"
      <3>1. op'[o] = [op[o] EXCEPT !.pc = "refreshing", !.cred = file.cred]
        BY <1>6, <2>3 DEF Recheck, TypeOK
      <3>2. /\ op'[o].pc = "refreshing" /\ op'[o].result = op[o].result
            /\ op'[o].cancelled = op[o].cancelled
        BY <1>1, <3>1, SMT DEF Operations
      <3> QED
        BY <1>4, <2>1, <3>2
    <2> QED
      BY <2>2, <2>3
  <1> QED
    BY <1>2, <1>3, <1>5, <1>6 DEF ReadFile

LEMMA RotateTells ==
    ASSUME TypeOK, Cancelling, NEW o \in Ops, Rotate(o)
    PROVE  Cancelling'
  <1>1. op[o] \in Operations /\ reload' = reload
    BY DEF Rotate, TypeOK, fileVars
  <1>2. CASE Ends(o, "refused")
    BY <1>1, <1>2, EndsTells
  <1>3. CASE op' = [op EXCEPT ![o].pc = "replying", ![o].cred = issued',
                             ![o].shown = op[o].cred]
    <2>1. /\ op'[o].pc = "replying" /\ op'[o].result = op[o].result
          /\ op'[o].cancelled = op[o].cancelled
      BY <1>1, <1>3, SMT DEF TypeOK, Operations
    <2>2. \A c \in Ops : c # o => op'[c] = op[c]
      BY <1>3 DEF TypeOK
    <2>3. Tells(o)
      BY <2>1 DEF Tells, Honest, Cancelling
    <2> QED
      BY <1>1, <2>2, <2>3, OneTells
  <1> QED
    BY <1>2, <1>3 DEF Rotate

LEMMA AnsweredTells ==
    ASSUME TypeOK, Cancelling, NEW o \in Ops, Answered(o)
    PROVE  Cancelling'
  <1>1. reload' = reload
    BY DEF Answered
  <1>2. Ends(o, "ok") \/ (Refused(o) /\ Ends(o, RefusedAs(o)))
    BY DEF Answered, Writes
  <1> QED
    BY <1>1, <1>2, EndsTells DEF Refused, RefusedAs

LEMMA RefreshFailsTells ==
    ASSUME TypeOK, Cancelling, NEW o \in Ops, RefreshFails(o)
    PROVE  Cancelling'
  BY EndsTells DEF RefreshFails, fileVars

LEMMA ReleaseTells ==
    ASSUME TypeOK, Cancelling, NEW o \in Ops, Release(o)
    PROVE  Cancelling'
  <1>1. op[o] \in Operations /\ reload' = reload
    BY DEF Release, TypeOK
  <1>2. /\ op'[o].pc = "returning" /\ op'[o].result = op[o].result
        /\ op'[o].cancelled = op[o].cancelled
    BY <1>1, SMT DEF Release, TypeOK, Operations
  <1>3. \A c \in Ops : c # o => op'[c] = op[c]
    BY DEF Release, TypeOK
  <1>4. Tells(o)
    BY <1>2 DEF Tells, Honest, Cancelling
  <1> QED
    BY <1>1, <1>3, <1>4, OneTells

LEMMA ReturnTells ==
    ASSUME TypeOK, Cancelling, NEW o \in Ops, Return(o)
    PROVE  Cancelling'
  <1>1. op[o].result = "aborted" => op[o].cancelled
    BY DEF Cancelling, Honest
  <1> QED
    BY <1>1, FinishTells DEF Return

LEMMA TickTells ==
    ASSUME TypeOK, Cancelling, Tick
    PROVE  Cancelling'
  <1>1. ASSUME NEW o \in Ops
        PROVE  Tells(o)
    <2>1. CASE op'[o] = op[o]
      BY <2>1, SameTells
    <2>2. CASE /\ op[o].pc \in {"locking", "refreshing", "replying"}
               /\ op'[o] = [op[o] EXCEPT !.timer = @ + 1]
      <3>1. op[o] \in Operations
        BY DEF TypeOK
      <3>2. /\ op'[o].pc = op[o].pc /\ op'[o].result = op[o].result
            /\ op'[o].cancelled = op[o].cancelled
        BY <2>2, <3>1, SMT DEF Operations
      <3> QED
        BY <2>2, <3>2 DEF Tells, Honest, Cancelling
    <2> QED
      BY <2>1, <2>2 DEF Tick
  <1> QED
    BY <1>1, TellsStep DEF Tick, Separate

LEMMA ExpireTells ==
    ASSUME TypeOK, Cancelling, Expire
    PROVE  Cancelling'
  BY SameTells, TellsStep DEF Expire, fileVars, Separate

LEMMA CrashTells ==
    ASSUME TypeOK, Cancelling, NEW p \in Processes, Crash(p)
    PROVE  Cancelling'
  <1>1. \A o \in Ops : op'[o] = op[o] \/ op'[o] = Over(o, "died")
    BY Zenon DEF Crash
  <1>2. \A o \in Ops : Tells(o)
    BY <1>1, SameTells, OverTells
  <1>3. Separate
    BY DEF Separate, Crash, TypeOK
  <1> QED
    BY <1>2, <1>3, TellsStep

LEMMA StepCancelling ==
    ASSUME TypeOK, Cancelling, [Next]_vars
    PROVE  Cancelling'
  <1>1. CASE \E o \in Ops : Progress(o)
    BY <1>1, AcquireTells, GiveUpTells, TouchTells, ReadFileTells,
       RotateTells, AnsweredTells, RefreshFailsTells, ReleaseTells,
       ReturnTells
    DEF Progress
  <1>2. CASE \E c \in Calls, p \in Processes :
               GetAuth(c, p) \/ Login(c, p) \/ Logout(c, p)
    BY <1>2, GetAuthTells, LoginTells, LogoutTells
  <1>3. CASE \E c \in Calls : Cancel(c) \/ CancelReader(c)
    BY <1>3, CancelTells, CancelReaderTells
  <1>4. CASE \E p \in Processes : Construct(p) \/ Crash(p)
    BY <1>4, ConstructTells, CrashTells
  <1>5. CASE UNCHANGED vars
    BY <1>5, SameTells, TellsStep DEF vars, fileVars, Separate
  <1> QED
    BY <1>1, <1>2, <1>3, <1>4, <1>5, TickTells, ExpireTells DEF Next

LEMMA InitCancelling == Init => Cancelling
  <1> SUFFICES ASSUME Init PROVE Cancelling
    OBVIOUS
  <1>1. \A o \in Ops : op[o].pc = "idle" /\ op[o].result = None
                       /\ ~op[o].cancelled
    BY Zenon DEF Init, Unused
  <1>2. \A r \in Reloads : r \in Ops /\ r # None
    BY CallsAreNoReloads
  <1>3. \A c \in Calls : c \in Ops
    BY CallsAreNoReloads
  <1>4. \A p \in Processes : reload[p] = None
    BY DEF Init
  <1>5. \A r \in Reloads : Joined(r)
    BY <1>1, <1>2, <1>4 DEF Joined
  <1>6. \A o \in Ops : Honest(o)
    BY <1>1, NoneAssumption DEF Honest
  <1>7. \A c \in Calls : Awaits(c)
    BY <1>1, <1>3 DEF Awaits
  <1> QED
    BY <1>5, <1>6, <1>7 DEF Cancelling

\* A call of getAuth, login or logout is told that it was aborted only if its
\* own caller has cancelled it, although it may have shared its reload with
\* other readers, and it waits for the lock and the provider no longer than
\* their limits.
THEOREM CallsAreHonest ==
    ASSUME ~LateStarts
    PROVE  Spec => []CallsHonest
  <1>1. Init => Cancelling
    BY InitCancelling
  <1>2. IInv /\ Cancelling /\ [Next]_vars => Cancelling'
    BY StepCancelling DEF IInv
  <1>3. IInv /\ Cancelling => CallsHonest
    BY CallsAreNoReloads
    DEF IInv, Cancelling, Honest, CallsHonest, OnlyCancelledAbort
  <1>4. Spec => []IInv
    BY InvariantHolds
  <1> QED
    BY <1>1, <1>2, <1>3, <1>4, PTL DEF Spec
-----------------------------------------------------------------------------
(* What is written was exchanged for what is stored *)

Exchanged ==
    \A o \in Ops : op[o].pc = "replying" => op[o].shown = file.cred

\* A step after which an operation waits for an answer only if it did before.
Asked(o) ==
    op'[o].pc = "replying" =>
      op[o].pc = "replying" /\ op'[o].shown = op[o].shown

LEMMA SameAsked ==
    ASSUME NEW o, op'[o] = op[o]
    PROVE  Asked(o)
  BY DEF Asked

LEMMA QuietExchanged ==
    ASSUME Exchanged, \A o \in Ops : Asked(o), file' = file
    PROVE  Exchanged'
  BY DEF Exchanged, Asked

LEMMA OverAsked ==
    ASSUME NEW o, NEW outcome, op'[o] = Over(o, outcome)
    PROVE  Asked(o) /\ op'[o].pc = "done"
  <1>1. op'[o].pc = "done"
    BY Zenon DEF Over, Unused
  <1> QED
    BY <1>1 DEF Asked

LEMMA BegunAsked ==
    ASSUME NEW p, NEW k, NEW label
    PROVE  Begun(p, k, label).pc = label
  BY Zenon DEF Begun, Unused

LEMMA JoinsAsked ==
    ASSUME NEW p, NEW r
    PROVE  [Begun(p, "getAuth", "waiting") EXCEPT !.reads = r].pc = "waiting"
  BY Zenon DEF Begun, Unused

LEMMA FinishAsked ==
    ASSUME TypeOK, NEW o \in Ops, NEW outcome, Finish(o, outcome)
    PROVE  \A c \in Ops : Asked(c)
  <1> TAKE c \in Ops
  <1>1. \/ op'[c] = op[c] \/ \E x : op'[c] = Over(c, x)
        \/ op'[c] = Reads(c, op[o].cred)
    BY Zenon DEF Finish
  <1>2. CASE op'[c] = Reads(c, op[o].cred)
    BY <1>2, ReadsTyped, OverAsked DEF Asked
  <1> QED
    BY <1>1, <1>2, SameAsked, OverAsked

\* The outcome is kept, whatever it is.
LEMMA EndsAsked ==
    ASSUME TypeOK, NEW o \in Ops, NEW outcome, Ends(o, outcome)
    PROVE  /\ op'[o].pc = "releasing" /\ \A c \in Ops : Asked(c)
           /\ \A c \in Ops : c # o => op'[c] = op[c]
  <1>1. op[o] \in Operations
    BY DEF TypeOK
  <1>2. op'[o] = [op[o] EXCEPT !.pc = "releasing", !.result = outcome,
                               !.timer = 0]
    BY DEF Ends, TypeOK
  <1>3. op'[o].pc = "releasing"
    BY <1>1, <1>2, SMT DEF Operations
  <1>4. \A c \in Ops : c # o => op'[c] = op[c]
    BY DEF Ends, TypeOK
  <1> QED
    BY <1>3, <1>4, SameAsked DEF Asked

LEMMA OneAsked ==
    ASSUME NEW o \in Ops, op'[o].pc # "replying",
           \A c \in Ops : c # o => op'[c] = op[c]
    PROVE  \A c \in Ops : Asked(c)
  BY SameAsked DEF Asked

\* While one operation writes, no other waits for an answer.
LEMMA WriteExchanged ==
    ASSUME TypeOK, Locked, NEW o \in Ops, op[o].pc \in Holding, Writes(o)
    PROVE  Exchanged'
  <1>1. op'[o].pc = "releasing" /\ \A c \in Ops : c # o => op'[c] = op[c]
    BY EndsAsked DEF Writes
  <1>2. \A c \in Ops : op'[c].pc # "replying"
    BY <1>1, OneHolds DEF Holding
  <1> QED
    BY <1>2 DEF Exchanged

LEMMA CallsExchanged ==
    ASSUME TypeOK, Exchanged, NEW c \in Calls, NEW p \in Processes,
           GetAuth(c, p) \/ Login(c, p) \/ Logout(c, p)
    PROVE  Exchanged'
  <1>1. c \in Ops
    BY Numbers
  <1>2. CASE GetAuth(c, p)
    <2>1. ASSUME NEW o \in Ops
          PROVE  Asked(o)
      <3>1. CASE \E k, l : l # "replying" /\ op'[o] = Begun(p, k, l)
        BY <3>1, BegunAsked DEF Asked
      <3>2. CASE \E r : op'[o] =
                   [Begun(p, "getAuth", "waiting") EXCEPT !.reads = r]
        <4>1. op'[o].pc = "waiting"
          BY <3>2, JoinsAsked
        <4> QED
          BY <4>1 DEF Asked
      <3>3. CASE op'[o] = op[o] \/ \E x : op'[o] = Over(o, x)
        BY <3>3, SameAsked, OverAsked
      <3> QED
        BY <1>2, <3>1, <3>2, <3>3, GetAuthForms, Zenon
    <2> QED
      BY <1>2, <2>1, QuietExchanged DEF GetAuth
  <1>3. CASE Login(c, p)
    <2>1. [Begun(p, "login", "locking") EXCEPT !.cred = issued'].pc
            = "locking"
      BY Zenon DEF Begun, Unused
    <2>2. op'[c].pc = "locking" /\ \A o \in Ops : o # c => op'[o] = op[o]
      BY <1>1, <1>3, <2>1 DEF Login, TypeOK
    <2> QED
      BY <1>1, <1>3, <2>2, OneAsked, QuietExchanged DEF Login, fileVars
  <1>4. CASE Logout(c, p)
    <2>1. op'[c].pc = "locking" /\ \A o \in Ops : o # c => op'[o] = op[o]
      BY <1>1, <1>4, BegunAsked DEF Logout, TypeOK
    <2> QED
      BY <1>1, <1>4, <2>1, OneAsked, QuietExchanged DEF Logout, fileVars
  <1> QED
    BY <1>2, <1>3, <1>4

LEMMA CancelExchanged ==
    ASSUME TypeOK, Exchanged, NEW c \in Calls, Cancel(c) \/ CancelReader(c)
    PROVE  Exchanged'
  <1>1. file' = file /\ c \in Ops
    BY Numbers DEF Cancel, CancelReader, fileVars
  <1>2. ASSUME NEW o \in Ops, NEW b \in BOOLEAN,
               op'[o] = [op[o] EXCEPT !.cancelled = b]
        PROVE  Asked(o)
    <2>1. op[o] \in Operations
      BY DEF TypeOK
    <2>2. op'[o].pc = op[o].pc /\ op'[o].shown = op[o].shown
      BY <1>2, <2>1, SMT DEF Operations
    <2> QED
      BY <2>2 DEF Asked
  <1>3. CASE Cancel(c)
    <2>1. /\ op'[c] = [op[c] EXCEPT !.cancelled = TRUE]
          /\ \A o \in Ops : o # c => op'[o] = op[o]
      BY <1>1, <1>3 DEF Cancel, TypeOK
    <2> QED
      BY <1>1, <1>2, <2>1, SameAsked, QuietExchanged
  <1>4. CASE CancelReader(c)
    <2>1. ASSUME NEW o \in Ops
          PROVE  Asked(o)
      <3> DEFINE b == op[o].cancelled \/ Abandoned(c)
      <3>1. \/ o = c /\ op'[o] = [Over(c, "aborted") EXCEPT !.cancelled = TRUE]
            \/ op'[o] = [op[o] EXCEPT !.cancelled = b]
            \/ op'[o] = op[o]
        BY <1>4, Zenon DEF CancelReader
      <3>2. [Over(c, "aborted") EXCEPT !.cancelled = TRUE].pc = "done"
        BY Zenon DEF Over, Unused
      <3>3. b \in BOOLEAN
        OBVIOUS
      <3> HIDE DEF b
      <3> QED
        BY <1>2, <3>1, <3>2, <3>3, SameAsked DEF Asked
    <2> QED
      BY <1>1, <2>1, QuietExchanged
  <1> QED
    BY <1>3, <1>4

LEMMA ReadFileExchanged ==
    ASSUME TypeOK, Locked, Exchanged, NEW o \in Ops, ReadFile(o)
    PROVE  Exchanged'
  <1>1. op[o] \in Operations /\ op[o].pc \in Holding
    BY DEF ReadFile, TypeOK, Holding
  <1>2. CASE ReadFails(o) /\ UNCHANGED <<file, cache>>
    BY <1>2, EndsAsked, QuietExchanged DEF ReadFails
  <1>3. CASE Modify(o)
    BY <1>1, <1>3, WriteExchanged DEF Modify
  <1>4. CASE Reload(o)
    <2>1. op'[o] = [op[o] EXCEPT !.pc = "releasing", !.result = "ok",
                                 !.cred = file.cred]
      BY <1>4 DEF Reload, TypeOK
    <2>2. op'[o].pc = "releasing"
      BY <1>1, <2>1, SMT DEF Operations
    <2>3. \A c \in Ops : c # o => op'[c] = op[c]
      BY <1>4 DEF Reload, TypeOK
    <2> QED
      BY <1>4, <2>2, <2>3, OneAsked, QuietExchanged DEF Reload
  <1>5. CASE Recheck(o)
    <2>1. \A c \in Ops : c # o => op'[c] = op[c]
      BY <1>5 DEF Recheck, TypeOK
    <2>2. op'[o].pc # "replying"
      <3>1. CASE Decided(file.cred) = "done"
        <4>1. op'[o] = [op[o] EXCEPT !.pc = "releasing", !.result = "ok",
                                     !.cred = file.cred, !.seen = file.rev]
          BY <1>5, <3>1 DEF Recheck, TypeOK
        <4> QED
          BY <1>1, <4>1, SMT DEF Operations
      <3>2. CASE Decided(file.cred) # "done"
        <4>1. op'[o] = [op[o] EXCEPT !.pc = "refreshing", !.cred = file.cred]
          BY <1>5, <3>2 DEF Recheck, TypeOK
        <4> QED
          BY <1>1, <4>1, SMT DEF Operations
      <3> QED
        BY <3>1, <3>2
    <2> QED
      BY <1>5, <2>1, <2>2, OneAsked, QuietExchanged DEF Recheck
  <1> QED
    BY <1>2, <1>3, <1>4, <1>5 DEF ReadFile

\* What is shown to the provider is what is stored.
LEMMA RotateExchanged ==
    ASSUME TypeOK, Rotating, Exchanged, NEW o \in Ops, Rotate(o)
    PROVE  Exchanged'
  <1>1. /\ op[o] \in Operations /\ op[o].pc = "refreshing" /\ file' = file
        /\ op[o].cred = file.cred
    BY DEF Rotate, TypeOK, fileVars, Rotating, Shows
  <1>2. CASE Ends(o, "refused")
    BY <1>1, <1>2, EndsAsked, QuietExchanged
  <1>3. CASE op' = [op EXCEPT ![o].pc = "replying", ![o].cred = issued',
                             ![o].shown = op[o].cred]
    <2>1. op'[o].shown = op[o].cred
      BY <1>1, <1>3, SMT DEF TypeOK, Operations
    <2>2. \A c \in Ops : c # o => op'[c] = op[c]
      BY <1>3 DEF TypeOK
    <2> QED
      BY <1>1, <2>1, <2>2 DEF Exchanged
  <1> QED
    BY <1>2, <1>3 DEF Rotate

LEMMA AnsweredExchanged ==
    ASSUME TypeOK, Locked, Exchanged, NEW o \in Ops, Answered(o)
    PROVE  Exchanged'
  <1>1. op[o].pc \in Holding
    BY DEF Answered, Holding
  <1>2. CASE Ends(o, RefusedAs(o)) /\ UNCHANGED file
    BY <1>2, EndsAsked, QuietExchanged
  <1> QED
    BY <1>1, <1>2, WriteExchanged DEF Answered

\* These wait for an answer as long as they did, and write nothing.
LEMMA OthersExchanged ==
    ASSUME TypeOK, Exchanged, NEW o \in Ops,
           Acquire(o) \/ GiveUp(o) \/ Touch(o) \/ RefreshFails(o)
             \/ Release(o) \/ Return(o)
    PROVE  Exchanged'
  <1>1. file' = file /\ op[o] \in Operations
    BY DEF Acquire, GiveUp, Touch, RefreshFails, Release, Return, fileVars,
           TypeOK
  <1>2. CASE Acquire(o) \/ Release(o)
    <2>1. op'[o].pc \in {"locked", "returning"}
      BY <1>1, <1>2, SMT DEF Acquire, Release, TypeOK, Operations
    <2>2. \A c \in Ops : c # o => op'[c] = op[c]
      BY <1>2 DEF Acquire, Release, TypeOK
    <2> QED
      BY <1>1, <2>1, <2>2, OneAsked, QuietExchanged
  <1>3. CASE GiveUp(o) \/ Return(o)
    BY <1>1, <1>3, FinishAsked, QuietExchanged DEF GiveUp, Return
  <1>4. CASE RefreshFails(o)
    BY <1>1, <1>4, EndsAsked, QuietExchanged DEF RefreshFails
  <1>5. CASE Touch(o)
    <2>1. CASE op' = op
      BY <1>1, <2>1, SameAsked, QuietExchanged
    <2>2. CASE op' = [op EXCEPT ![o].compromised = TRUE]
      <3>1. op'[o].pc = op[o].pc /\ op'[o].shown = op[o].shown
        BY <1>1, <2>2, SMT DEF TypeOK, Operations
      <3>2. \A c \in Ops : c # o => op'[c] = op[c]
        BY <2>2 DEF TypeOK
      <3>3. \A c \in Ops : Asked(c)
        BY <3>1, <3>2, SameAsked DEF Asked
      <3> QED
        BY <1>1, <3>3, QuietExchanged
    <2> QED
      BY <1>5, <2>1, <2>2 DEF Touch
  <1> QED
    BY <1>2, <1>3, <1>4, <1>5

LEMMA TickExchanged ==
    ASSUME TypeOK, Exchanged, Tick
    PROVE  Exchanged'
  <1>1. ASSUME NEW o \in Ops
        PROVE  Asked(o)
    <2>1. CASE op'[o] = [op[o] EXCEPT !.timer = @ + 1]
      <3>1. op[o] \in Operations
        BY DEF TypeOK
      <3>2. op'[o].pc = op[o].pc /\ op'[o].shown = op[o].shown
        BY <2>1, <3>1, SMT DEF Operations
      <3> QED
        BY <3>2 DEF Asked
    <2> QED
      BY <2>1, SameAsked DEF Tick
  <1> QED
    BY <1>1, QuietExchanged DEF Tick

\* A write that a crash tears was the only one under way.
LEMMA CrashExchanged ==
    ASSUME TypeOK, Locked, Exchanged, NEW p \in Processes, Crash(p)
    PROVE  Exchanged'
  <1>1. ASSUME NEW o \in Ops
        PROVE  /\ op'[o] = op[o] \/ op'[o].pc = "done"
               /\ o \in Of(p) => op'[o].pc = "done"
    <2>1. op'[o] = IF o \in Of(p) THEN Over(o, "died") ELSE op[o]
      BY Zenon DEF Crash
    <2> QED
      BY <2>1, OverAsked
  <1>2. CASE file' = file
    BY <1>1, <1>2 DEF Exchanged
  <1>3. ASSUME NEW d \in Of(p), Writing(d)
        PROVE  Exchanged'
    <2>1. d \in Ops /\ op[d].pc \in Holding
      BY <1>3 DEF Of, Writing, Holding
    <2>2. \A o \in Ops : op'[o].pc # "replying"
      BY <1>1, <2>1, OneHolds DEF Holding
    <2> QED
      BY <2>2 DEF Exchanged
  <1> QED
    BY <1>2, <1>3 DEF Crash

LEMMA StepExchanged ==
    ASSUME IInv, Exchanged, [Next]_vars
    PROVE  Exchanged'
  <1>1. TypeOK /\ Locked /\ Rotating
    BY DEF IInv
  <1>2. CASE \E o \in Ops : Progress(o)
    BY <1>1, <1>2, ReadFileExchanged, RotateExchanged, AnsweredExchanged,
       OthersExchanged
    DEF Progress
  <1>3. CASE \E c \in Calls, p \in Processes :
               GetAuth(c, p) \/ Login(c, p) \/ Logout(c, p)
    BY <1>1, <1>3, CallsExchanged
  <1>4. CASE \E c \in Calls : Cancel(c) \/ CancelReader(c)
    BY <1>1, <1>4, CancelExchanged
  <1>5. CASE \E p \in Processes : Construct(p)
    BY <1>5, SameAsked, QuietExchanged DEF Construct
  <1>6. CASE \E p \in Processes : Crash(p)
    BY <1>1, <1>6, CrashExchanged
  <1>7. CASE Expire \/ UNCHANGED vars
    BY <1>7, SameAsked, QuietExchanged DEF Expire, vars, fileVars
  <1> QED
    BY <1>1, <1>2, <1>3, <1>4, <1>5, <1>6, <1>7, TickExchanged DEF Next

LEMMA InitExchanged == Init => Exchanged
  <1> SUFFICES ASSUME Init PROVE Exchanged
    OBVIOUS
  <1>1. \A o \in Ops : op[o].pc = "idle"
    BY Zenon DEF Init, Unused
  <1> QED
    BY <1>1 DEF Exchanged

\* A refresh writes what the provider gave for the credential that auth.json
\* holds at that moment: the login or logout of another process that came in
\* between is neither undone nor overwritten.
THEOREM UpdatesStand ==
    ASSUME ~LateStarts
    PROVE  Spec => NoUpdateUndone
  <1>1. Init => Exchanged
    BY InitExchanged
  <1>2. IInv /\ Exchanged /\ [Next]_vars => Exchanged'
    BY StepExchanged
  <1>3. Exchanged /\ [Next]_vars =>
          [\A o \in Ops : op[o].pc = "replying" /\ op'[o].result = "ok"
                          => file.cred = op[o].shown]_vars
    BY DEF Exchanged
  <1>4. Spec => []IInv
    BY InvariantHolds
  <1> QED
    BY <1>1, <1>2, <1>3, <1>4, PTL DEF Spec, NoUpdateUndone
=============================================================================

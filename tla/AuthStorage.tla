----------------------------- MODULE AuthStorage -----------------------------
(***************************************************************************)
(* The credentials in auth.json and their OAuth refresh                    *)
(* (packages/coding-agent/src/core/auth-storage.ts and                     *)
(* packages/ai/src/auth/resolve.ts, with login and logout of               *)
(* packages/ai/src/models.ts).  Several processes share the file; a        *)
(* directory beside it, made by the library proper-lockfile, is the lock.  *)
(*                                                                         *)
(* An operation is a call (getAuth, login or logout) or a reload that the  *)
(* readers of a process share.  Each is a sequence of awaits: it tries to  *)
(* get the lock, reads the file, may exchange its refresh token with the   *)
(* provider, writes, releases the lock and updates the cached copy of its  *)
(* process.  A signal may be aborted and a process may die between any two *)
(* of them.                                                                *)
(*                                                                         *)
(* One provider is modelled; a credential is the number of its refresh     *)
(* token, and the provider takes each refresh token once (rotation).  Time *)
(* advances in ticks of five seconds, the greatest unit in which the       *)
(* limits of the code (10, 15 and 30 s) are whole; what an operation does  *)
(* without waiting for the lock or the provider takes less than a tick.    *)
(***************************************************************************)
EXTENDS Integers, FiniteSets

CONSTANTS
    Processes,
    MaxCalls,       \* bound: calls of getAuth, login and logout
    MaxReloads,     \* bound: reloads shared by readers
    LateStarts,     \* whether a storage may be constructed while another
                    \* process has held the lock for the limit it uses
    MaxTokens,      \* bound: refresh tokens issued
    MaxCrashes,     \* bound: processes that die
    None

ASSUME BoundsAssumption ==
    /\ MaxCalls \in Nat /\ MaxReloads \in Nat /\ MaxCrashes \in Nat
    /\ MaxTokens \in Nat \ {0}
ASSUME StartsAssumption == LateStarts \in BOOLEAN

\* Nothing else is None.
ASSUME NoneAssumption ==
    /\ None \notin Nat /\ None \notin [owner : Nat, age : Nat]
    /\ None \notin {"getAuth", "login", "logout", "reload", "refused", "aborted"}

VARIABLES
    file,       \* revision and credential of auth.json
    lock,       \* the lock directory: whose it is and the age of its mtime
    cache,      \* per process: readState.data and readState.revision
    reload,     \* per process: readState.reload
    op,         \* the operations
    \* the provider and the world
    valid,      \* refresh tokens the provider would take
    issued, expired, dead,
    lost        \* history: a new token or the file's content was lost

fileVars == <<file, lock, cache, reload>>
providerVars == <<valid, issued>>
worldVars == <<expired, dead>>
vars == <<fileVars, op, providerVars, worldVars, lost>>

\* Calls and reloads are numbered in the order they begin.
Calls == 1..MaxCalls
Reloads == MaxCalls + 1..MaxCalls + MaxReloads
Ops == Calls \cup Reloads
NoCredential == 0
\* What a crash in the middle of writeFileSync leaves: parts of JSON.
Torn == -1
\* A revision that equals no file's: "undefined".
Unknown == 0

\* Limits, in ticks.
ImpatientStale == 2 \* Mutant: less than what the holder touches it by.
SyncStale == 2      \* proper-lockfile's default, used by lockSync
AsyncStale == 6     \* staleMs
TouchEvery == 3     \* proper-lockfile's default, half of staleMs
LockDeadline == 6   \* staleMs again
RefreshTimeout == 3 \* DEFAULT_OAUTH_REFRESH_TIMEOUT_MS

\* cred: the credential read, to be written, or returned; shown: the one the
\* provider exchanged for it; seen: the revision noted under the lock; reads:
\* the reload a reader waits for; timer: ticks spent waiting for the lock or
\* the provider.
Unused == [pc |-> "idle", proc |-> None, kind |-> None,
           cred |-> NoCredential, shown |-> NoCredential, seen |-> Unknown,
           reads |-> None, timer |-> 0, cancelled |-> FALSE,
           compromised |-> FALSE, result |-> None]
NoCopy == [rev |-> Unknown, cred |-> NoCredential]

Holding == {"locked", "refreshing", "replying", "releasing"}
Usable(t) == t # NoCredential /\ t \notin expired

\* The lock may be taken: it is free, or its mtime is too old.
Available(limit) == lock = None \/ (lock # None /\ lock.age >= limit)

Init ==
    /\ file = [rev |-> 1, cred |-> 1] /\ lock = None
    /\ cache = [p \in Processes |-> NoCopy]
    /\ reload = [p \in Processes |-> None]
    /\ op = [o \in Ops |-> Unused]
    /\ valid = {1} /\ issued = 1 /\ expired = {1} /\ dead = {} /\ lost = FALSE
-----------------------------------------------------------------------------
(* Ends of operations *)

\* A reader has got the stored credential: what is missing or still good is
\* returned, what expires soon is refreshed under the lock.
Decided(t) == IF t = NoCredential \/ Usable(t) THEN "done" ELSE "locking"

ReadersOf(r) == {c \in Calls : op[c].pc = "waiting" /\ op[c].reads = r}

Over(o, outcome) ==
    [Unused EXCEPT !.pc = "done", !.result = outcome,
                   !.cancelled = op[o].cancelled /\ outcome = "aborted"]

\* The reader goes on with what its reload has read.
Reads(c, t) ==
    IF Decided(t) = "done" THEN Over(c, "ok")
    ELSE [op[c] EXCEPT !.pc = "locking", !.reads = None]

\* Operation o ends; if it is a reload, so does the wait of its readers.
Finish(o, outcome) ==
    /\ op' = [c \in Ops |->
                IF c = o THEN Over(o, outcome)
                ELSE IF c \notin ReadersOf(o) THEN op[c]
                ELSE IF outcome = "ok" THEN Reads(c, op[o].cred)
                ELSE Over(c, outcome)]
    /\ reload' = [p \in Processes |-> IF reload[p] = o THEN None
                                      ELSE reload[p]]
-----------------------------------------------------------------------------
(* Calls *)

Begins(o, p) ==
    /\ op[o].pc = "idle" /\ p \notin dead
    /\ \A q \in Ops : q < o /\ (q \in Calls <=> o \in Calls)
                      => op[q].pc # "idle"

Begun(p, k, label) ==
    [Unused EXCEPT !.proc = p, !.kind = k, !.pc = label]

Cached(p) == cache[p].rev # Unknown /\ cache[p].rev = file.rev

\* getAuth: the cached copy is good while the file's revision is the same;
\* otherwise the call joins the reload of its process or starts one.
GetAuth(c, p) ==
    /\ Begins(c, p)
    /\ \/ /\ Cached(p)
          /\ op' = [op EXCEPT ![c] =
               IF Decided(cache[p].cred) = "done" THEN Over(c, "ok")
               ELSE Begun(p, "getAuth", "locking")]
          /\ UNCHANGED reload
       \/ /\ ~Cached(p)
          /\ \E r \in Reloads :
               /\ reload[p] = r \/ (reload[p] = None /\ Begins(r, p))
               /\ reload' = [reload EXCEPT ![p] = r]
               /\ op' = [op EXCEPT
                    ![c] = [Begun(p, "getAuth", "waiting") EXCEPT !.reads = r],
                    ![r] = IF reload[p] = r THEN @
                           ELSE Begun(p, "reload", "locking")]
    /\ UNCHANGED <<file, lock, cache, providerVars, worldVars, lost>>

\* The provider's login flow has ended with a new credential.
Login(c, p) ==
    /\ Begins(c, p) /\ issued < MaxTokens
    /\ issued' = issued + 1 /\ valid' = valid \cup {issued'}
    /\ op' = [op EXCEPT ![c] =
                [Begun(p, "login", "locking") EXCEPT !.cred = issued']]
    /\ UNCHANGED <<fileVars, worldVars, lost>>

Logout(c, p) ==
    /\ Begins(c, p)
    /\ op' = [op EXCEPT ![c] = Begun(p, "logout", "locking")]
    /\ UNCHANGED <<fileVars, providerVars, worldVars, lost>>

\* The signal of a call is aborted while it is still looked at.
Cancel(c) ==
    /\ op[c].pc \in {"locking", "locked", "refreshing", "replying"}
    /\ ~op[c].cancelled
    /\ op' = [op EXCEPT ![c].cancelled = TRUE]
    /\ UNCHANGED <<fileVars, providerVars, worldVars, lost>>

\* A cancelled reader leaves its reload at once; the last one to leave aborts
\* the reload, and the next reader starts another.
\* Mutant: any reader that leaves aborts it.
LeftByOne(c) == reload[op[c].proc] = op[c].reads

Abandoned(c) ==
    ReadersOf(op[c].reads) = {c} /\ reload[op[c].proc] = op[c].reads
CancelReader(c) ==
    /\ op[c].pc = "waiting"
    /\ op' = [o \in Ops |->
         IF o = c THEN [Over(c, "aborted") EXCEPT !.cancelled = TRUE]
         ELSE IF o = op[c].reads
         THEN [op[o] EXCEPT !.cancelled = @ \/ Abandoned(c)] ELSE op[o]]
    /\ reload' = [reload EXCEPT ![op[c].proc] =
                    IF Abandoned(c) THEN None ELSE @]
    /\ UNCHANGED <<file, lock, cache, providerVars, worldVars, lost>>

HolderWorks == lock # None /\ op[lock.owner].pc \in Holding

\* A storage is constructed: reload() takes the lock synchronously, with the
\* library's default for when a lock is stale.
Construct(p) ==
    /\ p \notin dead /\ ~Cached(p)
    /\ Available(SyncStale) /\ (LateStarts \/ ~HolderWorks)
    /\ lock' = None
    /\ cache' = [cache EXCEPT ![p] = IF file.cred = Torn THEN @ ELSE file]
    /\ UNCHANGED <<file, reload, op, providerVars, worldVars, lost>>
-----------------------------------------------------------------------------
(* withLockAsync *)

\* lockfile.lock(): makes the directory, or replaces a stale one, which the
\* library does by stat, rmdir and mkdir; here it is one step.
Acquire(o) ==
    /\ op[o].pc = "locking" /\ Available(AsyncStale)
    /\ lock' = [owner |-> o, age |-> 0]
    /\ op' = [op EXCEPT ![o].pc = "locked", ![o].timer = 0]
    /\ UNCHANGED <<file, cache, reload, providerVars, worldVars, lost>>

\* Mutant: a waiter does not look at the clock.
GiveUpLate(o) ==
    /\ op[o].pc = "locking" /\ op[o].cancelled
    /\ Finish(o, "aborted")
    /\ UNCHANGED <<file, lock, cache, providerVars, worldVars, lost>>

GiveUp(o) ==
    /\ op[o].pc = "locking"
    /\ \/ op[o].cancelled /\ Finish(o, "aborted")
       \/ /\ ~op[o].cancelled /\ ~Available(AsyncStale)
          /\ op[o].timer = LockDeadline
          /\ Finish(o, "failed")
    /\ UNCHANGED <<file, lock, cache, providerVars, worldVars, lost>>

\* The library touches the directory while it is held, and may find then
\* that it is another's.
Touch(o) ==
    /\ op[o].pc \in Holding /\ ~op[o].compromised
    /\ IF lock # None /\ lock.owner = o
       THEN /\ lock.age = TouchEvery /\ lock' = [lock EXCEPT !.age = 0]
            /\ UNCHANGED op
       ELSE op' = [op EXCEPT ![o].compromised = TRUE] /\ UNCHANGED lock
    /\ UNCHANGED <<file, cache, reload, providerVars, worldVars, lost>>

\* The outcome is kept while the lock is being released.
Ends(o, outcome) ==
    op' = [op EXCEPT ![o].pc = "releasing", ![o].result = outcome,
                     ![o].timer = 0]

Refused(o) == op[o].compromised \/ op[o].cancelled
RefusedAs(o) == IF op[o].compromised THEN "failed" ELSE "aborted"

Writes(o) ==
    /\ file' = [rev |-> file.rev + 1, cred |-> op[o].cred]
    /\ Ends(o, "ok")

\* The callback has the file's content: what it does up to the answer of the
\* provider, and for a login or a logout to the end.
ReadFails(o) == IF Refused(o) THEN Ends(o, RefusedAs(o)) ELSE Ends(o, "failed")

Reload(o) ==
    /\ op[o].kind = "reload"
    /\ cache' = [cache EXCEPT ![op[o].proc] = file]
    /\ op' = [op EXCEPT ![o].pc = "releasing", ![o].result = "ok",
                        ![o].cred = file.cred]
    /\ UNCHANGED file

\* Mutant: the token seen before the lock was taken is refreshed.
RecheckCached(o) ==
    /\ op[o].kind = "getAuth"
    /\ op' = [op EXCEPT ![o] =
         [@ EXCEPT !.pc = "refreshing",
                   !.cred = IF cache[op[o].proc] = NoCopy THEN file.cred
                            ELSE cache[op[o].proc].cred]]
    /\ UNCHANGED <<file, cache>>

Recheck(o) ==
    /\ op[o].kind = "getAuth"
    /\ op' = [op EXCEPT ![o] =
         IF Decided(file.cred) = "done"
         THEN [@ EXCEPT !.pc = "releasing", !.result = "ok",
                        !.cred = file.cred, !.seen = file.rev]
         ELSE [@ EXCEPT !.pc = "refreshing", !.cred = file.cred]]
    /\ UNCHANGED <<file, cache>>

Modify(o) ==
    /\ op[o].kind \in {"login", "logout"}
    /\ Writes(o) /\ UNCHANGED cache

ReadFile(o) ==
    /\ op[o].pc = "locked"
    /\ IF Refused(o) \/ file.cred = Torn
       THEN ReadFails(o) /\ UNCHANGED <<file, cache>>
       ELSE Reload(o) \/ Recheck(o) \/ Modify(o)
    /\ UNCHANGED <<lock, reload, providerVars, worldVars, lost>>

\* The provider takes the refresh token and issues another, or refuses it.
Rotate(o) ==
    /\ op[o].pc = "refreshing"
    /\ IF op[o].cred \in valid
       THEN /\ issued < MaxTokens /\ issued' = issued + 1
            /\ valid' = (valid \ {op[o].cred}) \cup {issued'}
            /\ op' = [op EXCEPT ![o].pc = "replying", ![o].cred = issued',
                                ![o].shown = op[o].cred]
       ELSE Ends(o, "refused") /\ UNCHANGED providerVars
    /\ UNCHANGED <<fileVars, worldVars, lost>>

\* Mutant: the new credential is returned but not written.
AnsweredUnsaved(o) ==
    /\ op[o].pc = "replying"
    /\ Ends(o, "ok")
    /\ UNCHANGED <<fileVars, providerVars, worldVars, lost>>

\* The new credential is here and is written.
Answered(o) ==
    /\ op[o].pc = "replying"
    /\ IF Refused(o)
       THEN Ends(o, RefusedAs(o)) /\ lost' = TRUE /\ UNCHANGED file
       ELSE Writes(o) /\ UNCHANGED lost
    /\ UNCHANGED <<lock, cache, reload, providerVars, worldVars>>

\* The refresh is aborted, fails on the network or times out; the provider
\* may have taken the token.
RefreshFails(o) ==
    /\ op[o].pc \in {"refreshing", "replying"}
    /\ Ends(o, "failed")
    /\ lost' = (lost \/ op[o].pc = "replying")
    /\ UNCHANGED <<fileVars, providerVars, worldVars>>

\* release() removes the directory, whosever it is, unless the library has
\* noticed that it is not ours.
Release(o) ==
    /\ op[o].pc = "releasing"
    /\ lock' = IF op[o].compromised THEN lock ELSE None
    /\ op' = [op EXCEPT ![o].pc = "returning", ![o].shown = NoCredential]
    /\ UNCHANGED <<file, cache, reload, providerVars, worldVars, lost>>

\* Mutant: the revision is the file's now, not the one under the lock.
ReturnLate(o) ==
    /\ op[o].pc = "returning"
    /\ Finish(o, op[o].result)
    /\ cache' = IF op[o].result # "ok" \/ op[o].kind = "reload" THEN cache
                ELSE [cache EXCEPT ![op[o].proc] =
                        [rev |-> file.rev, cred |-> op[o].cred]]
    /\ UNCHANGED <<file, lock, providerVars, worldVars, lost>>

\* modify() and delete() update the cached copy; others may have written.
Return(o) ==
    /\ op[o].pc = "returning"
    /\ Finish(o, op[o].result)
    /\ cache' = IF op[o].result # "ok" \/ op[o].kind = "reload" THEN cache
                ELSE [cache EXCEPT ![op[o].proc] =
                        [rev |-> op[o].seen, cred |-> op[o].cred]]
    /\ UNCHANGED <<file, lock, providerVars, worldVars, lost>>
-----------------------------------------------------------------------------
(* Time, expiry and crashes *)

\* Nothing waits for what takes less than a tick.
Patient(o) ==
    \/ op[o].pc \in {"idle", "waiting", "done"}
    \/ /\ ~op[o].cancelled
       /\ \/ op[o].pc = "locking" /\ op[o].timer < LockDeadline
          \/ /\ op[o].pc \in {"refreshing", "replying"}
             /\ op[o].timer < RefreshTimeout
TouchDue == lock # None /\ op[lock.owner].pc \in Holding
              /\ lock.age = TouchEvery

Tick ==
    /\ \A o \in Ops : Patient(o)
    /\ ~TouchDue
    /\ lock' = IF lock = None \/ lock.age = AsyncStale THEN lock
               ELSE [lock EXCEPT !.age = @ + 1]
    /\ op' = [o \in Ops |->
         IF op[o].pc \in {"locking", "refreshing", "replying"}
         THEN [op[o] EXCEPT !.timer = @ + 1] ELSE op[o]]
    /\ UNCHANGED <<file, cache, reload, providerVars, worldVars, lost>>

Expire ==
    /\ Usable(file.cred) /\ file.cred # Torn
    /\ expired' = expired \cup {file.cred}
    /\ UNCHANGED <<fileVars, op, providerVars, dead, lost>>

\* A process dies; its lock stays, and a write in progress leaves the file
\* empty or torn.
Of(p) == {o \in Ops : op[o].proc = p}
Writing(o) ==
    /\ ~Refused(o)
    /\ \/ op[o].pc = "replying"
       \/ op[o].pc = "locked" /\ op[o].kind \in {"login", "logout"}
Crash(p) ==
    /\ p \notin dead /\ Cardinality(dead) < MaxCrashes
    /\ dead' = dead \cup {p}
    /\ \/ UNCHANGED file
       \/ /\ \E o \in Of(p) : Writing(o)
          /\ \E left \in {NoCredential, Torn} :
               file' = [rev |-> file.rev + 1, cred |-> left]
    /\ lost' = (lost \/ file' # file
                  \/ \E o \in Of(p) : op[o].pc = "replying")
    /\ op' = [o \in Ops |-> IF o \in Of(p) THEN Over(o, "died") ELSE op[o]]
    /\ cache' = [cache EXCEPT ![p] = NoCopy]
    /\ reload' = [reload EXCEPT ![p] = None]
    /\ UNCHANGED <<lock, providerVars, expired>>
-----------------------------------------------------------------------------
Progress(o) ==
    \/ Acquire(o) \/ GiveUp(o) \/ Touch(o) \/ ReadFile(o) \/ Rotate(o)
    \/ Answered(o) \/ RefreshFails(o) \/ Release(o)
    \/ Return(o)

Next ==
    \/ \E o \in Ops : Progress(o)
    \/ \E c \in Calls, p \in Processes :
         GetAuth(c, p) \/ Login(c, p) \/ Logout(c, p)
    \/ \E c \in Calls : Cancel(c) \/ CancelReader(c)
    \/ \E p \in Processes : Construct(p) \/ Crash(p)
    \/ Tick \/ Expire

Spec == Init /\ [][Next]_vars

\* Time passes, and what has settled is resumed.
FairSpec == Spec /\ WF_vars(\E o \in Ops : Progress(o)) /\ WF_vars(Tick)
-----------------------------------------------------------------------------
(* Correctness *)

Tokens == 1..MaxTokens
Operations == [
    pc : Holding \cup {"idle", "waiting", "locking", "returning", "done"},
    proc : Processes \cup {None},
    kind : {None, "getAuth", "login", "logout", "reload"},
    cred : Tokens \cup {NoCredential}, shown : Tokens \cup {NoCredential},
    seen : Nat, reads : Reloads \cup {None},
    timer : 0..LockDeadline, cancelled : BOOLEAN, compromised : BOOLEAN,
    result : {None, "ok", "failed", "aborted", "refused", "died"}]

\* The type invariant of the file, its lock and the operations.
TypeOK ==
    /\ file \in [rev : Nat \ {Unknown},
                 cred : Tokens \cup {NoCredential, Torn}]
    /\ lock \in {None} \cup [owner : Ops, age : 0..AsyncStale]
    /\ cache \in [Processes -> [rev : Nat, cred : Tokens \cup {NoCredential}]]
    /\ reload \in [Processes -> Reloads \cup {None}]
    /\ op \in [Ops -> Operations]
    /\ valid \in SUBSET Tokens /\ issued \in Tokens
    /\ expired \in SUBSET Tokens /\ dead \in SUBSET Processes
    /\ lost \in BOOLEAN

\* "Mutual exclusion per provider id, cross-process too" (types.ts): no two
\* operations are between reading the file and releasing its lock.
Critical == {o \in Ops : op[o].pc \in Holding}
MutualExclusion == Cardinality(Critical) <= 1

\* "Refresh once globally": unless an answer was lost on its way, the provider
\* is never shown a refresh token that it has already replaced.
RefreshedOnce == lost \/ \A o \in Ops : op[o].result # "refused"
RotationSafe == MutualExclusion /\ RefreshedOnce

\* And "persist the rotated credential before release": then the stored
\* refresh token is one the provider takes, or its replacement is at hand.
StoredIsUsable ==
    \/ lost \/ file.cred = NoCredential \/ file.cred \in valid
    \/ \E o \in Critical : op[o].kind = "getAuth" /\ op[o].cred \in valid

\* The revision that says the cached copy is good was the copy's.
CacheIsCurrent == \A p \in Processes :
    Cached(p) => cache[p].cred = file.cred

\* Readers that share a reload do not share a cancellation: a call is aborted
\* only if its own caller has cancelled it.  (The timers of TypeOK bound how
\* long it waits for the lock or the provider.)
OnlyCancelledAbort ==
    \A c \in Calls : op[c].result = "aborted" => op[c].cancelled
CallsHonest == TypeOK /\ OnlyCancelledAbort

\* A refresh, a login and a logout do not undo each other: what a refresh
\* writes was exchanged for the credential that is stored at that moment, so
\* that it neither brings back one that was removed nor replaces another's.
NoUpdateUndone ==
    [][\A o \in Ops : op[o].pc = "replying" /\ op'[o].result = "ok"
                      => file.cred = op[o].shown]_vars

\* Every call ends, also behind the lock of a process that has died: there is
\* always a moment to come at which none is under way.
CallsEnd == []<>(\A c \in Calls : op[c].pc \in {"idle", "done"})
=============================================================================

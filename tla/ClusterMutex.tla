---------------------------- MODULE ClusterMutex ----------------------------
(***************************************************************************)
(* The lock that makes call state operations atomic: the cluster mutex of  *)
(* server/cluster/mutex.go as lockCall, lockCallReturnState and unlockCall *)
(* (server/sync.go) use it for one channel.                                *)
(*                                                                         *)
(* Every node keeps one Mutex value per channel: a process-local           *)
(* sync.Mutex (mut) and, while locked, a goroutine that refreshes the key  *)
(* in the plugin key-value store.  The key carries no owner: every node    *)
(* writes the same byte, refreshes whatever key it finds and deletes       *)
(* whatever key it finds.                                                  *)
(***************************************************************************)
EXTENDS Integers, FiniteSets

CONSTANTS
    Nodes,            \* plugin instances of the cluster
    Procs,            \* goroutines that run call handlers
    NodeOf,           \* the node each goroutine runs on
    NoProc,           \* no goroutine
    Recorders,        \* goroutines that run handleRecordingAction
    TTL,              \* MutexConfig.TTL, in time units
    RefreshInterval,  \* MutexConfig.RefreshInterval
    MaxDelay,         \* longest delay of a refresh or of a key deletion
    RefreshMayFail,   \* the store may fail a refresh
    DeleteMayFail,    \* the store may fail a deletion
    RelockMayFail     \* the second lock of startRecordingJob may fail

ASSUME ProcAssumption ==
    /\ NoProc \notin Procs
    /\ NodeOf \in [Procs -> Nodes]
    /\ Recorders \subseteq Procs

\* MutexConfig.IsValid, and delays that leave a refresh inside the TTL.
ASSUME TimeAssumption ==
    /\ TTL \in Nat /\ RefreshInterval \in Nat /\ MaxDelay \in Nat
    /\ RefreshInterval > 0
    /\ RefreshInterval + RefreshInterval <= TTL
    /\ RefreshInterval + MaxDelay < TTL

ASSUME FlagAssumption ==
    {RefreshMayFail, DeleteMayFail, RelockMayFail} \subseteq BOOLEAN

VARIABLES
    kv,       \* time until the key expires, 0 when there is no key
    mut,      \* m.mut of each node: the goroutine that locked it, or NoProc
    refr,     \* refresh goroutine of each node; "nil" iff m.stopCh is nil
    age,      \* time since the key was last written for the node's holder
    pc,       \* where each goroutine is
    stage,    \* which of its locks a goroutine is on
    breach    \* history: a refresh failed, or a stray unlock hit a held mutex

vars == <<kv, mut, refr, age, pc, stage, breach>>

PCs == {"idle", "wait", "poll", "cs", "unlocking", "job", "stray"}
Stages == {"first", "second", "last"}
Refreshers == {"nil", "running", "exited"}

TypeOK ==
    /\ kv \in 0..TTL
    /\ mut \in [Nodes -> Procs \cup {NoProc}]
    /\ refr \in [Nodes -> Refreshers]
    /\ age \in [Nodes -> 0..(RefreshInterval + MaxDelay)]
    /\ pc \in [Procs -> PCs]
    /\ stage \in [Procs -> Stages]
    /\ breach \in BOOLEAN

Init ==
    /\ kv = 0
    /\ mut = [n \in Nodes |-> NoProc]
    /\ refr = [n \in Nodes |-> "nil"]
    /\ age = [n \in Nodes |-> 0]
    /\ pc = [p \in Procs |-> "idle"]
    /\ stage = [p \in Procs |-> "first"]
    /\ breach = FALSE

-----------------------------------------------------------------------------
(* Lock *)

\* A handler calls lockCall: it waits for the local mutex.
LockCall(p) ==
    /\ pc[p] \in {"idle", "job"}
    /\ pc' = [pc EXCEPT ![p] = "wait"]
    /\ stage' = [stage EXCEPT ![p] = IF pc[p] = "job" THEN "second" ELSE "first"]
    /\ UNCHANGED <<kv, mut, refr, age, breach>>

\* m.mut.Lock() returns.
LocalLock(p) ==
    /\ pc[p] = "wait"
    /\ mut[NodeOf[p]] = NoProc
    /\ mut' = [mut EXCEPT ![NodeOf[p]] = p]
    /\ pc' = [pc EXCEPT ![p] = "poll"]
    /\ UNCHANGED <<kv, refr, age, stage, breach>>

\* Mutants of TryLock: an expiry one unit too long; a set that is not atomic.
TryLock_LongExpiry(p) ==
    /\ pc[p] = "poll"
    /\ kv = 0
    /\ kv' = TTL + 1
    /\ refr' = [refr EXCEPT ![NodeOf[p]] = "running"]
    /\ age' = [age EXCEPT ![NodeOf[p]] = 0]
    /\ pc' = [pc EXCEPT ![p] = "cs"]
    /\ UNCHANGED <<mut, stage, breach>>

TryLock_NotAtomic(p) ==
    /\ pc[p] = "poll"
    /\ kv' = TTL
    /\ refr' = [refr EXCEPT ![NodeOf[p]] = "running"]
    /\ age' = [age EXCEPT ![NodeOf[p]] = 0]
    /\ pc' = [pc EXCEPT ![p] = "cs"]
    /\ UNCHANGED <<mut, stage, breach>>

\* tryLock succeeds only if the key does not exist; a failed or errored
\* attempt changes nothing and is retried.
TryLock(p) ==
    /\ pc[p] = "poll"
    /\ kv = 0
    /\ kv' = TTL
    /\ refr' = [refr EXCEPT ![NodeOf[p]] = "running"]
    /\ age' = [age EXCEPT ![NodeOf[p]] = 0]
    /\ pc' = [pc EXCEPT ![p] = "cs"]
    /\ UNCHANGED <<mut, stage, breach>>

\* The process of node n is gone: all its goroutines and its mutex value.
ProcessExit(n) ==
    /\ mut' = [mut EXCEPT ![n] = NoProc]
    /\ refr' = [refr EXCEPT ![n] = "nil"]
    /\ age' = [age EXCEPT ![n] = 0]
    /\ pc' = [p \in Procs |-> IF NodeOf[p] = n THEN "idle" ELSE pc[p]]
    /\ stage' = [p \in Procs |-> IF NodeOf[p] = n THEN "first" ELSE stage[p]]

\* Mutant of LockTimeout: m.mut stays locked.
LockTimeout_KeepsMut(p) ==
    /\ pc[p] = "poll"
    /\ stage[p] = "second" => RelockMayFail
    /\ pc' = [pc EXCEPT ![p] = "idle"]
    /\ UNCHANGED <<kv, mut, refr, age, stage, breach>>

\* The lock context expires between two attempts.  Unlocking a sync.Mutex
\* that is not locked ends the process.  A recorder whose second lock failed
\* still runs the deferred unlockCall of handleRecordingAction.
LockTimeout(p) ==
    /\ pc[p] = "poll"
    /\ stage[p] = "second" => RelockMayFail
    /\ IF mut[NodeOf[p]] = NoProc
       THEN ProcessExit(NodeOf[p])
       ELSE /\ mut' = [mut EXCEPT ![NodeOf[p]] = NoProc]
            /\ pc' = [pc EXCEPT ![p] = IF stage[p] = "second" THEN "stray" ELSE "idle"]
            /\ stage' = [stage EXCEPT ![p] = IF @ = "second" THEN "last" ELSE "first"]
            /\ UNCHANGED <<refr, age>>
    /\ UNCHANGED <<kv, breach>>

-----------------------------------------------------------------------------
(* Unlock *)

\* Where a goroutine goes once unlockCall returned: done; RunJob without the
\* lock (startRecordingJob); or, when the second lockCallReturnState locked
\* but could not read the state, the deferred second unlock.
AfterUnlock(p) ==
    {"idle"}
    \cup (IF p \in Recorders /\ stage[p] = "first" THEN {"job"} ELSE {})
    \cup (IF stage[p] = "second" /\ RelockMayFail THEN {"stray"} ELSE {})

Continue(p, nexts) ==
    \E next \in nexts :
        /\ pc' = [pc EXCEPT ![p] = next]
        /\ stage' = [stage EXCEPT ![p] = IF next = "stray" THEN "last" ELSE "first"]

\* m.mut.TryLock() succeeds: a warning, and the lock is left as it was.
UnlockUnlocked(p) ==
    /\ pc[p] \in {"cs", "stray"}
    /\ mut[NodeOf[p]] = NoProc
    /\ Continue(p, AfterUnlock(p))
    /\ UNCHANGED <<kv, mut, refr, age, breach>>

\* Mutant of UnlockBegin: the refresh goroutine is not stopped.
UnlockBegin_KeepsRefreshing(p) ==
    /\ pc[p] \in {"cs", "stray"}
    /\ mut[NodeOf[p]] # NoProc
    /\ refr[NodeOf[p]] # "nil"
    /\ pc' = [pc EXCEPT ![p] = "unlocking"]
    /\ breach' = (breach \/ mut[NodeOf[p]] # p)
    /\ UNCHANGED <<kv, mut, refr, age, stage>>

\* close(m.stopCh), wait for m.doneCh: the refresh goroutine is gone.
UnlockBegin(p) ==
    /\ pc[p] \in {"cs", "stray"}
    /\ mut[NodeOf[p]] # NoProc
    /\ refr[NodeOf[p]] # "nil"
    /\ refr' = [refr EXCEPT ![NodeOf[p]] = "nil"]
    /\ pc' = [pc EXCEPT ![p] = "unlocking"]
    /\ breach' = (breach \/ mut[NodeOf[p]] # p)
    /\ UNCHANGED <<kv, mut, age, stage>>

\* close of a nil channel panics.  An HTTP handler recovers after the deferred
\* m.mut.Unlock() and the deferred unlockCall of handleRecordingAction; any
\* other goroutine takes the process down.
UnlockPanic(p) ==
    /\ pc[p] \in {"cs", "stray"}
    /\ mut[NodeOf[p]] # NoProc
    /\ refr[NodeOf[p]] = "nil"
    /\ breach' = TRUE
    /\ UNCHANGED kv
    /\ \/ /\ p \notin Recorders
          /\ ProcessExit(NodeOf[p])
       \/ /\ mut' = [mut EXCEPT ![NodeOf[p]] = NoProc]
          /\ Continue(p, {"idle"} \cup IF p \in Recorders /\ stage[p] = "first"
                                     THEN {"stray"} ELSE {})
          /\ UNCHANGED <<refr, age>>

\* KVDelete, then the deferred m.mut.Unlock().
UnlockFinish(p) ==
    /\ pc[p] = "unlocking"
    /\ kv' \in {0} \cup (IF DeleteMayFail THEN {kv} ELSE {})
    /\ IF mut[NodeOf[p]] = NoProc
       THEN ProcessExit(NodeOf[p])
       ELSE /\ mut' = [mut EXCEPT ![NodeOf[p]] = NoProc]
            /\ age' = [age EXCEPT ![NodeOf[p]] = 0]
            /\ Continue(p, AfterUnlock(p))
            /\ UNCHANGED refr
    /\ UNCHANGED breach

-----------------------------------------------------------------------------
(* Refresh, time and crashes *)

\* Mutant of RefreshLock: the expiry is not extended.
RefreshLock_SameExpiry(n) ==
    /\ refr[n] = "running"
    /\ age[n] >= RefreshInterval
    /\ kv > 0
    /\ age' = [age EXCEPT ![n] = 0]
    /\ UNCHANGED <<kv, mut, refr, pc, stage, breach>>

\* refreshLock finds a key, whoever wrote it, and gives it a new expiry.
RefreshLock(n) ==
    /\ refr[n] = "running"
    /\ age[n] >= RefreshInterval
    /\ kv > 0
    /\ kv' = TTL
    /\ age' = [age EXCEPT ![n] = 0]
    /\ UNCHANGED <<mut, refr, pc, stage, breach>>

\* refreshLock finds no key, or the store fails: the goroutine gives up.
RefreshGivesUp(n) ==
    /\ refr[n] = "running"
    /\ age[n] >= RefreshInterval
    /\ kv = 0 \/ RefreshMayFail
    /\ refr' = [refr EXCEPT ![n] = "exited"]
    /\ age' = [age EXCEPT ![n] = 0]
    /\ breach' = TRUE
    /\ UNCHANGED <<kv, mut, pc, stage>>

\* Node n has a refresh or a deletion under way, which takes bounded time.
Timed(n) ==
    \/ refr[n] = "running"
    \/ \E p \in Procs : NodeOf[p] = n /\ pc[p] = "unlocking"

Tick ==
    /\ kv > 0 \/ \E n \in Nodes : Timed(n)
    /\ \A n \in Nodes : Timed(n) => age[n] < RefreshInterval + MaxDelay
    /\ kv' = IF kv > 0 THEN kv - 1 ELSE 0
    /\ age' = [n \in Nodes |-> IF Timed(n) THEN age[n] + 1 ELSE age[n]]
    /\ UNCHANGED <<mut, refr, pc, stage, breach>>

Crash(n) ==
    /\ \E p \in Procs : NodeOf[p] = n /\ pc[p] # "idle"
    /\ ProcessExit(n)
    /\ UNCHANGED <<kv, breach>>

-----------------------------------------------------------------------------
ProcNext(p) ==
    \/ LockCall(p) \/ LocalLock(p) \/ TryLock(p) \/ LockTimeout(p)
    \/ UnlockUnlocked(p) \/ UnlockBegin(p) \/ UnlockPanic(p) \/ UnlockFinish(p)

NodeNext(n) == RefreshLock(n) \/ RefreshGivesUp(n) \/ Crash(n)

Next ==
    \/ \E p \in Procs : ProcNext(p)
    \/ \E n \in Nodes : NodeNext(n)
    \/ Tick

Spec == Init /\ [][Next]_vars

\* Handlers end, so their unlock runs; a sync.Mutex does not starve a waiter;
\* polling ends by success or by the 10 s context; tickers fire; time passes.
Fairness ==
    /\ \A p \in Procs :
          /\ SF_vars(LocalLock(p))
          /\ WF_vars(TryLock(p) \/ LockTimeout(p))
          /\ WF_vars(UnlockUnlocked(p) \/ UnlockBegin(p) \/ UnlockPanic(p))
          /\ WF_vars(UnlockFinish(p))
    /\ \A n \in Nodes : WF_vars(RefreshLock(n) \/ RefreshGivesUp(n))
    /\ WF_vars(Tick)

FairSpec == Spec /\ Fairness

-----------------------------------------------------------------------------
(* Properties *)

\* "Mutex is similar to sync.Mutex, except usable by multiple plugin
\* instances across a cluster": at most one handler is between its lockCall
\* and its unlockCall.
MutualExclusion ==
    \A p, q \in Procs : pc[p] = "cs" /\ pc[q] = "cs" => p = q

\* Only two things break the exclusion: a refresh goroutine that gave up,
\* and an unlock by a goroutine that does not hold the mutex.  Node crashes,
\* failed deletions and late refreshes alone never do.
ExclusionUnlessBreached == ~breach => MutualExclusion

\* A handler keeps the local mutex of its node and a live, refreshed key for
\* as long as it works on the call.
HolderKeepsKey ==
    ~breach => \A p \in Procs : pc[p] = "cs" =>
        kv > 0 /\ mut[NodeOf[p]] = p /\ refr[NodeOf[p]] = "running"

\* A goroutine owns the key until its Unlock has deleted it.
Owning(p) == pc[p] \in {"cs", "unlocking"}

Owned ==
    /\ \A p \in Procs : Owning(p) \/ pc[p] = "poll" <=> mut[NodeOf[p]] = p
    /\ \A p \in Procs : pc[p] = "cs" => refr[NodeOf[p]] = "running"
    /\ \A p \in Procs : Owning(p) => kv + age[NodeOf[p]] >= TTL
    /\ \A p, q \in Procs : Owning(p) /\ Owning(q) => p = q

\* Why the exclusion holds.  Until a breach, the local mutex of a node belongs
\* to the goroutine that polls, works or unlocks on it; the one owner of the
\* key in the cluster has it refreshed; and the key outlives the delay of a
\* refresh or of a deletion.
OwnerInvariant == ~breach => Owned

\* lockCall returns, with the lock or with an error: no goroutine waits for
\* the channel's lock for ever.
LockReturns ==
    \A p \in Procs : pc[p] \in {"wait", "poll"} ~> pc[p] \notin {"wait", "poll"}

\* "If an error occurs deleting, the mutex kv will still expire, allowing
\* later retry": a key is never left behind for good.
KeyIsReleased == []<>(kv = 0)

-----------------------------------------------------------------------------
(* The lock the handlers see *)

LockHolder ==
    IF \E p \in Procs : pc[p] = "cs" THEN CHOOSE p \in Procs : pc[p] = "cs" ELSE NoProc

Abstract == INSTANCE AbstractLock WITH holder <- LockHolder

\* The mutex implements a lock with a single holder, as long as nothing
\* breached it.
ImplementsLock == Abstract!Init /\ [][breach' \/ Abstract!Next]_LockHolder
=============================================================================

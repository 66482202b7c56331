------------------------- MODULE ClusterMutexProofs -------------------------
(***************************************************************************)
(* Proofs about the cluster mutex, for any number of nodes and goroutines, *)
(* any TTL and any combination of faults.                                  *)
(***************************************************************************)
EXTENDS ClusterMutex, TLAPS

(* Type correctness *)

LEMMA ExitType ==
    ASSUME TypeOK, NEW n \in Nodes, ProcessExit(n)
    PROVE  /\ mut' \in [Nodes -> Procs \cup {NoProc}]
           /\ refr' \in [Nodes -> Refreshers]
           /\ age' \in [Nodes -> 0..(RefreshInterval + MaxDelay)]
           /\ pc' \in [Procs -> PCs]
           /\ stage' \in [Procs -> Stages]
  BY TimeAssumption DEF TypeOK, ProcessExit, Refreshers, PCs, Stages

LEMMA ContinueType ==
    ASSUME TypeOK, NEW p \in Procs, NEW nexts \in SUBSET PCs, Continue(p, nexts)
    PROVE  pc' \in [Procs -> PCs] /\ stage' \in [Procs -> Stages]
  BY DEF TypeOK, Continue, Stages

LEMMA AfterUnlockType == \A p : AfterUnlock(p) \in SUBSET PCs
  BY DEF AfterUnlock, PCs

\* Every variable keeps its type: in particular the key never outlives its
\* TTL and a refresh or deletion is never later than its interval and delay.
THEOREM TypeCorrect == Spec => []TypeOK
<1>1. Init => TypeOK
  <2> SUFFICES ASSUME Init PROVE TypeOK
    OBVIOUS
  <2>1. kv \in 0..TTL /\ age \in [Nodes -> 0..(RefreshInterval + MaxDelay)]
    BY TimeAssumption DEF Init
  <2>2. mut \in [Nodes -> Procs \cup {NoProc}] /\ refr \in [Nodes -> Refreshers]
    BY DEF Init, Refreshers
  <2>3. pc \in [Procs -> PCs] /\ stage \in [Procs -> Stages] /\ breach \in BOOLEAN
    BY DEF Init, PCs, Stages
  <2> QED BY <2>1, <2>2, <2>3 DEF TypeOK
<1>2. TypeOK /\ [Next]_vars => TypeOK'
  <2> SUFFICES ASSUME TypeOK, [Next]_vars PROVE TypeOK'
    OBVIOUS
  <2> USE ProcAssumption, TimeAssumption
  <2>1. ASSUME NEW p \in Procs, LockCall(p) PROVE TypeOK'
    BY <2>1 DEF TypeOK, LockCall, PCs, Stages
  <2>2. ASSUME NEW p \in Procs, LocalLock(p) PROVE TypeOK'
    BY <2>2 DEF TypeOK, LocalLock, PCs
  <2>3. ASSUME NEW p \in Procs, TryLock(p) PROVE TypeOK'
    BY <2>3 DEF TypeOK, TryLock, PCs, Refreshers
  <2>4. ASSUME NEW p \in Procs, LockTimeout(p) PROVE TypeOK'
    <3>1. CASE mut[NodeOf[p]] = NoProc
      BY <2>4, <3>1, ExitType DEF TypeOK, LockTimeout
    <3>2. CASE mut[NodeOf[p]] # NoProc
      BY <2>4, <3>2 DEF TypeOK, LockTimeout, PCs, Stages
    <3> QED BY <3>1, <3>2
  <2>5. ASSUME NEW p \in Procs, UnlockUnlocked(p) PROVE TypeOK'
    BY <2>5, ContinueType, AfterUnlockType DEF TypeOK, UnlockUnlocked
  <2>6. ASSUME NEW p \in Procs, UnlockBegin(p) PROVE TypeOK'
    BY <2>6 DEF TypeOK, UnlockBegin, PCs, Refreshers
  <2>7. ASSUME NEW p \in Procs, UnlockPanic(p) PROVE TypeOK'
    <3>1. CASE ProcessExit(NodeOf[p])
      BY <2>7, <3>1, ExitType DEF TypeOK, UnlockPanic
    <3>2. CASE ~ProcessExit(NodeOf[p])
      <4> DEFINE nexts == {"idle"} \cup IF p \in Recorders /\ stage[p] = "first"
                                        THEN {"stray"} ELSE {}
      <4>1. nexts \in SUBSET PCs
        BY DEF PCs
      <4>2. /\ mut' = [mut EXCEPT ![NodeOf[p]] = NoProc]
            /\ Continue(p, nexts)
            /\ UNCHANGED <<refr, age>>
            /\ UNCHANGED kv
            /\ breach' = TRUE
        BY <2>7, <3>2 DEF UnlockPanic
      <4> HIDE DEF nexts
      <4> QED BY <4>1, <4>2, ContinueType DEF TypeOK
    <3> QED BY <3>1, <3>2
  <2>8. ASSUME NEW p \in Procs, UnlockFinish(p) PROVE TypeOK'
    <3>1. kv' \in 0..TTL /\ breach' = breach
      BY <2>8 DEF TypeOK, UnlockFinish
    <3>2. CASE mut[NodeOf[p]] = NoProc
      BY <2>8, <3>1, <3>2, ExitType DEF TypeOK, UnlockFinish
    <3>3. CASE mut[NodeOf[p]] # NoProc
      BY <2>8, <3>1, <3>3, ContinueType, AfterUnlockType DEF TypeOK, UnlockFinish
    <3> QED BY <3>2, <3>3
  <2>9. ASSUME NEW n \in Nodes, RefreshLock(n) PROVE TypeOK'
    BY <2>9 DEF TypeOK, RefreshLock
  <2>10. ASSUME NEW n \in Nodes, RefreshGivesUp(n) PROVE TypeOK'
    BY <2>10 DEF TypeOK, RefreshGivesUp, Refreshers
  <2>11. ASSUME NEW n \in Nodes, Crash(n) PROVE TypeOK'
    BY <2>11, ExitType DEF TypeOK, Crash
  <2>12. CASE Tick
    BY <2>12 DEF TypeOK, Tick
  <2>13. CASE UNCHANGED vars
    BY <2>13 DEF TypeOK, vars
  <2> QED
    BY <2>1, <2>2, <2>3, <2>4, <2>5, <2>6, <2>7, <2>8, <2>9, <2>10, <2>11,
       <2>12, <2>13 DEF Next, ProcNext, NodeNext
<1> QED BY <1>1, <1>2, PTL DEF Spec

-----------------------------------------------------------------------------
(* Exclusion *)

\* A breach is remembered.
LEMMA BreachStays ==
    ASSUME TypeOK, [Next]_vars, ~breach'
    PROVE  ~breach
  BY DEF TypeOK, Next, vars, ProcNext, NodeNext, LockCall, LocalLock, TryLock, LockTimeout,
     UnlockUnlocked, UnlockBegin, UnlockPanic, UnlockFinish, RefreshLock,
     RefreshGivesUp, Crash, Tick

\* The key of an owner is alive.
LEMMA OwnerHasKey ==
    ASSUME TypeOK, Owned, NEW p \in Procs, Owning(p)
    PROVE  kv > 0
  BY ProcAssumption, TimeAssumption DEF TypeOK, Owned

\* A process exit takes its own goroutines out and leaves the others alone.
LEMMA ExitOwned ==
    ASSUME TypeOK, Owned, NEW n \in Nodes, ProcessExit(n), UNCHANGED kv
    PROVE  Owned'
  BY ProcAssumption DEF TypeOK, Owned, Owning, ProcessExit

LEMMA OwnedPreserved ==
    ASSUME TypeOK, TypeOK', Owned, [Next]_vars, ~breach'
    PROVE  Owned'
<1> USE ProcAssumption, TimeAssumption
<1>1. ASSUME NEW p \in Procs, LockCall(p) PROVE Owned'
  BY <1>1 DEF TypeOK, Owned, Owning, LockCall
<1>2. ASSUME NEW p \in Procs, LocalLock(p) PROVE Owned'
  BY <1>2 DEF TypeOK, Owned, Owning, LocalLock
<1>3. ASSUME NEW p \in Procs, TryLock(p) PROVE Owned'
  <2>1. \A q \in Procs : ~Owning(q)
    BY <1>3, OwnerHasKey DEF TryLock
  <2> QED BY <1>3, <2>1 DEF TypeOK, Owned, Owning, TryLock
<1>4. ASSUME NEW p \in Procs, LockTimeout(p) PROVE Owned'
  BY <1>4 DEF TypeOK, Owned, Owning, LockTimeout
<1>5. ASSUME NEW p \in Procs, UnlockUnlocked(p) PROVE Owned'
  BY <1>5 DEF TypeOK, Owned, Owning, UnlockUnlocked, Continue, AfterUnlock
<1>6. ASSUME NEW p \in Procs, UnlockBegin(p) PROVE Owned'
  BY <1>6, ZenonT(40) DEF TypeOK, Owned, Owning, UnlockBegin
<1>7. ASSUME NEW p \in Procs, UnlockPanic(p) PROVE Owned'
  BY <1>7 DEF UnlockPanic
<1>8. ASSUME NEW p \in Procs, UnlockFinish(p) PROVE Owned'
  BY <1>8 DEF TypeOK, Owned, Owning, UnlockFinish, Continue, AfterUnlock
<1>9. ASSUME NEW n \in Nodes, RefreshLock(n) PROVE Owned'
  BY <1>9 DEF TypeOK, Owned, Owning, RefreshLock
<1>10. ASSUME NEW n \in Nodes, RefreshGivesUp(n) PROVE Owned'
  BY <1>10 DEF RefreshGivesUp
<1>11. ASSUME NEW n \in Nodes, Crash(n) PROVE Owned'
  BY <1>11, ExitOwned DEF Crash
<1>12. CASE Tick
  BY <1>12 DEF TypeOK, Owned, Owning, Tick, Timed
<1>13. CASE UNCHANGED vars
  BY <1>13 DEF Owned, Owning, vars
<1> QED
  BY <1>1, <1>2, <1>3, <1>4, <1>5, <1>6, <1>7, <1>8, <1>9, <1>10, <1>11,
     <1>12, <1>13 DEF Next, ProcNext, NodeNext

\* The inductive invariant: until a breach every owner of the lock is alone,
\* refreshes its key and has time left on it.
THEOREM OwnersKeepTheLock == Spec => []OwnerInvariant
<1>1. Init => OwnerInvariant
  <2> SUFFICES ASSUME Init PROVE Owned
    BY DEF OwnerInvariant
  <2> QED BY ProcAssumption DEF Init, Owned, Owning
<1>2. TypeOK /\ TypeOK' /\ OwnerInvariant /\ [Next]_vars => OwnerInvariant'
  <2> SUFFICES ASSUME TypeOK, TypeOK', OwnerInvariant, [Next]_vars, ~breach'
               PROVE  Owned'
    BY DEF OwnerInvariant
  <2>1. ~breach
    BY BreachStays
  <2>2. Owned
    BY <2>1 DEF OwnerInvariant
  <2> QED BY <2>2, OwnedPreserved
<1> QED BY <1>1, <1>2, TypeCorrect, PTL DEF Spec

\* At most one handler of the cluster is between lockCall and unlockCall,
\* unless a refresh gave up or a goroutine unlocked what it did not hold.
THEOREM Exclusion == Spec => []ExclusionUnlessBreached
<1>1. OwnerInvariant => ExclusionUnlessBreached
  BY DEF OwnerInvariant, Owned, ExclusionUnlessBreached, MutualExclusion, Owning
<1> QED BY <1>1, OwnersKeepTheLock, PTL

\* A handler at work keeps a live key, its local mutex and its refresher.
THEOREM KeyKept == Spec => []HolderKeepsKey
<1>1. TypeOK /\ OwnerInvariant => HolderKeepsKey
  <2> SUFFICES ASSUME TypeOK, Owned, NEW p \in Procs, pc[p] = "cs"
               PROVE  kv > 0 /\ mut[NodeOf[p]] = p /\ refr[NodeOf[p]] = "running"
    BY DEF OwnerInvariant, HolderKeepsKey
  <2>1. Owning(p)
    BY DEF Owning
  <2> QED BY <2>1, OwnerHasKey DEF Owned
<1> QED BY <1>1, OwnersKeepTheLock, TypeCorrect, PTL

-----------------------------------------------------------------------------
(* Refinement *)

\* The handler that works on the call is the holder of the abstract lock.
LEMMA HolderIs ==
    ASSUME OwnerInvariant, ~breach, NEW p \in Procs, pc[p] = "cs"
    PROVE  LockHolder = p
<1>1. \A q \in Procs : pc[q] = "cs" => q = p
  BY DEF OwnerInvariant, Owned, Owning
<1> QED BY <1>1 DEF LockHolder

LEMMA HolderIsNobody ==
    ASSUME \A p \in Procs : pc[p] # "cs"
    PROVE  LockHolder = NoProc
  BY DEF LockHolder

\* Before a breach, entering the critical section is the only way to become
\* the holder, and it needs a lock that nobody holds; leaving it, by unlocking
\* or by the death of the process, makes the lock free.
LEMMA StepRefines ==
    ASSUME TypeOK, OwnerInvariant, OwnerInvariant', [Next]_vars, ~breach'
    PROVE  Abstract!Next \/ LockHolder' = LockHolder
<1> USE ProcAssumption
<1>0. ~breach
  BY BreachStays
<1>1. ASSUME NEW p \in Procs, TryLock(p) PROVE Abstract!Acquire(p)
  <2>1. \A q \in Procs : ~Owning(q)
    BY <1>0, <1>1, OwnerHasKey DEF TryLock, OwnerInvariant
  <2>2. LockHolder = NoProc
    BY <2>1, HolderIsNobody DEF Owning
  <2>3. pc'[p] = "cs"
    BY <1>1 DEF TryLock, TypeOK
  <2>4. \A q \in Procs : pc'[q] = "cs" => q = p
    BY <1>1, <2>1 DEF TryLock, TypeOK, Owning
  <2>5. LockHolder' = p
    BY <2>3, <2>4 DEF LockHolder
  <2> QED BY <2>2, <2>5 DEF Abstract!Acquire
<1>2. ASSUME ~\E p \in Procs : TryLock(p),
             NEW p \in Procs, pc'[p] = "cs"
      PROVE  pc[p] = "cs"
  BY <1>2 DEF TypeOK, Next, vars, ProcNext, NodeNext, LockCall, LocalLock,
     LockTimeout, UnlockUnlocked, UnlockBegin, UnlockPanic, UnlockFinish,
     RefreshLock, RefreshGivesUp, Crash, Tick, ProcessExit, Continue, AfterUnlock
<1>3. ASSUME ~\E p \in Procs : TryLock(p),
             NEW p \in Procs, pc'[p] = "cs"
      PROVE  LockHolder' = LockHolder
  <2>1. LockHolder = p
    BY <1>0, <1>2, <1>3, HolderIs
  <2>2. \A q \in Procs : pc'[q] = "cs" => q = p
    BY <1>3 DEF OwnerInvariant, Owned, Owning
  <2>3. LockHolder' = p
    BY <1>3, <2>2 DEF LockHolder
  <2> QED BY <2>1, <2>3
<1>4. ASSUME \A p \in Procs : pc'[p] # "cs",
             NEW p \in Procs, pc[p] = "cs"
      PROVE  Abstract!Release(p)
  <2>1. LockHolder = p
    BY <1>0, <1>4, HolderIs
  <2>2. LockHolder' = NoProc
    BY <1>4 DEF LockHolder
  <2> QED BY <2>1, <2>2 DEF Abstract!Release
<1>5. ASSUME \A p \in Procs : pc'[p] # "cs",
             \A p \in Procs : pc[p] # "cs"
      PROVE  LockHolder' = LockHolder
  BY <1>5 DEF LockHolder
<1> QED BY <1>1, <1>3, <1>4, <1>5 DEF Abstract!Next

\* The mutex implements a lock with a single holder until it is breached: the
\* handlers may treat lockCall and unlockCall as one lock per channel.
THEOREM MutexImplementsLock == Spec => ImplementsLock
<1>1. Init => Abstract!Init
  BY HolderIsNobody DEF Init, Abstract!Init
<1>2. TypeOK /\ OwnerInvariant /\ OwnerInvariant' /\ [Next]_vars
      => [breach' \/ Abstract!Next]_LockHolder
  BY StepRefines
<1> QED BY <1>1, <1>2, TypeCorrect, OwnersKeepTheLock, PTL DEF Spec, ImplementsLock
=============================================================================

---------------------------- MODULE AbstractLock ----------------------------
(***************************************************************************)
(* What a handler of the plugin relies on when it calls lockCall and       *)
(* unlockCall on a channel: a single lock with one holder at a time.  The  *)
(* holder may lose the lock without releasing it only by dying.            *)
(***************************************************************************)
CONSTANTS Procs, NoProc

VARIABLE holder

Init == holder = NoProc

Acquire(p) == holder = NoProc /\ holder' = p

Release(p) == holder = p /\ holder' = NoProc

Next == \E p \in Procs : Acquire(p) \/ Release(p)

Spec == Init /\ [][Next]_holder
=============================================================================

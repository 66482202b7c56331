--------------------------- MODULE MCClientStore ---------------------------
(* Instances of ClientStore for TLC: two local sessions, one remote one.   *)
EXTENDS ClientStore, TLC

CONSTANTS l1, l2, o1, me, other

MCUserOf == (l1 :> me) @@ (l2 :> me) @@ (o1 :> other)
=============================================================================

--------------------------- MODULE MCClusterMutex ---------------------------
(***************************************************************************)
(* Two plugin instances.  Three handlers compete for the lock of one       *)
(* channel, two of them on the first node; the one named r is the handler  *)
(* that starts recordings, which unlocks and locks again around RunJob.    *)
(***************************************************************************)
EXTENDS ClusterMutex, TLC

CONSTANTS n1, n2, a, r, b

MCNodeOf == (a :> n1) @@ (r :> n1) @@ (b :> n2)
=============================================================================

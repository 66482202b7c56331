------------------------------ MODULE MCServer ------------------------------
(***************************************************************************)
(* The session of a client (CallSocket) and the jobs of a channel          *)
(* (CallJobs), checked in one run.  A behaviour is of one of them, chosen  *)
(* at the start; the other one rests: a client that was closed before it   *)
(* began, or a channel without a call.                                     *)
(***************************************************************************)
EXTENDS CallSocket, CallJobs

VARIABLE part

\* SocketInit, with init already returned for a client that rests.
ServerInit ==
    /\ part \in {"socket", "jobs"}
    /\ SocketStart(part = "socket")
    /\ IF part = "jobs" THEN JobsInit ELSE JobsStart("rec")

SocketStep == part = "socket" /\ SocketNext /\ UNCHANGED <<part, jobVars>>
JobStep == part = "jobs" /\ JobsNext /\ UNCHANGED <<part, socketVars>>

ServerNext == SocketStep \/ JobStep

ServerSpec == ServerInit /\ [][ServerNext]_<<part, socketVars, jobVars>> /\ SocketFairness
=============================================================================

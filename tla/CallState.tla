------------------------------ MODULE CallState ------------------------------
(***************************************************************************)
(* The state of the calls of one channel and the handlers that change it   *)
(* (server/session.go, state.go, websocket.go, host_controls.go, api.go).  *)
(*                                                                         *)
(* The state lives in two tables, calls and calls_sessions.  A handler     *)
(* takes the channel's cluster lock, reads the state of the active call    *)
(* into memory, works on that copy and writes rows back one by one; any    *)
(* write may fail.  Joins and leaves run in batches that share the copy.   *)
(* The lock itself is module ClusterMutex; here it is exclusive.  Two      *)
(* operations do not respect it: the goroutine of hostEnd works without    *)
(* the lock, and cleanUpState reads the calls before it takes it.          *)
(***************************************************************************)
EXTENDS Integers, Sequences, FiniteSets

CONSTANTS
    Users,                \* users that join calls
    Bot,                  \* the Calls bot, which joins to run a job
    Admins,               \* users with PermissionManageSystem
    Conns,                \* websocket connection IDs, which are session IDs
    UserOf,               \* the user of each connection
    None,                 \* the empty ID
    Flags,                \* per-session switches in use: "unmuted", "raised", "video"
    Dismissers,           \* users that dismiss the call's notification
    MaxCallParticipants,  \* configuration; 0 is no limit
    MaxCalls,             \* bound: calls created in the channel
    StoreMayFail,         \* a store operation may fail
    HostEndRuns,          \* hostEnd is called
    CleanUpRuns           \* a node activates, and runs cleanUpState

ASSUME IDAssumption ==
    /\ Bot \notin Users
    /\ None \notin Users \cup Conns \cup {Bot}
    /\ Admins \subseteq Users /\ Dismissers \subseteq Users
    /\ UserOf \in [Conns -> Users \cup {Bot}]
    /\ IsFiniteSet(Conns)

ASSUME ConfigAssumption ==
    /\ MaxCallParticipants \in Nat /\ MaxCalls \in Nat
    /\ {StoreMayFail, HostEndRuns, CleanUpRuns} \subseteq BOOLEAN

VARIABLES
    calls,    \* table calls: a row per call, in order of StartAt
    sess,     \* table calls_sessions: a row per connection, call 0 if absent
    conn,     \* client and session value of a connection, and its call
    lk,       \* lock and who holds it: "free", "fresh" (no operation yet), "joins", "leaves"
    mem,      \* the holder's copy of the state; id 0 is a nil state
    cleaner,  \* goroutine of hostEnd, or cleanUpState of an activating node;
              \* bound: one of them at a time
    joined    \* history: the users that joined each call

vars == <<calls, sess, conn, lk, mem, cleaner, joined>>

-----------------------------------------------------------------------------
(* Rows *)

CallRow ==
    [ended : BOOLEAN,                   \* EndAt > 0
     host : Users \cup {None},          \* Props.Hosts[0]
     locked : Users \cup {None},        \* Props.HostLockedUserID
     screen : Conns \cup {None},        \* Props.ScreenSharingSessionID
     video : SUBSET Conns,              \* keys of Props.VideoStartAt
     parts : SUBSET Users,              \* Props.Participants
     dismissed : SUBSET Users,          \* Props.DismissedNotification
     participants : SUBSET Users]       \* Participants

NewCall == [ended |-> FALSE, host |-> None, locked |-> None, screen |-> None,
            video |-> {}, parts |-> {}, dismissed |-> {}, participants |-> {}]

\* at is JoinAt; only the order of the values matters.
SessionRow == [call : Nat, at : Nat, on : SUBSET Flags]

NoSession == [call |-> 0, at |-> 0, on |-> {}]

NilState == [id |-> 0, call |-> NewCall, sess |-> [c \in Conns |-> NoSession]]

Idle == [st |-> "off", id |-> 0, call |-> NewCall]

\* The connections that have a row in the sessions s of a state.
Present(s) == {c \in Conns : s[c].call # 0}

UsersIn(s) == {UserOf[c] : c \in Present(s)}

ActiveCalls == {i \in DOMAIN calls : ~calls[i].ended}

\* getCallStateFromCall: a call with its sessions.
StateOf(i) ==
    [id |-> i, call |-> calls[i],
     sess |-> [c \in Conns |-> IF sess[c].call = i THEN sess[c] ELSE NoSession]]

\* Mutant of HostIDs: the bot is not skipped in the election.
HostIDs_BotElected(call, s) ==
    CASE call.locked \in UsersIn(s) -> {call.locked}
      [] call.locked \notin UsersIn(s) /\ call.host \in UsersIn(s) -> {call.host}
      [] OTHER -> {UserOf[c] : c \in {d \in Present(s) :
                     \A e \in Present(s) : s[d].at <= s[e].at}}

\* getHostID: the locked host if in the call, else the current host if in the
\* call, else a user who joined earliest.  Equal join times leave the choice
\* to the iteration order of a map.
HostIDs(call, s) ==
    LET humans == {c \in Present(s) : UserOf[c] # Bot}
    IN CASE call.locked \in UsersIn(s) -> {call.locked}
         [] call.locked \notin UsersIn(s) /\ call.host \in UsersIn(s) -> {call.host}
         [] OTHER -> IF humans = {} THEN {None}
                     ELSE {UserOf[c] : c \in {d \in humans :
                              \A e \in humans : s[d].at <= s[e].at}}

\* Mutant of SetCallEnded: Props.Participants is reset before it is copied.
SetCallEnded_ResetFirst(call) ==
    [call EXCEPT !.ended = TRUE, !.participants = {}, !.parts = {},
                 !.host = None, !.dismissed = {}]

SetCallEnded(call) ==
    [call EXCEPT !.ended = TRUE, !.participants = call.parts, !.parts = {},
                 !.host = None, !.dismissed = {}]

-----------------------------------------------------------------------------
(* Lock and unlock *)

\* Mutant of LockCall: the state is not read under the lock.
LockCall_NoRead ==
    /\ lk = "free"
    /\ lk' = "fresh"
    /\ mem' = NilState
    /\ UNCHANGED <<calls, sess, conn, cleaner, joined>>

\* The lock, and getCallState: the state of the most recent active call.
LockCall ==
    /\ lk = "free"
    /\ lk' = "fresh"
    /\ \/ ActiveCalls = {} /\ mem' = NilState
       \/ \E i \in ActiveCalls : (\A j \in ActiveCalls : j <= i) /\ mem' = StateOf(i)
    /\ UNCHANGED <<calls, sess, conn, cleaner, joined>>

Release == lk' = "free" /\ mem' = NilState

\* The end of a batch, an early return, or the death of the holder.
UnlockCall ==
    /\ lk # "free"
    /\ Release
    /\ UNCHANGED <<calls, sess, conn, cleaner, joined>>

\* A handler that runs one operation under the lock.
Handler ==
    /\ lk = "fresh"
    /\ mem.id # 0
    /\ Release

\* UPDATE of a call row; it writes every column the handlers change.
UpdateCall(call) == calls' = [calls EXCEPT ![mem.id] = call]

-----------------------------------------------------------------------------
(* Join: addSessionToCall and addUserSession *)

\* time.Now() of a join: no earlier than the last join, and perhaps the same.
JoinTimes ==
    {t \in 1..Cardinality(Conns) :
        /\ \A c \in Conns : mem.sess[c].at <= t
        /\ t = 1 \/ \E c \in Conns : mem.sess[c].at \in {t - 1, t}}

\* Mutant of joinAllowed: one session too many.
joinAllowed_OffByOne ==
    MaxCallParticipants = 0 \/ Cardinality(Present(mem.sess)) <= MaxCallParticipants

joinAllowed ==
    MaxCallParticipants = 0 \/ Cardinality(Present(mem.sess)) < MaxCallParticipants

\* The bot is let in only to run a job, and a new call has none.  Which jobs
\* run is not modelled here.
BotMayJoin(c) == UserOf[c] = Bot => mem.id # 0

\* Mutant of SaveJoin: only the first join writes the call.
SaveJoin_CreateOnly(call, s) ==
    IF Cardinality(Present(s)) = 1
    THEN mem.id = 0 /\ Len(calls) < MaxCalls /\ calls' = Append(calls, call)
    ELSE UNCHANGED calls

\* CreateCall for the first session of the call, UpdateCall otherwise.
\* CreateCall inserts: it fails when the call has a row already.
SaveJoin(call, s) ==
    IF Cardinality(Present(s)) = 1
    THEN /\ mem.id = 0
         /\ Len(calls) < MaxCalls
         /\ calls' = Append(calls, call)
    ELSE UpdateCall(call)

\* addSessionToCall once addUserSession returned: the session value exists.  A
\* new call gets its post by a second UpdateCall, which changes no other column.
addSessionToCall(c, id, call, s) ==
    /\ sess' = [sess EXCEPT ![c] = s[c]]
    /\ mem' = [id |-> id, call |-> call, sess |-> s]
    /\ conn' = [conn EXCEPT ![c] = [st |-> "in", call |-> id]]
    /\ joined' = [joined EXCEPT ![id] = @ \cup ({UserOf[c]} \ {Bot})]

addUserSession(c) ==
    LET id == IF mem.id = 0 THEN Len(calls) + 1 ELSE mem.id
    IN /\ lk \in {"fresh", "joins"}
       /\ conn[c].st = "new"
       /\ ~mem.call.ended
       /\ mem.sess[c].call = 0
       /\ joinAllowed
       /\ BotMayJoin(c)
       /\ \E at \in JoinTimes :
          LET s == [mem.sess EXCEPT ![c] = [call |-> id, at |-> at, on |-> {}]]
          IN \E host \in HostIDs(mem.call, s) :
             LET call == [mem.call EXCEPT !.host = host, !.parts = @ \cup ({UserOf[c]} \ {Bot})]
             IN /\ SaveJoin(call, s)
                /\ \/ addSessionToCall(c, id, call, s)
                   \/ \* CreateCallSession fails: the batch goes on with the original state
                      /\ StoreMayFail
                      /\ UNCHANGED <<sess, mem, conn, joined>>
       /\ lk' = "joins"
       /\ UNCHANGED cleaner

-----------------------------------------------------------------------------
(* Leave: removeSession and removeUserSession *)

\* The client leaves, its connection closes, or the host removed it; removal
\* from the state follows.
Disconnect(c) ==
    /\ conn[c].st = "in"
    /\ conn' = [conn EXCEPT ![c].st = "leaving"]
    /\ UNCHANGED <<calls, sess, lk, mem, cleaner, joined>>

\* Mutant of WithoutMedia: the video of the leaving session is forgotten.
WithoutMedia_KeepsVideo(call, c) == [call EXCEPT !.screen = IF @ = c THEN None ELSE @]

\* The copy of the call once session c is gone: what it shared is cleared.
WithoutMedia(call, c) ==
    [call EXCEPT !.screen = IF @ = c THEN None ELSE @,
                 !.video = IF "video" \in mem.sess[c].on THEN @ \ {c} ELSE @]

\* Mutants of AfterLeave: the host is never replaced; the call never ends.
AfterLeave_KeepsHost(call, s, c) ==
    IF Present(s) = {} THEN {SetCallEnded([call EXCEPT !.video = {}])} ELSE {call}

AfterLeave_NeverEnds(call, s, c) ==
    IF call.host = UserOf[c] THEN {[call EXCEPT !.host = h] : h \in HostIDs(call, s)}
    ELSE {call}

\* A new host if the leaving user was the host, and the end of the call if
\* nobody is left.
AfterLeave(call, s, c) ==
    IF Present(s) = {} THEN {SetCallEnded([call EXCEPT !.video = {}])}
    ELSE IF call.host = UserOf[c] THEN {[call EXCEPT !.host = h] : h \in HostIDs(call, s)}
    ELSE {call}

\* The removed session is in the state: its row goes, then the call is saved.
RemoveFromState(c) ==
    LET s == [mem.sess EXCEPT ![c] = NoSession]
        media == WithoutMedia(mem.call, c)
    IN /\ mem.sess[c].call # 0
       /\ sess' = [sess EXCEPT ![c] = NoSession]
       /\ \/ \E call \in AfterLeave(media, s, c) :
                /\ mem' = [mem EXCEPT !.call = call, !.sess = s]
                /\ \/ UpdateCall(call)
                   \/ StoreMayFail /\ UNCHANGED calls
          \/ \* UpdateCallJob fails for the job whose bot left
             /\ StoreMayFail /\ UserOf[c] = Bot
             /\ mem' = [mem EXCEPT !.call = media, !.sess = s]
             /\ UNCHANGED calls

\* The removal found no session, or failed before it deleted the row.
RemoveNothing(c) ==
    /\ mem.sess[c].call = 0 \/ StoreMayFail
    /\ UNCHANGED <<calls, sess, mem>>

removeUserSession(c) ==
    /\ lk \in {"fresh", "leaves"}
    /\ conn[c].st = "leaving"
    /\ RemoveFromState(c) \/ RemoveNothing(c)
    /\ conn' = [conn EXCEPT ![c].st = "gone"]
    /\ lk' = "leaves"
    /\ UNCHANGED <<cleaner, joined>>

-----------------------------------------------------------------------------
(* Client messages.  A message queued in a session may be handled after the *)
(* session was removed from the state.                                      *)

Sender(c) == conn[c].st # "new"

\* UPDATE of a session row, which changes nothing if the row is gone.
UpdateCallSession(c, on) ==
    sess' = [sess EXCEPT ![c] = IF @.call = 0 THEN @ ELSE [mem.sess[c] EXCEPT !.on = on]]

Switched(c, f, value) ==
    IF value THEN mem.sess[c].on \cup {f} ELSE mem.sess[c].on \ {f}

\* mute, unmute, raise_hand, unraise_hand
ToggleFlag(c, f, value) ==
    /\ f # "video"
    /\ Handler
    /\ Sender(c) /\ mem.sess[c].call # 0
    /\ UpdateCallSession(c, Switched(c, f, value))
    /\ UNCHANGED <<calls, conn, cleaner, joined>>

\* video_on, video_off: the session row and then the start times in the call
ToggleVideo(c, value) ==
    /\ "video" \in Flags
    /\ Handler
    /\ Sender(c) /\ mem.sess[c].call # 0
    /\ UpdateCallSession(c, Switched(c, "video", value))
    /\ \/ UpdateCall([mem.call EXCEPT !.video = IF value THEN @ \cup {c} ELSE @ \ {c}])
       \/ StoreMayFail /\ UNCHANGED calls
    /\ UNCHANGED <<conn, cleaner, joined>>

\* screen_on: there is no check that the session is still in the call
ScreenOn(c) ==
    /\ Handler
    /\ Sender(c)
    /\ mem.call.screen = None
    /\ UpdateCall([mem.call EXCEPT !.screen = c])
    /\ UNCHANGED <<sess, conn, cleaner, joined>>

ScreenOff(c) ==
    /\ Handler
    /\ Sender(c)
    /\ mem.call.screen = c
    /\ UpdateCall([mem.call EXCEPT !.screen = None])
    /\ UNCHANGED <<sess, conn, cleaner, joined>>

-----------------------------------------------------------------------------
(* API requests *)

HostOrAdmin(u) == u = mem.call.host \/ u \in Admins

changeHost(requester, u) ==
    /\ Handler
    /\ HostOrAdmin(requester)
    /\ \/ /\ mem.call.host = u
          /\ mem.call.locked = None
          /\ UpdateCall([mem.call EXCEPT !.locked = u])
       \/ /\ mem.call.host # u
          /\ u \in UsersIn(mem.sess)
          /\ UpdateCall([mem.call EXCEPT !.host = u, !.locked = u])
    /\ UNCHANGED <<sess, conn, cleaner, joined>>

DismissNotification(u) ==
    /\ Handler
    /\ UpdateCall([mem.call EXCEPT !.dismissed = @ \cup {u}])
    /\ UNCHANGED <<sess, conn, cleaner, joined>>

\* The clients are asked to leave; a goroutine ends the call if they do not.
hostEnd(requester) ==
    /\ HostEndRuns
    /\ Handler
    /\ HostOrAdmin(requester)
    /\ cleaner.st = "off"
    /\ cleaner' = [cleaner EXCEPT !.st = "sleep", !.id = mem.id]
    /\ UNCHANGED <<calls, sess, conn, joined>>

-----------------------------------------------------------------------------
(* cleanCallState, in the goroutine of hostEnd and in cleanUpState *)

\* The row to write back, worked out on the copy as soon as it is read.
EndedCopy(id) == IF calls[id].ended THEN calls[id] ELSE SetCallEnded(calls[id])

DeleteCallsSessions(id) ==
    \/ sess' = [c \in Conns |-> IF sess[c].call = id THEN NoSession ELSE sess[c]]
    \/ StoreMayFail /\ UNCHANGED sess

\* The goroutine reads the call after its sleep; without the call it gives up.
\* The RTC sessions it closes are Disconnect steps.
HostEndReads ==
    /\ cleaner.st = "sleep"
    /\ \/ cleaner' = [cleaner EXCEPT !.st = "read", !.call = EndedCopy(cleaner.id)]
       \/ StoreMayFail /\ cleaner' = Idle
    /\ UNCHANGED <<calls, sess, conn, lk, mem, joined>>

HostEndDeletes ==
    /\ cleaner.st = "read"
    /\ DeleteCallsSessions(cleaner.id)
    /\ cleaner' = [cleaner EXCEPT !.st = "deleted"]
    /\ UNCHANGED <<calls, conn, lk, mem, joined>>

\* The UpdateCall at the end of cleanCallState.
SaveEnded ==
    \/ calls' = [calls EXCEPT ![cleaner.id] = cleaner.call]
    \/ StoreMayFail /\ UNCHANGED calls

HostEndUpdates ==
    /\ cleaner.st = "deleted"
    /\ SaveEnded
    /\ cleaner' = Idle
    /\ UNCHANGED <<sess, conn, lk, mem, joined>>

\* GetAllActiveCalls, one of the calls it returns.
CleanUpReads ==
    /\ CleanUpRuns
    /\ cleaner.st = "off"
    /\ \E i \in ActiveCalls : cleaner' = [st |-> "locking", id |-> i, call |-> EndedCopy(i)]
    /\ UNCHANGED <<calls, sess, conn, lk, mem, joined>>

\* Under the lock, but with the call that was read before it.  The call is left
\* alone if the lock is not obtained, or if RTCD is asked and knows a session of
\* it or does not answer.  That sessions are connected does not save the call:
\* without RTCD nobody is asked, and a host that RTCD's manager does not know, or
\* that has not seen the sessions yet, is taken for one without the call.
CleanUpEndsCall ==
    /\ cleaner.st = "locking"
    /\ lk = "free"
    /\ \/ DeleteCallsSessions(cleaner.id) /\ SaveEnded
       \/ UNCHANGED <<calls, sess>>
    /\ cleaner' = Idle
    /\ UNCHANGED <<conn, lk, mem, joined>>

-----------------------------------------------------------------------------
Init ==
    /\ calls = <<>>
    /\ sess = [c \in Conns |-> NoSession]
    /\ conn = [c \in Conns |-> [st |-> "new", call |-> 0]]
    /\ lk = "free"
    /\ mem = NilState
    /\ cleaner = Idle
    /\ joined = [i \in 1..MaxCalls |-> {}]

ConnNext(c) ==
    \/ addUserSession(c) \/ Disconnect(c) \/ removeUserSession(c)
    \/ \E value \in BOOLEAN : ToggleVideo(c, value) \/ \E f \in Flags : ToggleFlag(c, f, value)
    \/ ScreenOn(c) \/ ScreenOff(c)

Next ==
    \/ LockCall \/ UnlockCall
    \/ \E c \in Conns : ConnNext(c)
    \/ \E u, v \in Users : changeHost(u, v)
    \/ \E u \in Dismissers : DismissNotification(u)
    \/ \E u \in Users : hostEnd(u)
    \/ HostEndReads \/ HostEndDeletes \/ HostEndUpdates
    \/ CleanUpReads \/ CleanUpEndsCall

Spec == Init /\ [][Next]_vars

\* A batch ends; a removal that waits for the lock gets it.
Fairness ==
    /\ WF_vars(LockCall) /\ WF_vars(UnlockCall)
    /\ \A c \in Conns : SF_vars(removeUserSession(c))

FairSpec == Spec /\ Fairness

-----------------------------------------------------------------------------
(* Properties *)

Cleaner ==
    [st : {"off", "sleep", "read", "deleted", "locking"}, id : 0..MaxCalls, call : CallRow]

TypeOK ==
    /\ calls \in Seq(CallRow) /\ Len(calls) <= MaxCalls
    /\ sess \in [Conns -> SessionRow]
    /\ conn \in [Conns -> [st : {"new", "in", "leaving", "gone"}, call : 0..MaxCalls]]
    /\ lk \in {"free", "fresh", "joins", "leaves"}
    /\ mem \in [id : 0..MaxCalls, call : CallRow, sess : [Conns -> SessionRow]]
    /\ cleaner \in Cleaner
    /\ joined \in [1..MaxCalls -> SUBSET Users]

SessionsOf(i) == {c \in Conns : sess[c].call = i}

\* A channel has at most one call that has not ended.
OneActiveCall == Cardinality(ActiveCalls) <= 1

\* Whenever a person is in the call, the host is one of them; and the locked
\* host is the host whenever present.
HostInCall ==
    lk = "free" => \A i \in ActiveCalls :
        LET present == {UserOf[c] : c \in SessionsOf(i)} \ {Bot}
        IN /\ present # {} => calls[i].host \in present
           /\ calls[i].locked \in present => calls[i].host = calls[i].locked

\* An active call has a session: a call nobody is in ends, and "if there is an
\* ongoing call, we can let anyone join", which CreateCall refuses when the
\* call has a row but no session.
OngoingCallJoinable ==
    lk = "free" => \A i \in ActiveCalls : SessionsOf(i) # {}

\* The sharing session is in the call: "someone else is sharing already".
ScreenSharerInCall ==
    lk = "free" => \A i \in ActiveCalls :
        calls[i].screen # None => calls[i].screen \in SessionsOf(i)

\* The start times of videos are those of the sessions with video on.
VideoAccounted ==
    lk = "free" => \A i \in ActiveCalls :
        calls[i].video = {c \in SessionsOf(i) : "video" \in sess[c].on}

\* The participants of an ended call are all who ever joined it, and it keeps
\* no session.
EndedCallComplete ==
    lk = "free" => \A i \in DOMAIN calls : calls[i].ended =>
        calls[i].participants = joined[i] /\ SessionsOf(i) = {}

\* Joins never exceed the limit, in the table and in the copy of a batch.
LimitRespected ==
    MaxCallParticipants > 0 => \A i \in DOMAIN calls :
        Cardinality(SessionsOf(i)) <= MaxCallParticipants

\* Whoever has a session in an active call is on its list of participants.
ParticipantsRecorded ==
    \A i \in ActiveCalls : \A c \in SessionsOf(i) : UserOf[c] \in calls[i].parts \cup {Bot}

\* Why the last two hold although hostEnd does not take the lock and writes
\* fail.  The copy a batch works on covers the table: it has every session the
\* table has for the call, stays within the limit itself, and lists everyone
\* the table shows in the call.  The unlocked operations only delete sessions
\* and only write back a call that has ended.
CopyCoversTable ==
    /\ mem.id <= Len(calls)
    /\ \A c \in Conns : /\ sess[c].call <= Len(calls)
                        /\ mem.sess[c].call \in {0, mem.id}
                        /\ sess[c].call = mem.id => mem.sess[c].call = mem.id
                        /\ mem.sess[c].call # 0 => sess[c].call \in {0, mem.id}
    /\ MaxCallParticipants > 0 => Cardinality(Present(mem.sess)) <= MaxCallParticipants
    /\ mem.id # 0 /\ ~mem.call.ended =>
          \A c \in SessionsOf(mem.id) : UserOf[c] \in mem.call.parts \cup {Bot}
    /\ cleaner.st # "off" => cleaner.id \in DOMAIN calls
    /\ cleaner.st \in {"read", "deleted", "locking"} => cleaner.call.ended

\* "The last to disconnect will cause the call to end": once every connection
\* has left, no call goes on.
CallEnds ==
    (\A c \in Conns : conn[c].st \in {"leaving", "gone"}) ~> ActiveCalls = {}

\* A call that has ended stays ended.
EndedStaysEnded ==
    [][\A i \in DOMAIN calls : calls[i].ended => calls'[i].ended]_calls
=============================================================================

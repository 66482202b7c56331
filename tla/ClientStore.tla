---------------------------- MODULE ClientStore ----------------------------
(***************************************************************************)
(* What the web app of one user believes about the call of one channel.    *)
(*                                                                         *)
(* The web app keeps the call in a Redux store (reducers.ts).  The store   *)
(* is written by the handlers of the events of the main WebSocket          *)
(* (websocket_handlers.ts), by the answer of GET /channels that is asked   *)
(* for at every (re)connection (index.tsx, onActivate and fetchChannels)   *)
(* and by the local client when the user presses a button.  The server     *)
(* appears only through what it publishes: its state srv and the queue     *)
(* wire of events it has sent and the browser has not handled yet.         *)
(*                                                                         *)
(* A reducer is an operator from the store to the store.                   *)
(***************************************************************************)
EXTENDS Naturals, Sequences, FiniteSets

CONSTANTS
    Sessions,        \* ids of sessions; an id is used by one session only
    Local,           \* the ids the CallsClient of this browser will get
    UserOf,          \* the user of a session
    Flags,           \* the flags of a session: "unmuted", "hand", "video"
    None,            \* absent: JavaScript's undefined, null and ''
    MaxCalls,        \* bound: calls of the channel
    MaxWire,         \* bound: events in flight
    MaxToggles,      \* bound: changes of flags, screen, host or recording
    MaxPresses,      \* bound: buttons pressed by the local user
    MaxActivations   \* bound: runs of onActivate (page load, reconnections)

Users == {UserOf[s] : s \in Sessions}
Me == UserOf[CHOOSE s \in Local : TRUE]
StoreSession == [user : Users \cup {None}, on : SUBSET Flags]

ASSUME StoreAssumption ==
    /\ Local \subseteq Sessions /\ Local # {}
    /\ \A s, t \in Local : UserOf[s] = UserOf[t]
    /\ Flags \subseteq {"unmuted", "hand", "video"}
    /\ {MaxCalls, MaxWire, MaxToggles, MaxPresses, MaxActivations} \subseteq Nat
    /\ None \notin Sessions \cup Users \cup BOOLEAN
    /\ \A S \in SUBSET Sessions : None \notin [S -> StoreSession]

VARIABLES
    srv,       \* the server's call: id, sessions, host, sharer, recording
    calls,     \* the number of calls started so far
    used,      \* the session ids used so far
    toggles,   \* changes made so far by others, for MaxToggles
    presses,   \* buttons pressed so far, for MaxPresses
    wire,      \* events on their way to this browser's main WebSocket
    up,        \* is the main WebSocket connected?
    store,     \* the plugin's slice of the Redux store, for this channel
    client,    \* window.callsClient: its session, or None
    req,       \* messages of the CallsClient the server has not handled
    act        \* the runs of onActivate

vars == <<srv, calls, used, toggles, presses, wire, up, store, client, req, act>>
env == <<calls, used, toggles, presses>>

NoCall == [id |-> 0, ses |-> <<>>, host |-> None, screen |-> None, rec |-> FALSE]
EmptyStore == [call |-> 0, ses |-> None, host |-> None, screen |-> None, rec |-> FALSE]

Activations == 1 .. MaxActivations
Off == [at |-> "off"]
Done == [at |-> "done"]

UsersIn(ses) == {UserOf[s] : s \in DOMAIN ses}
Only(s, v) == [t \in {s} |-> v]
With(ses, s, v) == [t \in DOMAIN ses \cup {s} |-> IF t = s THEN v ELSE ses[t]]
Without(ses, s) == [t \in DOMAIN ses \ {s} |-> ses[t]]

-----------------------------------------------------------------------------
(* Reducers                                                                *)

\* reducers.ts, calls: CALL_STATE replaces the call of the channel.
CALL_STATE(st, id) == [st EXCEPT !.call = id]

\* reducers.ts, hosts: nothing but UNINIT ever removes the entry.
CALL_HOST(st, u) == [st EXCEPT !.host = u]

\* reducers.ts, sessions: the states of the server replace the channel's.
USERS_STATES(st, ses) ==
    [st EXCEPT !.ses = [s \in DOMAIN ses |-> [user |-> UserOf[s], on |-> ses[s]]]]

\* reducers.ts, sessions: a new session has every flag off.
USER_JOINED(st, s) ==
    LET new == [user |-> UserOf[s], on |-> {}]
    IN  [st EXCEPT !.ses = IF @ = None THEN Only(s, new) ELSE With(@, s, new)]

\* reducers.ts, sessions and screenSharingIDs: the session goes, and the
\* sharer with it when it is the same session.
USER_LEFT(st, s) ==
    [st EXCEPT !.ses = IF @ = None THEN None ELSE Without(@, s),
               !.screen = IF @ = s THEN None ELSE @]

\* What a session that the store does not know becomes.  A channel without
\* sessions gets one with the user of the event, whose microphone is on
\* after USER_VIDEO_OFF; a channel with sessions gets one without a user.
FirstFlags(f, on) ==
    IF on THEN {f} ELSE IF f = "video" THEN {"unmuted"} \cap Flags ELSE {}
Known(st, s) == st.ses # None /\ s \in DOMAIN st.ses
PutSession(st, s, on) ==
    [st EXCEPT !.ses = IF @ = None THEN Only(s, [user |-> UserOf[s], on |-> on])
                       ELSE With(@, s, [user |-> IF s \in DOMAIN @ THEN @[s].user ELSE None, on |-> on])]
FlagsOf(st, s) == IF Known(st, s) THEN st.ses[s].on ELSE {}

\* reducers.ts, sessions: USER_MUTED .. USER_LOWER_HAND, USER_VIDEO_ON, _OFF.
USER_FLAG(st, s, f, on) ==
    PutSession(st, s, IF st.ses = None THEN FirstFlags(f, on)
                      ELSE IF on THEN FlagsOf(st, s) \cup {f} ELSE FlagsOf(st, s) \ {f})

\* reducers.ts, sessions: USER_VOICE_ON and USER_VOICE_OFF.  The voice flag
\* is left out; what stays is the session they put there.
USER_VOICE(st, s) == PutSession(st, s, FlagsOf(st, s))

\* reducers.ts, screenSharingIDs.
USER_SCREEN_ON(st, s) == [st EXCEPT !.screen = s]
USER_SCREEN_OFF(st, s) == [st EXCEPT !.screen = IF @ = s THEN None ELSE @]

\* reducers.ts, recordings and callLiveCaptionsState: the state of the job is
\* merged into the old one, so a null job state changes nothing.
JOB_STATE(st, job) == [st EXCEPT !.rec = IF job = None THEN @ ELSE job]
LOCAL_SESSION_CLOSE(st) == [st EXCEPT !.rec = FALSE]

\* reducers.ts, calls, sessions, screenSharingIDs: CALL_END carries no
\* session id, so the sharer stays.
CALL_END(st) == [st EXCEPT !.call = 0, !.ses = None]

UNINIT(st) == EmptyStore

-----------------------------------------------------------------------------
(* The server: what it publishes, and to whom                              *)

Room(n) == Len(wire) + n <= MaxWire
Send(evs) == /\ Room(Len(evs))
             /\ wire' = IF up THEN wire \o evs ELSE wire

\* publishWebSocketEvent: an event for the participants goes to the whole
\* channel when the list of their ids is empty.
Participants(ses, evs) == IF DOMAIN ses = {} \/ Me \in UsersIn(ses) THEN evs ELSE <<>>

\* getClientState: a job that has ended is not part of it.
StateEvent(sv) == [t |-> "call_state", call |-> sv]

\* handleJoin: call_start for the first session, user_joined, and the state
\* of the call for the user who joined.
Joined(s) ==
    LET first == srv.id = 0
        now == IF first
               THEN [NoCall EXCEPT !.id = calls + 1, !.host = UserOf[s], !.ses = Only(s, {})]
               ELSE [srv EXCEPT !.ses = With(@, s, {})]
    IN  /\ first => calls < MaxCalls
        /\ srv' = now
        /\ calls' = IF first THEN calls + 1 ELSE calls
        /\ used' = used \cup {s}
        /\ Send((IF first THEN <<[t |-> "call_start", id |-> now.id, host |-> now.host]>> ELSE <<>>)
                \o <<[t |-> "user_joined", s |-> s]>>
                \o (IF UserOf[s] = Me THEN <<StateEvent(now)>> ELSE <<>>))

\* removeUserSession: screen_off without a session id, video_off, user_left,
\* and a new host when the last session of the host has left.
Left(s) ==
    LET ses == Without(srv.ses, s)
        events(h) ==
            Participants(ses,
               (IF srv.screen = s THEN <<[t |-> "screen_off", s |-> None]>> ELSE <<>>)
               \o (IF "video" \in srv.ses[s] THEN <<[t |-> "flag", s |-> s, f |-> "video", on |-> FALSE]>>
                   ELSE <<>>))
            \o <<[t |-> "user_left", s |-> s]>>
            \o (IF h # srv.host THEN Participants(ses, <<[t |-> "host_changed", host |-> h]>>) ELSE <<>>)
    IN  /\ IF DOMAIN ses = {}
           THEN srv' = NoCall /\ Send(events(srv.host))
           ELSE \E h \in IF srv.host \in UsersIn(ses) THEN {srv.host} ELSE UsersIn(ses) :
                   /\ srv' = [srv EXCEPT !.ses = ses, !.host = h,
                                         !.screen = IF @ = s THEN None ELSE @]
                   /\ Send(events(h))
        /\ UNCHANGED <<calls, used>>

\* Another session joins or leaves.
RemoteJoin(s) ==
    /\ s \notin used \cup Local
    /\ Joined(s)
    /\ UNCHANGED <<toggles, presses, up, store, client, req, act>>

RemoteLeave(s) ==
    /\ s \in DOMAIN srv.ses \ Local
    /\ Left(s)
    /\ UNCHANGED <<toggles, presses, up, store, client, req, act>>

Change(sv, ev) ==
    /\ toggles < MaxToggles /\ toggles' = toggles + 1
    /\ srv' = sv
    /\ Send(Participants(sv.ses, <<ev>>))
    /\ UNCHANGED <<calls, used, presses, up, store, client, req, act>>

RemoteFlag(s, f) ==
    /\ s \in DOMAIN srv.ses \ Local
    /\ LET on == f \notin srv.ses[s]
       IN  Change([srv EXCEPT !.ses[s] = IF on THEN @ \cup {f} ELSE @ \ {f}],
                  [t |-> "flag", s |-> s, f |-> f, on |-> on])

RemoteScreen(s) ==
    /\ s \in DOMAIN srv.ses \ Local
    /\ \/ /\ srv.screen = None
          /\ Change([srv EXCEPT !.screen = s], [t |-> "screen_on", s |-> s])
       \/ /\ srv.screen = s
          /\ Change([srv EXCEPT !.screen = None], [t |-> "screen_off", s |-> s])

HostMake(u) ==
    /\ u \in UsersIn(srv.ses) \ {srv.host}
    /\ Change([srv EXCEPT !.host = u], [t |-> "host_changed", host |-> u])

Recording ==
    /\ srv.id # 0
    /\ Change([srv EXCEPT !.rec = ~@], [t |-> "job_state", job |-> ~srv.rec])

\* hostEnd: the sessions are removed later, when the clients leave.
HostEnd ==
    /\ srv.id # 0
    /\ toggles < MaxToggles /\ toggles' = toggles + 1
    /\ Send(<<[t |-> "call_end"]>>)
    /\ UNCHANGED <<srv, calls, used, presses, up, store, client, req, act>>

\* Voice events are published without the lock of the call, and can come
\* after the user_left event of their session.
Voice(s) ==
    /\ s \in used /\ DOMAIN srv.ses # {}
    /\ toggles < MaxToggles /\ toggles' = toggles + 1
    /\ Send(Participants(srv.ses, <<[t |-> "voice", s |-> s]>>))
    /\ UNCHANGED <<srv, calls, used, presses, up, store, client, req, act>>

\* The server handles the next message of the CallsClient.
HandleRequest ==
    /\ req # <<>> /\ req' = Tail(req)
    /\ LET m == Head(req)
           known == m.s \in DOMAIN srv.ses
       IN  \/ m.t = "join" /\ Joined(m.s)
           \/ m.t = "leave" /\ known /\ Left(m.s)
           \/ /\ m.t = "flag" /\ known
              /\ srv' = [srv EXCEPT !.ses[m.s] = IF m.on THEN @ \cup {m.f} ELSE @ \ {m.f}]
              /\ Send(Participants(srv.ses, <<m>>))
              /\ UNCHANGED <<calls, used>>
           \/ m.t # "join" /\ ~known /\ UNCHANGED <<srv, calls, used, wire>>
    /\ UNCHANGED <<toggles, presses, up, store, client, act>>

-----------------------------------------------------------------------------
(* The local client (index.tsx, connectCall and its listeners)             *)

\* connectCall: a new client, which joins over its own WebSocket.
connectCall(s) ==
    /\ client = None /\ s \in Local \ used
    /\ \A i \in DOMAIN req : req[i].s # s
    /\ client' = s
    /\ req' = Append(req, [t |-> "join", s |-> s])
    /\ UNCHANGED <<srv, env, wire, up, store, act>>

\* The listeners for mute, unmute, raise_hand, lower_hand, video_on and
\* video_off write the store before the server has answered.
ClientFlag(f) ==
    /\ client # None /\ presses < MaxPresses
    /\ LET on == f \notin FlagsOf(store, client)
       IN  /\ store' = USER_FLAG(store, client, f, on)
           /\ req' = Append(req, [t |-> "flag", s |-> client, f |-> f, on |-> on])
    /\ presses' = presses + 1
    /\ UNCHANGED <<srv, calls, used, toggles, wire, up, client, act>>

\* The client's close event: LOCAL_SESSION_CLOSE, and the client is deleted.
Closed(st) == IF client = None THEN st ELSE LOCAL_SESSION_CLOSE(st)
LeaveRequest == IF client = None THEN req ELSE Append(req, [t |-> "leave", s |-> client])

disconnect ==
    /\ client # None
    /\ client' = None /\ store' = Closed(store) /\ req' = LeaveRequest
    /\ UNCHANGED <<srv, env, wire, up, act>>

-----------------------------------------------------------------------------
(* Handlers of the events of the main WebSocket (websocket_handlers.ts)    *)

Next1(t) == wire # <<>> /\ Head(wire).t = t /\ wire' = Tail(wire)
Ev == Head(wire)
Handled(st) == store' = st /\ UNCHANGED <<srv, env, up, client, req, act>>

handleCallStart ==
    /\ Next1("call_start")
    /\ Handled(CALL_HOST(CALL_STATE(JOB_STATE(store, None), Ev.id), Ev.host))

handleUserJoined == Next1("user_joined") /\ Handled(USER_JOINED(store, Ev.s))

\* actions.ts, callEnd: a client that is in this channel's call disconnects.
callEnd(st) ==
    /\ client' = None /\ req' = LeaveRequest
    /\ store' = CALL_END(Closed(st))
    /\ UNCHANGED <<srv, env, up, act>>

handleCallEnd == Next1("call_end") /\ callEnd(store)

\* actions.ts, userLeft: the call is over when the store has no session left.
handleUserLeft ==
    /\ Next1("user_left")
    /\ LET st == USER_LEFT(store, Ev.s)
       IN  IF st.ses = None \/ DOMAIN st.ses = {} THEN callEnd(st) ELSE Handled(st)

\* Mutant of loadCallState: the recording of the call is not loaded.
loadCallState_NoRecording(st, c) ==
    USERS_STATES(CALL_HOST(USER_SCREEN_ON(CALL_STATE(st, c.id), c.screen), c.host), c.ses)

\* actions.ts, loadCallState.
loadCallState(st, c) ==
    USERS_STATES(CALL_HOST(USER_SCREEN_ON(
        JOB_STATE(CALL_STATE(st, c.id), IF c.rec THEN TRUE ELSE None), c.screen), c.host), c.ses)

handleCallState == Next1("call_state") /\ Handled(loadCallState(store, Ev.call))
handleFlag == Next1("flag") /\ Handled(USER_FLAG(store, Ev.s, Ev.f, Ev.on))
handleVoice == Next1("voice") /\ Handled(USER_VOICE(store, Ev.s))
handleUserScreenOn == Next1("screen_on") /\ Handled(USER_SCREEN_ON(store, Ev.s))
handleUserScreenOff == Next1("screen_off") /\ Handled(USER_SCREEN_OFF(store, Ev.s))
handleCallHostChanged == Next1("host_changed") /\ Handled(CALL_HOST(store, Ev.host))
handleCallJobState == Next1("job_state") /\ Handled(JOB_STATE(store, Ev.job))

-----------------------------------------------------------------------------
(* Activation: page load and reconnection (index.tsx)                      *)

\* The main WebSocket drops: what is in flight is lost, a request for the
\* state of the call included.
Drop ==
    /\ up /\ act[MaxActivations] = Off
    /\ up' = FALSE /\ wire' = <<>>
    /\ act' = [i \in Activations |-> IF act[i].at = "asked" THEN Done ELSE act[i]]
    /\ UNCHANGED <<srv, env, store, client, req>>

\* The reconnect handler: the store is emptied when there is no client, and
\* onActivate starts.  Runs of onActivate may overlap.
Reconnect(i) ==
    /\ ~up /\ i > 1 /\ act[i] = Off /\ \A j \in 1 .. i - 1 : act[j] # Off
    /\ up' = TRUE
    /\ store' = IF client = None THEN UNINIT(store) ELSE store
    /\ act' = [act EXCEPT ![i] = [at |-> "config"]]
    /\ UNCHANGED <<srv, env, wire, client, req>>

\* onActivate: the answers to the configuration requests are there.  The
\* channel of the current call is read now, and GET /channels goes out.
ConfigReceived(i) ==
    /\ act[i].at = "config"
    /\ act' = [act EXCEPT ![i] = [at |-> "sent", skip |-> client # None]]
    /\ UNCHANGED <<srv, env, wire, up, store, client, req>>

\* The server reads the state of the channels without taking the lock.
ChannelsRead(i) ==
    /\ act[i].at = "sent"
    /\ \/ act' = [act EXCEPT ![i] = [at |-> "got", skip |-> @.skip, call |-> srv]]
       \/ act' = [act EXCEPT ![i] = [at |-> "got", skip |-> @.skip, call |-> NoCall]]   \* the request failed
    /\ UNCHANGED <<srv, env, wire, up, store, client, req>>

\* Mutant of fetchChannels: a call the store already has is not skipped.
fetchChannels_NoGuard(i) ==
    LET c == act[i].call
    IN  IF ~act[i].skip /\ DOMAIN c.ses # {}
        THEN USERS_STATES(CALL_STATE(store, c.id), c.ses) ELSE store

\* fetchChannels: the channel that was current when the request went out is
\* skipped, and so is one whose call the store already has.
fetchChannels(i) ==
    LET c == act[i].call
    IN  IF ~act[i].skip /\ DOMAIN c.ses # {} /\ store.call = 0
        THEN USERS_STATES(CALL_STATE(store, c.id), c.ses) ELSE store

\* onActivate, after fetchChannels: the state of the call the user was in is
\* asked for over the WebSocket, which the activation at page load has not.
ChannelsReceived(i) ==
    /\ act[i].at = "got"
    /\ store' = fetchChannels(i)
    /\ act' = [act EXCEPT ![i] = IF @.skip /\ up /\ i > 1 THEN [at |-> "asked"] ELSE Done]
    /\ UNCHANGED <<srv, env, wire, up, client, req>>

\* handleCallStateRequest, under the lock of the call.
StateRequested(i) ==
    /\ act[i].at = "asked"
    /\ act' = [act EXCEPT ![i] = Done]
    /\ Send(IF srv.id # 0 THEN <<StateEvent(srv)>> ELSE <<>>)
    /\ UNCHANGED <<srv, env, up, store, client, req>>

-----------------------------------------------------------------------------
Init ==
    /\ srv = NoCall /\ calls = 0 /\ used = {} /\ toggles = 0 /\ presses = 0
    /\ wire = <<>> /\ up = TRUE
    /\ store = EmptyStore /\ client = None /\ req = <<>>
    /\ act = [i \in Activations |-> IF i = 1 THEN [at |-> "config"] ELSE Off]

ServerStep ==
    \/ \E s \in Sessions : RemoteJoin(s) \/ RemoteLeave(s) \/ RemoteScreen(s) \/ Voice(s)
    \/ \E s \in Sessions, f \in Flags : RemoteFlag(s, f)
    \/ \E u \in Users : HostMake(u)
    \/ Recording
    \/ HostEnd
    \/ HandleRequest

ClientStep ==
    \/ \E s \in Local : connectCall(s)
    \/ \E f \in Flags : ClientFlag(f)
    \/ disconnect

HandlerStep ==
    \/ handleCallStart \/ handleUserJoined \/ handleUserLeft \/ handleCallEnd
    \/ handleCallState \/ handleFlag \/ handleVoice \/ handleUserScreenOn
    \/ handleUserScreenOff \/ handleCallHostChanged \/ handleCallJobState

ActivationStep ==
    \/ Drop
    \/ \E i \in Activations :
          Reconnect(i) \/ ConfigReceived(i) \/ ChannelsRead(i) \/ ChannelsReceived(i) \/ StateRequested(i)

Next == ServerStep \/ ClientStep \/ HandlerStep \/ ActivationStep
Spec == Init /\ [][Next]_vars

-----------------------------------------------------------------------------
\* The types of the server's call, of the store and of the queues.
TypeOK ==
    /\ srv.id \in 0 .. MaxCalls /\ calls \in 0 .. MaxCalls
    /\ DOMAIN srv.ses \subseteq used /\ \A s \in DOMAIN srv.ses : srv.ses[s] \subseteq Flags
    /\ srv.host \in Users \cup {None} /\ srv.screen \in Sessions \cup {None} /\ srv.rec \in BOOLEAN
    /\ used \subseteq Sessions /\ toggles \in 0 .. MaxToggles /\ presses \in 0 .. MaxPresses
    /\ Len(wire) <= MaxWire /\ up \in BOOLEAN
    /\ store.call \in 0 .. MaxCalls /\ store.rec \in BOOLEAN
    /\ store.host \in Users \cup {None} /\ store.screen \in Sessions \cup {None}
    /\ store.ses = None \/ (\A s \in DOMAIN store.ses : s \in Sessions /\ store.ses[s] \in StoreSession)
    /\ client \in Local \cup {None}
    /\ \A i \in Activations : act[i].at \in {"off", "config", "sent", "got", "asked", "done"}

\* No event, message or answer that concerns the current call is in flight.
Quiet ==
    /\ up /\ wire = <<>> /\ req = <<>>
    /\ \A i \in Activations :
          \/ act[i].at \in {"off", "done"}
          \/ act[i].at \in {"sent", "got"} /\ ~act[i].skip

InCall == client # None /\ client \in DOMAIN srv.ses

\* A session of the server that the store has, with its user and its flags;
\* any other session of the store has no user (a late voice event made it).
SessionsAgree ==
    /\ store.ses # None
    /\ \A s \in DOMAIN srv.ses :
          s \in DOMAIN store.ses /\ store.ses[s] = [user |-> UserOf[s], on |-> srv.ses[s]]
    /\ \A s \in DOMAIN store.ses \ DOMAIN srv.ses : store.ses[s].user = None

\* Once everything in flight has arrived, a user who is in the call sees the
\* call, the participants with their flags, the host and the sharer that the
\* server has, whatever was lost, fetched or pressed in between
\* (websocket_handlers.ts, loadCallState, onActivate, fetchChannels).
InSync ==
    Quiet /\ InCall =>
        /\ store.call = srv.id /\ store.host = srv.host
        /\ store.screen = srv.screen
        /\ SessionsAgree

\* A user who is in a call that is recorded is told so once everything in
\* flight has arrived (reducers.ts, recordings; websocket_handlers.ts,
\* handleCallJobState and loadCallState).
RecordingShown == Quiet /\ InCall /\ srv.rec => store.rec

=============================================================================

----------------------------- MODULE CallSocket -----------------------------
(***************************************************************************)
(* The connection of a CallsClient to the server, from the creation of the *)
(* client to the removal of its session: WebSocketClient (websocket.ts),   *)
(* the part of CallsClient that opens, watches and closes it (client.ts,   *)
(* init and disconnect), and the handlers of the server it talks to        *)
(* (server/websocket.go: join, reconnect, leave, OnWebSocketDisconnect,    *)
(* wsReader and handleLeave).                                              *)
(*                                                                         *)
(* Sockets are numbered 1, 2, ... in the order the client opens them.  A   *)
(* connection id is the number of a socket: the server gives a socket its  *)
(* own number, or resumes the id the client asks for.  0 is the empty id.  *)
(* The session object the server makes for socket n is us[n].              *)
(***************************************************************************)
EXTENDS Naturals, Sequences, FiniteSets

CONSTANTS
    MaxConns,    \* bound: sockets opened by the client
    MaxFaults,   \* bound: calls of the server to the RTC side or the store that fail
    FaultyConns  \* bound: sockets the client opens if one of them fails

ASSUME ConnsAssumption == MaxConns \in Nat \ {0} /\ FaultyConns \in 0 .. MaxConns

Conns == 1 .. MaxConns

VARIABLES
    cl,       \* CallsClient: init, closed, ws, peer
    sk,       \* WebSocketClient
    conns,    \* the number of sockets opened so far
    id,       \* the connection id the server gave to a socket
    up,       \* messages of a socket the server has not handled, in order
    down,     \* messages for the current socket, in order
    us,       \* the server's session objects
    reg,      \* p.sessions: from a connection id to a session object
    row,      \* is the session in the state of the call?
    tasks,    \* goroutines of the server: handleJoin, handleReconnect, second look
    rtc,      \* the RTC session: "none", "up", "closed"
    rtcd,     \* does an rtcd service handle RTC, rather than this node?
    missed,   \* history: sockets whose loss was told to no object of theirs
    faults    \* how many of the server's calls have failed so far

socketVars == <<cl, sk, conns, id, up, down, us, reg, row, tasks, rtc, rtcd, missed, faults>>
server == <<us, reg, row, tasks, rtc, rtcd, missed, faults>>

-----------------------------------------------------------------------------
(* WebSocketClient (websocket.ts).  An operator that changes it maps the   *)
(* record sk and says what the current socket sends.                       *)

NewSocket(rec, s) == [s EXCEPT !.st = "connecting", !.rec = rec, !.timer = FALSE]

\* send: a message for a socket that is not open is dropped.
sendAll(s, msgs) ==
    up' = IF s.st = "open" THEN [up EXCEPT ![conns] = @ \o msgs] ELSE up

Msg(t) == [t |-> t, orig |-> 0, prev |-> 0]

\* close: the listeners go, and the native socket closes after what was sent.
closeSocket(s) ==
    [s EXCEPT !.closed = TRUE, !.st = "closed", !.id = 0, !.orig = 0, !.once = FALSE]

\* sendLeaveAndClose, and what the socket sends in it.
sendLeaveAndClose(s) ==
    IF s.st = "connecting" THEN [s EXCEPT !.closed = TRUE, !.once = TRUE] ELSE closeSocket(s)
LeaveMsgs(s) == IF s.st = "open" THEN <<Msg("leave"), Msg("disconnect")>> ELSE <<>>

\* CallsClient.disconnect: what is left of the client and of its socket.
disconnect ==
    /\ cl' = [cl EXCEPT !.closed = TRUE, !.peer = FALSE, !.ws = FALSE]
    /\ sk' = IF cl.ws THEN sendLeaveAndClose(sk) ELSE sk
    /\ IF cl.ws THEN sendAll(sk, LeaveMsgs(sk)) ELSE up' = up

\* The user leaves, the host ends the call or removes the user, the page is
\* unloaded.
Hangup ==
    /\ ~cl.closed
    /\ disconnect
    /\ UNCHANGED <<conns, id, down, server>>

\* init: the microphone and the camera were granted, or not.  Only the first
\* case looks at closed before the socket is opened.
init(granted) ==
    /\ cl.init /\ conns = 0
    /\ IF granted /\ cl.closed
       THEN cl' = [cl EXCEPT !.init = FALSE] /\ UNCHANGED <<sk, conns>>
       ELSE /\ cl' = [cl EXCEPT !.init = FALSE, !.ws = TRUE]
            /\ sk' = NewSocket(FALSE, sk)
            /\ conns' = 1
    /\ UNCHANGED <<id, up, down, server>>

\* The listener for open: join on the first socket, reconnect on another one;
\* then the listener that sendLeaveAndClose added.
OpenMsgs(s) ==
    <<IF s.rec THEN [t |-> "reconnect", orig |-> s.orig, prev |-> s.id] ELSE Msg("join")>>
    \o (IF s.once THEN <<Msg("leave"), Msg("disconnect")>> ELSE <<>>)
AfterOpen(s) == IF s.once THEN closeSocket(s) ELSE s

\* onopen.  The server gives the socket an id: a new one, or the one asked for
\* once it knows that the socket that had it is gone.
onopen(i) ==
    /\ sk.st = "connecting"
    /\ i = conns \/ (i = sk.id /\ \A n \in 1 .. conns - 1 : up[n] = <<>>)
    /\ id' = [id EXCEPT ![conns] = i]
    /\ LET s == [sk EXCEPT !.st = "open", !.since = IF sk.rec THEN FALSE ELSE @]
       IN  IF sk.rec
           THEN sk' = AfterOpen(s) /\ sendAll(s, OpenMsgs(s))
           ELSE sk' = s /\ up' = up
    /\ down' = IF sk.rec /\ sk.once THEN <<>> ELSE <<Msg("hello")>>
    /\ UNCHANGED <<cl, conns, server>>

\* onmessage: hello.
Hello ==
    /\ sk.st = "open" /\ down # <<>> /\ Head(down).t = "hello"
    /\ LET i == id[conns]
           s == [sk EXCEPT !.id = i, !.orig = IF @ = 0 THEN i ELSE @]
       IN  IF sk.rec
           THEN sk' = s /\ up' = up /\ down' = Tail(down)
           ELSE /\ sk' = AfterOpen(s)
                /\ sendAll(s, OpenMsgs(s))
                /\ down' = IF s.once THEN <<>> ELSE Tail(down)
    /\ UNCHANGED <<cl, conns, id, server>>

\* onmessage: the acknowledgement of join.  A closed client ignores it.
Joined ==
    /\ sk.st = "open" /\ down # <<>> /\ Head(down).t = "join"
    /\ down' = Tail(down)
    /\ IF cl.closed THEN UNCHANGED <<cl, rtc>>
       ELSE cl' = [cl EXCEPT !.peer = TRUE] /\ rtc' = "up"
    /\ UNCHANGED <<sk, conns, id, up, us, reg, row, tasks, rtcd, missed, faults>>

\* Mutant of JoinError: an error of the server is only logged.
JoinError_Logged ==
    /\ sk.st = "open" /\ down # <<>> /\ Head(down).t = "error"
    /\ down' = <<>>
    /\ UNCHANGED <<cl, sk, up, conns, id, server>>

\* onmessage: the server refused the join.
JoinError ==
    /\ sk.st = "open" /\ down # <<>> /\ Head(down).t = "error"
    /\ down' = <<>>
    /\ IF cl.closed THEN UNCHANGED <<cl, sk, up>> ELSE disconnect
    /\ UNCHANGED <<conns, id, server>>

\* reconnect: give up when the connection has been lost for too long, which
\* the first loss never is; otherwise try again later.
Room == conns < IF faults > 0 THEN FaultyConns ELSE MaxConns
GiveUp ==
    /\ sk.since
    /\ cl' = [cl EXCEPT !.closed = TRUE, !.peer = FALSE, !.ws = FALSE]
    /\ sk' = [closeSocket(sk) EXCEPT !.since = TRUE]
Retry ==
    /\ Room
    /\ sk' = [sk EXCEPT !.st = "closed", !.since = TRUE, !.timer = TRUE]
    /\ cl' = cl

\* closeHandler.
closeHandler ==
    IF sk.closed THEN sk' = [sk EXCEPT !.st = "closed"] /\ cl' = cl
    ELSE GiveUp \/ Retry

\* The socket cannot be opened.
ConnectFails ==
    /\ sk.st = "connecting"
    /\ closeHandler
    /\ down' = <<>>
    /\ UNCHANGED <<conns, id, up, server>>

Lose(kept) ==
    /\ Room
    /\ closeHandler
    /\ up' = [up EXCEPT ![conns] = Append(IF kept THEN @ ELSE <<>>, Msg("disconnect"))]
    /\ down' = <<>>
    /\ UNCHANGED <<conns, id, server>>

\* The connection breaks; what was sent may arrive or not.
Drop(kept) == sk.st = "open" /\ Lose(kept)

\* The ping interval: the last ping was not answered, as may happen at any time,
\* so the handler of onclose is called at once.
PingTimeout == sk.st = "open" /\ ~sk.closed /\ Lose(TRUE)

\* reconnect: the timer.
RetryTimer ==
    /\ sk.timer
    /\ IF sk.closed THEN sk' = [sk EXCEPT !.timer = FALSE] /\ UNCHANGED conns
       ELSE sk' = NewSocket(TRUE, sk) /\ conns' = conns + 1
    /\ UNCHANGED <<cl, id, up, down, server>>

\* The peer reports that the RTC session is closed.
PeerClosed ==
    /\ cl.peer /\ rtc = "closed"
    /\ disconnect
    /\ UNCHANGED <<conns, id, down, server>>

-----------------------------------------------------------------------------
(* The server (server/websocket.go)                                        *)

(* A session object begins as at = "run", with its goroutine in wsReader or *)
(* handleLeave, and ends as "done" (another object took its place), "gone"  *)
(* (removeSession did its work) or "lost" (it failed, and as the object is  *)
(* marked as removed nothing tries again).  A "stuck" one has no goroutine. *)
(* quiet: the join failed once the object was registered.                   *)

NoUs == [at |-> "none", conn |-> 0, orig |-> 0, left |-> FALSE, closed |-> FALSE, reconnected |-> FALSE,
         rtc |-> FALSE, quiet |-> FALSE]

\* The client sends join on its first socket only; the callback of the embedded
\* RTC server belongs to the object that was made for it.
Joiner == 1

Spawn(t) == tasks' = tasks \cup {t}
Task(t, n, m) == [t |-> t, n |-> n, orig |-> m.orig, prev |-> m.prev]

\* WebSocketMessageHasBeenPosted: leave; OnWebSocketDisconnect.
Leave(n) ==
    LET u == reg[id[n]]
    IN  /\ us' = IF u = 0 THEN us ELSE [us EXCEPT ![u].left = TRUE]
        /\ UNCHANGED <<tasks, missed>>
Told(n, u) == missed' = IF u = n THEN missed ELSE missed \cup {n}
OnWebSocketDisconnect(n) ==
    LET u == reg[id[n]]
    IN  IF u # 0 THEN us' = [us EXCEPT ![u].closed = TRUE] /\ Told(n, u) /\ UNCHANGED tasks
        ELSE UNCHANGED <<us, missed>> /\ Spawn(Task("look", n, Msg("look")))

\* A message of socket n: join and reconnect run in a goroutine, the others at
\* once; a reconnect without the ids is refused.
Receive(n) ==
    /\ up[n] # <<>> /\ up' = [up EXCEPT ![n] = Tail(@)]
    /\ LET m == Head(up[n])
       IN  \/ m.t = "join" /\ Spawn(Task("join", n, m)) /\ UNCHANGED <<us, missed>>
           \/ /\ m.t = "reconnect" /\ UNCHANGED <<us, missed>>
              /\ IF m.orig # 0 /\ m.prev # 0 THEN Spawn(Task("reconnect", n, m)) ELSE UNCHANGED tasks
           \/ m.t = "leave" /\ Leave(n)
           \/ m.t = "disconnect" /\ OnWebSocketDisconnect(n)
    /\ UNCHANGED <<cl, sk, conns, id, down, reg, row, rtc, rtcd, faults>>

Reply(n, t) == down' = IF n = conns /\ sk.st = "open" THEN Append(down, Msg(t)) ELSE down
Run(t) == t \in tasks /\ tasks' = tasks \ {t}
Fail(k) ==
    /\ k > 0 => faults + k <= MaxFaults /\ conns + (IF sk.timer THEN 1 ELSE 0) <= FaultyConns
    /\ faults' = faults + k

\* Mutant of handleJoin: nobody undoes a join that fails once it is registered.
handleJoin_NoLeave(t) ==
    /\ t.t = "join" /\ Run(t)
    /\ \/ /\ \E quiet \in BOOLEAN :
                /\ us' = [us EXCEPT ![t.n] =
                             [NoUs EXCEPT !.at = IF quiet THEN "stuck" ELSE "run", !.conn = id[t.n],
                                          !.orig = id[t.n], !.rtc = ~rtcd, !.quiet = quiet]]
                /\ IF quiet THEN down' = down /\ Fail(1) ELSE Reply(t.n, "join") /\ faults' = faults
          /\ reg' = [reg EXCEPT ![id[t.n]] = t.n]
          /\ row' = TRUE
       \/ Reply(t.n, "error") /\ UNCHANGED <<us, reg, row, faults>>
    /\ UNCHANGED <<cl, sk, conns, id, up, rtc, rtcd, missed>>

\* handleJoin, after the lock or the batch it waits for.  It refuses the join
\* with an error; or it registers the session and acknowledges it; or it cannot
\* have the RTC session made, and then tells the client nothing and only starts
\* handleLeave.
handleJoin(t) ==
    /\ t.t = "join" /\ Run(t)
    /\ \/ /\ \E quiet \in BOOLEAN :
                /\ us' = [us EXCEPT ![t.n] =
                             [NoUs EXCEPT !.at = "run", !.conn = id[t.n], !.orig = id[t.n],
                                          !.rtc = ~rtcd, !.quiet = quiet]]
                /\ IF quiet THEN down' = down /\ Fail(1) ELSE Reply(t.n, "join") /\ faults' = faults
          /\ reg' = [reg EXCEPT ![id[t.n]] = t.n]
          /\ row' = TRUE
       \/ Reply(t.n, "error") /\ UNCHANGED <<us, reg, row, faults>>
    /\ UNCHANGED <<cl, sk, conns, id, up, rtc, rtcd, missed>>

\* handleReconnect: the session must be in the call.
ReconnectCheck(t) ==
    /\ t.t = "reconnect" /\ t \in tasks
    /\ tasks' = (tasks \ {t}) \cup IF row THEN {[t EXCEPT !.t = "register"]} ELSE {}
    /\ UNCHANGED <<cl, sk, conns, id, up, down, us, reg, row, rtc, rtcd, missed, faults>>

\* handleReconnect: the old session object learns of the reconnection, and a
\* new one takes its place; without a goroutine if rtcd cannot be told.
handleReconnect(t) ==
    /\ t.t = "register" /\ Run(t)
    /\ LET c == id[t.n]
           u == IF reg[c] # 0 THEN reg[c] ELSE reg[t.prev]
           marked == IF u = 0 THEN us ELSE [us EXCEPT ![u].reconnected = TRUE]
       IN  IF u # 0 /\ us[u].reconnected THEN UNCHANGED <<us, reg, faults>>
           ELSE /\ \E sent \in BOOLEAN :
                      /\ us' = [marked EXCEPT ![t.n] =
                                   [NoUs EXCEPT !.at = IF sent THEN "run" ELSE "stuck", !.conn = c,
                                                !.orig = t.orig, !.rtc = u # 0 /\ us[u].rtc]]
                      /\ IF sent THEN faults' = faults ELSE rtcd /\ Fail(1)
                /\ reg' = [reg EXCEPT ![t.orig] = 0, ![c] = t.n]
    /\ UNCHANGED <<cl, sk, conns, id, up, down, row, rtc, rtcd, missed>>

\* Mutant of SecondLook: the session that was made meanwhile is not closed.
SecondLook_Gone(t) ==
    /\ t.t = "look" /\ Run(t)
    /\ UNCHANGED <<cl, sk, conns, id, up, down, us, reg, row, rtc, rtcd, missed, faults>>

\* OnWebSocketDisconnect looks again after 10 seconds, when a handler of the
\* same socket may still be waiting.
SecondLook(t) ==
    /\ t.t = "look" /\ Run(t)
    /\ LET u == reg[id[t.n]]
       IN  /\ us' = IF u = 0 THEN us ELSE [us EXCEPT ![u].closed = TRUE]
           /\ Told(t.n, u)
    /\ UNCHANGED <<cl, sk, conns, id, up, down, reg, row, rtc, rtcd, faults>>

\* removeSession for the objects S: it does its work, or cannot lock the call,
\* or cannot delete the row.  k other calls have failed in the same step.
removeSession(S, k) ==
    \E out \in [S -> {"ok", "unlocked", "undeleted"}] :
        /\ us' = [n \in Conns |-> IF n \notin S THEN us[n]
                                  ELSE [us[n] EXCEPT !.at = IF out[n] = "ok" THEN "gone" ELSE "lost"]]
        /\ reg' = [c \in 0 .. MaxConns |->
                      IF \E n \in S : us[n].conn = c /\ out[n] # "unlocked" THEN 0 ELSE reg[c]]
        /\ row' = (row /\ \A n \in S : out[n] # "ok")
        /\ Fail(k + Cardinality({n \in S : out[n] # "ok"}))

\* closeRTCSession: the embedded RTC server calls back the object that joined,
\* which is removed as well; rtcd gets a message, or cannot be reached.
CalledBack ==
    IF rtcd \/ rtc = "closed" \/ us[Joiner].quiet THEN {}
    ELSE {n \in {Joiner} : us[n].at \in {"run", "done"}}
closeRTCSession(n) ==
    \/ rtc' = (IF rtc = "up" THEN "closed" ELSE rtc) /\ removeSession({n} \cup CalledBack, 0)
    \/ rtcd /\ rtc = "up" /\ rtc' = rtc /\ removeSession({n}, 1)

\* Mutant of handleLeave: an object that was reconnected stays registered.
handleLeave_KeepsOld(n) ==
    /\ us[n].at = "run"
    /\ \/ us[n].reconnected /\ us' = [us EXCEPT ![n].at = "done"] /\ UNCHANGED <<reg, row, rtc, faults>>
       \/ (us[n].left \/ us[n].closed \/ us[n].quiet) /\ closeRTCSession(n)
    /\ UNCHANGED <<cl, sk, conns, id, up, down, tasks, rtcd, missed>>

\* wsReader and handleLeave: a reconnection ends the object, which stays in
\* p.sessions if this node handles its RTC.  A leave removes the session, and so
\* does a lost connection that does not come back in time, or a failed join.
handleLeave(n) ==
    /\ us[n].at = "run"
    /\ \/ /\ us[n].reconnected
          /\ us' = [us EXCEPT ![n].at = "done"]
          /\ reg' = IF reg[us[n].conn] = n /\ ~us[n].rtc THEN [reg EXCEPT ![us[n].conn] = 0] ELSE reg
          /\ UNCHANGED <<row, rtc, faults>>
       \/ (us[n].left \/ us[n].closed \/ us[n].quiet) /\ closeRTCSession(n)
    /\ UNCHANGED <<cl, sk, conns, id, up, down, tasks, rtcd, missed>>

\* getSessionByOriginalID: the object under the original id, or any other one
\* of the session.
ByOriginalID ==
    LET o == us[Joiner].orig
    IN  IF reg[o] # 0 THEN {reg[o]} ELSE {n \in Conns : us[n].orig = o /\ reg[us[n].conn] = n}

\* The RTC session ends by itself, as it does for a client that has closed: the
\* embedded server calls back the object that joined, rtcd sends a message.
RTCClosed(n) ==
    /\ rtc = "up" /\ rtc' = "closed"
    /\ n \in IF rtcd THEN ByOriginalID ELSE {Joiner}
    /\ us[n].at \in {"run", "stuck", "done"}
    /\ removeSession({n}, 0)
    /\ UNCHANGED <<cl, sk, conns, id, up, down, tasks, rtcd, missed>>

-----------------------------------------------------------------------------
\* new: the client is yet to be initialized; otherwise it was closed before.
SocketStart(new) ==
    /\ cl = [init |-> new, closed |-> ~new, ws |-> FALSE, peer |-> FALSE]
    /\ sk = [closed |-> FALSE, st |-> "none", rec |-> FALSE, id |-> 0, orig |-> 0,
             since |-> FALSE, timer |-> FALSE, once |-> FALSE]
    /\ conns = 0 /\ id = [n \in Conns |-> 0]
    /\ up = [n \in Conns |-> <<>>] /\ down = <<>>
    /\ us = [n \in Conns |-> NoUs] /\ reg = [c \in 0 .. MaxConns |-> 0]
    /\ row = FALSE /\ tasks = {} /\ rtc = "none" /\ missed = {} /\ faults = 0
    /\ rtcd \in IF new THEN BOOLEAN ELSE {FALSE}

SocketInit == SocketStart(TRUE)

ClientStep ==
    \/ Hangup \/ (\E g \in BOOLEAN : init(g)) \/ Hello \/ Joined \/ JoinError
    \/ ConnectFails \/ (\E k \in BOOLEAN : Drop(k)) \/ PingTimeout \/ RetryTimer \/ PeerClosed
    \/ \E i \in Conns : onopen(i)

ServerStep ==
    \/ \E n \in Conns : Receive(n) \/ handleLeave(n) \/ (cl.closed /\ RTCClosed(n))
    \/ \E t \in tasks : handleJoin(t) \/ ReconnectCheck(t) \/ handleReconnect(t) \/ SecondLook(t)

SocketNext == ClientStep \/ ServerStep \/ \E n \in Conns : RTCClosed(n)

\* The browser resolves what the client waits for, its timers fire, and the
\* server and the network handle what they were given.  The user need not
\* hang up and connections need not break.
SocketFairness ==
    /\ WF_socketVars(\E g \in BOOLEAN : init(g))
    /\ WF_socketVars(ConnectFails \/ \E i \in Conns : onopen(i))
    /\ WF_socketVars(Hello \/ Joined \/ JoinError)
    /\ WF_socketVars(RetryTimer)
    /\ WF_socketVars(PeerClosed)
    /\ WF_socketVars(ServerStep)

SocketSpec == SocketInit /\ [][SocketNext]_socketVars /\ SocketFairness

-----------------------------------------------------------------------------
\* What p.sessions may hold: an object with its goroutine, one that handleReconnect
\* left without, one whose removal failed, or an ended one that was reconnected
\* while this node handled its RTC.
Tracked(u) == u.at \in {"run", "stuck", "lost"} \/ (u.at = "done" /\ u.reconnected /\ u.rtc)

\* The types of the client, of its socket and of the server's objects; and
\* p.sessions has an object only under its own connection id, and only one that
\* Tracked allows, whatever reconnections, leaves, timeouts and failures overlap.
SocketTypeOK ==
    /\ cl \in [init : BOOLEAN, closed : BOOLEAN, ws : BOOLEAN, peer : BOOLEAN]
    /\ sk.st \in {"none", "connecting", "open", "closed"} /\ {sk.id, sk.orig} \subseteq 0 .. MaxConns
    /\ {sk.closed, sk.rec, sk.since, sk.timer, sk.once} \subseteq BOOLEAN
    /\ conns \in 0 .. MaxConns /\ \A n \in Conns : id[n] \in 0 .. n
    /\ row \in BOOLEAN /\ rtc \in {"none", "up", "closed"}
    /\ \A c \in 0 .. MaxConns : reg[c] # 0 => us[reg[c]].conn = c /\ Tracked(us[reg[c]])
    /\ \A n \in Conns : (us[n].at = "stuck" => rtcd) /\ (us[n].rtc => ~rtcd)

\* An object is out of reach of the RTC side: there is no RTC session, or its
\* entry in p.sessions is gone (removeSession deletes whatever has its id).
Unreachable(n) == rtc # "up" \/ reg[us[n].conn] # n

\* An object that nothing ends: the loss of its socket was told to another
\* object or to none, because its handler registered it too late.
Orphan(n) == us[n].at = "run" /\ n \in missed /\ Unreachable(n)

\* An object without a goroutine.
Stuck(n) == us[n].at = "stuck" /\ Unreachable(n)

\* The removal of the session failed, and no object is left to try it again.
Lost == (\E n \in Conns : us[n].at = "lost") /\ \A n \in Conns : us[n].at # "run"

\* disconnect and sendLeaveAndClose: the session of a client that has closed
\* its socket leaves the call, whether the leave message arrives, comes before
\* the session is registered, or is lost with the connection.  It stays only
\* with an object that is an orphan or stuck, or if its removal has failed.
ClosedClientLeaves ==
    (cl.closed /\ ~cl.ws) ~> (~row \/ Lost \/ \E n \in Conns : Orphan(n) \/ Stuck(n))

\* handleJoin starts handleLeave for a join that failed once the session was
\* registered: the row goes again, unless the client reconnected in the ten
\* seconds or the removal fails too.
FailedJoinUndone ==
    us[Joiner].quiet ~> (~row \/ us[Joiner].reconnected \/ us[Joiner].at = "lost")

\* init and the listener for open: a client that has started gets its peer or
\* closes, with two exceptions.  The first socket is lost before its
\* acknowledgement arrives: a later socket sends reconnect, and no join is ever
\* acknowledged again.  Or the join failed after the session was registered, and
\* the server says nothing.
JoinCompletes == (cl.ws /\ ~cl.closed) ~> (cl.peer \/ cl.closed \/ conns > 1 \/ us[Joiner].quiet)

=============================================================================

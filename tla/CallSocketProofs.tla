-------------------------- MODULE CallSocketProofs --------------------------
(***************************************************************************)
(* Proof that p.sessions and the sockets of a client stay well formed, for *)
(* any number of sockets, whatever breaks, overlaps or comes late.         *)
(***************************************************************************)
EXTENDS CallSocket, SequenceTheorems, TLAPS

USE ConnsAssumption

-----------------------------------------------------------------------------
(* The inductive invariant *)

Ids == 0 .. MaxConns
States == {"none", "connecting", "open", "closed"}
Messages ==
    [t : {"join", "reconnect", "leave", "disconnect", "hello", "error"}, orig : Ids, prev : Ids]
Routines == [t : {"join", "reconnect", "register", "look"}, n : Conns, orig : Ids, prev : Ids]
Objects == [at : {"none", "run", "stuck", "done", "gone", "lost"}, conn : Ids, orig : Ids,
            left : BOOLEAN, closed : BOOLEAN, reconnected : BOOLEAN, rtc : BOOLEAN, quiet : BOOLEAN]
Client == [init : BOOLEAN, closed : BOOLEAN, ws : BOOLEAN, peer : BOOLEAN]
Sockets == [closed : BOOLEAN, st : States, rec : BOOLEAN, id : Ids, orig : Ids, since : BOOLEAN,
            timer : BOOLEAN, once : BOOLEAN]

\* The client; a retry is only ever due with a socket left to open.
ClientTyped ==
    /\ cl \in Client
    /\ sk \in Sockets /\ conns \in Ids
    /\ sk.id <= conns /\ (sk.st # "none" => conns > 0) /\ (sk.timer => conns < MaxConns)
    /\ (cl.ws => sk.st # "none")

\* An id comes from a socket that was opened before.
NetTyped ==
    /\ id \in [Conns -> Ids] /\ \A n \in Conns : id[n] <= n
    /\ up \in [Conns -> Seq(Messages)] /\ down \in Seq(Messages)

ServerTyped ==
    /\ us \in [Conns -> Objects] /\ reg \in [Ids -> Ids]
    /\ row \in BOOLEAN /\ rtc \in {"none", "up", "closed"} /\ rtcd \in BOOLEAN
    /\ tasks \subseteq Routines

\* The server has heard nothing of a socket that has no id yet.
Unheard(n) == n > conns \/ (n = conns /\ sk.st = "connecting")
Fresh ==
    \A n \in Conns : Unheard(n) =>
       up[n] = <<>> /\ us[n].at = "none" /\ \A t \in tasks : t.n # n

\* A session object has the id of its socket for good; p.sessions has it under
\* that id only as Tracked says, and its RTC is this node's or rtcd's.
Named == \A n \in Conns : us[n].at # "none" => us[n].conn = id[n]
Held == \A c \in Ids : reg[c] # 0 => us[reg[c]].conn = c /\ Tracked(us[reg[c]])
Placed == \A n \in Conns : (us[n].at = "stuck" => rtcd) /\ (us[n].rtc => ~rtcd)

SocketInv == ClientTyped /\ NetTyped /\ ServerTyped /\ Fresh /\ Named /\ Held /\ Placed

-----------------------------------------------------------------------------
LEMMA SocketInvInit ==
    ASSUME SocketInit
    PROVE  SocketInv
<1> USE DEF SocketInit, SocketStart, Conns, Ids
<1>1. ClientTyped
  BY DEF ClientTyped, Client, Sockets, States
<1>2. NetTyped
  BY DEF NetTyped
<1>3. ServerTyped
  <2>1. NoUs \in Objects
    BY DEF NoUs, Objects
  <2>2. us \in [Conns -> Objects]
    BY <2>1
  <2>3. reg \in [Ids -> Ids]
    OBVIOUS
  <2>4. rtcd \in BOOLEAN
    OBVIOUS
  <2> QED BY <2>2, <2>3, <2>4 DEF ServerTyped
<1>4. Fresh
  BY DEF Fresh, NoUs
<1>5. Named /\ Held /\ Placed
  BY DEF Named, Held, Placed, NoUs
<1> QED BY <1>1, <1>2, <1>3, <1>4, <1>5 DEF SocketInv

-----------------------------------------------------------------------------
(* Steps of the client *)

\* What such a step may do: the current socket sends, and gets an id when it
\* opens.  A socket that begins to connect is a new one.
ClientMoves ==
    /\ UNCHANGED server
    /\ \A n \in Conns : n # conns => up'[n] = up[n] /\ id'[n] = id[n]
    /\ conns' >= conns
    /\ sk'.st = "connecting" => conns' > conns \/ sk.st = "connecting"
    /\ conns' = conns \/ (up' = up /\ id' = id)
    /\ sk.st = "connecting" /\ sk'.st = "connecting" => up' = up /\ id' = id
    /\ sk.st # "connecting" => id' = id

LEMMA ClientFacts ==
    ASSUME SocketInv
    PROVE  /\ sk \in Sockets /\ up \in [Conns -> Seq(Messages)] /\ sk.id \in Nat /\ conns \in Nat
           /\ conns \in Ids /\ sk.id <= conns /\ (sk.st # "none" => conns > 0) /\ (sk.timer => conns < MaxConns)
           /\ (cl.ws => sk.st # "none") /\ id \in [Conns -> Ids] /\ (\A n \in Conns : id[n] <= n)
           /\ cl \in Client /\ (conns > 0 => conns \in Conns) /\ down \in Seq(Messages)
  BY DEF SocketInv, ClientTyped, NetTyped, Sockets, Ids, Conns, Client

LEMMA TailMessages ==
    ASSUME SocketInv, down # <<>>
    PROVE  Tail(down) \in Seq(Messages) /\ <<>> \in Seq(Messages)
  BY ClientFacts, HeadTailProperties

LEMMA ClientMovesKept ==
    ASSUME SocketInv, ClientTyped', NetTyped', ClientMoves,
           conns > 0 \/ (up' = up /\ id' = id)
    PROVE  SocketInv'
<1>1. /\ us' = us /\ reg' = reg /\ row' = row /\ tasks' = tasks /\ rtc' = rtc
      /\ rtcd' = rtcd /\ conns \in Nat /\ conns' \in Nat
  BY DEF ClientMoves, server, SocketInv, ClientTyped, Ids
<1>2. ServerTyped'
  BY <1>1 DEF SocketInv, ServerTyped
<1>3. \A n \in Conns : Unheard(n)' => Unheard(n) /\ up'[n] = up[n]
  <2> SUFFICES ASSUME NEW n \in Conns, Unheard(n)' PROVE Unheard(n) /\ up'[n] = up[n]
    OBVIOUS
  <2>1. n \in Nat
    BY DEF Conns
  <2> QED BY <1>1, <2>1 DEF Unheard, ClientMoves
<1>4. Fresh'
  BY <1>1, <1>3 DEF SocketInv, Fresh
<1>5. \A n \in Conns : us[n].at # "none" => id'[n] = id[n]
  <2> SUFFICES ASSUME NEW n \in Conns, id'[n] # id[n] PROVE us[n].at = "none"
    OBVIOUS
  <2>1. n = conns /\ sk.st = "connecting"
    BY DEF ClientMoves
  <2> QED BY <2>1 DEF SocketInv, Fresh, Unheard
<1>6. Named' /\ Held' /\ Placed'
  BY <1>1, <1>5 DEF SocketInv, Named, Held, Placed
<1> QED BY <1>2, <1>4, <1>6 DEF SocketInv

\* What the client's operators do to its socket and to what it sends.
LEMMA MessageTypes ==
    ASSUME NEW s \in Sockets
    PROVE  /\ LeaveMsgs(s) \in Seq(Messages) /\ OpenMsgs(s) \in Seq(Messages)
           /\ Msg("hello") \in Messages /\ Msg("disconnect") \in Messages
           /\ Msg("join") \in Messages /\ Msg("error") \in Messages
<1>1. /\ Msg("hello") \in Messages /\ Msg("disconnect") \in Messages /\ Msg("leave") \in Messages
      /\ Msg("join") \in Messages /\ Msg("error") \in Messages
  BY DEF Msg, Messages, Ids
<1>2. s.orig \in Ids /\ s.id \in Ids
  BY DEF Sockets
<1>3. [t |-> "reconnect", orig |-> s.orig, prev |-> s.id] \in Messages
  BY <1>2 DEF Messages
<1>4. <<Msg("leave"), Msg("disconnect")>> \in Seq(Messages) /\ <<>> \in Seq(Messages)
  BY <1>1
<1>5. LeaveMsgs(s) \in Seq(Messages)
  BY <1>4, Zenon DEF LeaveMsgs
<1>6. OpenMsgs(s) \in Seq(Messages)
  <2> DEFINE a == IF s.rec THEN [t |-> "reconnect", orig |-> s.orig, prev |-> s.id] ELSE Msg("join")
             b == IF s.once THEN <<Msg("leave"), Msg("disconnect")>> ELSE <<>>
  <2>1. a \in Messages
    BY <1>1, <1>3, Zenon
  <2>2. b \in Seq(Messages)
    BY <1>4, Zenon
  <2>3. OpenMsgs(s) = <<a>> \o b
    BY DEF OpenMsgs
  <2> HIDE DEF a, b
  <2>4. <<a>> \in Seq(Messages)
    BY <2>1
  <2> QED BY <2>2, <2>3, <2>4
<1> QED BY <1>1, <1>5, <1>6

LEMMA SocketShapes ==
    ASSUME NEW s \in Sockets
    PROVE  /\ closeSocket(s) \in Sockets /\ closeSocket(s).id = 0 /\ closeSocket(s).st = "closed"
           /\ closeSocket(s).timer = s.timer
           /\ \A r \in BOOLEAN : /\ NewSocket(r, s) \in Sockets /\ NewSocket(r, s).id = s.id
                                 /\ NewSocket(r, s).st = "connecting" /\ ~NewSocket(r, s).timer
<1>1. "closed" \in States /\ "connecting" \in States /\ 0 \in Ids
  BY DEF States, Ids
<1>2. /\ closeSocket(s) \in Sockets /\ closeSocket(s).id = 0 /\ closeSocket(s).st = "closed"
      /\ closeSocket(s).timer = s.timer
  BY <1>1 DEF closeSocket, Sockets
<1>3. ASSUME NEW r \in BOOLEAN
      PROVE  /\ NewSocket(r, s) \in Sockets /\ NewSocket(r, s).id = s.id
             /\ NewSocket(r, s).st = "connecting" /\ ~NewSocket(r, s).timer
  BY <1>1 DEF NewSocket, Sockets
<1> QED BY <1>2, <1>3

LEMMA LeaveShapes ==
    ASSUME NEW s \in Sockets
    PROVE  /\ sendLeaveAndClose(s) \in Sockets /\ AfterOpen(s) \in Sockets
           /\ sendLeaveAndClose(s).id \in {0, s.id} /\ AfterOpen(s).id \in {0, s.id}
           /\ sendLeaveAndClose(s).timer = s.timer /\ AfterOpen(s).timer = s.timer
           /\ sendLeaveAndClose(s).st = IF s.st = "connecting" THEN "connecting" ELSE "closed"
           /\ AfterOpen(s).st \in {s.st, "closed"}
<1>1. [s EXCEPT !.closed = TRUE, !.once = TRUE] \in Sockets
  BY DEF Sockets
<1> QED BY <1>1, SocketShapes DEF sendLeaveAndClose, AfterOpen, Sockets

\* CallsClient.disconnect.
LEMMA DisconnectKept ==
    ASSUME SocketInv, disconnect, UNCHANGED <<conns, id, server>>, down' \in Seq(Messages)
    PROVE  SocketInv'
<1>1. conns' = conns /\ id' = id /\ down' \in Seq(Messages)
  OBVIOUS
<1>2. /\ sk' \in Sockets /\ sk'.id \in {0, sk.id} /\ sk'.timer = sk.timer
      /\ (sk'.st = "connecting" => sk.st = "connecting") /\ (sk'.st # "none" => sk.st # "none")
  BY ClientFacts, LeaveShapes DEF disconnect
<1>3. cl' \in Client /\ ~cl'.ws
  BY ClientFacts DEF disconnect, Client
<1>4. ClientTyped'
  BY <1>1, <1>2, <1>3, ClientFacts DEF ClientTyped
<1>5. up' = up \/ (sk.st = "open" /\ up' = [up EXCEPT ![conns] = up[conns] \o LeaveMsgs(sk)])
  BY DEF disconnect, sendAll
<1>7. up' \in [Conns -> Seq(Messages)] /\ \A n \in Conns : n # conns => up'[n] = up[n]
  <2>1. CASE up' = up
    BY <2>1, ClientFacts
  <2>2. CASE sk.st = "open" /\ up' = [up EXCEPT ![conns] = up[conns] \o LeaveMsgs(sk)]
    <3>1. LeaveMsgs(sk) \in Seq(Messages) /\ up[conns] \in Seq(Messages)
      BY <2>2, ClientFacts, MessageTypes
    <3>2. up[conns] \o LeaveMsgs(sk) \in Seq(Messages)
      BY <3>1
    <3> QED BY <2>2, <3>2, ClientFacts
  <2> QED BY <1>5, <2>1, <2>2
<1>8. NetTyped'
  BY <1>1, <1>7, ClientFacts DEF NetTyped
<1>9. ClientMoves
  BY <1>1, <1>2, <1>5, <1>7, ClientFacts DEF ClientMoves
<1>10. conns > 0 \/ (up' = up /\ id' = id)
  BY <1>1, <1>5, ClientFacts
<1> QED BY <1>4, <1>8, <1>9, <1>10, ClientMovesKept

\* closeHandler, with the two ways it goes on.
LEMMA CloseTyped ==
    ASSUME SocketInv, sk.st # "none", closeHandler, conns' = conns
    PROVE  ClientTyped' /\ sk'.st = "closed"
<1>1. CASE sk.closed /\ sk' = [sk EXCEPT !.st = "closed"] /\ cl' = cl
  BY <1>1, ClientFacts DEF ClientTyped, Sockets, States
<1>2. CASE GiveUp
  <2>1. closeSocket(sk) \in Sockets /\ closeSocket(sk).id = 0 /\ closeSocket(sk).st = "closed"
        /\ closeSocket(sk).timer = sk.timer
    BY ClientFacts, SocketShapes
  <2>2. sk' \in Sockets /\ sk'.id = 0 /\ sk'.st = "closed" /\ sk'.timer = sk.timer
    BY <1>2, <2>1 DEF GiveUp, Sockets
  <2>3. cl' \in Client /\ ~cl'.ws
    BY <1>2, ClientFacts DEF GiveUp, Client
  <2> QED BY <2>2, <2>3, ClientFacts DEF ClientTyped
<1>3. CASE Retry
  <2>1. conns < IF faults > 0 THEN FaultyConns ELSE MaxConns
    BY <1>3 DEF Retry, Room
  <2>2. conns < MaxConns
    BY <2>1, ClientFacts DEF Ids
  <2> QED BY <1>3, <2>2, ClientFacts DEF Retry, ClientTyped, Sockets, States
<1> QED BY <1>1, <1>2, <1>3 DEF closeHandler

\* The connection breaks.
LEMMA LoseKept ==
    ASSUME SocketInv, sk.st = "open", NEW kept \in BOOLEAN, Lose(kept)
    PROVE  SocketInv'
<1> DEFINE ms == Append(IF kept THEN up[conns] ELSE <<>>, Msg("disconnect"))
<1>1. /\ closeHandler /\ up' = [up EXCEPT ![conns] = ms] /\ down' = <<>>
      /\ conns' = conns /\ id' = id /\ UNCHANGED server
  BY DEF Lose
<1>2. ClientTyped' /\ sk'.st = "closed"
  BY <1>1, CloseTyped
<1>3. conns > 0 /\ up[conns] \in Seq(Messages) /\ Msg("disconnect") \in Messages
  BY ClientFacts, MessageTypes
<1>4. ms \in Seq(Messages)
  BY <1>3
<1> HIDE DEF ms
<1>5. NetTyped' /\ \A n \in Conns : n # conns => up'[n] = up[n]
  BY <1>1, <1>4, ClientFacts DEF NetTyped
<1>6. ClientMoves
  BY <1>1, <1>2, <1>5, ClientFacts DEF ClientMoves
<1> QED BY <1>2, <1>3, <1>5, <1>6, ClientMovesKept

\* A socket gets its id.
LEMMA OpenKept ==
    ASSUME SocketInv, NEW i \in Conns, onopen(i)
    PROVE  SocketInv'
<1> DEFINE s == [sk EXCEPT !.st = "open", !.since = IF sk.rec THEN FALSE ELSE @]
<1>1. /\ sk.st = "connecting" /\ i \in {conns, sk.id} /\ id' = [id EXCEPT ![conns] = i]
      /\ cl' = cl /\ conns' = conns /\ UNCHANGED server
      /\ sk' \in {s, AfterOpen(s)} /\ (up' = up \/ sendAll(s, OpenMsgs(s)))
      /\ down' \in {<<>>, <<Msg("hello")>>}
  BY DEF onopen
<1>2. conns > 0 /\ conns \in Conns /\ i \in Ids /\ i <= conns
  BY <1>1, ClientFacts DEF Conns, Ids
<1>3. s \in Sockets /\ s.id = sk.id /\ s.timer = sk.timer /\ s.st = "open"
  BY ClientFacts DEF Sockets, States
<1> HIDE DEF s
<1>4. /\ sk' \in Sockets /\ sk'.id \in {0, sk.id} /\ sk'.timer = sk.timer
      /\ sk'.st \in {"open", "closed"}
  BY <1>1, <1>3, LeaveShapes
<1>5. ClientTyped'
  BY <1>1, <1>2, <1>4, ClientFacts DEF ClientTyped
<1>6. up' = up \/ up' = [up EXCEPT ![conns] = up[conns] \o OpenMsgs(s)]
  BY <1>1 DEF sendAll
<1>7. up' \in [Conns -> Seq(Messages)] /\ \A n \in Conns : n # conns => up'[n] = up[n]
  <2>1. up[conns] \o OpenMsgs(s) \in Seq(Messages)
    BY <1>2, <1>3, ClientFacts, MessageTypes
  <2> QED BY <1>6, <2>1, ClientFacts
<1>8. down' \in Seq(Messages)
  <2>1. <<>> \in Seq(Messages) /\ <<Msg("hello")>> \in Seq(Messages)
    BY <1>3, MessageTypes
  <2> QED BY <1>1, <2>1, Zenon
<1>9. NetTyped' /\ \A n \in Conns : n # conns => id'[n] = id[n]
  BY <1>1, <1>2, <1>7, <1>8, ClientFacts DEF NetTyped
<1>10. ClientMoves
  BY <1>1, <1>4, <1>7, <1>9, ClientFacts DEF ClientMoves
<1> QED BY <1>2, <1>5, <1>9, <1>10, ClientMovesKept

\* The server's hello gives the client the id of its socket.
LEMMA HelloKept ==
    ASSUME SocketInv, Hello
    PROVE  SocketInv'
<1> DEFINE i == id[conns]
           s == [sk EXCEPT !.id = i, !.orig = IF @ = 0 THEN i ELSE @]
<1>1. /\ sk.st = "open" /\ down # <<>> /\ cl' = cl /\ conns' = conns /\ id' = id /\ UNCHANGED server
      /\ sk' \in {s, AfterOpen(s)} /\ (up' = up \/ sendAll(s, OpenMsgs(s)))
      /\ down' \in {<<>>, Tail(down)}
  BY DEF Hello
<1>2. conns > 0 /\ conns \in Conns /\ i \in Ids /\ i <= conns /\ i \in Nat
  BY <1>1, ClientFacts DEF Ids
<1>3. s \in Sockets /\ s.id = i /\ s.timer = sk.timer /\ s.st = "open"
  <2> HIDE DEF i
  <2> QED BY <1>1, <1>2, ClientFacts DEF Sockets
<1> HIDE DEF s, i
<1>4. /\ sk' \in Sockets /\ sk'.id \in {0, i} /\ sk'.timer = sk.timer
      /\ sk'.st \in {"open", "closed"}
  BY <1>1, <1>3, LeaveShapes
<1>5. ClientTyped'
  BY <1>1, <1>2, <1>4, ClientFacts DEF ClientTyped
<1>6. up' = up \/ up' = [up EXCEPT ![conns] = up[conns] \o OpenMsgs(s)]
  BY <1>1 DEF sendAll
<1>7. up' \in [Conns -> Seq(Messages)] /\ \A n \in Conns : n # conns => up'[n] = up[n]
  <2>1. up[conns] \o OpenMsgs(s) \in Seq(Messages)
    BY <1>2, <1>3, ClientFacts, MessageTypes
  <2> QED BY <1>6, <2>1, ClientFacts
<1>8. down' \in Seq(Messages)
  BY <1>1, TailMessages
<1>9. NetTyped'
  BY <1>1, <1>7, <1>8, ClientFacts DEF NetTyped
<1>10. ClientMoves
  BY <1>1, <1>4, <1>7, ClientFacts DEF ClientMoves
<1> QED BY <1>2, <1>5, <1>9, <1>10, ClientMovesKept

\* The other steps of the client.
LEMMA ClientStepKept ==
    ASSUME SocketInv, ClientStep
    PROVE  SocketInv'
<1>1. CASE Hangup \/ PeerClosed
  <2>1. disconnect /\ UNCHANGED <<conns, id, down, server>>
    BY <1>1 DEF Hangup, PeerClosed
  <2> QED BY <2>1, ClientFacts, DisconnectKept
<1>2. ASSUME NEW g \in BOOLEAN, init(g) PROVE SocketInv'
  <2>1. conns = 0 /\ id' = id /\ up' = up /\ down' = down /\ UNCHANGED server
    BY <1>2 DEF init
  <2>2. \/ sk' = sk /\ conns' = conns /\ cl' = [cl EXCEPT !.init = FALSE]
        \/ /\ sk' \in Sockets /\ sk'.id = sk.id /\ sk'.st = "connecting" /\ ~sk'.timer
           /\ conns' = 1 /\ cl' = [cl EXCEPT !.init = FALSE, !.ws = TRUE]
    <3>1. /\ NewSocket(FALSE, sk) \in Sockets /\ NewSocket(FALSE, sk).id = sk.id
          /\ NewSocket(FALSE, sk).st = "connecting" /\ ~NewSocket(FALSE, sk).timer
      BY ClientFacts, SocketShapes
    <3>2. \/ sk' = sk /\ conns' = conns /\ cl' = [cl EXCEPT !.init = FALSE]
          \/ sk' = NewSocket(FALSE, sk) /\ conns' = 1 /\ cl' = [cl EXCEPT !.init = FALSE, !.ws = TRUE]
      BY <1>2 DEF init
    <3> QED BY <3>1, <3>2, Zenon
  <2>3. cl' \in Client
    BY <2>2, ClientFacts DEF Client
  <2>4. ClientTyped'
    <3>1. CASE sk' = sk /\ conns' = conns /\ cl' = [cl EXCEPT !.init = FALSE]
      <4>1. cl'.ws = cl.ws
        BY <3>1, ClientFacts DEF Client
      <4> QED BY <2>3, <3>1, <4>1, ClientFacts DEF ClientTyped
    <3>2. CASE sk' \in Sockets /\ sk'.id = sk.id /\ sk'.st = "connecting" /\ ~sk'.timer /\ conns' = 1
      <4>2. conns' \in Ids /\ conns' > 0 /\ sk.id = 0
        BY <2>1, <3>2, ClientFacts DEF Ids
      <4> QED BY <2>3, <3>2, <4>2 DEF ClientTyped
    <3> QED BY <2>2, <3>1, <3>2
  <2>5. NetTyped'
    BY <2>1 DEF SocketInv, NetTyped
  <2>6. ClientMoves
    <3>1. conns' >= conns /\ (sk' = sk \/ conns' > conns)
      BY <2>1, <2>2
    <3> QED BY <2>1, <3>1 DEF ClientMoves
  <2> QED BY <2>1, <2>4, <2>5, <2>6, ClientMovesKept
<1>3. CASE Hello
  BY <1>3, HelloKept
<1>4. CASE Joined
  <2>1. /\ sk' = sk /\ conns' = conns /\ id' = id /\ up' = up /\ us' = us /\ reg' = reg /\ row' = row
        /\ rtcd' = rtcd /\ tasks' = tasks /\ down # <<>> /\ down' = Tail(down) /\ rtc' \in {rtc, "up"}
        /\ cl' \in {cl, [cl EXCEPT !.peer = TRUE]}
    BY <1>4 DEF Joined
  <2>2. cl' \in Client /\ cl'.ws = cl.ws
    BY <2>1, ClientFacts DEF Client
  <2>3. ClientTyped' /\ NetTyped'
    BY <2>1, <2>2, ClientFacts, TailMessages DEF ClientTyped, NetTyped
  <2>4. ServerTyped' /\ Fresh' /\ Named' /\ Held' /\ Placed'
    BY <2>1 DEF SocketInv, ServerTyped, Fresh, Unheard, Named, Held, Placed
  <2> QED BY <2>3, <2>4 DEF SocketInv
<1>5. CASE JoinError
  <2>1. down' = <<>> /\ <<>> \in Seq(Messages) /\ UNCHANGED <<conns, id, server>>
    BY <1>5, TailMessages DEF JoinError
  <2>2. CASE cl.closed
    <3>1. cl' = cl /\ sk' = sk /\ up' = up
      BY <1>5, <2>2 DEF JoinError
    <3>2. ClientTyped' /\ NetTyped'
      BY <2>1, <3>1, ClientFacts DEF ClientTyped, NetTyped
    <3>3. ClientMoves
      BY <2>1, <3>1, ClientFacts DEF ClientMoves
    <3> QED BY <2>1, <3>1, <3>2, <3>3, ClientMovesKept
  <2>3. CASE ~cl.closed
    BY <1>5, <2>1, <2>3, DisconnectKept DEF JoinError
  <2> QED BY <2>2, <2>3
<1>6. CASE ConnectFails
  <2>1. /\ sk.st = "connecting" /\ closeHandler /\ down' = <<>> /\ conns' = conns /\ id' = id /\ up' = up
        /\ UNCHANGED server
    BY <1>6 DEF ConnectFails
  <2>2. ClientTyped' /\ sk'.st = "closed"
    BY <2>1, CloseTyped
  <2>3. NetTyped'
    BY <2>1, ClientFacts DEF NetTyped
  <2>4. ClientMoves
    BY <2>1, <2>2, ClientFacts DEF ClientMoves
  <2> QED BY <2>1, <2>2, <2>3, <2>4, ClientMovesKept
<1>7. CASE (\E k \in BOOLEAN : Drop(k)) \/ PingTimeout
  <2>1. PICK k \in BOOLEAN : sk.st = "open" /\ Lose(k)
    BY <1>7 DEF Drop, PingTimeout
  <2> QED BY <2>1, LoseKept
<1>8. CASE RetryTimer
  <2>1. /\ sk.timer /\ UNCHANGED <<cl, id, up, down, server>>
        /\ \/ sk' = [sk EXCEPT !.timer = FALSE] /\ conns' = conns
           \/ /\ sk' \in Sockets /\ sk'.id = sk.id /\ sk'.st = "connecting" /\ ~sk'.timer
              /\ conns' = conns + 1
    <3>1. /\ NewSocket(TRUE, sk) \in Sockets /\ NewSocket(TRUE, sk).id = sk.id
          /\ NewSocket(TRUE, sk).st = "connecting" /\ ~NewSocket(TRUE, sk).timer
      BY ClientFacts, SocketShapes
    <3>2. /\ sk.timer /\ UNCHANGED <<cl, id, up, down, server>>
          /\ \/ sk' = [sk EXCEPT !.timer = FALSE] /\ conns' = conns
             \/ sk' = NewSocket(TRUE, sk) /\ conns' = conns + 1
      BY <1>8 DEF RetryTimer
    <3> QED BY <3>1, <3>2, Zenon
  <2>2. ClientTyped' /\ (sk'.st = "connecting" => conns' > conns \/ sk.st = "connecting") /\ conns' >= conns
    <3>1. CASE sk' = [sk EXCEPT !.timer = FALSE] /\ conns' = conns
      <4>1. sk' \in Sockets /\ sk'.id = sk.id /\ sk'.st = sk.st /\ ~sk'.timer
        BY <3>1, ClientFacts DEF Sockets
      <4> QED BY <2>1, <3>1, <4>1, ClientFacts DEF ClientTyped
    <3>2. CASE /\ sk' \in Sockets /\ sk'.id = sk.id /\ sk'.st = "connecting" /\ ~sk'.timer
               /\ conns' = conns + 1
      <4>2. conns \in Nat /\ conns < MaxConns /\ sk.id \in Nat /\ sk.id <= conns /\ cl' = cl /\ cl \in Client
        BY <2>1, ClientFacts
      <4>3. conns' \in Ids /\ conns' > 0 /\ conns' > conns
        BY <3>2, <4>2 DEF Ids
      <4>4. sk'.id <= conns'
        BY <3>2, <4>2
      <4> QED BY <3>2, <4>2, <4>3, <4>4 DEF ClientTyped
    <3> QED BY <2>1, <3>1, <3>2
  <2>3. NetTyped'
    BY <2>1 DEF SocketInv, NetTyped
  <2>4. ClientMoves
    BY <2>1, <2>2 DEF ClientMoves
  <2> QED BY <2>1, <2>2, <2>3, <2>4, ClientMovesKept
<1> QED BY <1>1, <1>2, <1>3, <1>4, <1>5, <1>6, <1>7, <1>8, OpenKept DEF ClientStep

-----------------------------------------------------------------------------
(* Steps of the server *)

\* What such a step leaves alone.
ServerMoves ==
    /\ UNCHANGED <<cl, sk, conns, id, rtcd>>
    /\ \A n \in Conns : up[n] = <<>> => up'[n] = <<>>

\* It leaves object n what it is and where it is.
Same(n) ==
    /\ us'[n].at = us[n].at /\ us'[n].conn = us[n].conn /\ us'[n].rtc = us[n].rtc
    /\ us[n].reconnected => us'[n].reconnected

LEMMA ServerFacts ==
    ASSUME SocketInv
    PROVE  /\ us \in [Conns -> Objects] /\ reg \in [Ids -> Ids] /\ tasks \subseteq Routines
           /\ row \in BOOLEAN /\ rtc \in {"none", "up", "closed"} /\ rtcd \in BOOLEAN
           /\ \A c \in Ids : c # 0 => c \in Conns
           /\ \A n \in Conns : n \in Ids /\ n # 0
           /\ \A n \in Conns : us[n] \in Objects /\ us[n].conn \in Ids /\ id[n] \in Ids
           /\ \A t \in tasks : t.n \in Conns /\ t.orig \in Ids /\ t.prev \in Ids
<1>1. /\ us \in [Conns -> Objects] /\ reg \in [Ids -> Ids] /\ tasks \subseteq Routines
      /\ row \in BOOLEAN /\ rtc \in {"none", "up", "closed"} /\ rtcd \in BOOLEAN
  BY DEF SocketInv, ServerTyped
<1>2. /\ \A c \in Ids : c # 0 => c \in Conns
      /\ \A n \in Conns : n \in Ids /\ n # 0
  BY DEF Ids, Conns
<1>3. \A n \in Conns : us[n] \in Objects /\ us[n].conn \in Ids /\ id[n] \in Ids
  BY <1>1, ClientFacts DEF Objects
<1>4. \A t \in tasks : t.n \in Conns /\ t.orig \in Ids /\ t.prev \in Ids
  BY <1>1 DEF Routines
<1> QED BY <1>1, <1>2, <1>3, <1>4

\* A step that begins with something the server has heard, and registers no
\* object.
LEMMA MarkKept ==
    ASSUME SocketInv, ServerMoves, ServerTyped', NetTyped',
           reg' = reg,
           \A n \in Conns : Same(n),
           \A t \in tasks' : \A n \in Conns : t.n = n => ~Unheard(n)
    PROVE  SocketInv'
<1>1. ClientTyped'
  BY DEF SocketInv, ServerMoves, ClientTyped
<1>2. \A n \in Conns : Unheard(n)' <=> Unheard(n)
  BY DEF ServerMoves, Unheard
<1>3. Fresh'
  BY <1>2 DEF SocketInv, Fresh, ServerMoves, Same
<1>4. Named' /\ Placed'
  BY DEF SocketInv, Named, Placed, ServerMoves, Same
<1>5. Held'
  <2>1. \A c \in Ids : reg[c] # 0 => reg[c] \in Conns
    BY ServerFacts
  <2> QED BY <2>1 DEF SocketInv, Held, Tracked, Same
<1> QED BY <1>1, <1>3, <1>4, <1>5 DEF SocketInv

\* An object that learns something stays what and where it is.
LEMMA Learns ==
    ASSUME SocketInv, NEW u \in Ids,
           us' \in {us, [us EXCEPT ![u].left = TRUE], [us EXCEPT ![u].closed = TRUE]}
    PROVE  us' \in [Conns -> Objects] /\ \A n \in Conns : Same(n)
<1>1. ASSUME NEW o \in Objects
      PROVE  /\ [o EXCEPT !.left = TRUE] \in Objects /\ [o EXCEPT !.closed = TRUE] \in Objects
             /\ [o EXCEPT !.left = TRUE].at = o.at /\ [o EXCEPT !.closed = TRUE].at = o.at
             /\ [o EXCEPT !.left = TRUE].conn = o.conn /\ [o EXCEPT !.closed = TRUE].conn = o.conn
             /\ [o EXCEPT !.left = TRUE].rtc = o.rtc /\ [o EXCEPT !.closed = TRUE].rtc = o.rtc
             /\ [o EXCEPT !.left = TRUE].reconnected = o.reconnected
             /\ [o EXCEPT !.closed = TRUE].reconnected = o.reconnected
  BY DEF Objects
<1>2. us' \in {us, [us EXCEPT ![u] = [us[u] EXCEPT !.left = TRUE]], [us EXCEPT ![u] = [us[u] EXCEPT !.closed = TRUE]]}
  OBVIOUS
<1>3. \A n \in Conns : us'[n] \in {us[n], [us[n] EXCEPT !.left = TRUE], [us[n] EXCEPT !.closed = TRUE]}
  BY <1>2, ServerFacts
<1>4. us' \in [Conns -> Objects]
  <2>1. us' = [n \in Conns |-> us'[n]]
    BY <1>2, ServerFacts
  <2>2. ASSUME NEW n \in Conns PROVE us'[n] \in Objects
    <3>1. us[n] \in Objects
      BY ServerFacts
    <3> QED BY <1>1, <1>3, <3>1
  <2> QED BY <2>1, <2>2
<1>5. ASSUME NEW n \in Conns PROVE Same(n)
  <2>1. us[n] \in Objects
    BY ServerFacts
  <2> QED BY <1>1, <1>3, <2>1 DEF Same
<1> QED BY <1>4, <1>5

LEMMA ReceiveKept ==
    ASSUME SocketInv, NEW n \in Conns, Receive(n)
    PROVE  SocketInv'
<1> DEFINE m == Head(up[n])
           u == reg[id[n]]
<1>1. /\ up[n] # <<>> /\ up' = [up EXCEPT ![n] = Tail(up[n])]
      /\ UNCHANGED <<cl, sk, conns, id, down, reg, row, rtc, rtcd>>
  BY DEF Receive
<1>2. up[n] \in Seq(Messages) /\ u \in Ids
  BY ClientFacts, ServerFacts
<1>3. m \in Messages /\ Tail(up[n]) \in Seq(Messages)
  BY <1>1, <1>2, HeadTailProperties
<1>4. NetTyped' /\ ServerMoves
  <2>1. up' \in [Conns -> Seq(Messages)]
    BY <1>1, <1>3, ClientFacts
  <2>2. \A k \in Conns : up[k] = <<>> => up'[k] = <<>>
    BY <1>1, ClientFacts
  <2> QED BY <1>1, <2>1, <2>2, ClientFacts DEF NetTyped, ServerMoves
<1>5. /\ us' \in {us, [us EXCEPT ![u].left = TRUE], [us EXCEPT ![u].closed = TRUE]}
      /\ tasks' \in {tasks, tasks \cup {Task("join", n, m)}, tasks \cup {Task("reconnect", n, m)},
                    tasks \cup {Task("look", n, Msg("look"))}}
  BY DEF Receive, Leave, OnWebSocketDisconnect, Spawn
<1>6. tasks' \subseteq Routines /\ \A t \in tasks' : t \in tasks \/ t.n = n
  <2> HIDE DEF m
  <2>1. m.orig \in Ids /\ m.prev \in Ids /\ 0 \in Ids
    BY <1>3 DEF Messages, Ids
  <2>2. /\ Task("join", n, m) \in Routines /\ Task("join", n, m).n = n
        /\ Task("reconnect", n, m) \in Routines /\ Task("reconnect", n, m).n = n
    BY <2>1 DEF Task, Routines
  <2>3. Task("look", n, Msg("look")) \in Routines /\ Task("look", n, Msg("look")).n = n
    BY <2>1 DEF Task, Msg, Routines
  <2> QED BY <1>5, <2>2, <2>3, ServerFacts
<1> HIDE DEF m, u
<1>7. us' \in [Conns -> Objects] /\ \A k \in Conns : Same(k)
  BY <1>2, <1>5, Learns
<1>8. ServerTyped'
  BY <1>1, <1>6, <1>7, ServerFacts DEF ServerTyped
<1>9. \A t \in tasks' : \A k \in Conns : t.n = k => ~Unheard(k)
  <2>1. ~Unheard(n)
    BY <1>1 DEF SocketInv, Fresh
  <2>2. \A t \in tasks : \A k \in Conns : t.n = k => ~Unheard(k)
    BY DEF SocketInv, Fresh
  <2> QED BY <1>6, <2>1, <2>2
<1> QED BY <1>1, <1>4, <1>7, <1>8, <1>9, MarkKept

\* An object is made for socket k, under the id of the socket; another one may
\* learn of it, and one entry of p.sessions may go.
LEMMA RegisterKept ==
    ASSUME SocketInv, ServerMoves, ServerTyped', NetTyped',
           NEW k \in Conns, ~Unheard(k), NEW c \in Ids, tasks' \subseteq tasks,
           us'[k].at \in {"run", "stuck"}, us'[k].conn = id[k],
           (us'[k].at = "stuck" => rtcd), (us'[k].rtc => ~rtcd),
           \A n \in Conns \ {k} : Same(n),
           reg' \in {[reg EXCEPT ![id[k]] = k], [reg EXCEPT ![c] = 0, ![id[k]] = k]}
    PROVE  SocketInv'
<1>1. ClientTyped' /\ id' = id
  BY DEF SocketInv, ServerMoves, ClientTyped
<1>2. \A n \in Conns : Unheard(n)' <=> Unheard(n)
  BY DEF ServerMoves, Unheard
<1>3. Fresh'
  BY <1>2 DEF SocketInv, Fresh, ServerMoves, Same
<1>4. Named' /\ Placed'
  BY <1>1 DEF SocketInv, Named, Placed, ServerMoves, Same
<1>5. \A d \in Ids : reg'[d] \in {0, reg[d]} \/ (d = id[k] /\ reg'[d] = k)
  BY ServerFacts
<1>6. Held'
  <2> SUFFICES ASSUME NEW d \in Ids, reg'[d] # 0 PROVE us'[reg'[d]].conn = d /\ Tracked(us'[reg'[d]])
    BY DEF Held
  <2>1. CASE d = id[k] /\ reg'[d] = k
    BY <2>1 DEF Tracked
  <2>2. CASE reg'[d] = reg[d]
    <3>1. us[reg[d]].conn = d /\ Tracked(us[reg[d]]) /\ reg[d] \in Conns
      BY <2>2, ServerFacts DEF SocketInv, Held
    <3>2. CASE reg[d] = k
      BY <2>2, <3>1, <3>2 DEF SocketInv, Named, Tracked
    <3>3. CASE reg[d] # k
      BY <2>2, <3>1, <3>3 DEF Same, Tracked
    <3> QED BY <3>2, <3>3
  <2> QED BY <1>5, <2>1, <2>2
<1> QED BY <1>1, <1>3, <1>4, <1>6 DEF SocketInv

\* Append to what waits for the current socket.
LEMMA ReplyTyped ==
    ASSUME SocketInv, NEW n, NEW t \in {"join", "error"}, Reply(n, t)
    PROVE  down' \in Seq(Messages)
<1>1. Msg(t) \in Messages
  BY DEF Msg, Messages, Ids
<1>2. Append(down, Msg(t)) \in Seq(Messages)
  BY <1>1, ClientFacts
<1> QED BY <1>2, ClientFacts DEF Reply

LEMMA JoinKept ==
    ASSUME SocketInv, NEW t \in tasks, handleJoin(t)
    PROVE  SocketInv'
<1> DEFINE New(q) == [NoUs EXCEPT !.at = "run", !.conn = id[t.n], !.orig = id[t.n],
                                  !.rtc = ~rtcd, !.quiet = q]
<1>1. /\ tasks' \subseteq tasks /\ UNCHANGED <<cl, sk, conns, id, up, rtc, rtcd>>
      /\ \/ /\ \E q \in BOOLEAN : us' = [us EXCEPT ![t.n] = New(q)]
            /\ reg' = [reg EXCEPT ![id[t.n]] = t.n] /\ row' = TRUE
            /\ down' = down \/ Reply(t.n, "join")
         \/ UNCHANGED <<us, reg, row>> /\ Reply(t.n, "error")
  BY DEF handleJoin, Run
<1>2. t.n \in Conns /\ id[t.n] \in Ids /\ ~Unheard(t.n)
  BY ServerFacts DEF SocketInv, Fresh
<1>3. ASSUME NEW q \in BOOLEAN
      PROVE  /\ New(q) \in Objects /\ New(q).at = "run" /\ New(q).conn = id[t.n]
             /\ New(q).rtc = ~rtcd
  BY <1>2 DEF NoUs, Objects
<1> HIDE DEF New
<1>4. NetTyped' /\ ServerMoves
  BY <1>1, ClientFacts, ReplyTyped DEF NetTyped, ServerMoves
<1>5. tasks' \subseteq Routines
  BY <1>1, ServerFacts
<1>6. ASSUME NEW q \in BOOLEAN, us' = [us EXCEPT ![t.n] = New(q)],
             reg' = [reg EXCEPT ![id[t.n]] = t.n], row' = TRUE
      PROVE  SocketInv'
  <2>1. ServerTyped'
    BY <1>1, <1>2, <1>3, <1>5, <1>6, ServerFacts DEF ServerTyped
  <2>2. us'[t.n] = New(q) /\ \A n \in Conns \ {t.n} : us'[n] = us[n]
    BY <1>2, <1>6, ServerFacts
  <2>3. us'[t.n].at = "run" /\ us'[t.n].conn = id[t.n] /\ us'[t.n].rtc = ~rtcd
    BY <1>3, <2>2, Zenon
  <2>4. us'[t.n].at \in {"run", "stuck"} /\ (us'[t.n].at = "stuck" => rtcd) /\ (us'[t.n].rtc => ~rtcd)
    BY <2>3
  <2>5. \A n \in Conns \ {t.n} : Same(n)
    BY <2>2 DEF Same
  <2>6. 0 \in Ids /\ reg' \in {[reg EXCEPT ![id[t.n]] = t.n], [reg EXCEPT ![0] = 0, ![id[t.n]] = t.n]}
    BY <1>6 DEF Ids
  <2> QED BY <1>1, <1>2, <1>4, <2>1, <2>3, <2>4, <2>5, <2>6, RegisterKept
<1>7. CASE UNCHANGED <<us, reg, row>>
  <2>1. ServerTyped'
    BY <1>1, <1>5, <1>7, ServerFacts DEF ServerTyped
  <2>2. \A o \in tasks' : \A n \in Conns : o.n = n => ~Unheard(n)
    BY <1>1 DEF SocketInv, Fresh
  <2>3. \A n \in Conns : Same(n)
    BY <1>7 DEF Same
  <2> QED BY <1>4, <1>7, <2>1, <2>2, <2>3, MarkKept
<1> QED BY <1>1, <1>6, <1>7

LEMMA ReconnectKept ==
    ASSUME SocketInv, NEW t \in tasks, handleReconnect(t)
    PROVE  SocketInv'
<1> DEFINE c == id[t.n]
           u == IF reg[c] # 0 THEN reg[c] ELSE reg[t.prev]
           marked == IF u = 0 THEN us ELSE [us EXCEPT ![u].reconnected = TRUE]
           New(a) == [NoUs EXCEPT !.at = a, !.conn = c, !.orig = t.orig, !.rtc = u # 0 /\ us[u].rtc]
<1>1. /\ tasks' \subseteq tasks /\ UNCHANGED <<cl, sk, conns, id, up, down, row, rtc, rtcd>>
      /\ \/ UNCHANGED <<us, reg>>
         \/ /\ us' = [marked EXCEPT ![t.n] = New("run")] \/ (us' = [marked EXCEPT ![t.n] = New("stuck")] /\ rtcd)
            /\ reg' = [reg EXCEPT ![t.orig] = 0, ![c] = t.n]
  BY DEF handleReconnect, Run
<1>2. t.n \in Conns /\ c \in Ids /\ t.orig \in Ids /\ u \in Ids /\ ~Unheard(t.n)
  BY ServerFacts DEF SocketInv, Fresh
<1>3. ASSUME NEW a \in {"run", "stuck"}
      PROVE  New(a) \in Objects /\ New(a).at = a /\ New(a).conn = c /\ (New(a).rtc => ~rtcd)
  <2> DEFINE b == u # 0 /\ us[u].rtc
  <2>1. b => ~rtcd
    BY <1>2, ServerFacts DEF SocketInv, Placed
  <2>2. b \in BOOLEAN
    OBVIOUS
  <2>3. New(a) = [NoUs EXCEPT !.at = a, !.conn = c, !.orig = t.orig, !.rtc = b]
    OBVIOUS
  <2> HIDE DEF c, u, b, New
  <2>4. New(a) \in Objects /\ New(a).at = a /\ New(a).conn = c /\ New(a).rtc = b
    BY <1>2, <2>2, <2>3 DEF NoUs, Objects
  <2> QED BY <2>1, <2>4
<1>4. /\ marked \in [Conns -> Objects]
      /\ \A n \in Conns : /\ marked[n].at = us[n].at /\ marked[n].conn = us[n].conn
                          /\ marked[n].rtc = us[n].rtc /\ (us[n].reconnected => marked[n].reconnected)
  <2> HIDE DEF u
  <2>1. ASSUME NEW o \in Objects
        PROVE  /\ [o EXCEPT !.reconnected = TRUE] \in Objects /\ [o EXCEPT !.reconnected = TRUE].at = o.at
               /\ [o EXCEPT !.reconnected = TRUE].conn = o.conn
               /\ [o EXCEPT !.reconnected = TRUE].rtc = o.rtc /\ [o EXCEPT !.reconnected = TRUE].reconnected
    BY DEF Objects
  <2>2. marked \in {us, [us EXCEPT ![u] = [us[u] EXCEPT !.reconnected = TRUE]]}
    OBVIOUS
  <2> HIDE DEF marked
  <2>3. \A n \in Conns : marked[n] \in {us[n], [us[n] EXCEPT !.reconnected = TRUE]}
    BY <2>2, ServerFacts
  <2>4. marked = [n \in Conns |-> marked[n]]
    BY <2>2, ServerFacts
  <2>5. ASSUME NEW n \in Conns
        PROVE  /\ marked[n] \in Objects /\ marked[n].at = us[n].at /\ marked[n].conn = us[n].conn
               /\ marked[n].rtc = us[n].rtc /\ (us[n].reconnected => marked[n].reconnected)
    <3>1. us[n] \in Objects
      BY ServerFacts
    <3> QED BY <2>1, <2>3, <3>1
  <2> QED BY <2>4, <2>5
<1> HIDE DEF New, marked, u
<1>5. NetTyped' /\ ServerMoves
  BY <1>1, ClientFacts DEF NetTyped, ServerMoves
<1>6. tasks' \subseteq Routines
  BY <1>1, ServerFacts
<1>7. ASSUME NEW a \in {"run", "stuck"}, a = "stuck" => rtcd, us' = [marked EXCEPT ![t.n] = New(a)],
             reg' = [reg EXCEPT ![t.orig] = 0, ![c] = t.n]
      PROVE  SocketInv'
  <2>1. us' \in [Conns -> Objects] /\ reg' \in [Ids -> Ids]
    <3>1. 0 \in Ids /\ t.n \in Ids
      BY <1>2, ServerFacts DEF Ids
    <3> QED BY <1>2, <1>3, <1>4, <1>7, <3>1, ServerFacts
  <2>2. ServerTyped'
    BY <1>1, <1>6, <2>1, ServerFacts DEF ServerTyped
  <2>3. us'[t.n] = New(a) /\ \A n \in Conns \ {t.n} : us'[n] = marked[n]
    BY <1>2, <1>4, <1>7
  <2>4. /\ us'[t.n].at \in {"run", "stuck"} /\ us'[t.n].conn = id[t.n]
        /\ (us'[t.n].at = "stuck" => rtcd) /\ (us'[t.n].rtc => ~rtcd)
    BY <1>3, <1>7, <2>3
  <2>5. \A n \in Conns \ {t.n} : Same(n)
    BY <1>4, <2>3 DEF Same
  <2>6. reg' \in {[reg EXCEPT ![id[t.n]] = t.n], [reg EXCEPT ![t.orig] = 0, ![id[t.n]] = t.n]}
    BY <1>7
  <2> QED BY <1>1, <1>2, <1>5, <2>2, <2>4, <2>5, <2>6, RegisterKept
<1>8. CASE UNCHANGED <<us, reg>>
  <2>1. ServerTyped'
    BY <1>1, <1>6, <1>8, ServerFacts DEF ServerTyped
  <2>2. \A o \in tasks' : \A n \in Conns : o.n = n => ~Unheard(n)
    BY <1>1 DEF SocketInv, Fresh
  <2>3. \A n \in Conns : Same(n)
    BY <1>8 DEF Same
  <2> QED BY <1>5, <1>8, <2>1, <2>2, <2>3, MarkKept
<1> QED BY <1>1, <1>7, <1>8

\* Objects end: what p.sessions still has of them is what Tracked allows.
LEMMA EndKept ==
    ASSUME SocketInv, UNCHANGED <<cl, sk, conns, id, up, down, tasks, rtcd>>,
           NEW S \in SUBSET Conns, \A n \in S : us[n].at # "none",
           \A n \in Conns \ S : us'[n] = us[n],
           us' \in [Conns -> Objects], reg' \in [Ids -> Ids],
           \A n \in S : us'[n].conn = us[n].conn /\ us'[n].rtc = us[n].rtc /\ us'[n].at \in {"done", "gone", "lost"},
           \A c \in Ids : reg'[c] # 0 => reg'[c] = reg[c] /\ (reg[c] \in S => Tracked(us'[reg[c]])),
           row' \in BOOLEAN, rtc' \in {"none", "up", "closed"}
    PROVE  SocketInv'
<1>1. ClientTyped' /\ NetTyped'
  BY DEF SocketInv, ClientTyped, NetTyped
<1>2. ServerTyped'
  BY ServerFacts DEF ServerTyped
<1>3. Fresh'
  <2>1. \A k \in Conns : Unheard(k)' <=> Unheard(k)
    BY DEF Unheard
  <2> QED BY <2>1 DEF SocketInv, Fresh
<1>4. Named' /\ Placed'
  BY DEF SocketInv, Named, Placed
<1>5. Held'
  <2> SUFFICES ASSUME NEW d \in Ids, reg'[d] # 0 PROVE us'[reg'[d]].conn = d /\ Tracked(us'[reg'[d]])
    BY DEF Held
  <2>1. reg'[d] = reg[d] /\ reg[d] \in Conns /\ us[reg[d]].conn = d /\ Tracked(us[reg[d]])
    BY ServerFacts DEF SocketInv, Held
  <2> QED BY <2>1
<1> QED BY <1>1, <1>2, <1>3, <1>4, <1>5 DEF SocketInv

LEMMA RemoveKept ==
    ASSUME SocketInv, UNCHANGED <<cl, sk, conns, id, up, down, tasks, rtcd>>,
           NEW S \in SUBSET Conns, \A n \in S : us[n].at # "none", NEW k, removeSession(S, k),
           rtc' \in {"none", "up", "closed"}
    PROVE  SocketInv'
<1>1. PICK out \in [S -> {"ok", "unlocked", "undeleted"}] :
        /\ us' = [n \in Conns |-> IF n \notin S THEN us[n]
                                  ELSE [us[n] EXCEPT !.at = IF out[n] = "ok" THEN "gone" ELSE "lost"]]
        /\ reg' = [c \in 0 .. MaxConns |->
                      IF \E n \in S : us[n].conn = c /\ out[n] # "unlocked" THEN 0 ELSE reg[c]]
        /\ row' = (row /\ \A n \in S : out[n] # "ok")
  BY DEF removeSession
<1>2. ASSUME NEW o \in Objects, NEW a \in {"gone", "lost"}
      PROVE  /\ [o EXCEPT !.at = a] \in Objects /\ [o EXCEPT !.at = a].conn = o.conn
             /\ [o EXCEPT !.at = a].rtc = o.rtc /\ [o EXCEPT !.at = a].at = a
  BY DEF Objects
<1>3. ASSUME NEW n \in S
      PROVE  \E a \in {"gone", "lost"} : us'[n] = [us[n] EXCEPT !.at = a] /\ (out[n] # "ok" => a = "lost")
  BY <1>1
<1>4. ASSUME NEW n \in S
      PROVE  /\ us'[n] \in Objects /\ us'[n].conn = us[n].conn /\ us'[n].rtc = us[n].rtc
             /\ us'[n].at \in {"gone", "lost"} /\ (out[n] # "ok" => us'[n].at = "lost")
  <2>1. us[n] \in Objects
    BY ServerFacts
  <2>2. PICK a \in {"gone", "lost"} : us'[n] = [us[n] EXCEPT !.at = a] /\ (out[n] # "ok" => a = "lost")
    BY <1>3
  <2>3. /\ [us[n] EXCEPT !.at = a] \in Objects /\ [us[n] EXCEPT !.at = a].conn = us[n].conn
        /\ [us[n] EXCEPT !.at = a].rtc = us[n].rtc /\ [us[n] EXCEPT !.at = a].at = a
    BY <1>2, <2>1, Zenon
  <2> QED BY <2>2, <2>3
<1>5. \A n \in Conns \ S : us'[n] = us[n]
  BY <1>1
<1>6. us' \in [Conns -> Objects]
  <2>1. us' = [n \in Conns |-> us'[n]]
    BY <1>1
  <2>2. \A n \in Conns : us'[n] \in Objects
    BY <1>4, <1>5, ServerFacts
  <2> QED BY <2>1, <2>2
<1>7. reg' \in [Ids -> Ids]
  <2>1. 0 \in Ids
    BY DEF Ids
  <2> QED BY <1>1, <2>1, ServerFacts DEF Ids
<1>8. ASSUME NEW c \in Ids, reg'[c] # 0
      PROVE  reg'[c] = reg[c] /\ (reg[c] \in S => Tracked(us'[reg[c]]))
  <2>1. reg'[c] = reg[c] /\ ~\E n \in S : us[n].conn = c /\ out[n] # "unlocked"
    BY <1>1, <1>8 DEF Ids
  <2>2. us[reg[c]].conn = c
    BY <1>8, <2>1 DEF SocketInv, Held
  <2>3. ASSUME reg[c] \in S PROVE Tracked(us'[reg[c]])
    <3>1. out[reg[c]] = "unlocked"
      BY <2>1, <2>2, <2>3
    <3> QED BY <1>4, <2>3, <3>1 DEF Tracked
  <2> QED BY <2>1, <2>3
<1>9. row' \in BOOLEAN
  BY <1>1
<1>10. \A n \in S : us'[n].conn = us[n].conn /\ us'[n].rtc = us[n].rtc /\ us'[n].at \in {"done", "gone", "lost"}
  BY <1>4
<1> QED BY <1>5, <1>6, <1>7, <1>8, <1>9, <1>10, EndKept

LEMMA LeaveKept ==
    ASSUME SocketInv, NEW n \in Conns, handleLeave(n)
    PROVE  SocketInv'
<1>1. us[n].at = "run" /\ UNCHANGED <<cl, sk, conns, id, up, down, tasks, rtcd>>
  BY DEF handleLeave
<1>2. CASE closeRTCSession(n)
  <2>1. rtc' \in {"none", "up", "closed"}
    BY <1>2, ServerFacts DEF closeRTCSession
  <2>2. PICK S \in {{n}, {n} \cup CalledBack} : \E k \in {0, 1} : removeSession(S, k)
    BY <1>2 DEF closeRTCSession
  <2>3. S \in SUBSET Conns /\ \A j \in S : us[j].at # "none"
    BY <1>1, <2>2 DEF CalledBack, Joiner, Conns
  <2> QED BY <1>1, <2>1, <2>2, <2>3, RemoveKept
<1>3. CASE /\ us[n].reconnected
           /\ us' = [us EXCEPT ![n].at = "done"]
           /\ reg' = (IF reg[us[n].conn] = n /\ ~us[n].rtc THEN [reg EXCEPT ![us[n].conn] = 0] ELSE reg)
           /\ UNCHANGED <<row, rtc, faults>>
  <2>1. us[n] \in Objects /\ us[n].conn \in Ids /\ 0 \in Ids
    BY ServerFacts DEF Ids
  <2>2. /\ [us[n] EXCEPT !.at = "done"] \in Objects /\ [us[n] EXCEPT !.at = "done"].at = "done"
        /\ [us[n] EXCEPT !.at = "done"].conn = us[n].conn /\ [us[n] EXCEPT !.at = "done"].rtc = us[n].rtc
        /\ [us[n] EXCEPT !.at = "done"].reconnected
    BY <1>3, <2>1 DEF Objects
  <2>3. us' = [us EXCEPT ![n] = [us[n] EXCEPT !.at = "done"]]
    BY <1>3
  <2>4. /\ us' \in [Conns -> Objects] /\ us'[n] = [us[n] EXCEPT !.at = "done"]
        /\ \A k \in Conns \ {n} : us'[k] = us[k]
    BY <2>2, <2>3, ServerFacts
  <2>5. reg' \in [Ids -> Ids]
    BY <1>3, <2>1, ServerFacts
  <2>6. ASSUME NEW c \in Ids, reg'[c] # 0
        PROVE  reg'[c] = reg[c] /\ (reg[c] \in {n} => Tracked(us'[reg[c]]))
    <3>1. reg'[c] = reg[c]
      BY <1>3, <2>1, <2>6, ServerFacts
    <3>2. ASSUME reg[c] = n PROVE us[n].rtc
      <4>1. us[n].conn = c
        BY <2>6, <3>1, <3>2 DEF SocketInv, Held
      <4> QED BY <1>3, <2>1, <2>6, <3>1, <3>2, <4>1, ServerFacts
    <3>3. us[n].rtc => Tracked(us'[n])
      BY <2>2, <2>4 DEF Tracked
    <3> QED BY <3>1, <3>2, <3>3
  <2>7. \A j \in {n} : /\ us'[j].conn = us[j].conn /\ us'[j].rtc = us[j].rtc
                       /\ us'[j].at \in {"done", "gone", "lost"} /\ us[j].at # "none"
    BY <1>1, <2>2, <2>4
  <2>8. row' \in BOOLEAN /\ rtc' \in {"none", "up", "closed"} /\ {n} \in SUBSET Conns
    BY <1>3, ServerFacts
  <2> QED BY <1>1, <2>4, <2>5, <2>6, <2>7, <2>8, EndKept
<1> QED BY <1>2, <1>3 DEF handleLeave

LEMMA RTCClosedKept ==
    ASSUME SocketInv, NEW n \in Conns, RTCClosed(n)
    PROVE  SocketInv'
<1>1. /\ UNCHANGED <<cl, sk, conns, id, up, down, tasks, rtcd>> /\ rtc' = "closed"
      /\ removeSession({n}, 0) /\ us[n].at # "none" /\ {n} \in SUBSET Conns
  BY DEF RTCClosed
<1> QED BY <1>1, RemoveKept

LEMMA ServerStepKept ==
    ASSUME SocketInv, ServerStep
    PROVE  SocketInv'
<1>1. ASSUME NEW n \in Conns, handleLeave(n) \/ RTCClosed(n) PROVE SocketInv'
  BY <1>1, LeaveKept, RTCClosedKept
<1>2. ASSUME NEW t \in tasks, ReconnectCheck(t) PROVE SocketInv'
  <2>1. /\ UNCHANGED <<cl, sk, conns, id, up, down, us, reg, row, rtc, rtcd>>
        /\ tasks' \subseteq tasks \cup {[t EXCEPT !.t = "register"]}
    BY <1>2 DEF ReconnectCheck
  <2>2. [t EXCEPT !.t = "register"] \in Routines /\ [t EXCEPT !.t = "register"].n = t.n
    <3>1. t \in Routines
      BY ServerFacts
    <3> QED BY <3>1 DEF Routines
  <2>3. tasks' \subseteq Routines /\ \A o \in tasks' : o \in tasks \/ o.n = t.n
    BY <2>1, <2>2, ServerFacts
  <2>4. ServerTyped' /\ NetTyped' /\ ServerMoves
    BY <2>1, <2>3, ServerFacts, ClientFacts DEF ServerTyped, NetTyped, ServerMoves
  <2>5. \A o \in tasks' : \A n \in Conns : o.n = n => ~Unheard(n)
    BY <2>3 DEF SocketInv, Fresh
  <2>6. \A n \in Conns : Same(n)
    BY <2>1 DEF Same
  <2> QED BY <2>1, <2>4, <2>5, <2>6, MarkKept
<1>3. ASSUME NEW t \in tasks, SecondLook(t) PROVE SocketInv'
  <2> DEFINE u == reg[id[t.n]]
  <2>1. /\ UNCHANGED <<cl, sk, conns, id, up, down, reg, row, rtc, rtcd>> /\ tasks' \subseteq tasks
        /\ us' \in {us, [us EXCEPT ![u].left = TRUE], [us EXCEPT ![u].closed = TRUE]}
    BY <1>3 DEF SecondLook, Run
  <2>2. u \in Ids
    BY ServerFacts
  <2> HIDE DEF u
  <2>3. us' \in [Conns -> Objects] /\ \A k \in Conns : Same(k)
    BY <2>1, <2>2, Learns
  <2>4. ServerTyped' /\ NetTyped' /\ ServerMoves
    BY <2>1, <2>3, ServerFacts, ClientFacts DEF ServerTyped, NetTyped, ServerMoves
  <2>5. \A o \in tasks' : \A n \in Conns : o.n = n => ~Unheard(n)
    BY <2>1 DEF SocketInv, Fresh
  <2> QED BY <2>1, <2>3, <2>4, <2>5, MarkKept
<1> QED BY <1>1, <1>2, <1>3, ReceiveKept, JoinKept, ReconnectKept DEF ServerStep

-----------------------------------------------------------------------------
LEMMA SocketInvNext ==
    ASSUME SocketInv, [SocketNext]_socketVars
    PROVE  SocketInv'
<1>1. CASE UNCHANGED socketVars
  BY <1>1 DEF socketVars, SocketInv, ClientTyped, NetTyped, ServerTyped, Fresh, Unheard, Named, Held, Placed
<1> QED BY <1>1, ClientStepKept, ServerStepKept, RTCClosedKept DEF SocketNext

LEMMA SocketInvImplies ==
    ASSUME SocketInv
    PROVE  SocketTypeOK
<1>1. /\ cl \in Client /\ conns \in 0 .. MaxConns /\ row \in BOOLEAN /\ rtc \in {"none", "up", "closed"} /\ rtcd \in BOOLEAN
      /\ \A n \in Conns : id[n] \in 0 .. MaxConns /\ id[n] <= n
  BY ClientFacts, ServerFacts DEF Ids
<1>2. \A n \in Conns : id[n] \in 0 .. n
  BY <1>1 DEF Conns
<1>3. /\ sk.st \in States /\ {sk.id, sk.orig} \subseteq 0 .. MaxConns
      /\ {sk.closed, sk.rec, sk.since, sk.timer, sk.once} \subseteq BOOLEAN
  BY ClientFacts DEF Sockets, Ids
<1>4. /\ \A c \in 0 .. MaxConns : reg[c] # 0 => us[reg[c]].conn = c /\ Tracked(us[reg[c]])
      /\ \A n \in Conns : (us[n].at = "stuck" => rtcd) /\ (us[n].rtc => ~rtcd)
  BY DEF SocketInv, Held, Placed, Ids
<1> QED BY <1>1, <1>2, <1>3, <1>4 DEF SocketTypeOK, Client, States

\* p.sessions (handleJoin, handleReconnect, handleLeave, removeSession): whatever
\* sockets break, reconnections overlap, leaves come late and calls fail, a
\* session object is registered only under its own connection id.  One without a
\* goroutine is there only if its removal failed, if handleReconnect could not
\* tell rtcd of it, or if it was reconnected while this node handled its RTC;
\* and the ids, states and counters of the client stay in their ranges.
THEOREM SessionsWellFormed ==
    SocketSpec => []SocketTypeOK
<1>1. SocketInit => SocketInv
  BY SocketInvInit
<1>2. SocketInv /\ [SocketNext]_socketVars => SocketInv'
  BY SocketInvNext
<1>3. SocketInv => SocketTypeOK
  BY SocketInvImplies
<1> QED BY <1>1, <1>2, <1>3, PTL DEF SocketSpec
=============================================================================

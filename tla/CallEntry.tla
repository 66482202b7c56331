----------------------------- MODULE CallEntry -----------------------------
(***************************************************************************)
(* The ways into a call and out of it in one browser window                *)
(* (webapp/src/index.tsx and the components that ask it to join): the      *)
(* clients that connectCall makes, window.callsClient, the spinner         *)
(* clientConnecting, the messages that windows post to themselves and the  *)
(* modals.                                                                 *)
(*                                                                         *)
(* joinCall and connectCall are asynchronous: a connectCall that waits for *)
(* TURN credentials is a member of turns, and what a client does once it   *)
(* is made are actions of their own.                                       *)
(***************************************************************************)
EXTENDS Naturals, Sequences, FiniteSets

CONSTANTS
    Chans,       \* channels, numbers from 1
    DMs,         \* those that are direct messages
    MaxClients,  \* bound: clients made in the session
    MaxClicks    \* bound: what the user and the other users do

VARIABLES
    site,     \* what the server's configuration and the user's account fix
    chan,     \* the store: which channels have a call, and calls enabled
    win,      \* window.callsClient, clientConnecting and the modals; and what
              \* OneClient excepts
    cls,      \* every client made, in order
    turns,    \* the connectCalls that wait for credentials
    msgs,     \* messages connectCall on their way to the window
    clicks

entryVars == <<site, chan, win, cls, turns, msgs, clicks>>

-----------------------------------------------------------------------------
(* Store                                                                   *)

channelIDForCurrentCall == IF win.client = 0 THEN 0 ELSE cls[win.client].ch
channelHasCall(c) == c \in chan.calls
callsExplicitlyEnabled(c) == chan.enabled[c] = "on"
callsExplicitlyDisabled(c) == chan.enabled[c] = "off"
callsShowButton(c) == ~callsExplicitlyDisabled(c)
isLimitRestricted == site.full
callsAllowed(c) == site.groups \/ c \in DMs

Click == clicks < MaxClicks /\ clicks' = clicks + 1
Live(i) == cls[i].at \in {"init", "socket", "joined"}

-----------------------------------------------------------------------------
(* A client is made                                                        *)

\* new CallsClient, its widget and init.  What throws here is caught: the
\* window forgets its client, and the spinner stays as it is.  w is the window
\* before.
NewClient(c, w) ==
    \/ /\ Len(cls) < MaxClients
       /\ cls' = Append(cls, [ch |-> c, at |-> "init", closed |-> FALSE])
       /\ win' = [w EXCEPT !.client = Len(cls) + 1, !.connecting = TRUE, !.caught = FALSE]
    \/ /\ win' = [w EXCEPT !.client = 0, !.caught = TRUE]
       /\ UNCHANGED cls

\* A window that has a client already keeps it.
connectCall(c, w) ==
    IF win.client # 0 THEN UNCHANGED <<win, cls, turns>>
    ELSE IF site.turn THEN turns' = turns \cup {[ch |-> c, id |-> clicks]} /\ win' = w /\ UNCHANGED cls
    ELSE NewClient(c, w) /\ UNCHANGED turns

\* The credentials are there, or the request failed: the client is made
\* without another look at the window.
TurnAnswered(t) ==
    /\ turns' = turns \ {t}
    /\ NewClient(t.ch, [win EXCEPT !.race = @ \/ (win.client # 0 /\ win.unguarded),
                                   !.unguarded = @ /\ turns # {t}])
    /\ UNCHANGED <<site, chan, msgs, clicks>>

\* Mutant of connectToCall: the spinner does not stop it.
connectToCall_NoGuard(c) ==
    IF channelIDForCurrentCall = 0 THEN connectCall(c, [win EXCEPT !.connecting = TRUE])
    ELSE /\ win' = [win EXCEPT !.switch = IF channelIDForCurrentCall # c THEN c ELSE @]
         /\ UNCHANGED <<cls, turns>>

\* Not while connecting; not in a call: the spinner first, then connectCall;
\* in another call: the modal asks.
connectToCall(c) ==
    IF win.connecting THEN UNCHANGED <<win, cls, turns>>
    ELSE IF channelIDForCurrentCall = 0 THEN connectCall(c, [win EXCEPT !.connecting = TRUE])
    ELSE /\ win' = [win EXCEPT !.switch = IF channelIDForCurrentCall # c THEN c ELSE @]
         /\ UNCHANGED <<cls, turns>>

joinCall(c) ==
    IF channelHasCall(c) \/ callsExplicitlyEnabled(c) \/ (~callsExplicitlyDisabled(c) /\ site.live)
    THEN IF isLimitRestricted THEN UNCHANGED <<win, cls, turns>> ELSE connectToCall(c)
    ELSE IF ~callsExplicitlyDisabled(c) /\ site.admin THEN connectToCall(c)
    ELSE UNCHANGED <<win, cls, turns>>

-----------------------------------------------------------------------------
(* What asks for a call                                                    *)

\* The button in the header of the channel, disabled while connecting, and
\* the entry of the dropdown on a small screen.
ChannelHeaderButton(c) ==
    /\ Click
    /\ callsShowButton(c) /\ callsAllowed(c) /\ ~win.connecting
    /\ joinCall(c)
    /\ UNCHANGED <<site, chan, msgs>>

ChannelHeaderDropdownButton(c) ==
    /\ Click
    /\ callsShowButton(c) /\ callsAllowed(c)
    /\ joinCall(c)
    /\ UNCHANGED <<site, chan, msgs>>

\* onJoin of the toast, the post and a notification: in a call the modal asks,
\* otherwise the window posts a message to itself.
onJoin(c) ==
    IF channelIDForCurrentCall # 0
    THEN win' = [win EXCEPT !.switch = c] /\ UNCHANGED msgs
    ELSE msgs' = Append(msgs, c) /\ UNCHANGED win

ChannelCallToast(c) ==
    /\ Click
    /\ channelHasCall(c) /\ channelIDForCurrentCall # c /\ ~isLimitRestricted
    /\ onJoin(c)
    /\ UNCHANGED <<site, chan, cls, turns>>

\* The message of the call in the channel has a button to join, or to leave.
PostType(c) ==
    /\ Click
    /\ channelHasCall(c) /\ channelIDForCurrentCall # c /\ ~isLimitRestricted
    /\ onJoin(c)
    /\ UNCHANGED <<site, chan, cls, turns>>

\* A link with join_call=true, of another channel or of the one on screen.
JoinCallLink(c) ==
    /\ Click
    /\ joinCall(c)
    /\ UNCHANGED <<site, chan, msgs>>

\* windowEventHandler calls connectCall itself: nothing asks whether another
\* one waits for credentials.
MessageReceived ==
    /\ msgs # <<>> /\ msgs' = Tail(msgs)
    /\ connectCall(Head(msgs), [win EXCEPT !.unguarded = @ \/ site.turn])
    /\ UNCHANGED <<site, chan, clicks>>

-----------------------------------------------------------------------------
(* A client ends                                                           *)

\* disconnect of client i and the handler of its event close, which ends
\* whatever client the window has.  Closed twice is closed once.
Disconnect(i, err) ==
    IF cls[i].closed THEN UNCHANGED <<win, cls>>
    ELSE /\ cls' = [cls EXCEPT ![i].closed = TRUE, ![i].at = IF @ = "init" THEN "late" ELSE "gone"]
         /\ win' = [win EXCEPT !.connecting = FALSE, !.client = 0,
                               !.error = IF err /\ win.client # 0 THEN cls[win.client].ch ELSE @]

\* The buttons of the widget, the post and the pop-out, and /call leave.
Leave ==
    /\ Click
    /\ win.client # 0
    /\ Disconnect(win.client, FALSE)
    /\ UNCHANGED <<site, chan, turns, msgs>>

\* The modal's button: the current call ends and the window posts the target.
SwitchCallModal ==
    /\ win.switch # 0
    /\ msgs' = Append(msgs, win.switch)
    /\ IF win.client = 0 \/ cls[win.client].closed
       THEN win' = [win EXCEPT !.switch = 0] /\ UNCHANGED cls
       ELSE /\ cls' = [cls EXCEPT ![win.client].closed = TRUE,
                                  ![win.client].at = IF @ = "init" THEN "late" ELSE "gone"]
            /\ win' = [win EXCEPT !.switch = 0, !.connecting = FALSE, !.client = 0]
    /\ UNCHANGED <<site, chan, turns, clicks>>

HideSwitchCallModal ==
    /\ win.switch # 0
    /\ win' = [win EXCEPT !.switch = 0]
    /\ UNCHANGED <<site, chan, cls, turns, msgs, clicks>>

\* The error modal: join again, or close it.
CallErrorModal ==
    /\ win.error # 0
    /\ msgs' \in {msgs, Append(msgs, win.error)}
    /\ win' = [win EXCEPT !.error = 0]
    /\ UNCHANGED <<site, chan, cls, turns, clicks>>

-----------------------------------------------------------------------------
(* Slash commands                                                          *)

\* /call start and /call join
SlashJoin(c, start) ==
    /\ Click
    /\ callsAllowed(c) /\ ~(start /\ channelHasCall(c)) /\ channelIDForCurrentCall = 0
    /\ joinCall(c)
    /\ UNCHANGED <<site, chan, msgs>>

\* /call end, and End call for everyone of the menus to leave, by an
\* administrator or the host, who is in the call.
EndCall(c) ==
    /\ Click
    /\ channelHasCall(c) /\ (site.admin \/ channelIDForCurrentCall = c)
    /\ chan' = [chan EXCEPT !.calls = @ \ {c}, !.ended = @ \cup {c}]
    /\ UNCHANGED <<site, win, cls, turns, msgs>>

-----------------------------------------------------------------------------
(* What a client goes through                                              *)

\* The devices are there.  A client that was closed stops here.
Initialised(i) ==
    /\ cls[i].at \in {"init", "late"}
    /\ cls' = [cls EXCEPT ![i].at = IF cls[i].closed THEN "gone" ELSE "socket"]
    /\ UNCHANGED <<site, chan, win, turns, msgs, clicks>>

\* The browser refuses a device: init goes on, and a client that was closed
\* opens a socket that nobody closes (module CallSocket).
Refused(i) ==
    /\ cls[i].at \in {"init", "late"}
    /\ cls' = [cls EXCEPT ![i].at = IF cls[i].closed THEN "ghost" ELSE "socket"]
    /\ UNCHANGED <<site, chan, win, turns, msgs, clicks>>

\* init throws: an insecure page, or a browser without devices.  The handler
\* removes the window's client and stops the spinner, whichever client or
\* request they are of.
InitThrows(i) ==
    /\ cls[i].at \in {"init", "late"}
    /\ cls' = [cls EXCEPT ![i].at = "gone", ![i].closed = TRUE]
    /\ win' = [win EXCEPT !.connecting = FALSE, !.error = cls[i].ch, !.client = 0,
                          !.race = @ \/ win.client \notin {0, i}, !.unguarded = @ \/ turns # {}]
    /\ UNCHANGED <<site, chan, turns, msgs, clicks>>

\* The server lets the client in.  The event connect is the client's own.
Connected(i) ==
    /\ cls[i].at = "socket"
    /\ cls' = [cls EXCEPT ![i].at = "joined"]
    /\ win' = [win EXCEPT !.connecting = FALSE]
    /\ chan' = [chan EXCEPT !.calls = @ \cup {cls[i].ch}]
    /\ UNCHANGED <<site, turns, msgs, clicks>>

\* The socket gives up, the peer fails, the host removes the user.
Fails(i) ==
    /\ Click
    /\ cls[i].at \in {"socket", "joined"}
    /\ Disconnect(i, TRUE)
    /\ UNCHANGED <<site, chan, turns, msgs>>

\* The event call_end: a client in that call disconnects.
CallEnds(c) ==
    /\ c \in chan.ended
    /\ chan' = [chan EXCEPT !.ended = @ \ {c}]
    /\ IF win.client # 0 /\ cls[win.client].ch = c THEN Disconnect(win.client, FALSE) ELSE UNCHANGED <<win, cls>>
    /\ UNCHANGED <<site, turns, msgs, clicks>>

\* Others start calls; an administrator turns calls on or off in a channel.
CallStarts(c) ==
    /\ Click
    /\ chan' = [chan EXCEPT !.calls = @ \cup {c}]
    /\ UNCHANGED <<site, win, cls, turns, msgs>>

\* The main WebSocket is back: a window without a client resets the store
\* (UNINIT), the spinner of a connectCall that waits included.
Reconnected ==
    /\ win.connecting /\ win.client = 0
    /\ win' = [win EXCEPT !.connecting = FALSE, !.unguarded = @ \/ turns # {}]
    /\ UNCHANGED <<site, chan, cls, turns, msgs, clicks>>

ChannelHeaderMenuButton(c) ==
    /\ Click
    /\ site.admin \/ site.live
    /\ chan' = [chan EXCEPT !.enabled[c] = IF callsExplicitlyDisabled(c) THEN "on" ELSE "off"]
    /\ UNCHANGED <<site, win, cls, turns, msgs>>

-----------------------------------------------------------------------------
EntryStart(turn, live, admin, full, groups) ==
    /\ site = [turn |-> turn, live |-> live, admin |-> admin, full |-> full, groups |-> groups]
    /\ chan = [calls |-> {1}, ended |-> {}, enabled |-> [c \in Chans |-> "unset"]]
    /\ win = [client |-> 0, connecting |-> FALSE, switch |-> 0, error |-> 0, caught |-> FALSE,
              unguarded |-> FALSE, race |-> FALSE]
    /\ cls = <<>> /\ turns = {} /\ msgs = <<>> /\ clicks = 0

EntryInit ==
    \E turn, live, admin, full, groups \in BOOLEAN :
       /\ full \/ ~groups => ~turn /\ ~admin
       /\ EntryStart(turn, live, admin, full, groups)

EntryNext ==
    \/ \E c \in Chans :
          \/ ChannelHeaderButton(c) \/ ChannelHeaderDropdownButton(c) \/ ChannelCallToast(c) \/ PostType(c)
          \/ JoinCallLink(c) \/ EndCall(c) \/ CallEnds(c) \/ CallStarts(c) \/ ChannelHeaderMenuButton(c)
          \/ \E start \in BOOLEAN : SlashJoin(c, start)
    \/ MessageReceived \/ Reconnected \/ Leave \/ SwitchCallModal \/ HideSwitchCallModal \/ CallErrorModal
    \/ \E t \in turns : TurnAnswered(t)
    \/ \E i \in DOMAIN cls : Initialised(i) \/ Refused(i) \/ InitThrows(i) \/ Connected(i) \/ Fails(i)

EntrySpec == EntryInit /\ [][EntryNext]_entryVars

-----------------------------------------------------------------------------
\* The types: every client is in a channel, and the window's client and modals
\* name a client and channels.
EntryTypeOK ==
    /\ win.client \in 0..Len(cls) /\ {win.switch, win.error} \subseteq Chans \cup {0}
    /\ \A i \in DOMAIN cls : cls[i].ch \in Chans
    /\ \A i \in DOMAIN msgs : msgs[i] \in Chans
    /\ chan.calls \subseteq Chans /\ {win.connecting, win.caught, win.unguarded, win.race} \subseteq BOOLEAN

\* index.tsx:428, "so the re-entrancy guard above is effective even on rapid
\* subsequent clicks": a client that is not closed is the window's own, so that
\* a leave ends it, through joins from the header, the toast, links, messages
\* and the switch modal; and the spinner, which disables the button, spins only
\* while a client is on its way.  The exceptions:
\*   - race: of two connectCalls that wait for TURN credentials together each
\*     makes a client, where the guard did not keep the second out (unguarded):
\*     one came by the message connectCall, which does not ask it, or the
\*     spinner it reads was stopped while the first waited, by a reset of the
\*     store or by the failure of a client that was left already; and the
\*     failure of a client that was left removes the one that followed it;
\*   - caught: making a client threw, and nothing stops the spinner.
OneClient ==
    ~win.race =>
        /\ \A i \in DOMAIN cls : Live(i) => win.client = i
        /\ win.connecting => \/ turns # {} \/ win.caught
                             \/ \E i \in DOMAIN cls : cls[i].at \in {"init", "socket"}

=============================================================================

---------------------------- MODULE CallWindows ----------------------------
(***************************************************************************)
(* The two windows of a call and their controls: the widget                *)
(* (components/call_widget) and the pop-out (components/expanded_view),    *)
(* which both drive the one client of the widget's window.                 *)
(*                                                                         *)
(* The client tells the widget's store at once what it did (mute, unmute,  *)
(* hand, video) and sends a message to the server, whose event reaches     *)
(* both windows, each over a WebSocket of its own: the pop-out knows       *)
(* nothing else.  A control acts on what its window shows, which may be    *)
(* old.  A behaviour is about one kind of control, room.focus.             *)
(***************************************************************************)
EXTENDS Naturals, Sequences, FiniteSets

CONSTANTS
    Others,     \* the sessions of other participants
    MaxActs,    \* bound: what the user, the host and the others do
    MaxOnWay    \* bound: messages and events on their way

VARIABLES
    client,   \* CallsClient: its tracks and what it waits for
    kept,     \* what the server keeps of the session, and who shares
    up,       \* messages of the client on their way
    down,     \* events on their way to each window
    view,     \* what the store of each window says, and its screenStream
    ui,       \* menus, lists and dialogs of each window
    popout,   \* the pop-out window
    room,     \* the call: participants, roles, kind of channel
    acts

windowVars == <<client, kept, up, down, view, ui, popout, room, acts>>

Wins == {"widget", "pop"}
Shown(w) == client.life # "closed" /\ (w = "pop" => popout.st = "open")
Focus(f) == room.focus = f
Act == acts < MaxActs /\ acts' = acts + 1
Few == Len(up) < MaxOnWay

-----------------------------------------------------------------------------
(* The client, as a record of the client, the widget's view and the        *)
(* messages: what one handler does to them.                                *)

Now == [c |-> client, v |-> view, u |-> up]
Becomes(s) == client' = s.c /\ view' = s.v /\ up' = s.u
Sends(s, msg) == [s EXCEPT !.u = Append(@, msg)]

\* mute: nothing without a peer or a track.
mute(s) ==
    IF s.c.life = "closed" \/ s.c.mic = "none" THEN s
    ELSE Sends([s EXCEPT !.c.mic = "off", !.v["widget"].mic = FALSE], "mute")

\* The end of unmute.
Unmuted(s) ==
    Sends([s EXCEPT !.c.mic = "on", !.c.added = TRUE, !.v["widget"].mic = TRUE], "unmute")

\* unmute waits for the microphone or for the track to be added.
unmute(s) ==
    IF s.c.life = "closed" THEN s
    ELSE IF s.c.mic = "none" \/ ~s.c.added THEN [s EXCEPT !.c.asks = @ + 1]
    ELSE Unmuted(s)

raiseHand(s) == Sends([s EXCEPT !.v["widget"].hand = TRUE], "raise_hand")
unraiseHand(s) == Sends([s EXCEPT !.v["widget"].hand = FALSE], "unraise_hand")

stopVideo(s) ==
    IF ~s.c.cam THEN s
    ELSE Sends([s EXCEPT !.c.cam = FALSE, !.v["widget"].cam = FALSE], "video_off")

\* screenTrack.onended: screen_off is sent once the track is removed.
unshareScreen(s) ==
    IF s.c.screen = "none" THEN s
    ELSE [s EXCEPT !.c.screen = "none", !.c.offs = @ + 1]

\* A stream is ignored while another is shared.
setScreenStream(s, w) ==
    IF s.c.life = "closed" \/ s.c.screen # "none" THEN s
    ELSE Sends([s EXCEPT !.c.screen = w, !.v["widget"].stream = "local",
                         !.v["pop"].stream = IF popout.st = "open" THEN "local" ELSE @], "screen_on")

NoWindow == [st |-> "none", asked |-> FALSE, ptt |-> FALSE, track |-> FALSE]
Blank == [sess |-> FALSE, mic |-> FALSE, cam |-> FALSE, hand |-> FALSE, sharer |-> "none", stream |-> "none"]
NoMenus == [menu |-> FALSE, list |-> FALSE, sub |-> "none", leave |-> FALSE, dots |-> 0, del |-> 0,
            bar |-> FALSE, picker |-> FALSE, captions |-> FALSE, grid |-> FALSE]

\* disconnect and the listeners of close: the widget unmounts, window.callsClient
\* goes, a pop-out that has registered closes.
disconnect(closing) ==
    /\ client' = [client EXCEPT !.life = "closed", !.mic = "none", !.asks = 0, !.cam = FALSE, !.camAsks = 0,
                                !.screen = "none", !.offs = 0, !.picks = {}]
    /\ view' = [w \in Wins |-> Blank] /\ ui' = [w \in Wins |-> NoMenus]
    /\ up' = <<>> /\ down' = [w \in Wins |-> <<>>]
    /\ popout' = IF popout.st = "open" \/ closing THEN NoWindow ELSE popout
    /\ UNCHANGED <<kept, room>>

-----------------------------------------------------------------------------
(* Controls of both windows                                                *)

\* A DM, where the configuration has it.
enableVideo == room.dm

\* The bars: the widget has no hand in a DM.  Its screen button is there in a DM
\* and for a member of several teams, for the others it is in the menu.
WidgetBar ==
    {"mic", "screen", "menus"} \cup (IF enableVideo THEN {"cam"} ELSE {}) \cup (IF room.dm THEN {} ELSE {"hand"})
PopoutBar == {"mic", "screen", "hand", "menus"} \cup (IF enableVideo THEN {"cam"} ELSE {})

\* The shortcuts, whatever the bar offers; the widget has no use for one of them.
keyToAction(w) ==
    {"mic", "hand", "reaction", "screen", "list", "leave"} \cup (IF w = "pop" THEN {"talk", "record"} ELSE {})
WidgetKeys == keyToAction("widget") \ {"reaction"}

Offers(w) == IF w = "widget" THEN WidgetBar \cup WidgetKeys ELSE PopoutBar \cup keyToAction("pop")
Pressed(w, f) == Shown(w) /\ Focus(f) /\ f \in Offers(w) /\ Few /\ Act
Rest == UNCHANGED <<kept, down, ui, popout, room>>

isMuted(w) == ~(view[w].sess /\ view[w].mic)
isVideoOn(w) == view[w].sess /\ view[w].cam
isHandRaised(w) == view[w].sess /\ view[w].hand

\* The button or the shortcut; the pop-out's does nothing during push to talk.
onMuteToggle(w) ==
    /\ Pressed(w, "mic") /\ (w = "pop" => ~popout.ptt)
    /\ Becomes(IF isMuted(w) THEN unmute(Now) ELSE mute(Now)) /\ Rest

\* Push to talk: the key is pressed, and released or the window loses focus.
\* A key that is released while the focus is elsewhere is not noticed.
handleKBShortcuts ==
    /\ Pressed("pop", "mic") /\ ~popout.ptt /\ Becomes(unmute(Now))
    /\ popout' = [popout EXCEPT !.ptt = TRUE] /\ UNCHANGED <<kept, down, ui, room>>
handleKeyUp ==
    /\ Shown("pop") /\ Focus("mic") /\ Few /\ popout.ptt /\ Becomes(mute(Now))
    /\ popout' = [popout EXCEPT !.ptt = FALSE] /\ UNCHANGED <<kept, down, ui, room, acts>>

\* startVideo waits for the camera.
onVideoToggle(w) ==
    /\ Pressed(w, "cam")
    /\ Becomes(IF isVideoOn(w) THEN stopVideo(Now) ELSE [Now EXCEPT !.c.camAsks = @ + 1]) /\ Rest

onRaiseHandToggle(w) ==
    /\ Pressed(w, "hand")
    /\ Becomes(IF isHandRaised(w) THEN unraiseHand(Now) ELSE raiseHand(Now)) /\ Rest

\* screenSharingSession: a session that the window does not know is none.
SharerSeen(w) == IF view[w].sharer = "me" /\ ~view[w].sess THEN "none" ELSE view[w].sharer

\* In the widget two sessions that are unknown are equal.
IsSharing(w) ==
    \/ SharerSeen(w) = "me"
    \/ w = "widget" /\ SharerSeen(w) = "none" /\ ~view[w].sess

\* The button, the menu's item, the panel's button or the shortcut, which is
\* there when the button is disabled.  Otherwise the user picks a screen.
onShareScreenToggle(w) ==
    /\ Pressed(w, "screen") /\ w \notin client.picks
    /\ IF IsSharing(w)
       THEN Becomes([unshareScreen(Now) EXCEPT !.v[w].stream = "none"])
       ELSE Becomes([Now EXCEPT !.c.picks = IF SharerSeen(w) = "none" THEN @ \cup {w} ELSE @])
    /\ ui' = [ui EXCEPT !["widget"].menu = IF w = "widget" THEN FALSE ELSE @]
    /\ room' = [room EXCEPT !.stale = @ \/ (IsSharing(w) /\ view[w].stream = "remote")]
    /\ UNCHANGED <<kept, down, popout>>

\* The screen is picked.  The pop-out remembers the track first; both show the
\* stream once it is added.
shareScreen(w) ==
    /\ w \in client.picks /\ Few
    /\ LET s == setScreenStream([Now EXCEPT !.c.picks = @ \ {w}], w)
           taken == client.screen = "none"
       IN  /\ Becomes([s EXCEPT !.c.sets = @ \cup {w}])
           /\ popout' = [popout EXCEPT !.track = IF w = "pop" THEN taken ELSE @]
           /\ room' = [room EXCEPT !.twice = @ \/ ~taken]
    /\ UNCHANGED <<kept, down, ui, acts>>
PickCancelled(w) ==
    /\ w \in client.picks /\ Becomes([Now EXCEPT !.c.picks = @ \ {w}]) /\ Rest /\ UNCHANGED acts

\* The await of shareScreen ends: the window shows the stream, whoever shares
\* by now.
StreamAdded(w) ==
    /\ w \in client.sets
    /\ client' = [client EXCEPT !.sets = @ \ {w}]
    /\ view' = [view EXCEPT ![w].stream = IF Shown(w) THEN "local" ELSE @]
    /\ room' = [room EXCEPT !.stale = @ \/ (Shown(w) /\ client.screen = "none")]
    /\ UNCHANGED <<kept, up, down, ui, popout, acts>>

\* The browser's own button stops the capture.
CaptureEnds ==
    /\ client.screen # "none" /\ Act /\ Becomes(unshareScreen(Now)) /\ Rest

\* The client's waits.
MicReady == client.asks > 0 /\ Few /\ Becomes(Unmuted([Now EXCEPT !.c.asks = @ - 1])) /\ Rest /\ UNCHANGED acts
MicDenied ==
    /\ client.asks > 0 /\ client.mic = "none"
    /\ Becomes([Now EXCEPT !.c.asks = @ - 1]) /\ Rest /\ UNCHANGED acts
CamReady ==
    /\ client.camAsks > 0 /\ Few
    /\ Becomes(Sends([Now EXCEPT !.c.camAsks = @ - 1, !.c.cam = TRUE, !.v["widget"].cam = TRUE], "video_on"))
    /\ Rest /\ UNCHANGED acts
TrackRemoved ==
    /\ client.offs > 0 /\ Few
    /\ Becomes(Sends([Now EXCEPT !.c.offs = @ - 1], "screen_off")) /\ Rest /\ UNCHANGED acts

\* The widget's connect: in a DM or GM the microphone is switched on.
connect ==
    /\ client.life = "joined" /\ Few
    /\ LET s == [Now EXCEPT !.c.life = "connected"]
       IN  Becomes(IF room.dm /\ Focus("mic") THEN unmute(s) ELSE s)
    /\ Rest /\ UNCHANGED acts

-----------------------------------------------------------------------------
(* The server, and its events                                              *)

Event(k) == [k |-> k, st |-> kept]
Tell(e) == down' = [w \in Wins |-> IF Shown(w) THEN Append(down[w], e) ELSE down[w]]
Room == \A w \in Wins : Len(down[w]) < MaxOnWay

\* A message of the client: refused if somebody shares already.
Handle ==
    /\ up # <<>> /\ Room /\ up' = Tail(up)
    /\ LET k == Head(up)
           refused == \/ k = "screen_on" /\ kept.sharer # "none"
                      \/ k = "screen_off" /\ kept.sharer # "me"
       IN  IF refused THEN room' = [room EXCEPT !.refused = TRUE] /\ UNCHANGED <<kept, down>>
           ELSE /\ kept' = CASE k \in {"mute", "unmute"} -> [kept EXCEPT !.mic = k = "unmute"]
                             [] k \in {"video_on", "video_off"} -> [kept EXCEPT !.cam = k = "video_on"]
                             [] k \in {"raise_hand", "unraise_hand"} -> [kept EXCEPT !.hand = k = "raise_hand"]
                             [] k = "screen_on" -> [kept EXCEPT !.sharer = "me"]
                             [] k = "screen_off" -> [kept EXCEPT !.sharer = "none"]
                /\ Tell(Event(k)) /\ UNCHANGED room
    /\ UNCHANGED <<client, view, ui, popout, acts>>

\* Another participant shares or stops; the track comes by itself.
OtherShares ==
    /\ Focus("screen") /\ client.life # "closed" /\ kept.sharer = "none" /\ Room /\ Act
    /\ kept' = [kept EXCEPT !.sharer = "other"] /\ Tell(Event("other_on"))
    /\ UNCHANGED <<client, up, view, ui, popout, room>>
RemoteTrack ==
    /\ client.life # "closed" /\ kept.sharer = "other" /\ ~client.remote
    /\ client' = [client EXCEPT !.remote = TRUE]
    /\ view' = [w \in Wins |-> IF Shown(w) THEN [view[w] EXCEPT !.stream = "remote"] ELSE view[w]]
    /\ room' = [room EXCEPT !.stale = @ \/ client.screen # "none"]
    /\ UNCHANGED <<kept, up, down, ui, popout, acts>>
OtherStops ==
    /\ client.life # "closed" /\ kept.sharer = "other" /\ Room /\ Act
    /\ kept' = [kept EXCEPT !.sharer = "none"] /\ Tell(Event("screen_off"))
    /\ client' = [client EXCEPT !.remote = FALSE]
    /\ UNCHANGED <<up, view, ui, popout, room>>

\* The host asks: an event for this session only.
HostAsks(k) ==
    /\ client.life # "closed" /\ Room /\ Act
    /\ Focus(CASE k = "host_mute" -> "mic" [] k = "host_lower_hand" -> "hand" [] OTHER -> "screen")
    /\ Tell(Event(k))
    /\ UNCHANGED <<client, kept, up, view, ui, popout, room>>

\* Mutant of handleHostMute: the window only shows it.
handleHostMute_Shown(s, w) == [s EXCEPT !.v[w].mic = FALSE]

\* Each window that gets the event asks the client.
handleHostMute(s, w) == mute(s)
handleHostScreenOff(s) == unshareScreen(s)
handleHostLowerHand(s) == unraiseHand(s)

Flag(v, k) ==
    CASE k \in {"mute", "unmute"} -> [v EXCEPT !.sess = TRUE, !.mic = k = "unmute"]
      [] k \in {"video_on", "video_off"} -> [v EXCEPT !.sess = TRUE, !.cam = k = "video_on"]
      [] k \in {"raise_hand", "unraise_hand"} -> [v EXCEPT !.sess = TRUE, !.hand = k = "raise_hand"]
      [] k = "screen_on" -> [v EXCEPT !.sharer = "me"]
      [] k = "other_on" -> [v EXCEPT !.sharer = "other"]
      [] k = "screen_off" -> [v EXCEPT !.sharer = "none"]

\* loadCallState, and the window's own session with it.
State(v, st) ==
    [v EXCEPT !.sess = TRUE, !.mic = st.mic, !.cam = st.cam, !.hand = st.hand, !.sharer = st.sharer]

Receives(w) ==
    /\ Shown(w) /\ down[w] # <<>> /\ Few /\ down' = [down EXCEPT ![w] = Tail(@)]
    /\ LET e == Head(down[w])
       IN  Becomes(CASE e.k = "host_mute" -> handleHostMute(Now, w)
                     [] e.k = "host_screen_off" -> handleHostScreenOff(Now)
                     [] e.k = "host_lower_hand" -> handleHostLowerHand(Now)
                     [] e.k = "state" -> [Now EXCEPT !.v[w] = State(@, e.st)]
                     [] OTHER -> [Now EXCEPT !.v[w] = Flag(@, e.k)])
    /\ UNCHANGED <<kept, ui, popout, room, acts>>

-----------------------------------------------------------------------------
(* The pop-out                                                             *)

\* A window that is open is focused instead.
onExpandClick ==
    /\ Shown("widget") /\ popout.st = "none" /\ Act
    /\ popout' = [NoWindow EXCEPT !.st = "loading"]
    /\ UNCHANGED <<client, kept, up, down, view, ui, room>>

\* The constructor registers with the client of the opener, if there is one;
\* componentDidMount asks for the state of the call, over its own WebSocket.
componentDidMount ==
    /\ popout.st = "loading"
    /\ popout' = [popout EXCEPT !.st = IF client.life = "closed" THEN "orphan" ELSE "open",
                                !.asked = client.life # "closed"]
    /\ view' = [view EXCEPT !["pop"].stream =
                   IF client.screen # "none" THEN "local" ELSE IF client.remote THEN "remote" ELSE "none"]
    /\ UNCHANGED <<client, kept, up, down, ui, room, acts>>
requestCallState ==
    /\ Shown("pop") /\ popout.asked /\ Len(down["pop"]) < MaxOnWay
    /\ popout' = [popout EXCEPT !.asked = FALSE]
    /\ down' = [down EXCEPT !["pop"] = Append(@, Event("state"))]
    /\ UNCHANGED <<client, kept, up, view, ui, room, acts>>

\* Mutant of beforeunload: the capture goes on.
beforeunload_Nothing(s) == s

\* The widget's listener: a screen shared from the pop-out is unshared.
beforeunload(s) ==
    IF s.c.screen = "pop" /\ popout.track THEN unshareScreen(s) ELSE s

\* onCloseViewClick, or the user closes the window.
onCloseViewClick ==
    /\ popout.st # "none" /\ Act
    /\ Becomes([beforeunload(Now) EXCEPT !.c.picks = @ \ {"pop"}, !.c.sets = @ \ {"pop"}, !.v["pop"] = Blank])
    /\ popout' = NoWindow /\ down' = [down EXCEPT !["pop"] = <<>>]
    /\ ui' = [ui EXCEPT !["pop"] = NoMenus]
    /\ UNCHANGED <<kept, room>>

\* Leaving from the widget closes the pop-out, even one that is loading.
onDisconnectClick(w) ==
    /\ Shown(w) /\ Act /\ disconnect(w = "widget")

\* The call ends, the host removes the session or the connection fails.
Closed == client.life # "closed" /\ Act /\ disconnect(FALSE)

-----------------------------------------------------------------------------
(* Menus, lists and dialogs                                                *)

Menus(w) == Shown(w) /\ Focus("menus") /\ Act /\ UNCHANGED <<client, kept, up, down, view, popout>>
Set(w, r) == ui' = [ui EXCEPT ![w] = r] /\ UNCHANGED room

\* The menu of a participant goes with the list.
onMenuClick == Menus("widget") /\ Set("widget", [ui["widget"] EXCEPT !.menu = ~@, !.list = FALSE, !.dots = 0])
onParticipantsButtonClick ==
    Menus("widget") /\ Set("widget", [ui["widget"] EXCEPT !.list = ~@, !.menu = FALSE, !.dots = 0])
keyboardClose == Menus("widget") /\ Set("widget", [ui["widget"] EXCEPT !.menu = FALSE])

\* The lists of devices the menu offers, of which one is open; a click on a
\* device closes it.
renderMenu ==
    IF ui["widget"].menu THEN {"audiooutput", "audioinput"} \cup (IF enableVideo THEN {"videoinput"} ELSE {}) ELSE {}
renderDevicesList == ui["widget"].sub \in renderMenu
renderDevices(k) ==
    /\ Menus("widget") /\ k \in renderMenu
    /\ Set("widget", [ui["widget"] EXCEPT !.sub = IF @ = k THEN "none" ELSE k])
onDeviceClick ==
    /\ Menus("widget") /\ renderDevicesList
    /\ Set("widget", [ui["widget"] EXCEPT !.sub = "none"])

\* Lists, captions and the view of the pop-out; the view only with videos.
\* The menu of a participant may be the list's or the grid's.
onParticipantsListToggle ==
    Menus("pop") /\ \E d \in {0, ui["pop"].dots} : Set("pop", [ui["pop"] EXCEPT !.list = ~@, !.dots = d])
onLiveCaptionsToggle == Menus("pop") /\ Set("pop", [ui["pop"] EXCEPT !.captions = ~@])
onSwitchViewClick ==
    Menus("pop") /\ room.dm /\ room.others # {} /\ view["pop"].sharer = "none" /\ Set("pop", [ui["pop"] EXCEPT !.grid = ~@])

\* The bar of reactions and its picker, which a click elsewhere and Escape close.
toggleReactions == Menus("pop") /\ Set("pop", [ui["pop"] EXCEPT !.bar = ~@, !.picker = @ /\ ~ui["pop"].bar])
toggleShowPicker == Menus("pop") /\ ui["pop"].bar /\ Set("pop", [ui["pop"] EXCEPT !.picker = ~@])
handleUserPicksEmoji ==
    Menus("pop") /\ ui["pop"].bar /\ Set("pop", [ui["pop"] EXCEPT !.bar = FALSE, !.picker = FALSE])
closeOnEscape == Menus("pop") /\ Set("pop", [ui["pop"] EXCEPT !.bar = FALSE, !.picker = FALSE])

\* The button to leave is a menu for a host or admin who is not alone; a menu
\* that is replaced by the button comes back closed.
PlainLeave == room.dm \/ (~room.host /\ ~room.admin) \/ room.others = {}
Replaced(u) == [w \in Wins |-> [u[w] EXCEPT !.leave = @ /\ ~PlainLeave']]
onLeaveMenuOpen(w) == ~PlainLeave /\ Menus(w) /\ Set(w, [ui[w] EXCEPT !.leave = ~@])
LeaveCallMenu(w) ==
    /\ Shown(w) /\ ui[w].leave /\ ~PlainLeave /\ Act
    /\ \/ disconnect(w = "widget")
       \/ disconnect(FALSE)       \* the end for everyone, which the server grants

\* The controls of the host on another participant: in the lists also while
\* their menu is open, in the grid of the pop-out only for a host or admin.
useHostControls == room.host \/ room.admin
ParticipantsList == IF ui["widget"].list THEN room.others ELSE {}
Participant(p) == p \in ParticipantsList /\ (useHostControls \/ ui["widget"].dots = p)
renderParticipantsRHSList == IF ui["pop"].list THEN room.others ELSE {}
CallParticipantRHS(p) == p \in renderParticipantsRHSList /\ (useHostControls \/ ui["pop"].dots = p)
ParticipantsGrid == IF view["pop"].sess /\ SharerSeen("pop") = "none" THEN room.others ELSE {}
CallParticipant(p) == p \in ParticipantsGrid /\ useHostControls
Controlled(w, p) == IF w = "widget" THEN Participant(p) ELSE CallParticipantRHS(p) \/ CallParticipant(p)

onOpenChange(w, p) ==
    /\ Menus(w) /\ Controlled(w, p)
    /\ Set(w, [ui[w] EXCEPT !.dots = IF @ = p THEN 0 ELSE p])

\* The open menu offers to remove the participant, and closes.
HostControlsMenu(w) == ui[w].dots # 0 /\ Controlled(w, ui[w].dots)
onRemove(w) ==
    Menus(w) /\ HostControlsMenu(w) /\ Set(w, [ui[w] EXCEPT !.del = ui[w].dots, !.dots = 0])

\* The dialog is there while the participant is; the server removes it if the
\* user may still ask.
RemoveConfirmation(w) == ui[w].del \in room.others
onRemoveConfirm(w) ==
    /\ Menus(w) /\ RemoveConfirmation(w)
    /\ room' = [room EXCEPT !.others = IF useHostControls THEN @ \ {ui[w].del} ELSE @]
    /\ ui' = Replaced([ui EXCEPT ![w].del = 0])
onRemoveCancel(w) ==
    Menus(w) /\ RemoveConfirmation(w) /\ Set(w, [ui[w] EXCEPT !.del = 0])

\* Participants leave, and another one becomes host.
OtherLeaves(p) ==
    /\ Menus("widget") /\ p \in room.others
    /\ room' = [room EXCEPT !.others = @ \ {p}]
    /\ ui' = Replaced([w \in Wins |-> [ui[w] EXCEPT !.dots = IF @ = p THEN 0 ELSE @]])
HostChanges ==
    /\ Menus("widget") /\ room' = [room EXCEPT !.host = ~@]
    /\ ui' = Replaced(ui)

-----------------------------------------------------------------------------
WindowsStart(focus, dm, admin, mic) ==
    /\ client = [life |-> "joined", mic |-> mic, added |-> FALSE, asks |-> 0, cam |-> FALSE, camAsks |-> 0,
                 screen |-> "none", offs |-> 0, picks |-> {}, sets |-> {}, remote |-> FALSE]
    /\ kept = [mic |-> FALSE, cam |-> FALSE, hand |-> FALSE, sharer |-> "none"]
    /\ up = <<>> /\ down = [widget |-> <<[k |-> "state", st |-> kept]>>, pop |-> <<>>]
    /\ view = [w \in Wins |-> Blank] /\ ui = [w \in Wins |-> NoMenus] /\ popout = NoWindow
    /\ room = [focus |-> focus, dm |-> dm, admin |-> admin, host |-> FALSE, others |-> Others,
               refused |-> FALSE, twice |-> FALSE, stale |-> FALSE]
    /\ acts = 0

WindowsInit ==
    \/ \E dm \in BOOLEAN : WindowsStart("mic", dm, FALSE, IF dm THEN "none" ELSE "off")
    \/ WindowsStart("cam", TRUE, FALSE, "off")
    \/ \E f \in {"hand", "screen"} : WindowsStart(f, FALSE, FALSE, "off")
    \/ \E dm, admin \in BOOLEAN : WindowsStart("menus", dm, admin, "off")

WindowsNext ==
    \/ \E w \in Wins :
          \/ onMuteToggle(w) \/ onVideoToggle(w) \/ onRaiseHandToggle(w) \/ onShareScreenToggle(w)
          \/ shareScreen(w) \/ PickCancelled(w) \/ StreamAdded(w) \/ Receives(w) \/ onDisconnectClick(w)
          \/ onLeaveMenuOpen(w) \/ LeaveCallMenu(w) \/ onRemove(w) \/ onRemoveConfirm(w) \/ onRemoveCancel(w)
          \/ \E p \in Others : onOpenChange(w, p)
    \/ handleKBShortcuts \/ handleKeyUp \/ CaptureEnds \/ MicReady \/ MicDenied \/ CamReady \/ TrackRemoved \/ connect
    \/ Handle \/ OtherShares \/ RemoteTrack \/ OtherStops
    \/ \E k \in {"host_mute", "host_lower_hand", "host_screen_off"} : HostAsks(k)
    \/ onExpandClick \/ componentDidMount \/ requestCallState \/ onCloseViewClick \/ Closed
    \/ onMenuClick \/ onParticipantsButtonClick \/ keyboardClose \/ onDeviceClick
    \/ \E k \in {"audioinput", "audiooutput", "videoinput"} : renderDevices(k)
    \/ onParticipantsListToggle \/ onLiveCaptionsToggle \/ onSwitchViewClick
    \/ toggleReactions \/ toggleShowPicker \/ handleUserPicksEmoji \/ closeOnEscape
    \/ HostChanges \/ \E p \in Others : OtherLeaves(p)

WindowsSpec == WindowsInit /\ [][WindowsNext]_windowVars

-----------------------------------------------------------------------------
\* The types; the widget's menu and its list are never open together, and the
\* picker of the pop-out only with its bar.
WindowsTypeOK ==
    /\ client.life \in {"joined", "connected", "closed"} /\ client.mic \in {"none", "off", "on"}
    /\ client.asks \in Nat /\ client.camAsks \in Nat /\ client.offs \in Nat
    /\ client.picks \subseteq Wins /\ client.screen \in Wins \cup {"none"}
    /\ popout.st \in {"none", "loading", "open", "orphan"}
    /\ ~(ui["widget"].menu /\ ui["widget"].list)
    /\ ui["pop"].picker => ui["pop"].bar

\* Nothing is on its way to window w.
Quiet(w) ==
    /\ up = <<>> /\ down[w] = <<>> /\ ~popout.asked
    /\ client.asks = 0 /\ client.camAsks = 0 /\ client.offs = 0 /\ client.sets = {}

\* When nothing is on its way both windows show what the client does, however
\* the controls of the two, the host's requests and a pop-out that opens in
\* between interleave: the microphone, the camera, the hand the server keeps,
\* who shares, and the stream of the one who does.  The exceptions: a request
\* to share that the server refuses, after which the client goes on capturing
\* and shows its own screen; and, for the stream, two shares that overlap (the
\* track of the other's comes when the own one has begun, a control that is out
\* of date clears the other's stream, or the end of an await puts back an own
\* one that is over).
WindowsAgree ==
    \A w \in Wins : Shown(w) /\ Quiet(w) =>
        /\ view[w].mic <=> client.mic = "on"
        /\ view[w].cam <=> client.cam
        /\ view[w].hand <=> kept.hand
        /\ view[w].sharer = kept.sharer
        /\ ~room.refused => (kept.sharer = "me" <=> client.screen # "none")
        /\ ~room.refused /\ ~room.stale =>
              /\ SharerSeen(w) = "me" => view[w].stream = "local"
              /\ SharerSeen(w) = "other" /\ client.remote => view[w].stream = "remote"

\* A pop-out ends with its call, and a screen shared from a pop-out with the
\* pop-out (component.tsx:2172 and the listener of close).  The exceptions: a
\* pop-out that was still loading when the client closed, which stays open
\* without one; and a second pick while the first was shared, which overwrites
\* the id of the track the widget compares.
PopoutEnds ==
    /\ client.life = "closed" => popout.st # "open"
    /\ client.screen = "pop" => popout.st = "open" \/ room.twice

=============================================================================

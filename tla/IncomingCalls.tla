--------------------------- MODULE IncomingCalls ---------------------------
(***************************************************************************)
(* The notifications of incoming calls in one browser: which calls of      *)
(* direct and group messages are announced, which one rings, and what      *)
(* stops it (actions.ts, incomingCallOnChannel to stopRingingForCall;      *)
(* reducers.ts, incomingCalls to dismissedCalls; components/incoming_calls *)
(* and switch_call_modal; desktop_notifications.ts).                       *)
(*                                                                         *)
(* Calls are numbered in the order they start, each in a channel of its    *)
(* own.  A task of the browser ends with a commit of React: components     *)
(* that were mounted in it run their effects, on the values that were read *)
(* when they were rendered.                                                *)
(***************************************************************************)
EXTENDS Naturals, Sequences, FiniteSets

CONSTANTS
    NumCalls,     \* bound: calls
    MaxMoves,     \* bound: what users and the network do once a call is on;
                  \* one less where the app has to load something
    MaxEvts       \* bound: events on their way

ASSUME RingAssumption == NumCalls \in Nat

RingCalls == 1 .. NumCalls

VARIABLES
    life,       \* the server's calls: "none", "on", "over"
    posted,     \* the calls whose notification the server knows is dismissed
    evts,       \* events on their way to the browser
    online,     \* is the main WebSocket up?
    fetch,      \* GET /channels: where it is, and its answer
    known,      \* the calls in the store
    chans,      \* runs of incomingCallOnChannel that load the channel
    profs,      \* runs of incomingCallOnChannel that load the caller
    asks,       \* joins and dismissals on their way to the server
    n,          \* notifications: the slices of the store, sound, components
    conn,       \* the call of window.callsClient, or 0
    moves,      \* for MaxMoves
    modal,      \* the target of the switch call modal, or 0
    prefs,      \* EnableRinging, and what the app has to load for a notification
    late        \* calls that something unexpected can announce (see Expected)

ringVars == <<life, posted, evts, online, fetch, known, chans, profs, asks, n, conn, moves,
              modal, prefs, late>>

-----------------------------------------------------------------------------
(* Reducers and actions: operators on n                                    *)

\* A call that is added twice is shown twice and removed once; the set says
\* which calls are shown.
ADD_INCOMING_CALL(m, c) == [m EXCEPT !.incoming = @ \cup {c}]
DISMISS_CALL(m, c) == [m EXCEPT !.dismissed = @ \cup {c}]
Mark(m, c) == [m EXCEPT !.ringing = @ \ {c}, !.didRing = @ \cup {c}]

\* utils.ts: the sound stops, whichever call rings.
notificationsStopRinging(m) == [m EXCEPT !.sound = FALSE, !.loose = FALSE]

\* Mutant of stopRingingForCall: the sound is left to the timer.
stopRingingForCall_Silent(m, c) == Mark(m, c)

\* actions.ts: the sound stops only if this call is ringing.
stopRingingForCall(m, c) ==
    Mark(IF c \in m.ringing THEN notificationsStopRinging(m) ELSE m, c)

removeIncomingCallNotification(m, c) ==
    [stopRingingForCall(m, c) EXCEPT !.incoming = @ \ {c}]

\* actions.ts, ringForCall, for the calls cs: sound, RINGING_FOR_CALL, timer.
ringForCall(m, cs) ==
    [m EXCEPT !.sound = @ \/ cs # {}, !.ringing = @ \cup cs, !.didRing = @ \cup cs, !.timers = @ \cup cs,
              !.rung = [c \in RingCalls |-> IF c \in cs THEN @[c] + 1 ELSE @[c]]]

-----------------------------------------------------------------------------
(* Components: who shows a notification, and the effects of the first time *)

\* call_container.tsx and the call widget: the oldest call has the large
\* component; a user who is connected sees all of them over the widget.
Place(m, c, connected) ==
    IF connected THEN "widget" ELSE IF \A d \in m.incoming : c <= d THEN "large" ELSE "condensed"
Components(m, connected) == {<<c, Place(m, c, connected)>> : c \in m.incoming}

\* hooks.ts, useNotification: a desktop notification at the first appearance.
\* The page is taken to be hidden; on a visible page none is sent.
useNotification(m, cs) ==
    LET told == cs \ m.didNotify
    IN  [m EXCEPT !.didNotify = @ \cup cs,
                  !.sent = [c \in RingCalls |-> IF c \in told THEN @[c] + 1 ELSE @[c]]]

\* Mutant of useRingingAndNotification: it does not look at what has rung.
useRingingAndNotification_Again(m, cs, connected) ==
    LET never == {c \in cs : connected \/ (m.ringing # {} /\ c \notin m.ringing)}
        m1 == [m EXCEPT !.ringing = @ \ never, !.didRing = @ \cup never,
                        !.loose = @ \/ (m.sound /\ never \cap m.ringing # {})]
    IN  ringForCall(useNotification(m1, cs), cs \ never)

\* hooks.ts, useRingingAndNotification, for the components mounted together:
\* all of them use what was read before the first one rang.
useRingingAndNotification(m, cs, connected) ==
    LET never == {c \in cs : connected \/ (m.ringing # {} /\ c \notin m.ringing)}
        m1 == [m EXCEPT !.ringing = @ \ never, !.didRing = @ \cup never,
                        !.loose = @ \/ (m.sound /\ never \cap m.ringing # {})]
    IN  ringForCall(useNotification(m1, cs), (cs \ never) \ m.didRing)

Commits(m, connected) ==
    LET now == Components(m, connected)
        fresh == {k[1] : k \in now \ m.mounted}
    IN  [useRingingAndNotification(m, fresh, connected) EXCEPT
            !.mounted = now,
            !.together = IF Cardinality(fresh) > 1 THEN @ \cup fresh ELSE @]

\* The end of a task that leaves the notifications m and the client of call c.
Then(m, c) == n' = Commits(m, c # 0) /\ conn' = c

-----------------------------------------------------------------------------
(* What can still announce call c when its notification is taken away.     *)
(* incomingCallOnChannel looks for a dismissal under the id of the channel *)
(* and finds none, and it looks at nothing after it has loaded the caller. *)

Expected(c) ==
    \/ c \in chans \/ profs[c] > 0
    \/ fetch.at = "got" /\ c \in fetch.calls
    \/ fetch.at = "sent" /\ <<"dismiss", c>> \in asks
    \/ \E i \in DOMAIN evts : evts[i] = <<"start", c>>
    \/ c \notin known
Took(c) == late' = IF Expected(c) THEN late \cup {c} ELSE late

-----------------------------------------------------------------------------
(* The server                                                              *)

Move == moves < (IF prefs.loads = {} THEN MaxMoves ELSE MaxMoves - 1) /\ moves' = moves + 1
Publish(e) ==
    /\ Len(evts) < MaxEvts
    /\ evts' = IF online THEN Append(evts, e) ELSE evts
Rest == <<known, chans, profs, n, conn, modal, prefs>>

\* Somebody starts the call; the post of the call follows the event.
CallStarts(c) ==
    /\ life[c] = "none" /\ \A d \in 1 .. c - 1 : life[d] # "none"
    /\ life' = [life EXCEPT ![c] = "on"]
    /\ Publish(<<"start", c>>)
    /\ UNCHANGED <<posted, online, fetch, asks, moves, late, Rest>>

\* The call ends.  A browser that is not connected does not hear of it.
CallEnds(c) ==
    /\ life[c] = "on" /\ Move
    /\ life' = [life EXCEPT ![c] = "over"]
    /\ Publish(<<"end", c>>)
    /\ late' = IF online THEN late ELSE late \cup {c}
    /\ UNCHANGED <<posted, online, fetch, asks, Rest>>

\* The dismissal arrives; the server tells the other clients of the user.
DismissalArrives(c) ==
    /\ <<"dismiss", c>> \in asks /\ asks' = asks \ {<<"dismiss", c>>}
    /\ posted' = posted \cup {c}
    /\ Publish(<<"dismissed", c>>)
    /\ UNCHANGED <<life, online, fetch, moves, late, Rest>>

\* The user dismisses the notification on another device.
DismissedElsewhere(c) ==
    /\ life[c] = "on" /\ c \notin posted /\ Move
    /\ posted' = posted \cup {c}
    /\ Publish(<<"dismissed", c>>)
    /\ late' = IF online THEN late ELSE late \cup {c}
    /\ UNCHANGED <<life, online, fetch, asks, Rest>>

-----------------------------------------------------------------------------
(* Announcing a call                                                       *)

\* actions.ts, incomingCallOnChannel, when the channel is there: the checks,
\* and the notification if the caller is there too.  The calls cs are
\* announced in one task.
Announced(m, cs) == {c \in cs : c \notin m.incoming /\ c # conn}
incomingCallOnChannel(m, cs) ==
    LET ok == Announced(m, cs)
        slow == IF "caller" \in prefs.loads THEN ok ELSE {}
    IN  /\ profs' = [c \in RingCalls |-> IF c \in slow THEN profs[c] + 1 ELSE profs[c]]
        /\ Then([m EXCEPT !.incoming = @ \cup (ok \ slow)], conn)

Event(t, c) == evts # <<>> /\ Head(evts) = <<t, c>> /\ evts' = Tail(evts)

\* desktop_notifications.ts: is the notification of the post of a call in a
\* direct message left to Calls?
desktopNotificationHandler(ringing) == ~ringing

\* websocket_handlers.ts, handleCallStart.  The channel may have to be loaded.
\* The post of the call comes over the same socket, and the web app notifies
\* of it unless the handler says no.
handleCallStart(c) ==
    /\ Event("start", c)
    /\ known' = known \cup {c}
    /\ LET m == [n EXCEPT !.sent[c] = IF desktopNotificationHandler(prefs.ringing) THEN @ + 1 ELSE @]
       IN  \/ (conn = c \/ ~prefs.ringing) /\ n' = m /\ UNCHANGED <<chans, profs, conn>>
           \/ /\ conn # c /\ prefs.ringing /\ "channel" \in prefs.loads
              /\ n' = m /\ chans' = chans \cup {c} /\ UNCHANGED <<profs, conn>>
           \/ /\ conn # c /\ prefs.ringing /\ "channel" \notin prefs.loads
              /\ incomingCallOnChannel(m, {c}) /\ UNCHANGED chans
    /\ UNCHANGED <<life, posted, online, fetch, asks, moves, modal, prefs, late>>

ChannelLoaded(c) ==
    /\ c \in chans /\ chans' = chans \ {c}
    /\ incomingCallOnChannel(n, {c})
    /\ UNCHANGED <<life, posted, evts, online, fetch, known, asks, moves, modal, prefs, late>>

CallerLoaded(c) ==
    /\ profs[c] > 0 /\ profs' = [profs EXCEPT ![c] = @ - 1]
    /\ Then(ADD_INCOMING_CALL(n, c), conn)
    /\ UNCHANGED <<life, posted, evts, online, fetch, known, chans, asks, moves, modal, prefs, late>>

-----------------------------------------------------------------------------
(* Taking it away                                                          *)

\* actions.ts, dismissIncomingCallNotification.
dismissIncomingCallNotification(m, c) == DISMISS_CALL(removeIncomingCallNotification(m, c), c)

\* hooks.ts, onDismiss.
onDismiss(c) ==
    /\ c \in n.incoming /\ Move
    /\ asks' = asks \cup {<<"dismiss", c>>}
    /\ Then(dismissIncomingCallNotification(n, c), conn)
    /\ late' = IF Expected(c) \/ fetch.at = "sent" THEN late \cup {c} ELSE late
    /\ UNCHANGED <<life, posted, evts, online, fetch, known, chans, profs, modal, prefs>>

\* hooks.ts, onJoin: connect, or ask whether to leave the other call.
onJoin(c) ==
    /\ c \in n.incoming /\ Move
    /\ IF conn # 0
       THEN /\ modal' = c
            /\ Then(notificationsStopRinging(n), conn)
            /\ UNCHANGED <<asks, late>>
       ELSE /\ modal' = modal
            /\ asks' = asks \cup {<<"dismiss", c>>, <<"join", c>>}
            /\ late' = IF Expected(c) \/ fetch.at = "sent" THEN late \cup {c} ELSE late
            /\ Then(dismissIncomingCallNotification(notificationsStopRinging(n), c), c)
    /\ UNCHANGED <<life, posted, evts, online, fetch, known, chans, profs, prefs>>

\* hooks.ts, useOnChannelLinkClick.
onContainerClick(c) ==
    /\ c \in n.incoming /\ n.sound /\ Move
    /\ Then(notificationsStopRinging(n), conn)
    /\ UNCHANGED <<life, posted, evts, online, fetch, known, chans, profs, asks, modal, prefs, late>>

\* The switch call modal: leave and join, or hide.
joinCall ==
    /\ modal # 0 /\ Move
    /\ asks' = asks \cup {<<"dismiss", modal>>, <<"join", modal>>}
    /\ late' = IF Expected(modal) \/ fetch.at = "sent" THEN late \cup {modal} ELSE late
    /\ Then(dismissIncomingCallNotification(n, modal), modal)
    /\ modal' = 0
    /\ UNCHANGED <<life, posted, evts, online, fetch, known, chans, profs, prefs>>

hideSwitchCallModal ==
    /\ modal # 0 /\ modal' = 0
    /\ UNCHANGED <<life, posted, evts, online, fetch, known, chans, profs, asks, n, conn, moves, prefs, late>>

\* The user joins from the channel header or the post of the call.
Connects(c) ==
    /\ conn = 0 /\ life[c] = "on" /\ Move
    /\ asks' = asks \cup {<<"join", c>>}
    /\ Then(n, c)
    /\ UNCHANGED <<life, posted, evts, online, fetch, known, chans, profs, modal, prefs, late>>

\* The server lets the user in, unless the call is over; the client closes.
JoinHandled(c) ==
    /\ <<"join", c>> \in asks /\ asks' = asks \ {<<"join", c>>}
    /\ IF life[c] = "on" THEN Publish(<<"joined", c>>) ELSE UNCHANGED evts
    /\ UNCHANGED <<life, posted, online, fetch, moves, late, Rest>>

ClientCloses ==
    /\ conn # 0 /\ Move
    /\ Then(n, 0)
    /\ UNCHANGED <<life, posted, evts, online, fetch, known, chans, profs, asks, modal, prefs, late>>

\* websocket_handlers.ts, handleUserJoined, for the user of this browser.
handleUserJoined(c) ==
    /\ Event("joined", c)
    /\ IF prefs.ringing
       THEN /\ Then(notificationsStopRinging(IF c \in known THEN removeIncomingCallNotification(n, c) ELSE n), conn)
            /\ Took(c)
       ELSE UNCHANGED <<n, conn, late>>
    /\ UNCHANGED <<life, posted, online, fetch, known, chans, profs, asks, moves, modal, prefs>>

handleUserDismissedNotification(c) ==
    /\ Event("dismissed", c)
    /\ Then(dismissIncomingCallNotification(n, c), conn)
    /\ Took(c)
    /\ UNCHANGED <<life, posted, online, fetch, known, chans, profs, asks, moves, modal, prefs>>

\* Mutant of handleCallEnd: the notification waits for its timer.
handleCallEnd_KeepsNotification(c) ==
    /\ Event("end", c)
    /\ known' = known \ {c}
    /\ Then(n, IF conn = c THEN 0 ELSE conn)
    /\ Took(c)
    /\ UNCHANGED <<life, posted, online, fetch, chans, profs, asks, moves, modal, prefs>>

\* actions.ts, callEnd: the id of the call is the one the store has.
handleCallEnd(c) ==
    /\ Event("end", c)
    /\ known' = known \ {c}
    /\ Then(IF c \in known THEN removeIncomingCallNotification(n, c) ELSE n, IF conn = c THEN 0 ELSE conn)
    /\ Took(c)
    /\ UNCHANGED <<life, posted, online, fetch, chans, profs, asks, moves, modal, prefs>>

\* actions.ts, ringForCall: the timer.
RingTimer(c) ==
    /\ c \in n.timers
    /\ Then(stopRingingForCall([n EXCEPT !.timers = @ \ {c}], c), conn)
    /\ UNCHANGED <<life, posted, evts, online, fetch, known, chans, profs, asks, moves, modal, prefs, late>>

-----------------------------------------------------------------------------
(* Reconnection                                                            *)

\* The main WebSocket and the events on their way are lost.
RingDrop ==
    /\ online /\ online' = FALSE /\ Move
    /\ late' = late \cup {c \in RingCalls : \E i \in DOMAIN evts : evts[i] \in {<<"end", c>>, <<"dismissed", c>>}}
    /\ evts' = <<>>
    /\ UNCHANGED <<life, posted, fetch, asks, Rest>>

\* The reconnect handler: UNINIT without a client, and GET /channels goes out.
\* The slices of the notifications know no UNINIT.
RingReconnect ==
    /\ ~online /\ online' = TRUE
    /\ known' = IF conn = 0 THEN {} ELSE known
    /\ fetch' = [at |-> "sent", calls |-> {}, skip |-> conn]
    /\ UNCHANGED <<life, posted, evts, chans, profs, asks, n, conn, moves, modal, prefs, late>>

\* The server answers with the calls that are on and not dismissed.
ChannelsAnswered ==
    /\ fetch.at = "sent"
    /\ LET on == {c \in RingCalls : life[c] = "on" /\ c # fetch.skip}
       IN  /\ fetch' = [fetch EXCEPT !.at = "got", !.calls = on \ posted]
           /\ late' = late \cup ((on \cap n.dismissed) \ posted)
    /\ UNCHANGED <<life, posted, evts, online, asks, moves, Rest>>

\* index.tsx, fetchChannels: the calls the store does not have are announced
\* in one task.
fetchChannels ==
    /\ fetch.at = "got" /\ fetch' = [fetch EXCEPT !.at = "done", !.calls = {}]
    /\ known' = known \cup fetch.calls
    /\ IF prefs.ringing THEN incomingCallOnChannel(n, fetch.calls \ known)
       ELSE UNCHANGED <<profs, n, conn>>
    /\ UNCHANGED <<life, posted, evts, online, chans, asks, moves, modal, prefs, late>>

-----------------------------------------------------------------------------
RingInit ==
    /\ life = [c \in RingCalls |-> "none"] /\ posted = {} /\ evts = <<>> /\ online = TRUE
    /\ fetch = [at |-> "done", calls |-> {}, skip |-> 0]
    /\ known = {} /\ chans = {} /\ profs = [c \in RingCalls |-> 0] /\ asks = {}
    /\ n = [incoming |-> {}, ringing |-> {}, didRing |-> {}, didNotify |-> {}, dismissed |-> {},
            sound |-> FALSE, timers |-> {}, mounted |-> {},
            rung |-> [c \in RingCalls |-> 0], sent |-> [c \in RingCalls |-> 0],
            loose |-> FALSE, together |-> {}]
    /\ conn = 0 /\ moves = 0 /\ modal = 0 /\ late = {}
    /\ prefs \in [ringing : {TRUE}, loads : {{}, {"channel"}, {"caller"}}] \cup [ringing : {FALSE}, loads : {{}}]

RingNext ==
    \/ \E c \in RingCalls :
          \/ CallStarts(c) \/ CallEnds(c) \/ DismissalArrives(c) \/ DismissedElsewhere(c)
          \/ handleCallStart(c) \/ ChannelLoaded(c) \/ CallerLoaded(c) \/ onDismiss(c) \/ onJoin(c) \/ onContainerClick(c)
          \/ Connects(c) \/ JoinHandled(c) \/ handleUserJoined(c) \/ handleUserDismissedNotification(c) \/ handleCallEnd(c)
          \/ RingTimer(c)
    \/ joinCall \/ hideSwitchCallModal \/ ClientCloses
    \/ RingDrop \/ RingReconnect \/ ChannelsAnswered \/ fetchChannels

RingSpec == RingInit /\ [][RingNext]_ringVars

-----------------------------------------------------------------------------
\* The types of the notifications and of what surrounds them; a call that is
\* ringing has been announced and counts as one that has rung.
RingTypeOK ==
    /\ life \in [RingCalls -> {"none", "on", "over"}] /\ {conn, modal} \subseteq 0 .. NumCalls
    /\ n.incoming \cup n.ringing \cup n.dismissed \cup n.timers \cup known \cup chans \subseteq RingCalls
    /\ n.ringing \subseteq n.didRing
    /\ {n.sound, n.loose, online} \subseteq BOOLEAN
    /\ \A c \in RingCalls : profs[c] \in 0 .. MaxMoves + 1

\* ringForCall and stopRingingForCall: when the ring tone plays, the timer of a
\* call that is ringing will stop it.  The one exception, n.loose: a user who
\* connects to a call while another one rings takes the mark of the ringing
\* call away (its component is mounted again over the widget), and the tone
\* plays until a join event arrives.
RingEnds == n.sound => (n.ringing \cap n.timers # {} \/ n.loose)

\* actions.ts:476, "register we've rang, so we don't ring again ever for this
\* call"; hooks.ts, "we don't want to notify after the first appearance of this
\* call": one ring and one desktop notification for a call, that of its post
\* included, whatever is mounted again, reconnected or announced twice.  And
\* hooks.ts:164, "If we're on a call, or currently ringing for a different call,
\* then never ring for this call in the future": only calls announced by one
\* answer of GET /channels ring together.
RingOnce ==
    /\ \A c \in RingCalls : n.rung[c] <= 1 /\ n.sent[c] <= 1
    /\ \A c, d \in n.ringing : c # d => {c, d} \subseteq n.together

\* A call that is announced is on and was not dismissed, once the events have
\* arrived.  The exceptions are the calls something was under way to announce
\* when their notification was taken away, or whose end the browser missed.
AnnouncedIsOn ==
    online /\ evts = <<>> => \A c \in n.incoming \ late : life[c] = "on" /\ c \notin n.dismissed

=============================================================================

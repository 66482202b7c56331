---------------------------- MODULE CallPrompts ----------------------------
(***************************************************************************)
(* What the two windows of a call tell the user without being asked: the   *)
(* recording disclaimer and badge, and the alert banners, of the widget    *)
(* (components/call_widget/component.tsx) and of the pop-out               *)
(* (components/expanded_view), each with a store of its own, and what they *)
(* share: window.currentCallData and window.callActions.                   *)
(*                                                                         *)
(* Events of the server reach each window in order and at its own time.    *)
(* Their times are the server's; the time of an error and of a change of   *)
(* host is the client's when the event arrives.  A React component sees    *)
(* its state as it was before the batch: of two changes of the alerts in   *)
(* one batch the later one wins.                                           *)
(***************************************************************************)
EXTENDS Naturals, Sequences, FiniteSets

CONSTANTS
    Skews,      \* how far the client's clock is ahead, a set of numbers
    MaxEvents,  \* bound: the server's clock runs to twice this
    MaxLag,     \* bound: events on their way to a window
    MaxDone     \* bound: what the user does, and events of the client

VARIABLES
    srv,    \* the server: its clock, the recording, the host, when it changed
    lag,    \* events on their way, a sequence for each window
    store,  \* recordings and hosts of each window's store
    al,     \* alerts that are active and that are shown, of each window
    data,   \* window.currentCallData of the widget's window
    pop,    \* the pop-out: "none" or "open"
    past,   \* what happened, for the properties
    done

promptVars == <<srv, lag, store, al, data, pop, past, done>>

Windows == {"widget", "pop"}
Open(w) == w = "widget" \/ pop = "open"
MaxOf(S) == CHOOSE x \in S : \A y \in S : y <= x

-----------------------------------------------------------------------------
(* Recording disclaimer                                                    *)

hasRecEnded(r) == r.end > r.start

\* The rules of both windows, for a prompt dismissed at d.
ShowsDisclaimer(r, d) ==
    LET shouldShowError == r.errAt > d
    IN  /\ r.start # 0 \/ r.err
        /\ hasRecEnded(r) => r.host
        /\ \/ shouldShowError
           \/ /\ ~(~hasRecEnded(r) /\ d > r.start /\ d > r.hostAt)
              /\ ~(hasRecEnded(r) /\ d > r.end)
              /\ ~(d > r.start /\ r.hostAt > d /\ ~r.host)
              /\ ~(r.host /\ hasRecEnded(r) /\ r.hostAt > r.end)

renderRecordingDisclaimer == ShowsDisclaimer(store["widget"], store["widget"].dis)

\* The pop-out also looks at what the widget's window remembers.
RecordingInfoPrompt ==
    ShowsDisclaimer(store["pop"], MaxOf({store["pop"].dis, data.dis}))

\* Mutant of serverDismissedAt: by the clock of the client.
serverDismissedAt_ClientTime(r) == srv.now + past.skew

serverDismissedAt(r) == MaxOf({r.start, r.end, r.errAt, r.hostAt}) + 1

\* Dismissed in one window, and in the other one through callActions; the
\* widget's action also sets its window's data.
dismissRecordingPrompt(w) ==
    /\ Open(w) /\ IF w = "widget" THEN renderRecordingDisclaimer ELSE RecordingInfoPrompt
    /\ done < MaxDone /\ done' = done + 1
    /\ LET d == serverDismissedAt(store[w])
       IN  /\ store' = [x \in Windows |-> IF Open(x) THEN [store[x] EXCEPT !.dis = d] ELSE store[x]]
           /\ data' = [data EXCEPT !.dis = d]
    /\ past' = [past EXCEPT !.seen = MaxOf({@, store[w].last}),
                            !.late = @ \/ (store[w].hostAt < srv.moved /\ srv.moved <= store[w].last)]
    /\ UNCHANGED <<srv, lag, al, pop>>

\* The badge: the recording is on, or about to be, which the host is shown.
renderRecordingBadge(w) ==
    LET r == store[w] IN r.init # 0 /\ r.end = 0 /\ (r.host \/ r.start # 0) /\ ~r.err

-----------------------------------------------------------------------------
(* The server                                                              *)

\* Events are more than a millisecond apart.
Event(e) ==
    /\ srv.now < 2 * MaxEvents
    /\ \A w \in Windows : Len(lag[w]) < MaxLag
    /\ lag' = [w \in Windows |-> IF Open(w) THEN Append(lag[w], e) ELSE lag[w]]
    /\ UNCHANGED <<store, al, data, pop, past, done>>
Publish(rec) ==
    LET t == srv.now + 2
    IN  /\ srv' = [srv EXCEPT !.now = t, !.rec = rec]
        /\ Event([k |-> "rec", at |-> t, rec |-> rec, host |-> FALSE])

Off == [init |-> 0, start |-> 0, end |-> 0, err |-> FALSE]
Going == srv.rec.init # 0 /\ srv.rec.end = 0

\* The host's request is accepted and the job initialised; the recorder joins.
RecordingInitialised ==
    ~Going /\ Publish([Off EXCEPT !.init = srv.now + 2])
RecordingStarts ==
    Going /\ srv.rec.start = 0 /\ Publish([srv.rec EXCEPT !.start = srv.now + 2])

\* The recording is stopped, or fails.
RecordingEnds(err) ==
    Going /\ Publish([srv.rec EXCEPT !.end = srv.now + 2, !.err = err])

HostChanges ==
    LET t == srv.now + 2
    IN  /\ srv' = [srv EXCEPT !.now = t, !.host = ~@, !.moved = t]
        /\ Event([k |-> "host", at |-> t, rec |-> Off, host |-> ~srv.host])

-----------------------------------------------------------------------------
(* Events reach a window                                                   *)

\* handleCallJobState: an error gets the client's time.  CALL_RECORDING_STATE
\* merges, so that error_at stays.
handleCallJobState(w, e, now) ==
    [store[w] EXCEPT !.init = e.rec.init, !.start = e.rec.start, !.end = e.rec.end, !.err = e.rec.err,
                     !.errAt = IF e.rec.err THEN now ELSE @, !.last = e.at]

\* handleCallHostChanged: the change gets the client's time.
handleCallHostChanged(w, e, now) ==
    [store[w] EXCEPT !.host = e.host, !.hostAt = now, !.last = e.at]

\* loadCallState: the recording if it is active, and the host.
loadCallState(w, e) ==
    [store[w] EXCEPT !.init = e.rec.init, !.start = e.rec.start, !.end = e.rec.end, !.err = e.rec.err,
                     !.host = e.host, !.last = e.at]

\* late records that a stamp is not the time of the event.
Receive(w) ==
    /\ lag[w] # <<>> /\ lag' = [lag EXCEPT ![w] = Tail(@)]
    /\ LET e == Head(lag[w])
           now == srv.now + past.skew
       IN  /\ store' = [store EXCEPT ![w] =
                           CASE e.k = "rec" -> handleCallJobState(w, e, now)
                             [] e.k = "host" -> handleCallHostChanged(w, e, now)
                             [] e.k = "state" -> loadCallState(w, e)]
           /\ past' = [past EXCEPT !.late = @ \/ ((e.k = "host" \/ e.rec.err) /\ now # e.at)]
    /\ UNCHANGED <<srv, al, data, pop, done>>

\* onRecordToggle, the shortcut and the slash command: the server refuses, and
\* this window's store loses the recording it had.
startCallRecording(w) ==
    /\ Open(w) /\ store[w].init = 0
    /\ done < MaxDone /\ done' = done + 1
    /\ store' = [store EXCEPT ![w] = [@ EXCEPT !.init = 0, !.start = 0, !.end = 0, !.err = TRUE,
                                              !.errAt = srv.now + past.skew]]
    /\ past' = [past EXCEPT !.late = @ \/ past.skew # 0 \/ lag[w] # <<>> \/ store[w].last # srv.now,
                            !.refused = TRUE]
    /\ UNCHANGED <<srv, lag, al, data, pop>>

-----------------------------------------------------------------------------
(* Alerts                                                                  *)

\* Sets or clears the alerts of a as they should be, in the state s.
SetAlerts(s, a, on) ==
    [active |-> IF on THEN s.active \cup a ELSE s.active \ a,
     show |-> IF on THEN s.show \cup a ELSE s.show \ a]
NoAlerts == [active |-> {}, show |-> {}]

Client == done < MaxDone /\ done' = done + 1 /\ UNCHANGED <<srv, lag, store>>

\* Mutant of setMissingScreenPermissions: the other window is not told.
setMissingScreenPermissions_Own(w, missing) ==
    /\ al' = [al EXCEPT ![w] = SetAlerts(@, {"screen"}, missing)]
    /\ data' = [data EXCEPT !.noScreen = IF w = "widget" THEN missing ELSE @]

\* The widget forwards to the pop-out, and the pop-out to the widget, whose
\* window remembers it.
setMissingScreenPermissions(w, missing) ==
    /\ al' = [x \in Windows |-> IF Open(x) THEN SetAlerts(al[x], {"screen"}, missing) ELSE al[x]]
    /\ data' = [data EXCEPT !.noScreen = missing]

\* Sharing the screen from w is granted or refused.
shareScreen(w, refused) ==
    /\ Client /\ Open(w)
    /\ setMissingScreenPermissions(w, refused)
    /\ UNCHANGED <<pop, past>>

\* AudioInputPermissionsError, which only the widget listens to.
AudioRefused ==
    /\ Client
    /\ al' = [al EXCEPT !["widget"] = SetAlerts(@, {"micPermissions"}, TRUE)]
    /\ past' = [past EXCEPT !.micRefused = TRUE]
    /\ UNCHANGED <<data, pop>>

\* The events devicechange and initaudio of initAudio are one batch.
initaudio ==
    /\ Client
    /\ al' = [w \in Windows |-> IF Open(w) THEN SetAlerts(al[w], {"micPermissions"}, FALSE) ELSE al[w]]
    /\ past' = [past EXCEPT !.micRefused = FALSE]
    /\ UNCHANGED <<data, pop>>

\* devicechange, after a devicefallback in the same batch if the current
\* microphone went: the widget's banner about the fallback is lost.  The
\* pop-out changes its alerts twice, and loses the first change if the page
\* that hosts it batches.
devicechange(mics, cams) ==
    /\ Client
    /\ LET d(s) == SetAlerts(SetAlerts(s, {"mic"}, ~mics), {"cam"}, ~cams)
       IN  \E p \in {d(al["pop"]), SetAlerts(al["pop"], {"cam"}, ~cams)} :
              al' = [widget |-> d(al["widget"]), pop |-> IF pop = "open" THEN p ELSE al["pop"]]
    /\ UNCHANGED <<data, pop, past>>

\* mos: a bad call shows the alert, unless it was dismissed a moment ago.
mos(bad) ==
    /\ Client
    /\ al' = [w \in Windows |->
                 IF Open(w) /\ w \notin past.locked /\ bad # ("quality" \in al[w].show)
                 THEN SetAlerts(al[w], {"quality"}, bad) ELSE al[w]]
    /\ UNCHANGED <<data, pop, past>>

\* The close button of a banner hides it; the alert stays active.
renderAlertBanners(w) ==
    \E a \in al[w].show :
       /\ Client /\ Open(w)
       /\ al' = [al EXCEPT ![w].show = @ \ {a}]
       /\ past' = [past EXCEPT !.locked = IF a = "quality" THEN @ \cup {w} ELSE @]
       /\ UNCHANGED <<data, pop>>

Unlocked(w) ==
    /\ w \in past.locked /\ past' = [past EXCEPT !.locked = @ \ {w}]
    /\ UNCHANGED <<srv, lag, store, al, data, pop, done>>

-----------------------------------------------------------------------------
(* Windows and calls                                                       *)

Fresh == [init |-> 0, start |-> 0, end |-> 0, err |-> FALSE, errAt |-> 0, dis |-> 0,
          host |-> FALSE, hostAt |-> 0, last |-> 0]   \* hostAt 0: the start of the call

\* The pop-out mounts: it asks for the state of the call, and its alerts are
\* those of the last setState of componentDidMount.
PopoutMounts(noTrack) ==
    /\ pop = "none" /\ done < MaxDone /\ done' = done + 1
    /\ pop' = "open"
    /\ store' = [store EXCEPT !["pop"] = Fresh]
    /\ lag' = [lag EXCEPT !["pop"] = <<[k |-> "state", at |-> srv.now, rec |-> IF Going THEN srv.rec ELSE Off,
                                        host |-> srv.host]>>]
    /\ al' = [al EXCEPT !["pop"] = IF data.noScreen THEN SetAlerts(NoAlerts, {"screen"}, TRUE)
                                   ELSE SetAlerts(NoAlerts, {"micPermissions"}, noTrack)]
    /\ UNCHANGED <<srv, data, past>>

PopoutCloses ==
    /\ pop = "open" /\ pop' = "none"
    /\ lag' = [lag EXCEPT !["pop"] = <<>>]
    /\ past' = [past EXCEPT !.locked = @ \ {"pop"}]
    /\ UNCHANGED <<srv, store, al, data, done>>

\* The call ends and another one begins.  window.currentCallData is deleted
\* and set to CurrentCallDataDefault, the very object the last call wrote to.
NextCall ==
    /\ done < MaxDone /\ done' = done + 1
    /\ srv' = [srv EXCEPT !.rec = Off, !.host = FALSE, !.moved = 0]
    /\ store' = [w \in Windows |-> Fresh]
    /\ lag' = [w \in Windows |-> <<>>]
    /\ al' = [w \in Windows |-> NoAlerts]
    /\ pop' = "none"
    /\ past' = [past EXCEPT !.locked = {}, !.micRefused = FALSE, !.carried = @ \/ data.noScreen, !.seen = 0]
    /\ UNCHANGED data

-----------------------------------------------------------------------------
\* kinds: the events of the server, or those of the client.
PromptStart(skew, kinds) ==
    /\ srv = [now |-> 2, rec |-> Off, host |-> FALSE, moved |-> 0]
    /\ lag = [w \in Windows |-> <<>>] /\ store = [w \in Windows |-> Fresh]
    /\ al = [w \in Windows |-> NoAlerts]
    /\ data = [dis |-> 0, noScreen |-> FALSE] /\ pop = "none" /\ done = 0
    /\ past = [skew |-> skew, kinds |-> kinds, late |-> FALSE, seen |-> 0, refused |-> FALSE,
               locked |-> {}, micRefused |-> FALSE, carried |-> FALSE]

PromptInit == \E skew \in Skews, kinds \in {"rec", "alerts"} : PromptStart(skew, kinds)

PromptNext ==
    \/ /\ past.kinds = "rec"
       /\ \/ RecordingInitialised \/ RecordingStarts \/ RecordingEnds(TRUE) \/ RecordingEnds(FALSE) \/ HostChanges
          \/ \E w \in Windows : Receive(w) \/ dismissRecordingPrompt(w) \/ startCallRecording(w)
    \/ /\ past.kinds = "alerts"
       /\ \/ AudioRefused \/ initaudio
          \/ \E b \in BOOLEAN : mos(b) \/ \E c \in BOOLEAN : devicechange(b, c)
          \/ \E w \in Windows : renderAlertBanners(w) \/ Unlocked(w) \/ \E b \in BOOLEAN : shareScreen(w, b)
    \/ \E b \in BOOLEAN : PopoutMounts(b)
    \/ PopoutCloses \/ NextCall

PromptSpec == PromptInit /\ [][PromptNext]_promptVars

-----------------------------------------------------------------------------
\* The types; a window's store is never ahead of the server.
PromptTypeOK ==
    /\ \A w \in Windows : store[w].last <= srv.now /\ al[w].show \subseteq al[w].active
    /\ pop \in {"none", "open"} /\ past.locked \subseteq Windows

\* What the user should be told in window w: the start of a recording until it
\* was dismissed, again as the new host; its end, as the host; an error.
News(w) ==
    LET r == store[w]
        new(t) == t > past.seen
    IN  /\ r.start # 0 \/ r.err
        /\ hasRecEnded(r) => r.host
        /\ \/ r.errAt # 0 /\ new(r.errAt)
           \/ ~hasRecEnded(r) /\ (new(r.start) \/ (r.host /\ r.hostAt # 0 /\ new(r.hostAt)))
           \/ hasRecEnded(r) /\ new(r.end) /\ ~(r.hostAt > r.end)

\* clock_skew.ts:15, "A new server-side event (recording restart, host change,
\* error) will have a timestamp greater than this value, causing the banner to
\* re-appear as expected": each window shows the disclaimer exactly when there
\* is news since the user last dismissed it in any of them, through restarts,
\* new hosts, errors and pop-outs that open later; nobody is recorded without
\* being told.  The exceptions: a stamp of the client that is not the server's
\* time (error_at and hostChangeAt are Date.now(), so that a clock that is
\* ahead hides the disclaimer of the next recording); a prompt dismissed in a
\* pop-out that was opened after the host changed, whose hostChangeAt is the
\* start of the call, so that the widget keeps its own; and a window whose
\* store lost the recording to a refused request.
PromptFollowsNews ==
    ~past.late /\ ~past.refused =>
        /\ lag["widget"] = <<>> => (renderRecordingDisclaimer <=> News("widget"))
        /\ pop = "open" /\ lag["pop"] = <<>> => (RecordingInfoPrompt <=> News("pop"))

\* Both windows agree on whether the screen can be shared, whichever of them
\* asked and whenever the pop-out was opened; and the widget's alert about the
\* microphone's permission follows the last answer of the browser.  The
\* exception, carried: CurrentCallDataDefault is one object for all calls, so
\* that a pop-out of a later call starts with the alert of an earlier one.
AlertsCurrent ==
    /\ ~past.carried /\ pop = "open" =>
          ("screen" \in al["widget"].active <=> "screen" \in al["pop"].active)
    /\ "micPermissions" \in al["widget"].active <=> past.micRefused

=============================================================================

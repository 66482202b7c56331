----------------------------- MODULE CallMedia -----------------------------
(***************************************************************************)
(* The microphone, the camera and the screen of one CallsClient            *)
(* (webapp/src/client.ts).                                                 *)
(*                                                                         *)
(* Every operation is an asynchronous method: what it does before its      *)
(* first await is one action, and what follows an answer of the browser is *)
(* another, which uses what the method read before.  Operations that wait  *)
(* are the members of ops.  The library's RTCPeer is external: it keeps a  *)
(* sender for each track it was given, under the id of the track.          *)
(***************************************************************************)
EXTENDS Naturals, Sequences, FiniteSets

CONSTANTS
    Mics,       \* ids of the audio input devices, numbers
    Scopes,     \* bound: the kinds a user uses in one call, a set of sets
    MaxUses,    \* bound: buttons pressed, devices plugged or unplugged
    MaxWaiting  \* bound: operations that wait at the same time

\* The number 0 stands for no device.
ASSUME MediaAssumption == Mics \in SUBSET (Nat \ {0})

VARIABLES
    m,      \* the fields of the client, the tracks and what the user is shown
    ops,    \* the operations that wait for an answer of the browser
    scope,  \* the kinds the user uses, for Scopes
    uses    \* for MaxUses

mediaVars == <<m, ops, scope, uses>>

-----------------------------------------------------------------------------
(* Tracks.  A canvas (kind "blur") stops the camera src it draws when it   *)
(* ends; stray marks what cleanup cannot know.                             *)

Opened(s, k, dev, stray) ==
    [s EXCEPT !.trk = Append(@, [k |-> k, live |-> TRUE, on |-> TRUE, dev |-> dev, src |-> 0, stray |-> stray])]
New(s) == Len(s.trk) + 1
Stop(s, ts) ==
    LET all == ts \cup {s.trk[t].src : t \in ts}
    IN  [s EXCEPT !.trk = [t \in DOMAIN @ |-> IF t \in all THEN [@[t] EXCEPT !.live = FALSE] ELSE @[t]]]
Enable(s, t, on) == [s EXCEPT !.trk[t].on = on]
Keep(s, t) == [s EXCEPT !.streams = @ \cup {t}]

\* RTCPeer: senders by the id of a track, 0 for the track null.
addTrack(s, t) == [s EXCEPT !.senders = [i \in DOMAIN @ \cup {t} |-> IF i = t THEN t ELSE @[i]]]
HasSender(s, id) == id \in DOMAIN s.senders
replaceTrack(s, id, t) ==
    [s EXCEPT !.senders = IF t = 0 THEN [@ EXCEPT ![id] = 0]
                          ELSE [i \in (DOMAIN @ \ {id}) \cup {t} |-> IF i = t THEN t ELSE @[i]]]
removeTrack(s, t) == [s EXCEPT !.senders = [i \in DOMAIN @ \ {t} |-> @[i]]]

\* Tracks of kind k that the peer sends.
Sent(s, ks) == {t \in {s.senders[i] : i \in DOMAIN s.senders} \ {0} :
                   s.trk[t].k \in ks /\ s.trk[t].live /\ s.trk[t].on}

-----------------------------------------------------------------------------
(* Operations that wait                                                    *)

Kinds == {"mic", "cam", "scr"}
Op(k, at, next, dev, old, on) ==
    [id |-> uses, k |-> k, at |-> at, next |-> next, dev |-> dev, old |-> old, on |-> on, late |-> FALSE]
Busy(k) == \E o \in ops : o.k = k

\* An operation on k begins; past.k says that two of them overlapped.
Begins(s, k) == [s EXCEPT !.past[k] = @ \/ Busy(k)]
Use(k) == k \in scope /\ uses < MaxUses /\ uses' = uses + 1 /\ UNCHANGED scope
Does(s) == m' = s /\ UNCHANGED <<ops>>
Waits(s, o) == Cardinality(ops) < MaxWaiting /\ m' = s /\ ops' = ops \cup {o}
Goes(s, o, p) == m' = s /\ ops' = (ops \ {o}) \cup {p} /\ UNCHANGED <<scope, uses>>
Ends(s, o) == m' = s /\ ops' = ops \ {o} /\ UNCHANGED <<scope, uses>>
Fail(s, k) == [s EXCEPT !.past.failed = @ \cup {k}]

-----------------------------------------------------------------------------
(* Microphone                                                              *)

First(ds) == CHOOSE d \in ds : \A e \in ds : d <= e

\* The stored device, if it is plugged in.
getSelectedAudioDevice(s) == IF s.sel \in s.plugged THEN s.sel ELSE 0

\* initAudio without a device asks for the permission first.
initAudio(dev, next) == Op("mic", IF dev = 0 THEN "perm" ELSE "open", next, dev, 0, FALSE)

\* Permission is given; the stream is stopped and the selected device opened.
MicPermission(o) ==
    /\ o.at = "perm" /\ m.plugged # {}
    /\ LET d == getSelectedAudioDevice(m)
       IN  Goes([m EXCEPT !.stream = TRUE, !.cur = IF d = 0 THEN @ ELSE d], o, [o EXCEPT !.at = "open", !.dev = d])

\* The rest of unmute, for a client that has a track: the sender gets the
\* track again, or a sender is made and the operation waits for it.
Unmuted(s) == [Enable(s, s.audio, TRUE) EXCEPT !.shown.mic = ~s.closed]
UnmuteRest(s) ==
    IF s.voiceAdded /\ HasSender(s, s.audio) THEN Unmuted(replaceTrack(s, s.audio, s.audio))
    ELSE IF s.voiceAdded THEN s ELSE addTrack(s, s.audio)
Adds(s) == s.peer /\ ~s.voiceAdded

\* The last getUserMedia of initAudio is answered.
MicOpened(o) ==
    /\ o.k = "mic" /\ o.at = "open" /\ m.plugged # {}
    /\ o.dev # 0 => o.dev \in m.plugged
    /\ LET t == New(m)
           d == IF o.dev = 0 THEN First(m.plugged) ELSE o.dev
           s == [Keep(Enable(Opened(m, "mic", d, o.late), t, FALSE), t) EXCEPT !.audio = t, !.stream = TRUE]
       IN  IF o.next = "unmute" /\ s.peer
           THEN IF Adds(s) THEN Goes(UnmuteRest(s), o, [o EXCEPT !.at = "add"]) ELSE Ends(UnmuteRest(s), o)
           ELSE Ends(s, o)

\* The browser refuses: no device, no permission.
MicRefused(o) ==
    /\ o.k = "mic" /\ o.at \in {"perm", "open", "switch"}
    /\ Ends([Fail(m, "mic") EXCEPT !.init = IF o.next = "init" THEN "failed" ELSE @], o)

\* peer.addTrack of unmute is done.
MicAdded(o) ==
    /\ o.k = "mic" /\ o.at = "add"
    /\ Ends(Unmuted([m EXCEPT !.voiceAdded = TRUE]), o)

unmute ==
    /\ m.peer /\ Use("mic")
    /\ LET s == Begins(m, "mic")
       IN  IF m.audio = 0 THEN Waits(s, initAudio(0, "unmute"))
           ELSE IF Adds(m) THEN Waits(UnmuteRest(s), Op("mic", "add", "unmute", 0, 0, FALSE))
           ELSE Does(UnmuteRest(s))

\* Mutant of mute: the track is only disabled once the sender has let it go.
mute_SenderOnly ==
    /\ m.peer /\ m.audio # 0 /\ m.stream /\ Use("mic")
    /\ HasSender(m, m.audio)
    /\ Does([Begins(m, "mic") EXCEPT !.shown.mic = FALSE])

\* A button, or the host.  A missing sender is an error of the library, which
\* mute survives if it comes as a rejected promise.
mute ==
    /\ m.peer /\ m.audio # 0 /\ m.stream /\ Use("mic")
    /\ LET s == Begins(m, "mic")
           off(r) == [Enable(r, m.audio, FALSE) EXCEPT !.shown.mic = FALSE]
       IN  \/ HasSender(m, m.audio) /\ Does(off(replaceTrack(s, m.audio, 0)))
           \/ ~HasSender(m, m.audio) /\ (Does(off(s)) \/ Does(s))

\* setAudioInputDevice, by the user (kept) or as a fallback.  The new track
\* will be enabled if the old one is now.
setAudioInputDevice(s, d, kept) ==
    [Begins(s, "mic") EXCEPT !.cur = d, !.sel = IF kept THEN d ELSE @]
SwitchOp(s, d) ==
    IF s.audio = 0 \/ ~s.stream THEN initAudio(d, "none")
    ELSE Op("mic", "switch", "none", d, s.audio, s.trk[s.audio].on)

PickMic(d) ==
    /\ m.peer /\ d \in m.plugged /\ Use("mic")
    /\ Waits(setAudioInputDevice(m, d, TRUE), SwitchOp(m, d))

\* The new microphone is open: the old track stops and the sender gets the
\* new one.  A client without a peer, or a sender that is gone, is an error
\* that leaves audioTrack as it is.
MicSwitched(o) ==
    /\ o.at = "switch" /\ o.k = "mic" /\ o.dev \in m.plugged
    /\ LET t == New(m)
           s == Enable(Stop(Keep(Opened(m, "mic", o.dev, o.late), t), {o.old}), t, o.on)
       IN  Ends(IF ~o.on THEN [s EXCEPT !.audio = t, !.voiceAdded = FALSE]
                ELSE IF s.peer /\ HasSender(s, o.old) THEN [replaceTrack(s, o.old, t) EXCEPT !.audio = t]
                ELSE Fail(s, "mic"), o)

\* A microphone is plugged in or out: its tracks end, and onDeviceChange runs.
DeviceChange(d) ==
    /\ ~m.closed /\ Use("mic")
    /\ LET out == d \in m.plugged
           s == IF out THEN Fail(Stop(m, {t \in DOMAIN m.trk : m.trk[t].k = "mic" /\ m.trk[t].dev = d}), "mic") ELSE m
       IN  Waits([Begins(s, "mic") EXCEPT !.plugged = IF out THEN @ \ {d} ELSE @ \cup {d}],
                 Op("mic", "enum", "none", 0, 0, FALSE))

\* Mutant of handleAudioDeviceFallback: it does not come back.
handleAudioDeviceFallback_OneWay(s) ==
    IF s.cur \notin s.plugged /\ s.plugged # {} THEN First(s.plugged) ELSE 0

\* The device to switch to after a change, or 0: the first one if the current
\* one is gone, or the selected one when it is back.
handleAudioDeviceFallback(s) ==
    LET selected == getSelectedAudioDevice(s)
    IN  IF s.cur \notin s.plugged /\ s.plugged # {} THEN First(s.plugged)
        ELSE IF selected # 0 /\ selected # s.cur THEN selected ELSE 0

\* updateDevices: the devices are there.  setAudioInputDevice needs a peer.
updateDevices(o) ==
    /\ o.at = "enum"
    /\ LET d == IF m.cur = 0 THEN 0 ELSE handleAudioDeviceFallback(m)
       IN  IF d = 0 \/ ~m.peer THEN Ends([m EXCEPT !.past.early = @ \/ d # 0], o)
           ELSE Goes([m EXCEPT !.cur = d], o, [SwitchOp(m, d) EXCEPT !.id = o.id, !.late = o.late])

-----------------------------------------------------------------------------
(* Camera                                                                  *)

\* initBgBackgroundTrack, on the camera t of the stream: a canvas takes its
\* place unless there is a segmenter already.
initBgBackgroundTrack(s, t) ==
    IF ~s.blur \/ s.seg # 0 THEN s
    ELSE LET c == New(s)
             p == Keep(Opened(s, "blur", 0, s.trk[t].stray), c)
         IN  [p EXCEPT !.trk[c].src = t, !.seg = c]
VideoTrack(s, t) == IF s.blur /\ s.seg = 0 THEN New(s) ELSE t

\* The rest of startVideo for the stream with track t: the sender gets the
\* track, or one is made and the operation waits for it.
VideoOn(s) == [s EXCEPT !.shown.cam = TRUE]
StartRest(s0) ==
    LET t == VideoTrack(s0, s0.video)
        s == [initBgBackgroundTrack(Enable(s0, s0.video, TRUE), s0.video) EXCEPT !.video = t]
    IN  IF ~s.videoAdded THEN addTrack(s, t)
        ELSE IF HasSender(s, s.vsender) THEN VideoOn([replaceTrack(s, s.vsender, t) EXCEPT !.vsender = t])
        ELSE Fail(s, "cam")
AddsVideo(s) == ~s.videoAdded

startVideo ==
    /\ m.peer /\ Use("cam")
    /\ LET s == Begins(m, "cam")
       IN  IF m.video = 0 THEN Waits(s, Op("cam", "open", "start", 0, 0, FALSE))
           ELSE IF AddsVideo(m)
           THEN Waits(StartRest(s), Op("cam", "add", "start", 0, VideoTrack(m, m.video), FALSE))
           ELSE Does(StartRest(s))

\* getUserMedia of initVideo is answered.  At the start of the client and for
\* a new device, the camera is only asked for and stopped at once.
initVideo(o) ==
    /\ o.k = "cam" /\ o.at = "open"
    /\ IF o.next # "start" THEN Ends(m, o)
       ELSE LET t == New(m)
                s == [Keep(Enable(Opened(m, "cam", 0, o.late), t, FALSE), t) EXCEPT !.video = t]
            IN  IF ~s.peer THEN Ends(Fail([initBgBackgroundTrack(Enable(s, t, TRUE), t) EXCEPT
                                              !.video = VideoTrack(s, t)], "cam"), o)
                ELSE IF AddsVideo(s) THEN Goes(StartRest(s), o, [o EXCEPT !.at = "add", !.old = VideoTrack(s, t)])
                ELSE Ends(StartRest(s), o)

VideoRefused(o) ==
    /\ o.k = "cam" /\ o.at \in {"open", "switch"}
    /\ Ends([Fail(m, "cam") EXCEPT !.init = IF o.next = "init" THEN "failed" ELSE @], o)

\* peer.addTrack of startVideo is done; a stream that is gone is an error.
VideoAdded(o) ==
    /\ o.k = "cam" /\ o.at = "add"
    /\ LET s == [m EXCEPT !.videoAdded = TRUE, !.vsender = o.old]
       IN  Ends(IF s.video = 0 \/ s.closed THEN Fail(s, "cam") ELSE VideoOn(s), o)

\* Mutant of stopVideo: the track is disabled and the camera stays open.
stopVideo_Disables ==
    /\ m.peer /\ m.video # 0 /\ Use("cam")
    /\ LET s == Begins(m, "cam")
       IN  /\ HasSender(m, m.vsender)
           /\ Does([Enable(replaceTrack(s, m.vsender, 0), m.video, FALSE) EXCEPT
                       !.seg = 0, !.video = 0, !.shown.cam = FALSE])

stopVideo ==
    /\ m.peer /\ m.video # 0 /\ Use("cam")
    /\ LET s == Begins(m, "cam")
           off(r) == [Stop(r, {m.video}) EXCEPT !.seg = 0, !.video = 0, !.shown.cam = FALSE]
       IN  \/ HasSender(m, m.vsender) /\ Does(off(replaceTrack(s, m.vsender, 0)))
           \/ ~HasSender(m, m.vsender) /\ (Does(off(s)) \/ Does(s))

\* The operation of setVideoInputDevice: it remembers the track and whether it
\* is enabled.
setVideoInputDevice(s) ==
    IF s.video = 0 THEN Op("cam", "open", "none", 0, 0, FALSE)
    ELSE Op("cam", "switch", "none", s.seg, s.video, s.trk[s.video].on)

PickCamera ==
    /\ m.peer /\ Use("cam")
    /\ Waits(Begins(m, "cam"), setVideoInputDevice(m))

\* The new camera is open.  A segmenter that is there keeps the new track raw.
VideoSwitched(o) ==
    /\ o.k = "cam" /\ o.at = "switch"
    /\ LET t == New(m)
           s1 == Keep(Opened(m, "cam", 0, o.late), t)
           nt == VideoTrack(s1, t)
           s2 == Stop(initBgBackgroundTrack(s1, t), {o.old})
           s3 == [s2 EXCEPT !.seg = IF o.dev # 0 /\ ~s2.blur THEN 0 ELSE @,
                            !.past.raw = @ \/ (m.blur /\ m.seg # 0)]
           s4 == Enable([s3 EXCEPT !.video = nt], nt, o.on)
       IN  Ends(IF s3.video = 0 THEN Fail(s3, "cam")
                ELSE IF ~o.on THEN [s4 EXCEPT !.videoAdded = FALSE]
                ELSE IF s4.peer /\ HasSender(s4, o.old) THEN [replaceTrack(s4, o.old, nt) EXCEPT !.vsender = nt]
                ELSE Fail(s4, "cam"), o)

\* Mutant of setBlurSettings: the camera is not opened again.
setBlurSettings_StoredOnly(b) ==
    /\ m.peer /\ b # m.blur /\ Use("cam")
    /\ Does([Begins(m, "cam") EXCEPT !.blur = b])

\* The settings store the choice; the video is opened again if it changes.
setBlurSettings(b) ==
    /\ m.peer /\ b # m.blur /\ Use("cam")
    /\ LET s == [Begins(m, "cam") EXCEPT !.blur = b]
       IN  IF b = (m.seg # 0) \/ m.video = 0 THEN Does(s)
           ELSE Waits(s, setVideoInputDevice(m))

-----------------------------------------------------------------------------
(* Screen                                                                  *)

shareScreen ==
    /\ m.peer /\ Use("scr")
    /\ Waits(Begins(m, "scr"), Op("scr", "pick", "none", 0, 0, FALSE))

\* setScreenStream, for what the user picked; a client that shares already,
\* or has closed, drops it.
setScreenStream(o) ==
    /\ o.at = "pick"
    /\ LET t == New(m)
       IN  Ends(IF ~m.peer \/ m.screen # 0 THEN Opened(m, "scr", 0, TRUE)
                ELSE [addTrack(Keep(Opened(m, "scr", 0, o.late), t), t) EXCEPT !.screen = t, !.shown.scr = TRUE], o)

ScreenRefused(o) == o.at = "pick" /\ Ends(m, o)

\* unshareScreen, by the user or the host, and the end of the track in the
\* browser: onended removes the track and then tells the server.
unshareScreen ==
    /\ m.peer /\ m.screen # 0 /\ Use("scr")
    /\ Waits([Stop(Begins(m, "scr"), {m.screen}) EXCEPT !.screen = 0],
             Op("scr", "off", "none", 0, m.screen, FALSE))

ScreenRemoved(o) ==
    /\ o.at = "off"
    /\ Ends(IF m.closed THEN m ELSE [removeTrack(m, o.old) EXCEPT !.shown.scr = FALSE], o)

-----------------------------------------------------------------------------
(* The client                                                              *)

\* init has its microphone and camera, or one of them was refused, and the
\* server lets the client in.
Joins ==
    /\ ~m.peer /\ ~m.closed
    /\ m.init = "failed" \/ ~\E o \in ops : o.next = "init"
    /\ m' = [m EXCEPT !.peer = TRUE, !.init = "done"] /\ UNCHANGED <<ops, scope, uses>>

\* Mutant of cleanup: the tracks of the microphone and the camera only.
cleanup_NoScreen(s) == Stop(s, s.streams \cap {s.audio, s.video})

cleanup(s) == Stop(s, s.streams)

\* disconnect; the answers that are on their way come late.
Disconnects ==
    /\ ~m.closed
    /\ m' = [cleanup(m) EXCEPT !.closed = TRUE, !.peer = FALSE, !.senders = <<>>, !.screen = 0,
                               !.shown = [mic |-> FALSE, cam |-> FALSE, scr |-> FALSE]]
    /\ ops' = {[o EXCEPT !.late = TRUE] : o \in ops}
    /\ UNCHANGED <<scope, uses>>

\* init goes on after the client was closed, and cleans up again.
InitAfterClose ==
    /\ m.closed /\ m.init = "asked" /\ ~\E o \in ops : o.next = "init"
    /\ m' = [cleanup(m) EXCEPT !.init = "done"] /\ UNCHANGED <<ops, scope, uses>>

-----------------------------------------------------------------------------
\* init has asked for the microphone, and for the camera if the configuration
\* has enableVideo, which a user who uses it needs.
MediaStart(sel, blur, kinds) ==
    /\ uses = 0 /\ scope = kinds
    /\ m = [trk |-> <<>>, senders |-> <<>>, streams |-> {}, audio |-> 0, stream |-> FALSE, voiceAdded |-> FALSE,
            video |-> 0, videoAdded |-> FALSE, vsender |-> 0, seg |-> 0, screen |-> 0, blur |-> blur,
            peer |-> FALSE, closed |-> FALSE, init |-> "asked", cur |-> 0, sel |-> sel, plugged |-> Mics,
            shown |-> [mic |-> FALSE, cam |-> FALSE, scr |-> FALSE],
            past |-> [mic |-> FALSE, cam |-> FALSE, scr |-> FALSE, failed |-> {}, raw |-> FALSE, early |-> FALSE]]
    /\ ops = {Op(k, IF k = "mic" THEN "perm" ELSE "open", "init", 0, 0, FALSE) :
                 k \in {"mic"} \cup (kinds \cap {"cam"})}

MediaInit ==
    \E kinds \in Scopes, sel \in Mics \cup {0}, b \in BOOLEAN :
       /\ b => "cam" \in kinds
       /\ MediaStart(sel, b, kinds)

MediaNext ==
    \/ \E o \in ops :
          \/ MicPermission(o) \/ MicOpened(o) \/ MicRefused(o) \/ MicAdded(o) \/ MicSwitched(o) \/ updateDevices(o)
          \/ initVideo(o) \/ VideoRefused(o) \/ VideoAdded(o) \/ VideoSwitched(o)
          \/ setScreenStream(o) \/ ScreenRefused(o) \/ ScreenRemoved(o)
    \/ unmute \/ mute \/ startVideo \/ stopVideo \/ PickCamera \/ shareScreen \/ unshareScreen
    \/ \E d \in Mics : PickMic(d) \/ DeviceChange(d)
    \/ \E b \in BOOLEAN : setBlurSettings(b)
    \/ Joins \/ Disconnects \/ InitAfterClose

MediaSpec == MediaInit /\ [][MediaNext]_mediaVars

-----------------------------------------------------------------------------
\* The types of the client's fields; the fields that name a track name one
\* that was opened, of the right kind.
MediaTypeOK ==
    /\ m.audio # 0 => m.trk[m.audio].k = "mic"
    /\ m.video # 0 => m.trk[m.video].k \in {"cam", "blur"}
    /\ m.screen # 0 => m.trk[m.screen].k = "scr"
    /\ \A i \in DOMAIN m.senders : i \in DOMAIN m.trk /\ m.senders[i] \in {0, i}
    /\ {m.cur, m.sel} \subseteq Mics \cup {0} /\ m.plugged \subseteq Mics
    /\ {m.peer, m.closed, m.stream, m.voiceAdded, m.videoAdded, m.blur} \subseteq BOOLEAN

Settled1(k) == ~Busy(k) /\ ~m.past[k]

\* client.ts:921, "upon muting we actually stop sending packets": what the peer
\* sends follows the button, through mutes by the host, devices that come and go
\* and senders that are replaced.  The exceptions: operations on the microphone
\* that overlapped (setAudioInputDevice enables the new track although mute came
\* in between), and silence after a device failed.
MicFollowsButton ==
    m.peer /\ Settled1("mic") =>
        /\ Sent(m, {"mic"}) # {} => m.shown.mic
        /\ m.shown.mic => Sent(m, {"mic"}) # {} \/ "mic" \in m.past.failed

\* handleAudioDeviceFallback: after any changes of the devices, a client that
\* uses a chosen microphone uses the selected one if it is there, and one that
\* is there if it is not.  The exception, past.early: a change before there is
\* a peer, which setAudioInputDevice ignores.
SelectedMicUsed ==
    m.peer /\ Settled1("mic") /\ ~m.past.early /\ m.cur # 0 /\ m.plugged # {} =>
        m.cur = (IF m.sel \in m.plugged THEN m.sel ELSE m.cur) /\ m.cur \in m.plugged

\* client.ts:1183, "Fully stop and release the camera device so its hardware
\* indicator (LED) turns off": no camera is open while the video is off, with
\* or without blur, and after the camera was switched.  The exception:
\* operations on the camera that overlapped (two starts, or a switch that is
\* answered after the stop, leave a camera open until the call ends).
CameraReleased ==
    m.peer /\ Settled1("cam") /\ ~m.shown.cam =>
        \A t \in DOMAIN m.trk : m.trk[t].k \in {"cam", "blur"} => ~m.trk[t].live

\* A user who asked for a blurred background is not seen without it.  The
\* exceptions: a camera the browser refused, which goes on as it was, and
\* past.raw: initBgBackgroundTrack returns the camera itself when a
\* segmenter is there, which is the case when a blurred camera is switched.
BlurKept ==
    m.peer /\ Settled1("cam") /\ m.blur /\ ~m.past.raw /\ "cam" \notin m.past.failed => Sent(m, {"cam"}) = {}

\* disconnect and cleanup: once the client is closed nothing is captured, except
\* by what the browser granted after the close, and by a second screen that
\* setScreenStream dropped without stopping it.
CapturesReleased ==
    m.closed => \A t \in DOMAIN m.trk : m.trk[t].live => m.trk[t].stray

=============================================================================

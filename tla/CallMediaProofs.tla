-------------------------- MODULE CallMediaProofs --------------------------
(***************************************************************************)
(* Proofs about the microphone, the camera and the screen of a client: for *)
(* any devices and any number of operations that wait, what is sent is     *)
(* what the buttons show, and what was opened is released.                 *)
(***************************************************************************)
EXTENDS CallMedia, WellFoundedInduction, SequenceTheorems, TLAPS

-----------------------------------------------------------------------------
(* Types *)

Video == {"cam", "blur"}
Track ==
    [k : {"mic", "cam", "blur", "scr"}, live : BOOLEAN, on : BOOLEAN, dev : Nat, src : Nat, stray : BOOLEAN]
Senders == UNION {[D -> Nat] : D \in SUBSET Nat}
Shown == [mic : BOOLEAN, cam : BOOLEAN, scr : BOOLEAN]
Past == [mic : BOOLEAN, cam : BOOLEAN, scr : BOOLEAN, failed : SUBSET Kinds, raw : BOOLEAN, early : BOOLEAN]

Media ==
    [trk : Seq(Track), senders : Senders, streams : SUBSET Nat, audio : Nat, stream : BOOLEAN,
     voiceAdded : BOOLEAN, video : Nat, videoAdded : BOOLEAN, vsender : Nat, seg : Nat, screen : Nat,
     blur : BOOLEAN, peer : BOOLEAN, closed : BOOLEAN, init : {"asked", "failed", "done"},
     cur : Nat, sel : Nat, plugged : SUBSET Nat, shown : Shown, past : Past]

Waiting ==
    [id : Nat, k : Kinds, at : {"perm", "open", "switch", "enum", "add", "pick", "off"},
     next : {"init", "unmute", "none", "start"}, dev : Nat, old : Nat, on : BOOLEAN, late : BOOLEAN]

Typed ==
    /\ m \in Media /\ ops \subseteq Waiting /\ uses \in Nat
    /\ m.plugged \subseteq Mics /\ m.sel \in Mics \cup {0} /\ m.cur \in Mics \cup {0}
    /\ \A o \in ops : /\ o.at \in {"perm", "enum"} => o.k = "mic"
                      /\ o.at \in {"pick", "off"} <=> o.k = "scr"
                      /\ o.k = "mic" /\ o.at \in {"open", "switch"} => o.dev \in Mics \cup {0}

\* Every field that names a track names one of the right kind.
IsA(t, ks) == t \in DOMAIN m.trk /\ m.trk[t].k \in ks
Named ==
    /\ m.audio # 0 => IsA(m.audio, {"mic"})
    /\ m.video # 0 => IsA(m.video, Video)
    /\ m.screen # 0 => IsA(m.screen, {"scr"})
    /\ \A t \in DOMAIN m.trk : m.trk[t].src # 0 => m.trk[t].k = "blur" /\ IsA(m.trk[t].src, Video)
    /\ \A i \in DOMAIN m.senders : i \in DOMAIN m.trk /\ m.senders[i] \in {0, i}
    /\ m.videoAdded \/ m.vsender # 0 => IsA(m.vsender, Video)
    /\ \A o \in ops : /\ o.k = "mic" /\ o.at = "switch" => IsA(o.old, {"mic"})
                      /\ o.k = "mic" /\ o.at = "add" => m.audio # 0
                      /\ o.k = "cam" /\ o.at \in {"switch", "add"} => IsA(o.old, Video)
                      /\ o.at = "off" => IsA(o.old, {"scr"})

-----------------------------------------------------------------------------
(* What is kept *)

\* cleanup knows the tracks that are not stray, and after a close the answers
\* of the browser are late.
Released ==
    /\ \A t \in DOMAIN m.trk : m.trk[t].live /\ ~m.trk[t].stray => t \in m.streams
    /\ m.closed => /\ ~m.peer /\ \A o \in ops : o.late
                   /\ \A t \in DOMAIN m.trk : m.trk[t].live => m.trk[t].stray

\* At most one operation on k waits.
Alone(k) == \A o, p \in ops : o.k = k /\ p.k = k => o = p

\* The track of the microphone is on only while the button shows it, it is the
\* only one that is sent, and the operation that waits is about it.
MicTrack ==
    /\ m.audio # 0 => m.stream /\ (m.trk[m.audio].live \/ "mic" \in m.past.failed)
    /\ m.audio # 0 /\ m.trk[m.audio].on => m.shown.mic
    /\ m.shown.mic => m.audio # 0
    /\ m.shown.mic => "mic" \in m.past.failed \/ (m.trk[m.audio].on /\ m.audio \in DOMAIN m.senders /\ m.senders[m.audio] = m.audio)
    /\ \A i \in DOMAIN m.senders :
          m.trk[i].k = "mic" /\ m.senders[i] # 0 /\ m.trk[i].live /\ m.trk[i].on => i = m.audio
MicWaits(o) ==
    /\ o.at \in {"perm", "open"} => m.audio = 0
    /\ o.at = "switch" => o.old = m.audio /\ o.on = m.trk[m.audio].on
    /\ o.at = "add" => m.audio # 0 /\ m.audio \in DOMAIN m.senders /\ m.senders[m.audio] = m.audio
MicSteady ==
    ~m.past.mic => /\ Alone("mic")
                   /\ ~m.closed => MicTrack /\ \A o \in ops : o.k = "mic" => MicWaits(o)

\* The microphone in use fits the devices, or a change of them is being handled
\* and either the microphone in use is there, or the selected one is not, or is
\* the only one.
Fits == m.cur # 0 /\ m.plugged # {} => m.cur \in m.plugged /\ (m.sel \in m.plugged => m.cur = m.sel)
Changed == m.cur # 0 => m.cur \in m.plugged \/ m.sel \notin m.plugged \/ m.plugged = {m.sel}
MicChosen ==
    ~m.past.mic /\ ~m.past.early => IF \E o \in ops : o.at = "enum" THEN Changed ELSE Fits

\* The camera that is open is the one that is shown, or the one whose canvas
\* is, and the operation that waits is about it.
CamTrack ==
    /\ m.videoAdded => m.vsender \in DOMAIN m.senders
    /\ m.shown.cam => m.video # 0 /\ m.videoAdded /\ m.vsender = m.video
    /\ m.video # 0 => /\ m.trk[m.video].on /\ m.peer
                      /\ m.shown.cam \/ \E o \in ops : o.k = "cam" /\ o.at = "add"
                      /\ m.trk[m.video].k = "blur" => m.seg # 0
    /\ m.video = 0 => m.seg = 0
    /\ \A t \in DOMAIN m.trk : m.trk[t].k \in Video /\ m.trk[t].live =>
          m.video # 0 /\ t \in {m.video, m.trk[m.video].src}
    /\ \A i \in DOMAIN m.senders : m.trk[i].k \in Video /\ m.senders[i] # 0 => i = m.video
CamWaits(o) ==
    /\ o.next = "start" => m.peer
    /\ o.at = "open" => m.video = 0
    /\ o.at = "switch" => o.old = m.video /\ o.old # 0 /\ o.on /\ o.dev = m.seg
    /\ o.at = "add" => m.video # 0 /\ o.old = m.video /\ m.video \in DOMAIN m.senders
CamSteady ==
    ~m.past.cam => /\ Alone("cam")
                   /\ ~m.closed => CamTrack /\ \A o \in ops : o.k = "cam" => CamWaits(o)

\* A video has its canvas exactly when there is a segmenter, and that is when
\* the user wants one, unless a change of that is being handled.
CamBlurred ==
    ~m.past.cam /\ ~m.closed /\ ~m.past.raw /\ "cam" \notin m.past.failed /\ m.video # 0 =>
       /\ m.seg # 0 => m.trk[m.video].k = "blur"
       /\ m.blur => m.seg # 0 \/ \E o \in ops : o.k = "cam" /\ o.at = "switch"

MediaInv ==
    Typed /\ Named /\ Released /\ MicSteady /\ MicChosen /\ CamSteady /\ CamBlurred

-----------------------------------------------------------------------------
(* Facts about the operators of the model *)

LEMMA FirstOf ==
    ASSUME NEW ds \in SUBSET Nat, ds # {}
    PROVE  First(ds) \in ds
<1>1. PICK d \in ds : \A e \in ds : <<e, d>> \notin OpToRel(<, Nat)
  BY NatLessThanWellFounded, WFMin
<1>2. ASSUME NEW e \in ds PROVE d <= e
  <2>1. <<e, d>> \in Nat \X Nat /\ <<e, d>>[1] = e /\ <<e, d>>[2] = d
    OBVIOUS
  <2>2. ~(<<e, d>>[1] < <<e, d>>[2])
    BY <1>1, <2>1 DEF OpToRel
  <2> QED BY <2>1, <2>2
<1> QED BY <1>2 DEF First

\* The fields of a client other than its tracks, senders and streams.
SameRest(r, s) ==
    /\ r.audio = s.audio /\ r.stream = s.stream /\ r.voiceAdded = s.voiceAdded
    /\ r.video = s.video /\ r.videoAdded = s.videoAdded /\ r.vsender = s.vsender /\ r.seg = s.seg
    /\ r.screen = s.screen /\ r.blur = s.blur /\ r.peer = s.peer /\ r.closed = s.closed /\ r.init = s.init
    /\ r.cur = s.cur /\ r.sel = s.sel /\ r.plugged = s.plugged /\ r.shown = s.shown /\ r.past = s.past

LEMMA TrackSeq ==
    ASSUME NEW q \in Seq(Track)
    PROVE  /\ DOMAIN q = 1 .. Len(q) /\ Len(q) \in Nat /\ \A i \in DOMAIN q : q[i] \in Track
           /\ \A f \in [DOMAIN q -> Track] : f \in Seq(Track)
           /\ \A x \in Track :
                 /\ Append(q, x) \in Seq(Track) /\ DOMAIN Append(q, x) = DOMAIN q \cup {Len(q) + 1}
                 /\ \A i \in DOMAIN q : Append(q, x)[i] = q[i]
                 /\ Append(q, x)[Len(q) + 1] = x
<1>1. \A f \in [DOMAIN q -> Track] : f \in Seq(Track)
  BY SeqDef
<1>2. DOMAIN q = 1 .. Len(q) /\ Len(q) \in Nat /\ \A i \in DOMAIN q : q[i] \in Track
  OBVIOUS
<1>3. ASSUME NEW x \in Track
      PROVE  /\ Append(q, x) \in Seq(Track) /\ DOMAIN Append(q, x) = DOMAIN q \cup {Len(q) + 1}
             /\ \A i \in DOMAIN q : Append(q, x)[i] = q[i]
             /\ Append(q, x)[Len(q) + 1] = x
  OBVIOUS
<1> QED BY <1>1, <1>2, <1>3

LEMMA OpenedFacts ==
    ASSUME NEW s \in Media, NEW k \in {"mic", "cam", "blur", "scr"}, NEW dev \in Nat, NEW stray \in BOOLEAN,
           NEW r, r = Opened(s, k, dev, stray)
    PROVE  /\ r \in Media /\ SameRest(r, s) /\ r.senders = s.senders /\ r.streams = s.streams
           /\ DOMAIN r.trk = DOMAIN s.trk \cup {New(s)}
           /\ New(s) \notin DOMAIN s.trk /\ New(s) \in Nat \ {0}
           /\ \A t \in DOMAIN s.trk : r.trk[t] = s.trk[t]
           /\ r.trk[New(s)] = [k |-> k, live |-> TRUE, on |-> TRUE, dev |-> dev, src |-> 0, stray |-> stray]
<1> DEFINE x == [k |-> k, live |-> TRUE, on |-> TRUE, dev |-> dev, src |-> 0, stray |-> stray]
<1>1. s.trk \in Seq(Track) /\ x \in Track
  BY DEF Media, Track
<1> HIDE DEF x
<1>2. r = [s EXCEPT !.trk = Append(s.trk, x)]
  BY DEF Opened, x
<1>3. /\ Append(s.trk, x) \in Seq(Track) /\ DOMAIN Append(s.trk, x) = DOMAIN s.trk \cup {Len(s.trk) + 1}
      /\ \A i \in DOMAIN s.trk : Append(s.trk, x)[i] = s.trk[i]
      /\ Append(s.trk, x)[Len(s.trk) + 1] = x
      /\ DOMAIN s.trk = 1 .. Len(s.trk) /\ Len(s.trk) \in Nat
  BY <1>1, TrackSeq
<1>4. r \in Media /\ SameRest(r, s) /\ r.senders = s.senders /\ r.streams = s.streams /\ r.trk = Append(s.trk, x)
  BY <1>2, <1>3, ZenonT(40) DEF Media, SameRest
<1> QED BY <1>3, <1>4 DEF New, x

\* r is s with track t enabled or disabled.
Switched(r, s, t) ==
    /\ r \in Media /\ SameRest(r, s) /\ r.senders = s.senders /\ r.streams = s.streams
    /\ DOMAIN r.trk = DOMAIN s.trk
    /\ \A i \in DOMAIN s.trk :
          /\ r.trk[i].k = s.trk[i].k /\ r.trk[i].live = s.trk[i].live
          /\ r.trk[i].src = s.trk[i].src /\ r.trk[i].stray = s.trk[i].stray
          /\ i # t => r.trk[i] = s.trk[i]

LEMMA EnableFacts ==
    ASSUME NEW s \in Media, NEW t, NEW on \in BOOLEAN, NEW r, r = Enable(s, t, on)
    PROVE  Switched(r, s, t) /\ (t \in DOMAIN s.trk => r.trk[t].on = on)
<1> DEFINE f == [s.trk EXCEPT ![t].on = on]
<1>1. s.trk \in Seq(Track) /\ \A i \in DOMAIN s.trk : s.trk[i] \in Track
  BY TrackSeq DEF Media
<1>2. DOMAIN f = DOMAIN s.trk
  OBVIOUS
<1>3. ASSUME NEW i \in DOMAIN s.trk
      PROVE  /\ f[i] \in Track
             /\ f[i].k = s.trk[i].k /\ f[i].live = s.trk[i].live
             /\ f[i].src = s.trk[i].src /\ f[i].stray = s.trk[i].stray
             /\ i = t => f[i].on = on
             /\ i # t => f[i] = s.trk[i]
  <2>1. s.trk[i] \in Track
    BY <1>1
  <2>2. f[i] = IF i = t THEN [s.trk[i] EXCEPT !.on = on] ELSE s.trk[i]
    OBVIOUS
  <2> HIDE DEF f
  <2> QED BY <2>1, <2>2 DEF Track
<1>4. f \in Seq(Track)
  <2>1. f = [i \in DOMAIN s.trk |-> f[i]]
    OBVIOUS
  <2> HIDE DEF f
  <2>2. f \in [DOMAIN s.trk -> Track]
    BY <1>3, <2>1
  <2> QED BY <1>1, <2>2, TrackSeq
<1>5. r = [s EXCEPT !.trk = f]
  BY DEF Enable
<1> HIDE DEF f
<1>6. r \in Media /\ SameRest(r, s) /\ r.senders = s.senders /\ r.streams = s.streams /\ r.trk = f
  BY <1>4, <1>5, SMTT(30) DEF Media, SameRest
<1> QED BY <1>2, <1>3, <1>6 DEF Switched

LEMMA StopFacts ==
    ASSUME NEW s \in Media, NEW ts \in SUBSET DOMAIN s.trk, NEW r, r = Stop(s, ts)
    PROVE  /\ r \in Media /\ SameRest(r, s) /\ r.senders = s.senders /\ r.streams = s.streams
           /\ DOMAIN r.trk = DOMAIN s.trk
           /\ \A i \in DOMAIN s.trk :
                 /\ r.trk[i].k = s.trk[i].k /\ r.trk[i].on = s.trk[i].on
                 /\ r.trk[i].src = s.trk[i].src /\ r.trk[i].stray = s.trk[i].stray
                 /\ r.trk[i].live <=> s.trk[i].live /\ i \notin ts /\ \A t \in ts : s.trk[t].src # i
                 /\ i \notin ts /\ (\A t \in ts : s.trk[t].src # i) => r.trk[i] = s.trk[i]
<1> DEFINE all == ts \cup {s.trk[t].src : t \in ts}
           f == [t \in DOMAIN s.trk |-> IF t \in all THEN [s.trk[t] EXCEPT !.live = FALSE] ELSE s.trk[t]]
<1>1. s.trk \in Seq(Track) /\ \A i \in DOMAIN s.trk : s.trk[i] \in Track
  BY TrackSeq DEF Media
<1>2. DOMAIN f = DOMAIN s.trk
  OBVIOUS
<1>3. ASSUME NEW i \in DOMAIN s.trk
      PROVE  /\ f[i] \in Track
             /\ f[i].k = s.trk[i].k /\ f[i].on = s.trk[i].on
             /\ f[i].src = s.trk[i].src /\ f[i].stray = s.trk[i].stray
             /\ f[i].live <=> s.trk[i].live /\ i \notin all
             /\ i \notin all => f[i] = s.trk[i]
  <2>1. s.trk[i] \in Track
    BY <1>1
  <2>2. f[i] = IF i \in all THEN [s.trk[i] EXCEPT !.live = FALSE] ELSE s.trk[i]
    OBVIOUS
  <2> HIDE DEF f, all
  <2> QED BY <2>1, <2>2 DEF Track
<1>4. f \in Seq(Track)
  <2> HIDE DEF all
  <2>1. f \in [DOMAIN s.trk -> Track]
    BY <1>3
  <2> HIDE DEF f
  <2> QED BY <1>1, <2>1, TrackSeq
<1>5. r = [s EXCEPT !.trk = f]
  BY DEF Stop
<1> HIDE DEF f
<1>6. r \in Media /\ SameRest(r, s) /\ r.senders = s.senders /\ r.streams = s.streams /\ r.trk = f
  BY <1>4, <1>5, SMTT(30) DEF Media, SameRest
<1>7. ASSUME NEW i PROVE i \in all <=> i \in ts \/ \E t \in ts : s.trk[t].src = i
  OBVIOUS
<1> HIDE DEF all
<1> QED BY <1>2, <1>3, <1>6, <1>7

LEMMA SendersFacts ==
    /\ \A f \in Senders : DOMAIN f \in SUBSET Nat /\ \A i \in DOMAIN f : f[i] \in Nat
    /\ \A D \in SUBSET Nat : \A f \in [D -> Nat] : f \in Senders
<1>1. ASSUME NEW f \in Senders PROVE DOMAIN f \in SUBSET Nat /\ \A i \in DOMAIN f : f[i] \in Nat
  <2>1. PICK D \in SUBSET Nat : f \in [D -> Nat]
    BY DEF Senders
  <2> QED BY <2>1
<1>2. ASSUME NEW D \in SUBSET Nat, NEW f \in [D -> Nat] PROVE f \in Senders
  BY DEF Senders
<1> QED BY <1>1, <1>2

LEMMA addTrackFacts ==
    ASSUME NEW s \in Media, NEW t \in Nat, NEW r, r = addTrack(s, t)
    PROVE  /\ r \in Media /\ SameRest(r, s) /\ r.trk = s.trk /\ r.streams = s.streams
           /\ DOMAIN r.senders = DOMAIN s.senders \cup {t} /\ r.senders[t] = t
           /\ \A i \in DOMAIN s.senders : i # t => r.senders[i] = s.senders[i]
<1> DEFINE D == DOMAIN s.senders \cup {t}
           f == [i \in D |-> IF i = t THEN t ELSE s.senders[i]]
<1>1. D \in SUBSET Nat /\ \A i \in DOMAIN s.senders : s.senders[i] \in Nat
  BY SendersFacts DEF Media
<1>2. f \in [D -> Nat]
  BY <1>1
<1>3. f \in Senders /\ DOMAIN f = D /\ f[t] = t /\ \A i \in DOMAIN s.senders : i # t => f[i] = s.senders[i]
  <2>1. f \in Senders
    <3> HIDE DEF f, D
    <3> QED BY <1>1, <1>2, SendersFacts
  <2> QED BY <2>1
<1>4. r = [s EXCEPT !.senders = f]
  BY DEF addTrack
<1> HIDE DEF f
<1>5. r \in Media /\ SameRest(r, s) /\ r.trk = s.trk /\ r.streams = s.streams /\ r.senders = f
  BY <1>3, <1>4, ZenonT(40) DEF Media, SameRest
<1> QED BY <1>3, <1>5

LEMMA replaceTrackFacts ==
    ASSUME NEW s \in Media, NEW id \in Nat, NEW t \in Nat, NEW r, r = replaceTrack(s, id, t)
    PROVE  /\ r \in Media /\ SameRest(r, s) /\ r.trk = s.trk /\ r.streams = s.streams
           /\ t = 0 => /\ DOMAIN r.senders = DOMAIN s.senders
                       /\ id \in DOMAIN s.senders => r.senders[id] = 0
                       /\ \A i \in DOMAIN s.senders : i # id => r.senders[i] = s.senders[i]
           /\ t # 0 => /\ DOMAIN r.senders = (DOMAIN s.senders \ {id}) \cup {t} /\ r.senders[t] = t
                       /\ \A i \in DOMAIN s.senders : i \notin {id, t} => r.senders[i] = s.senders[i]
<1> DEFINE D == (DOMAIN s.senders \ {id}) \cup {t}
           f == [s.senders EXCEPT ![id] = 0]
           g == [i \in D |-> IF i = t THEN t ELSE s.senders[i]]
<1>1. DOMAIN s.senders \in SUBSET Nat /\ D \in SUBSET Nat /\ \A i \in DOMAIN s.senders : s.senders[i] \in Nat
  BY SendersFacts DEF Media
<1>2. /\ f \in Senders /\ DOMAIN f = DOMAIN s.senders /\ (id \in DOMAIN s.senders => f[id] = 0)
      /\ \A i \in DOMAIN s.senders : i # id => f[i] = s.senders[i]
  <2>1. f = [i \in DOMAIN s.senders |-> IF i = id THEN 0 ELSE s.senders[i]]
    OBVIOUS
  <2> HIDE DEF f
  <2>2. f \in [DOMAIN s.senders -> Nat]
    BY <1>1, <2>1
  <2>3. f \in Senders
    BY <1>1, <2>2, SendersFacts
  <2> QED BY <2>1, <2>3
<1>3. /\ g \in Senders /\ DOMAIN g = D /\ g[t] = t
      /\ \A i \in DOMAIN s.senders : i \notin {id, t} => g[i] = s.senders[i]
  <2>1. g \in [D -> Nat]
    BY <1>1
  <2>2. g \in Senders
    <3> HIDE DEF g, D
    <3> QED BY <1>1, <2>1, SendersFacts
  <2> QED BY <2>2
<1>4. r = [s EXCEPT !.senders = IF t = 0 THEN f ELSE g]
  BY DEF replaceTrack
<1> HIDE DEF f, g
<1>5. r \in Media /\ SameRest(r, s) /\ r.trk = s.trk /\ r.streams = s.streams /\ r.senders = IF t = 0 THEN f ELSE g
  BY <1>2, <1>3, <1>4, SMTT(30) DEF Media, SameRest
<1> QED BY <1>2, <1>3, <1>5

LEMMA removeTrackFacts ==
    ASSUME NEW s \in Media, NEW t \in Nat, NEW r, r = removeTrack(s, t)
    PROVE  /\ r \in Media /\ SameRest(r, s) /\ r.trk = s.trk /\ r.streams = s.streams
           /\ DOMAIN r.senders = DOMAIN s.senders \ {t}
           /\ \A i \in DOMAIN r.senders : r.senders[i] = s.senders[i]
<1> DEFINE D == DOMAIN s.senders \ {t}
           f == [i \in D |-> s.senders[i]]
<1>1. D \in SUBSET Nat /\ \A i \in DOMAIN s.senders : s.senders[i] \in Nat
  BY SendersFacts DEF Media
<1>2. f \in [D -> Nat]
  BY <1>1
<1>3. f \in Senders /\ DOMAIN f = D /\ \A i \in D : f[i] = s.senders[i]
  <2>1. f \in Senders
    <3> HIDE DEF f, D
    <3> QED BY <1>1, <1>2, SendersFacts
  <2> QED BY <2>1
<1>4. r = [s EXCEPT !.senders = f]
  BY DEF removeTrack
<1> HIDE DEF f
<1>5. r \in Media /\ SameRest(r, s) /\ r.trk = s.trk /\ r.streams = s.streams /\ r.senders = f
  BY <1>3, <1>4, ZenonT(40) DEF Media, SameRest
<1> QED BY <1>3, <1>5

LEMMA KeepFacts ==
    ASSUME NEW s \in Media, NEW t \in Nat, NEW r, r = Keep(s, t)
    PROVE  /\ r \in Media /\ SameRest(r, s) /\ r.trk = s.trk /\ r.senders = s.senders
           /\ r.streams = s.streams \cup {t}
  BY DEF Keep, Media, SameRest

\* What begins, and what failed, is only noted.
NotedOnly(r, s) ==
    /\ r.trk = s.trk /\ r.senders = s.senders /\ r.streams = s.streams
    /\ r.audio = s.audio /\ r.stream = s.stream
    /\ r.video = s.video /\ r.videoAdded = s.videoAdded /\ r.vsender = s.vsender /\ r.seg = s.seg
    /\ r.screen = s.screen /\ r.blur = s.blur /\ r.peer = s.peer /\ r.closed = s.closed
    /\ r.shown = s.shown /\ r.past.raw = s.past.raw
ChoiceKept(r, s) ==
    /\ r.cur = s.cur /\ r.sel = s.sel /\ r.plugged = s.plugged /\ r.past.early = s.past.early
    /\ r.voiceAdded = s.voiceAdded /\ r.init = s.init

LEMMA BeginsFacts ==
    ASSUME NEW s \in Media, NEW k \in Kinds, NEW r, r = Begins(s, k)
    PROVE  /\ r \in Media /\ NotedOnly(r, s) /\ ChoiceKept(r, s) /\ r.past.failed = s.past.failed
           /\ r.past[k] <=> s.past[k] \/ Busy(k)
           /\ \A j \in Kinds : j # k => r.past[j] = s.past[j]
<1>1. s.past \in Past /\ s.past[k] \in BOOLEAN
  BY DEF Media, Past, Kinds
<1>2. Busy(k) \in BOOLEAN
  BY DEF Busy
<1>3. r = [s EXCEPT !.past = [s.past EXCEPT ![k] = s.past[k] \/ Busy(k)]]
  BY DEF Begins
<1>4. /\ [s.past EXCEPT ![k] = s.past[k] \/ Busy(k)] \in Past
      /\ [s.past EXCEPT ![k] = s.past[k] \/ Busy(k)][k] = (s.past[k] \/ Busy(k))
      /\ [s.past EXCEPT ![k] = s.past[k] \/ Busy(k)].failed = s.past.failed
      /\ [s.past EXCEPT ![k] = s.past[k] \/ Busy(k)].raw = s.past.raw
      /\ [s.past EXCEPT ![k] = s.past[k] \/ Busy(k)].early = s.past.early
      /\ \A j \in Kinds : j # k => [s.past EXCEPT ![k] = s.past[k] \/ Busy(k)][j] = s.past[j]
  BY <1>1, <1>2 DEF Past, Kinds
<1>5. r \in Media /\ NotedOnly(r, s) /\ ChoiceKept(r, s) /\ r.past = [s.past EXCEPT ![k] = s.past[k] \/ Busy(k)]
  BY <1>3, <1>4, ZenonT(40) DEF Media, NotedOnly, ChoiceKept
<1> QED BY <1>4, <1>5

LEMMA FailFacts ==
    ASSUME NEW s \in Media, NEW k \in Kinds, NEW r, r = Fail(s, k)
    PROVE  /\ r \in Media /\ NotedOnly(r, s) /\ ChoiceKept(r, s) /\ r.past.failed = s.past.failed \cup {k}
           /\ \A j \in Kinds : r.past[j] = s.past[j]
<1>1. s.past \in Past
  BY DEF Media
<1>2. r = [s EXCEPT !.past = [s.past EXCEPT !.failed = s.past.failed \cup {k}]]
  BY DEF Fail
<1>3. /\ [s.past EXCEPT !.failed = s.past.failed \cup {k}] \in Past
      /\ [s.past EXCEPT !.failed = s.past.failed \cup {k}].failed = s.past.failed \cup {k}
      /\ [s.past EXCEPT !.failed = s.past.failed \cup {k}].raw = s.past.raw
      /\ [s.past EXCEPT !.failed = s.past.failed \cup {k}].early = s.past.early
      /\ \A j \in Kinds : [s.past EXCEPT !.failed = s.past.failed \cup {k}][j] = s.past[j]
  BY <1>1 DEF Past, Kinds
<1>4. r \in Media /\ NotedOnly(r, s) /\ ChoiceKept(r, s) /\ r.past = [s.past EXCEPT !.failed = s.past.failed \cup {k}]
  BY <1>2, <1>3, ZenonT(40) DEF Media, NotedOnly, ChoiceKept
<1> QED BY <1>3, <1>4

LEMMA MediaFacts ==
    ASSUME MediaInv
    PROVE  /\ m \in Media /\ ops \subseteq Waiting /\ uses \in Nat
           /\ DOMAIN m.trk \subseteq Nat /\ 0 \notin DOMAIN m.trk
           /\ \A t \in DOMAIN m.trk : m.trk[t] \in Track
           /\ DOMAIN m.senders \subseteq DOMAIN m.trk
<1>1. m \in Media /\ ops \subseteq Waiting /\ uses \in Nat /\ DOMAIN m.senders \subseteq DOMAIN m.trk
  BY DEF MediaInv, Typed, Named
<1>2. m.trk \in Seq(Track)
  BY <1>1 DEF Media
<1>3. DOMAIN m.trk = 1 .. Len(m.trk) /\ Len(m.trk) \in Nat /\ \A t \in DOMAIN m.trk : m.trk[t] \in Track
  BY <1>2, TrackSeq
<1> QED BY <1>1, <1>3

-----------------------------------------------------------------------------
(* Steps that do not concern a part of the invariant *)

\* Tracks stay what they are, and what has ended stays ended.
TracksKept ==
    \A t \in DOMAIN m.trk :
       /\ t \in DOMAIN m'.trk /\ m'.trk[t].k = m.trk[t].k /\ m'.trk[t].src = m.trk[t].src
       /\ m'.trk[t].stray = m.trk[t].stray /\ (m'.trk[t].live => m.trk[t].live)

\* The tracks of kinds ks and their senders are as they were.
SameTracks(ks) ==
    /\ \A t \in DOMAIN m.trk : m.trk[t].k \in ks =>
          /\ t \in DOMAIN m'.trk /\ m'.trk[t] = m.trk[t]
          /\ t \in DOMAIN m.senders <=> t \in DOMAIN m'.senders
          /\ t \in DOMAIN m.senders => m'.senders[t] = m.senders[t]
    /\ \A t \in DOMAIN m'.trk : m'.trk[t].k \in ks => t \in DOMAIN m.trk /\ m.trk[t].k \in ks

SameOps(k) == \A o : o.k = k => (o \in ops <=> o \in ops')

\* Nothing about the microphone, or the camera, changes.
MicStill ==
    /\ SameTracks({"mic"}) /\ SameOps("mic")
    /\ m'.audio = m.audio /\ m'.stream = m.stream /\ m'.shown.mic = m.shown.mic /\ m'.closed = m.closed
    /\ m'.past.mic = m.past.mic /\ m'.past.early = m.past.early
    /\ "mic" \in m.past.failed => "mic" \in m'.past.failed
    /\ m'.cur = m.cur /\ m'.sel = m.sel /\ m'.plugged = m.plugged
CamStill ==
    /\ SameTracks(Video) /\ SameOps("cam")
    /\ m'.video = m.video /\ m'.videoAdded = m.videoAdded /\ m'.vsender = m.vsender /\ m'.seg = m.seg
    /\ m'.blur = m.blur /\ m'.shown.cam = m.shown.cam /\ m'.closed = m.closed
    /\ m'.past.cam = m.past.cam /\ m'.past.raw = m.past.raw
    /\ "cam" \in m.past.failed => "cam" \in m'.past.failed
    /\ m.peer => m'.peer

LEMMA MicStillKept ==
    ASSUME MediaInv, Typed', Named', MicStill
    PROVE  MicSteady' /\ MicChosen'
<1>1. Alone("mic") => Alone("mic")'
  BY DEF Alone, MicStill, SameOps
<1>2. m.audio # 0 => m.audio \in DOMAIN m.trk /\ m'.trk[m.audio] = m.trk[m.audio]
  BY DEF MediaInv, Named, IsA, MicStill, SameTracks
<1>3. ASSUME MicTrack PROVE MicTrack'
  <2>1. m.audio # 0 => m'.trk[m'.audio] = m.trk[m.audio] /\ m.trk[m.audio].k = "mic"
    BY <1>2 DEF MediaInv, Named, IsA, MicStill
  <2>2. m.audio # 0 => /\ m.audio \in DOMAIN m.senders <=> m.audio \in DOMAIN m'.senders
                       /\ m.audio \in DOMAIN m.senders => m'.senders[m.audio] = m.senders[m.audio]
    BY <1>2, <2>1 DEF MicStill, SameTracks
  <2>3. ASSUME NEW i \in DOMAIN m'.senders, m'.trk[i].k = "mic"
        PROVE  /\ i \in DOMAIN m.senders /\ m'.senders[i] = m.senders[i] /\ m'.trk[i] = m.trk[i]
    <3>1. i \in DOMAIN m'.trk
      BY DEF Named
    <3> QED BY <2>3, <3>1 DEF MicStill, SameTracks
  <2> QED BY <1>3, <2>1, <2>2, <2>3 DEF MicTrack, MicStill
<1>4. ASSUME NEW o \in ops', o.k = "mic", MicWaits(o) PROVE MicWaits(o)'
  <2>1. o \in ops
    BY <1>4 DEF MicStill, SameOps
  <2>2. o.at = "switch" => IsA(o.old, {"mic"})
    BY <1>4, <2>1 DEF MediaInv, Named
  <2>3. m.audio # 0 => /\ m.trk[m.audio].k = "mic"
                       /\ m.audio \in DOMAIN m.senders <=> m.audio \in DOMAIN m'.senders
                       /\ m.audio \in DOMAIN m.senders => m'.senders[m.audio] = m.senders[m.audio]
    BY <1>2 DEF MediaInv, Named, IsA, MicStill, SameTracks
  <2>4. o.at = "switch" => m.audio # 0
    <3>1. 0 \notin DOMAIN m.trk
      BY MediaFacts
    <3> QED BY <1>4, <2>2, <3>1 DEF MicWaits, IsA
  <2> QED BY <1>2, <1>4, <2>3, <2>4 DEF MicWaits, MicStill
<1>5. MicSteady'
  <2>1. ASSUME ~m'.past.mic PROVE ~m.past.mic /\ Alone("mic")'
    BY <1>1, <2>1 DEF MicStill, MediaInv, MicSteady
  <2>2. ASSUME ~m'.past.mic, ~m'.closed PROVE MicTrack' /\ \A o \in ops' : o.k = "mic" => MicWaits(o)'
    <3>1. ~m.closed /\ ~m.past.mic
      BY <2>2 DEF MicStill
    <3>2. MicTrack /\ \A o \in ops : o.k = "mic" => MicWaits(o)
      BY <3>1 DEF MediaInv, MicSteady
    <3>3. \A o \in ops' : o.k = "mic" => o \in ops
      BY DEF MicStill, SameOps
    <3> QED BY <1>3, <1>4, <3>2, <3>3
  <2> QED BY <2>1, <2>2 DEF MicSteady
<1>6. MicChosen'
  <2>1. (\E o \in ops : o.at = "enum") <=> (\E o \in ops' : o.at = "enum")
    <3>1. \A o \in ops : o.at = "enum" => o.k = "mic"
      BY DEF MediaInv, Typed
    <3>2. \A o \in ops' : o.at = "enum" => o.k = "mic"
      BY DEF Typed
    <3> QED BY <3>1, <3>2 DEF MicStill, SameOps
  <2> QED BY <2>1 DEF MediaInv, MicChosen, MicStill, Fits, Changed
<1> QED BY <1>5, <1>6

LEMMA CamStillKept ==
    ASSUME MediaInv, Typed', Named', CamStill
    PROVE  CamSteady' /\ CamBlurred'
<1>1. Alone("cam") => Alone("cam")'
  BY DEF Alone, CamStill, SameOps
<1>2. m.video # 0 => m.video \in DOMAIN m.trk /\ m'.trk[m.video] = m.trk[m.video] /\ m.trk[m.video].k \in Video
  BY DEF MediaInv, Named, IsA, CamStill, SameTracks
<1>3. ASSUME NEW at
      PROVE  (\E o \in ops : o.k = "cam" /\ o.at = at) <=> (\E o \in ops' : o.k = "cam" /\ o.at = at)
  BY DEF CamStill, SameOps
<1>4. ASSUME CamTrack PROVE CamTrack'
  <2>1. m.videoAdded => m.vsender \in DOMAIN m'.senders
    BY <1>4 DEF CamTrack, MediaInv, Named, IsA, CamStill, SameTracks
  <2>2. ASSUME NEW i \in DOMAIN m'.senders, m'.trk[i].k \in Video
        PROVE  i \in DOMAIN m.senders /\ m'.senders[i] = m.senders[i] /\ m'.trk[i] = m.trk[i]
    <3>1. i \in DOMAIN m'.trk
      BY DEF Named
    <3> QED BY <2>2, <3>1 DEF CamStill, SameTracks
  <2>3. ASSUME NEW t \in DOMAIN m'.trk, m'.trk[t].k \in Video
        PROVE  t \in DOMAIN m.trk /\ m'.trk[t] = m.trk[t]
    BY <2>3 DEF CamStill, SameTracks
  <2> QED BY <1>2, <1>3, <1>4, <2>1, <2>2, <2>3 DEF CamTrack, CamStill
<1>5. ASSUME NEW o \in ops', o.k = "cam", CamWaits(o) PROVE CamWaits(o)'
  <2>1. m.video # 0 => (m.video \in DOMAIN m.senders => m.video \in DOMAIN m'.senders)
    BY <1>2 DEF CamStill, SameTracks
  <2> QED BY <1>5, <2>1 DEF CamWaits, CamStill
<1>6. CamSteady'
  <2>1. ASSUME ~m'.past.cam PROVE ~m.past.cam /\ Alone("cam")'
    BY <1>1, <2>1 DEF CamStill, MediaInv, CamSteady
  <2>2. ASSUME ~m'.past.cam, ~m'.closed PROVE CamTrack' /\ \A o \in ops' : o.k = "cam" => CamWaits(o)'
    <3>1. ~m.closed /\ ~m.past.cam
      BY <2>2 DEF CamStill
    <3>2. CamTrack /\ \A o \in ops : o.k = "cam" => CamWaits(o)
      BY <3>1 DEF MediaInv, CamSteady
    <3>3. \A o \in ops' : o.k = "cam" => o \in ops
      BY DEF CamStill, SameOps
    <3> QED BY <1>4, <1>5, <3>2, <3>3
  <2> QED BY <2>1, <2>2 DEF CamSteady
<1>7. CamBlurred'
  BY <1>2, <1>3 DEF MediaInv, CamBlurred, CamStill
<1> QED BY <1>6, <1>7

\* A step opens tracks that cleanup knows, or late.
LEMMA ReleasedKept ==
    ASSUME MediaInv, TracksKept, m'.closed = m.closed, m.closed => ~m'.peer,
           \A t \in m.streams : t \in m'.streams,
           \A t \in DOMAIN m'.trk \ DOMAIN m.trk :
              (m'.trk[t].stray \/ t \in m'.streams) /\ (m.closed => m'.trk[t].stray),
           \A o \in ops' : o \in ops \/ (m.closed => o.late)
    PROVE  Released'
  BY DEF MediaInv, Released, TracksKept

-----------------------------------------------------------------------------
(* Steps of the microphone *)

\* When operations do not overlap, the one that waits is the only one.
LEMMA OnlyOp ==
    ASSUME MediaInv, NEW k \in {"mic", "cam"}, ~m.past[k], NEW o \in ops, o.k = k
    PROVE  \A q \in ops : q.k = k => q = o
<1>1. Alone(k)
  BY DEF MediaInv, MicSteady, CamSteady
<1> QED BY <1>1 DEF Alone

LEMMA MicPermissionKept ==
    ASSUME Mics \in SUBSET (Nat \ {0}), MediaInv, NEW o \in ops, MicPermission(o)
    PROVE  MediaInv'
<1> DEFINE d == getSelectedAudioDevice(m)
           p == [o EXCEPT !.at = "open", !.dev = d]
<1>1. /\ m' = [m EXCEPT !.stream = TRUE, !.cur = IF d = 0 THEN m.cur ELSE d]
      /\ ops' = (ops \ {o}) \cup {p} /\ uses' = uses /\ o.at = "perm"
  BY DEF MicPermission, Goes
<1>2. o \in Waiting /\ o.k = "mic" /\ d \in Mics \cup {0} /\ (d # 0 => d = m.sel /\ d \in m.plugged)
      /\ (d = 0 => m.sel \notin m.plugged)
  BY <1>1 DEF MediaInv, Typed, getSelectedAudioDevice
<1> HIDE DEF d
<1>3. p \in Waiting /\ p.k = "mic" /\ p.at = "open" /\ p.dev = d /\ p.late = o.late
  <2>1. d \in Nat
    BY <1>2
  <2> QED BY <1>2, <2>1 DEF Waiting
<1> HIDE DEF p
<1>4. /\ m' \in Media /\ m'.trk = m.trk /\ m'.senders = m.senders /\ m'.streams = m.streams
      /\ m'.audio = m.audio /\ m'.stream = TRUE /\ m'.video = m.video /\ m'.videoAdded = m.videoAdded
      /\ m'.vsender = m.vsender /\ m'.seg = m.seg /\ m'.screen = m.screen /\ m'.blur = m.blur
      /\ m'.peer = m.peer /\ m'.closed = m.closed /\ m'.sel = m.sel /\ m'.plugged = m.plugged
      /\ m'.shown = m.shown /\ m'.past = m.past /\ m'.cur = IF d = 0 THEN m.cur ELSE d
  BY <1>1, <1>2, MediaFacts DEF Media
<1>5. Typed'
  BY <1>1, <1>2, <1>3, <1>4 DEF MediaInv, Typed
<1>6. Named'
  BY <1>1, <1>3, <1>4 DEF MediaInv, Named, IsA
<1>7. Released'
  <2>1. \A q \in ops' : q \in ops \/ (m.closed => q.late)
    BY <1>1, <1>3 DEF MediaInv, Released
  <2> QED BY <1>4, <2>1, ReleasedKept DEF TracksKept, MediaInv, Released
<1>8. CamStill
  BY <1>1, <1>2, <1>3, <1>4, MediaFacts DEF CamStill, SameTracks, SameOps
<1>9. MicSteady' /\ MicChosen'
  <2>1. CASE m.past.mic
    BY <1>4, <2>1 DEF MicSteady, MicChosen
  <2>2. CASE ~m.past.mic
    <3>1. \A q \in ops : q.k = "mic" => q = o
      BY <1>2, <2>2, OnlyOp
    <3>2. \A q \in ops' : q.k = "mic" => q = p
      BY <1>1, <3>1
    <3>3. MicSteady'
      BY <1>1, <1>2, <1>3, <1>4, <2>2, <3>2 DEF MediaInv, MicSteady, Alone, MicTrack, MicWaits
    <3>4. (~\E q \in ops : q.at = "enum") /\ ~\E q \in ops' : q.at = "enum"
      BY <1>1, <1>3, <1>5, <3>1, <3>2 DEF MediaInv, Typed
    <3>5. ~m.past.early => Fits
      BY <2>2, <3>4 DEF MediaInv, MicChosen
    <3>6. Fits => Fits'
      BY <1>2, <1>4 DEF Fits
    <3> QED BY <1>4, <3>3, <3>4, <3>5, <3>6 DEF MicChosen
  <2> QED BY <2>1, <2>2
<1> QED BY <1>5, <1>6, <1>7, <1>8, <1>9, CamStillKept DEF MediaInv

LEMMA MicRefusedKept ==
    ASSUME MediaInv, NEW o \in ops, MicRefused(o)
    PROVE  MediaInv'
<1> DEFINE s == Fail(m, "mic")
<1>1. /\ m' = [s EXCEPT !.init = IF o.next = "init" THEN "failed" ELSE s.init]
      /\ ops' = ops \ {o} /\ uses' = uses /\ o.k = "mic" /\ o.at \in {"perm", "open", "switch"}
  BY DEF MicRefused, Ends
<1>2. /\ s \in Media /\ NotedOnly(s, m) /\ ChoiceKept(s, m) /\ s.past.failed = m.past.failed \cup {"mic"}
      /\ s.past.mic = m.past.mic /\ s.past.cam = m.past.cam
  BY MediaFacts, FailFacts DEF Kinds
<1> HIDE DEF s
<1>3. /\ m' \in Media /\ m'.trk = m.trk /\ m'.senders = m.senders /\ m'.streams = m.streams
      /\ m'.audio = m.audio /\ m'.stream = m.stream /\ m'.video = m.video /\ m'.videoAdded = m.videoAdded
      /\ m'.vsender = m.vsender /\ m'.seg = m.seg /\ m'.screen = m.screen /\ m'.blur = m.blur
      /\ m'.peer = m.peer /\ m'.closed = m.closed /\ m'.sel = m.sel /\ m'.plugged = m.plugged
      /\ m'.cur = m.cur /\ m'.shown = m.shown /\ m'.past = s.past
  BY <1>1, <1>2 DEF Media, NotedOnly, ChoiceKept
<1>4. Typed'
  BY <1>1, <1>3 DEF MediaInv, Typed
<1>5. Named'
  BY <1>1, <1>3 DEF MediaInv, Named, IsA
<1>6. Released'
  BY <1>1, <1>3, ReleasedKept DEF TracksKept, MediaInv, Released
<1>7. CamStill
  BY <1>1, <1>2, <1>3, MediaFacts DEF CamStill, SameTracks, SameOps, NotedOnly
<1>8. MicSteady' /\ MicChosen'
  <2>1. CASE m.past.mic
    BY <1>2, <1>3, <2>1 DEF MicSteady, MicChosen
  <2>2. CASE ~m.past.mic
    <3>1. \A q \in ops' : q.k # "mic"
      BY <1>1, <2>2, OnlyOp
    <3>2. MicSteady'
      BY <1>1, <1>2, <1>3, <2>2, <3>1 DEF MediaInv, MicSteady, Alone, MicTrack
    <3>3. (~\E q \in ops : q.at = "enum") /\ ~\E q \in ops' : q.at = "enum"
      BY <1>1, <1>4, <2>2, <3>1, OnlyOp DEF MediaInv, Typed
    <3> QED BY <1>2, <1>3, <2>2, <3>2, <3>3 DEF MediaInv, MicChosen, Fits, NotedOnly, ChoiceKept
  <2> QED BY <2>1, <2>2
<1> QED BY <1>4, <1>5, <1>6, <1>7, <1>8, CamStillKept DEF MediaInv

\* r and s differ in the track and the sender of the microphone at most, and in
\* what its button shows.
VoiceOnly(r, s) ==
    /\ r \in Media /\ r.streams = s.streams /\ r.audio = s.audio /\ r.stream = s.stream
    /\ r.video = s.video /\ r.videoAdded = s.videoAdded /\ r.vsender = s.vsender /\ r.seg = s.seg
    /\ r.screen = s.screen /\ r.blur = s.blur /\ r.peer = s.peer /\ r.closed = s.closed
    /\ r.past = s.past /\ r.shown.cam = s.shown.cam
    /\ DOMAIN r.trk = DOMAIN s.trk
    /\ \A i \in DOMAIN s.trk :
          /\ r.trk[i].k = s.trk[i].k /\ r.trk[i].live = s.trk[i].live
          /\ r.trk[i].src = s.trk[i].src /\ r.trk[i].stray = s.trk[i].stray
          /\ i # s.audio => r.trk[i] = s.trk[i]
    /\ \A i : i # s.audio =>
          /\ i \in DOMAIN r.senders <=> i \in DOMAIN s.senders
          /\ i \in DOMAIN s.senders => r.senders[i] = s.senders[i]

LEMMA UnmutedFacts ==
    ASSUME NEW s \in Media, s.audio \in DOMAIN s.trk, NEW r, r = Unmuted(s)
    PROVE  /\ VoiceOnly(r, s) /\ ChoiceKept(r, s) /\ r.senders = s.senders
           /\ r.trk[s.audio].on /\ r.shown.mic = ~s.closed
<1> DEFINE e == Enable(s, s.audio, TRUE)
<1>1. Switched(e, s, s.audio) /\ e.trk[s.audio].on
  BY EnableFacts, Zenon
<1>2. r = [e EXCEPT !.shown.mic = ~s.closed]
  BY DEF Unmuted
<1> HIDE DEF e
<1>3. s.closed \in BOOLEAN /\ e.shown \in Shown
  BY <1>1 DEF Media, Switched
<1>4. /\ [e.shown EXCEPT !.mic = ~s.closed] \in Shown
      /\ [e.shown EXCEPT !.mic = ~s.closed].mic = ~s.closed
      /\ [e.shown EXCEPT !.mic = ~s.closed].cam = e.shown.cam
  BY <1>3 DEF Shown
<1>5. /\ r \in Media /\ r.trk = e.trk /\ r.senders = e.senders /\ r.streams = e.streams
      /\ r.audio = e.audio /\ r.stream = e.stream /\ r.voiceAdded = e.voiceAdded
      /\ r.video = e.video /\ r.videoAdded = e.videoAdded /\ r.vsender = e.vsender /\ r.seg = e.seg
      /\ r.screen = e.screen /\ r.blur = e.blur /\ r.peer = e.peer /\ r.closed = e.closed
      /\ r.cur = e.cur /\ r.sel = e.sel /\ r.plugged = e.plugged /\ r.past = e.past /\ r.init = e.init
      /\ r.shown = [e.shown EXCEPT !.mic = ~s.closed]
  BY <1>1, <1>2, <1>4, ZenonT(40) DEF Media, Switched
<1>6. r.trk[s.audio].on
  BY <1>1, <1>5
<1>7. VoiceOnly(r, s)
  BY <1>1, <1>4, <1>5 DEF VoiceOnly, SameRest, Switched
<1>8. r.shown.mic = ~s.closed
  BY <1>4, <1>5
<1> QED BY <1>1, <1>5, <1>6, <1>7, <1>8 DEF SameRest, Switched, ChoiceKept

LEMMA UnmuteRestFacts ==
    ASSUME NEW s \in Media, s.audio \in DOMAIN s.trk, s.audio # 0, NEW r, r = UnmuteRest(s)
    PROVE  /\ VoiceOnly(r, s) /\ ChoiceKept(r, s)
           /\ \/ r = s /\ s.voiceAdded
              \/ /\ s.voiceAdded /\ r.trk[s.audio].on /\ r.shown.mic = ~s.closed
                 /\ s.audio \in DOMAIN r.senders /\ r.senders[s.audio] = s.audio
              \/ /\ ~s.voiceAdded /\ r.trk = s.trk /\ r.shown = s.shown
                 /\ s.audio \in DOMAIN r.senders /\ r.senders[s.audio] = s.audio
<1>1. s.audio \in Nat /\ s.voiceAdded \in BOOLEAN
  BY DEF Media
<1>2. CASE s.voiceAdded /\ HasSender(s, s.audio)
  <2> DEFINE e == replaceTrack(s, s.audio, s.audio)
  <2>1. /\ e \in Media /\ SameRest(e, s) /\ e.trk = s.trk /\ e.streams = s.streams
        /\ DOMAIN e.senders = (DOMAIN s.senders \ {s.audio}) \cup {s.audio} /\ e.senders[s.audio] = s.audio
        /\ \A i \in DOMAIN s.senders : i # s.audio => e.senders[i] = s.senders[i]
    BY <1>1, replaceTrackFacts, SMTT(30)
  <2>2. r = Unmuted(e)
    BY <1>2 DEF UnmuteRest
  <2> HIDE DEF e
  <2>3. e.audio = s.audio /\ e.audio \in DOMAIN e.trk
    BY <2>1 DEF SameRest
  <2>4. /\ VoiceOnly(r, e) /\ ChoiceKept(r, e) /\ r.senders = e.senders
        /\ r.trk[e.audio].on /\ r.shown.mic = ~e.closed
    BY <2>1, <2>2, <2>3, UnmutedFacts
  <2> QED BY <1>2, <2>1, <2>3, <2>4 DEF VoiceOnly, SameRest, ChoiceKept
<1>3. CASE s.voiceAdded /\ ~HasSender(s, s.audio)
  BY <1>3 DEF UnmuteRest, VoiceOnly, ChoiceKept
<1>4. CASE ~s.voiceAdded
  <2>1. r = addTrack(s, s.audio)
    BY <1>4 DEF UnmuteRest
  <2> QED BY <1>1, <1>4, <2>1, addTrackFacts DEF VoiceOnly, SameRest, ChoiceKept
<1> QED BY <1>1, <1>2, <1>3, <1>4

\* A step that changes no more than that concerns the microphone only.
LEMMA VoiceStep ==
    ASSUME MediaInv, NEW s, NotedOnly(s, m), s.past.cam = m.past.cam, s.past.failed = m.past.failed,
           VoiceOnly(m', s),
           m.audio \in DOMAIN m'.senders => m.audio # 0 /\ m'.senders[m.audio] \in {0, m.audio},
           m'.plugged \subseteq Mics, m'.sel \in Mics \cup {0}, m'.cur \in Mics \cup {0},
           ops' \subseteq Waiting, uses' \in Nat, SameOps("cam"),
           \A o \in ops' \ ops :
              /\ o.k = "mic" /\ (m.closed => o.late) /\ o.at \notin {"pick", "off"}
              /\ o.at \in {"open", "switch"} => o.dev \in Mics \cup {0}
              /\ o.at = "switch" => IsA(o.old, {"mic"})
              /\ o.at = "add" => m.audio # 0
    PROVE  Typed' /\ Named' /\ Released' /\ CamStill /\ m'.audio = m.audio
<1>1. /\ m.audio # 0 => m.audio \in DOMAIN m.trk /\ m.trk[m.audio].k = "mic"
      /\ m'.audio = m.audio /\ DOMAIN m'.trk = DOMAIN m.trk
  BY DEF MediaInv, Named, IsA, VoiceOnly, NotedOnly
<1>2. \A i \in DOMAIN m.trk :
         /\ m'.trk[i].k = m.trk[i].k /\ m'.trk[i].live = m.trk[i].live
         /\ m'.trk[i].src = m.trk[i].src /\ m'.trk[i].stray = m.trk[i].stray
         /\ i # m.audio => m'.trk[i] = m.trk[i]
  BY DEF VoiceOnly, NotedOnly
<1>3. /\ m' \in Media /\ m'.streams = m.streams
      /\ m'.video = m.video /\ m'.videoAdded = m.videoAdded /\ m'.vsender = m.vsender /\ m'.seg = m.seg
      /\ m'.screen = m.screen /\ m'.blur = m.blur /\ m'.peer = m.peer /\ m'.closed = m.closed
      /\ m'.past = s.past /\ m'.shown.cam = m.shown.cam
  BY DEF VoiceOnly, NotedOnly
<1>4. \A i : i # m.audio => /\ i \in DOMAIN m'.senders <=> i \in DOMAIN m.senders
                            /\ i \in DOMAIN m.senders => m'.senders[i] = m.senders[i]
  BY DEF VoiceOnly, NotedOnly
<1>5. Typed'
  BY <1>3 DEF MediaInv, Typed
<1>6. Named'
  <2>1. \A i \in DOMAIN m'.senders : i \in DOMAIN m'.trk /\ m'.senders[i] \in {0, i}
    <3>1. \A i \in DOMAIN m.senders : i \in DOMAIN m.trk /\ m.senders[i] \in {0, i}
      BY DEF MediaInv, Named
    <3> QED BY <1>1, <1>4, <3>1
  <2> QED BY <1>1, <1>2, <1>3, <2>1 DEF MediaInv, Named, IsA
<1>7. Released'
  <2>1. TracksKept
    BY <1>1, <1>2 DEF TracksKept
  <2> QED BY <1>1, <1>3, <2>1, ReleasedKept DEF MediaInv, Released
<1>8. CamStill
  <2>1. SameTracks(Video)
    BY <1>1, <1>2, <1>4, MediaFacts DEF SameTracks, Video
  <2> QED BY <1>3, <2>1 DEF CamStill, NotedOnly
<1> QED BY <1>1, <1>5, <1>6, <1>7, <1>8

LEMMA MicAddedKept ==
    ASSUME MediaInv, NEW o \in ops, MicAdded(o)
    PROVE  MediaInv'
<1> DEFINE s == [m EXCEPT !.voiceAdded = TRUE]
<1>1. m' = Unmuted(s) /\ ops' = ops \ {o} /\ uses' = uses /\ o.k = "mic" /\ o.at = "add"
  BY DEF MicAdded, Ends
<1>2. /\ s \in Media /\ NotedOnly(s, m) /\ s.past = m.past
      /\ s.cur = m.cur /\ s.sel = m.sel /\ s.plugged = m.plugged
  BY MediaFacts DEF Media, NotedOnly
<1> HIDE DEF s
<1>3. s.audio = m.audio /\ m.audio # 0 /\ m.audio \in DOMAIN s.trk /\ s.closed = m.closed
  BY <1>1, <1>2 DEF MediaInv, Named, IsA, NotedOnly
<1>4. /\ VoiceOnly(m', s) /\ ChoiceKept(m', s) /\ m'.senders = m.senders
      /\ m'.trk[m.audio].on /\ m'.shown.mic = ~m.closed
  BY <1>1, <1>2, <1>3, UnmutedFacts DEF NotedOnly
<1>5. Typed' /\ Named' /\ Released' /\ CamStill /\ m'.audio = m.audio
  <2>1. m'.plugged \subseteq Mics /\ m'.sel \in Mics \cup {0} /\ m'.cur \in Mics \cup {0}
    BY <1>2, <1>4 DEF ChoiceKept, MediaInv, Typed
  <2>2. ops' \subseteq Waiting /\ uses' \in Nat /\ SameOps("cam")
    BY <1>1, MediaFacts DEF SameOps
  <2>3. m.audio \in DOMAIN m'.senders => m'.senders[m.audio] \in {0, m.audio}
    BY <1>4 DEF MediaInv, Named
  <2> QED BY <1>1, <1>2, <1>3, <1>4, <2>1, <2>2, <2>3, VoiceStep
<1>6. MicSteady' /\ MicChosen'
  <2>1. CASE m.past.mic
    BY <1>2, <1>4, <2>1 DEF MicSteady, MicChosen, VoiceOnly
  <2>2. CASE ~m.past.mic
    <3>1. \A q \in ops' : q.k # "mic"
      BY <1>1, <2>2, OnlyOp
    <3>2. ~m.closed => MicTrack'
      <4>1. SUFFICES ASSUME ~m.closed PROVE MicTrack'
        OBVIOUS
      <4>2. MicTrack /\ MicWaits(o)
        BY <1>1, <2>2, <4>1 DEF MediaInv, MicSteady
      <4>3. m.audio \in DOMAIN m.senders /\ m.senders[m.audio] = m.audio
        BY <1>1, <4>2 DEF MicWaits
      <4>4. /\ m'.stream = m.stream /\ m'.past = m.past /\ m'.trk[m.audio].live = m.trk[m.audio].live
            /\ \A i \in DOMAIN m.trk : i # m.audio => m'.trk[i] = m.trk[i]
        BY <1>2, <1>3, <1>4 DEF VoiceOnly, NotedOnly
      <4> QED BY <1>3, <1>4, <1>5, <4>1, <4>2, <4>3, <4>4, MediaFacts, ZenonT(40) DEF MicTrack
    <3>3. MicSteady'
      BY <1>2, <1>4, <3>1, <3>2 DEF MicSteady, Alone, VoiceOnly, NotedOnly
    <3>4. (~\E q \in ops : q.at = "enum") /\ ~\E q \in ops' : q.at = "enum"
      BY <1>1, <1>5, <2>2, <3>1, OnlyOp DEF MediaInv, Typed
    <3> QED BY <1>2, <1>4, <2>2, <3>3, <3>4 DEF MediaInv, MicChosen, Fits, VoiceOnly, ChoiceKept
  <2> QED BY <2>1, <2>2
<1> QED BY <1>5, <1>6, CamStillKept DEF MediaInv

\* A step that does not change the choice of a microphone, begun alone.
LEMMA ChoiceStep ==
    ASSUME MediaInv, Typed', ~Busy("mic"), ~m'.past.mic => ~m.past.mic,
           m'.past.early = m.past.early, m'.cur = m.cur, m'.sel = m.sel, m'.plugged = m.plugged,
           \A o \in ops' \ ops : o.at # "enum"
    PROVE  MicChosen'
<1>1. (~\E q \in ops : q.at = "enum") /\ ~\E q \in ops' : q.at = "enum"
  BY DEF MediaInv, Typed, Busy
<1> QED BY <1>1 DEF MediaInv, MicChosen, Fits

LEMMA unmuteKept ==
    ASSUME MediaInv, unmute
    PROVE  MediaInv'
<1> DEFINE s == Begins(m, "mic")
           p == initAudio(0, "unmute")
           q == Op("mic", "add", "unmute", 0, 0, FALSE)
<1>1. /\ m.peer /\ uses' = uses + 1
      /\ \/ m.audio = 0 /\ m' = s /\ ops' = ops \cup {p}
         \/ m.audio # 0 /\ ~m.voiceAdded /\ m' = UnmuteRest(s) /\ ops' = ops \cup {q}
         \/ m.audio # 0 /\ m.voiceAdded /\ m' = UnmuteRest(s) /\ ops' = ops
  BY DEF unmute, Use, Waits, Does, Adds
<1>2. /\ s \in Media /\ NotedOnly(s, m) /\ ChoiceKept(s, m) /\ s.past.failed = m.past.failed
      /\ s.past.mic <=> m.past.mic \/ Busy("mic")
      /\ s.past.cam = m.past.cam
  BY MediaFacts, BeginsFacts DEF Kinds
<1>3. /\ p \in Waiting /\ p.k = "mic" /\ p.at = "perm"
      /\ q \in Waiting /\ q.k = "mic" /\ q.at = "add"
  BY MediaFacts DEF initAudio, Op, Waiting, Kinds
<1> HIDE DEF s, p, q
<1>4. ~m.closed
  BY <1>1 DEF MediaInv, Released
<1>5. /\ m.audio # 0 => m.audio \in DOMAIN m.trk
      /\ s.audio = m.audio /\ s.trk = m.trk /\ s.closed = m.closed /\ s.senders = m.senders /\ s.shown = m.shown
      /\ s.stream = m.stream /\ s.voiceAdded = m.voiceAdded
  BY <1>2 DEF MediaInv, Named, IsA, NotedOnly, ChoiceKept
<1>6. /\ VoiceOnly(m', s) /\ ChoiceKept(m', s)
      /\ \/ m' = s
         \/ /\ m.audio # 0 /\ m.voiceAdded /\ m'.trk[m.audio].on /\ m'.shown.mic
            /\ m.audio \in DOMAIN m'.senders /\ m'.senders[m.audio] = m.audio
         \/ /\ m.audio # 0 /\ ~m.voiceAdded /\ m'.trk = m.trk /\ m'.shown = m.shown
            /\ m.audio \in DOMAIN m'.senders /\ m'.senders[m.audio] = m.audio
      /\ m.audio # 0 /\ ~m.voiceAdded => m.audio \in DOMAIN m'.senders /\ m'.senders[m.audio] = m.audio
  <2>1. CASE m' = s /\ m.audio = 0
    BY <1>2, <2>1 DEF VoiceOnly, ChoiceKept
  <2>2. CASE m.audio # 0 /\ m' = UnmuteRest(s)
    BY <1>2, <1>4, <1>5, <2>2, UnmuteRestFacts
  <2> QED BY <1>1, <2>1, <2>2
<1>7. Typed' /\ Named' /\ Released' /\ CamStill /\ m'.audio = m.audio
  <2>1. m'.plugged \subseteq Mics /\ m'.sel \in Mics \cup {0} /\ m'.cur \in Mics \cup {0}
    BY <1>2, <1>6 DEF ChoiceKept, MediaInv, Typed
  <2>2. ops' \subseteq Waiting /\ uses' \in Nat /\ SameOps("cam")
    BY <1>1, <1>3, MediaFacts DEF SameOps
  <2>3. m.audio \in DOMAIN m'.senders => m.audio # 0 /\ m'.senders[m.audio] \in {0, m.audio}
    BY <1>5, <1>6, MediaFacts DEF MediaInv, Named
  <2>4. \A r \in ops' \ ops : r \in {p, q} /\ (r = q => m.audio # 0)
    BY <1>1, <1>3
  <2> QED BY <1>2, <1>3, <1>4, <1>6, <2>1, <2>2, <2>3, <2>4, VoiceStep
<1>8. MicSteady' /\ MicChosen'
  <2>1. CASE m.past.mic \/ Busy("mic")
    BY <1>2, <1>6, <2>1 DEF MicSteady, MicChosen, VoiceOnly
  <2>2. CASE ~m.past.mic /\ ~Busy("mic")
    <3>1. ~m'.past.mic /\ m'.past.failed = m.past.failed
      BY <1>2, <1>6, <2>2 DEF VoiceOnly
    <3>2. MicTrack
      BY <1>4, <2>2 DEF MediaInv, MicSteady
    <3>3. /\ m'.stream = m.stream /\ DOMAIN m'.trk = DOMAIN m.trk
          /\ \A i \in DOMAIN m.trk : m'.trk[i].k = m.trk[i].k /\ m'.trk[i].live = m.trk[i].live
          /\ \A i \in DOMAIN m.trk : i # m.audio => m'.trk[i] = m.trk[i]
          /\ \A i : i # m.audio => /\ i \in DOMAIN m'.senders <=> i \in DOMAIN m.senders
                                   /\ i \in DOMAIN m.senders => m'.senders[i] = m.senders[i]
      BY <1>5, <1>6 DEF VoiceOnly
    <3>4. MicTrack'
      BY <1>5, <1>6, <1>7, <3>1, <3>2, <3>3, MediaFacts DEF MicTrack
    <3>5. \A r \in ops' : r.k = "mic" => r \in {p, q} /\ (r = p => m.audio = 0) /\ (r = q => m.audio # 0 /\ ~m.voiceAdded)
      BY <1>1, <1>3, <2>2 DEF Busy
    <3>6. Alone("mic")'
      BY <3>5 DEF Alone
    <3>7. \A r \in ops' : r.k = "mic" => MicWaits(r)'
      BY <1>3, <1>6, <1>7, <3>5 DEF MicWaits
    <3>8. MicChosen'
      BY <1>1, <1>2, <1>3, <1>6, <1>7, <2>2, <3>1, ChoiceStep DEF ChoiceKept
    <3> QED BY <3>4, <3>6, <3>7, <3>8 DEF MicSteady
  <2> QED BY <2>1, <2>2
<1> QED BY <1>7, <1>8, CamStillKept DEF MediaInv

\* What mute does once the sender has let the track go.
Muted(s) == [Enable(s, s.audio, FALSE) EXCEPT !.shown.mic = FALSE]

LEMMA MutedFacts ==
    ASSUME NEW s \in Media, s.audio \in DOMAIN s.trk, NEW r, r = Muted(s)
    PROVE  /\ VoiceOnly(r, s) /\ ChoiceKept(r, s) /\ r.senders = s.senders
           /\ ~r.trk[s.audio].on /\ ~r.shown.mic
<1> DEFINE e == Enable(s, s.audio, FALSE)
<1>1. Switched(e, s, s.audio) /\ ~e.trk[s.audio].on
  BY EnableFacts, Zenon
<1> HIDE DEF e
<1>2. r = [e EXCEPT !.shown.mic = FALSE]
  BY DEF Muted, e
<1>3. e.shown \in Shown
  BY <1>1 DEF Media, Switched
<1>4. /\ [e.shown EXCEPT !.mic = FALSE] \in Shown
      /\ ~[e.shown EXCEPT !.mic = FALSE].mic
      /\ [e.shown EXCEPT !.mic = FALSE].cam = e.shown.cam
  BY <1>3 DEF Shown
<1>5. /\ r \in Media /\ r.trk = e.trk /\ r.senders = e.senders /\ r.streams = e.streams
      /\ r.audio = e.audio /\ r.stream = e.stream /\ r.voiceAdded = e.voiceAdded
      /\ r.video = e.video /\ r.videoAdded = e.videoAdded /\ r.vsender = e.vsender /\ r.seg = e.seg
      /\ r.screen = e.screen /\ r.blur = e.blur /\ r.peer = e.peer /\ r.closed = e.closed
      /\ r.cur = e.cur /\ r.sel = e.sel /\ r.plugged = e.plugged /\ r.past = e.past /\ r.init = e.init
      /\ r.shown = [e.shown EXCEPT !.mic = FALSE]
  BY <1>1, <1>2, <1>4, ZenonT(40) DEF Media, Switched
<1>6. ~r.trk[s.audio].on
  BY <1>1, <1>5
<1>7. r.shown.cam = e.shown.cam /\ ~r.shown.mic
  BY <1>4, <1>5
<1>8. VoiceOnly(r, s)
  BY <1>1, <1>5, <1>7 DEF VoiceOnly, SameRest, Switched
<1> QED BY <1>1, <1>5, <1>6, <1>7, <1>8 DEF SameRest, Switched, ChoiceKept

LEMMA muteKept ==
    ASSUME MediaInv, mute
    PROVE  MediaInv'
<1> DEFINE s == Begins(m, "mic")
           z == replaceTrack(s, m.audio, 0)
<1>1. /\ m.peer /\ m.audio # 0 /\ uses' = uses + 1 /\ ops' = ops
      /\ \/ HasSender(m, m.audio) /\ m' = Muted(z)
         \/ ~HasSender(m, m.audio) /\ m' = Muted(s)
         \/ m' = s
  <2>1. s.audio = m.audio /\ z.audio = m.audio
    <3>1. m.audio \in Nat /\ 0 \in Nat /\ s \in Media /\ s.audio = m.audio
      BY MediaFacts, BeginsFacts DEF Kinds, NotedOnly, Media
    <3> HIDE DEF s
    <3> QED BY <3>1, replaceTrackFacts DEF SameRest
  <2> QED BY <2>1 DEF mute, Use, Does, Muted
<1>2. /\ s \in Media /\ NotedOnly(s, m) /\ ChoiceKept(s, m) /\ s.past.failed = m.past.failed
      /\ s.past.mic <=> m.past.mic \/ Busy("mic")
      /\ s.past.cam = m.past.cam
  BY MediaFacts, BeginsFacts DEF Kinds
<1> HIDE DEF s
<1>3. /\ m.audio \in DOMAIN m.trk /\ m.audio \in Nat /\ ~m.closed
      /\ s.audio = m.audio /\ s.trk = m.trk /\ s.closed = m.closed /\ s.senders = m.senders
  BY <1>1, <1>2, MediaFacts DEF MediaInv, Named, Released, IsA, NotedOnly
<1>4. /\ z \in Media /\ SameRest(z, s) /\ z.trk = s.trk /\ z.streams = s.streams
      /\ DOMAIN z.senders = DOMAIN s.senders
      /\ m.audio \in DOMAIN s.senders => z.senders[m.audio] = 0
      /\ \A i \in DOMAIN s.senders : i # m.audio => z.senders[i] = s.senders[i]
  <2>1. 0 \in Nat /\ m.audio \in Nat /\ s \in Media
    BY <1>2, <1>3
  <2> QED BY <2>1, replaceTrackFacts, SMTT(30)
<1> HIDE DEF z
<1>5. /\ VoiceOnly(m', s) /\ ChoiceKept(m', s)
      /\ m' = s \/ (~m'.trk[m.audio].on /\ ~m'.shown.mic)
      /\ m.audio \in DOMAIN m'.senders => m'.senders[m.audio] \in {0, m.audio}
  <2>1. CASE HasSender(m, m.audio) /\ m' = Muted(z)
    <3>1. z.audio = m.audio /\ z.audio \in DOMAIN z.trk
      BY <1>3, <1>4 DEF SameRest
    <3>2. /\ VoiceOnly(m', z) /\ ChoiceKept(m', z) /\ m'.senders = z.senders
          /\ ~m'.trk[z.audio].on /\ ~m'.shown.mic
      BY <1>4, <2>1, <3>1, MutedFacts
    <3>3. VoiceOnly(m', s) /\ ChoiceKept(m', s)
      BY <1>3, <1>4, <3>1, <3>2 DEF VoiceOnly, ChoiceKept, SameRest
    <3> QED BY <1>3, <1>4, <2>1, <3>1, <3>2, <3>3 DEF HasSender
  <2>2. CASE ~HasSender(m, m.audio) /\ m' = Muted(s)
    <3>1. s.audio = m.audio /\ s.audio \in DOMAIN s.trk
      BY <1>3
    <3>2. /\ VoiceOnly(m', s) /\ ChoiceKept(m', s) /\ m'.senders = s.senders
          /\ ~m'.trk[s.audio].on /\ ~m'.shown.mic
      BY <1>2, <2>2, <3>1, MutedFacts
    <3> QED BY <1>3, <2>2, <3>2 DEF HasSender
  <2>3. CASE m' = s
    BY <1>2, <1>3, <2>3 DEF VoiceOnly, ChoiceKept, MediaInv, Named
  <2> QED BY <1>1, <2>1, <2>2, <2>3
<1>6. Typed' /\ Named' /\ Released' /\ CamStill /\ m'.audio = m.audio
  <2>1. m'.plugged \subseteq Mics /\ m'.sel \in Mics \cup {0} /\ m'.cur \in Mics \cup {0}
    BY <1>2, <1>5 DEF ChoiceKept, MediaInv, Typed
  <2>2. ops' \subseteq Waiting /\ uses' \in Nat /\ SameOps("cam")
    BY <1>1, MediaFacts DEF SameOps
  <2> QED BY <1>1, <1>2, <1>5, <2>1, <2>2, VoiceStep
<1>7. MicSteady' /\ MicChosen'
  <2>1. CASE m.past.mic \/ Busy("mic")
    BY <1>2, <1>5, <2>1 DEF MicSteady, MicChosen, VoiceOnly
  <2>2. CASE ~m.past.mic /\ ~Busy("mic")
    <3>1. ~m'.past.mic /\ m'.past.failed = m.past.failed
      BY <1>2, <1>5, <2>2 DEF VoiceOnly
    <3>2. MicTrack
      BY <1>3, <2>2 DEF MediaInv, MicSteady
    <3>3. /\ m'.stream = m.stream /\ DOMAIN m'.trk = DOMAIN m.trk
          /\ \A i \in DOMAIN m.trk : m'.trk[i].k = m.trk[i].k /\ m'.trk[i].live = m.trk[i].live
          /\ \A i \in DOMAIN m.trk : i # m.audio => m'.trk[i] = m.trk[i]
          /\ \A i : i # m.audio => /\ i \in DOMAIN m'.senders <=> i \in DOMAIN m.senders
                                   /\ i \in DOMAIN m.senders => m'.senders[i] = m.senders[i]
      BY <1>2, <1>3, <1>5 DEF VoiceOnly, NotedOnly
    <3>4. MicTrack'
      <4>1. CASE m' = s
        BY <1>2, <3>2, <4>1 DEF MicTrack, NotedOnly
      <4>2. CASE ~m'.trk[m.audio].on /\ ~m'.shown.mic
        BY <1>3, <1>6, <3>1, <3>2, <3>3, <4>2, MediaFacts DEF MicTrack
      <4> QED BY <1>5, <4>1, <4>2
    <3>5. \A r \in ops' : r.k # "mic"
      BY <1>1, <2>2 DEF Busy
    <3>6. MicChosen'
      BY <1>1, <1>2, <1>5, <1>6, <2>2, <3>1, ChoiceStep DEF ChoiceKept
    <3> QED BY <3>4, <3>5, <3>6 DEF MicSteady, Alone
  <2> QED BY <2>1, <2>2
<1> QED BY <1>6, <1>7, CamStillKept DEF MediaInv

\* The operation of setAudioInputDevice is about the track in use.
LEMMA SwitchOpFacts ==
    ASSUME Mics \in SUBSET (Nat \ {0}), MediaInv, NEW d \in Mics, NEW p, p = SwitchOp(m, d)
    PROVE  /\ p \in Waiting /\ p.k = "mic" /\ p.dev = d /\ p.at \in {"open", "switch"} /\ p.next = "none"
           /\ p.at = "switch" => /\ p.old = m.audio /\ m.audio # 0 /\ IsA(m.audio, {"mic"})
                                 /\ p.on = m.trk[m.audio].on
           /\ p.at = "open" => m.audio = 0 \/ ~m.stream
<1>1. d \in Nat /\ d # 0 /\ m.audio \in Nat
  BY MediaFacts DEF Media
<1>2. m.audio # 0 => IsA(m.audio, {"mic"}) /\ m.trk[m.audio].on \in BOOLEAN
  BY MediaFacts DEF MediaInv, Named, IsA, Track
<1>3. CASE m.audio = 0 \/ ~m.stream
  <2>1. p = Op("mic", "open", "none", d, 0, FALSE)
    BY <1>1, <1>3 DEF SwitchOp, initAudio
  <2> QED BY <1>1, <1>3, <2>1, MediaFacts DEF Op, Waiting, Kinds
<1>4. CASE ~(m.audio = 0 \/ ~m.stream)
  <2>1. p = Op("mic", "switch", "none", d, m.audio, m.trk[m.audio].on)
    BY <1>4 DEF SwitchOp
  <2> QED BY <1>1, <1>2, <1>4, <2>1, MediaFacts DEF Op, Waiting, Kinds
<1> QED BY <1>3, <1>4

LEMMA PickMicKept ==
    ASSUME Mics \in SUBSET (Nat \ {0}), MediaInv, NEW d \in Mics, PickMic(d)
    PROVE  MediaInv'
<1> DEFINE s == Begins(m, "mic")
           p == SwitchOp(m, d)
<1>1. /\ m.peer /\ d \in m.plugged /\ uses' = uses + 1 /\ ops' = ops \cup {p}
      /\ m' = [s EXCEPT !.cur = d, !.sel = d]
  BY DEF PickMic, Use, Waits, setAudioInputDevice
<1>2. /\ s \in Media /\ NotedOnly(s, m) /\ ChoiceKept(s, m) /\ s.past.failed = m.past.failed
      /\ s.past.mic <=> m.past.mic \/ Busy("mic")
      /\ s.past.cam = m.past.cam
  BY MediaFacts, BeginsFacts DEF Kinds
<1>3. /\ p \in Waiting /\ p.k = "mic" /\ p.dev = d /\ p.at \in {"open", "switch"}
      /\ p.at = "switch" => /\ p.old = m.audio /\ m.audio # 0 /\ IsA(m.audio, {"mic"})
                            /\ p.on = m.trk[m.audio].on
      /\ p.at = "open" => m.audio = 0 \/ ~m.stream
  BY SwitchOpFacts
<1> HIDE DEF s, p
<1>4. ~m.closed
  BY <1>1 DEF MediaInv, Released
<1>5. /\ m' \in Media /\ m'.cur = d /\ m'.sel = d /\ m'.plugged = m.plugged /\ m'.past = s.past
      /\ NotedOnly(m', s) /\ m'.past.early = m.past.early
  <2>1. d \in Nat
    OBVIOUS
  <2> QED BY <1>1, <1>2, <2>1 DEF Media, NotedOnly, ChoiceKept
<1>6. VoiceOnly(m', s)
  BY <1>5 DEF VoiceOnly, NotedOnly
<1>7. Typed' /\ Named' /\ Released' /\ CamStill /\ m'.audio = m.audio
  <2>1. m'.plugged \subseteq Mics /\ m'.sel \in Mics \cup {0} /\ m'.cur \in Mics \cup {0}
    BY <1>5 DEF MediaInv, Typed
  <2>2. ops' \subseteq Waiting /\ uses' \in Nat /\ SameOps("cam")
    BY <1>1, <1>3, MediaFacts DEF SameOps
  <2>3. m.audio \in DOMAIN m'.senders => m.audio # 0 /\ m'.senders[m.audio] \in {0, m.audio}
    BY <1>2, <1>5, MediaFacts DEF MediaInv, Named, NotedOnly
  <2>4. \A r \in ops' \ ops : r = p
    BY <1>1
  <2> QED BY <1>2, <1>3, <1>4, <1>6, <2>1, <2>2, <2>3, <2>4, VoiceStep
<1>8. MicSteady' /\ MicChosen'
  <2>1. CASE m.past.mic \/ Busy("mic")
    BY <1>2, <1>5, <2>1 DEF MicSteady, MicChosen
  <2>2. CASE ~m.past.mic /\ ~Busy("mic")
    <3>1. ~m'.past.mic /\ m'.past.failed = m.past.failed
      BY <1>2, <1>5, <2>2
    <3>2. MicTrack
      BY <1>4, <2>2 DEF MediaInv, MicSteady
    <3>3. MicTrack'
      BY <1>2, <1>5, <3>1, <3>2 DEF MicTrack, NotedOnly
    <3>4. \A r \in ops' : r.k = "mic" => r = p
      BY <1>1, <1>3, <2>2 DEF Busy
    <3>5. \A r \in ops' : r.k = "mic" => MicWaits(r)'
      BY <1>2, <1>3, <1>5, <3>2, <3>4 DEF MicWaits, MicTrack, NotedOnly
    <3>6. MicSteady'
      BY <3>3, <3>4, <3>5 DEF MicSteady, Alone
    <3>7. ~\E q \in ops' : q.at = "enum"
      BY <1>3, <1>7, <3>4 DEF Typed
    <3>8. Fits'
      BY <1>1, <1>5 DEF Fits
    <3> QED BY <3>6, <3>7, <3>8 DEF MicChosen
  <2> QED BY <2>1, <2>2
<1> QED BY <1>7, <1>8, CamStillKept DEF MediaInv

LEMMA DeviceChangeKept ==
    ASSUME Mics \in SUBSET (Nat \ {0}), MediaInv, NEW d \in Mics, DeviceChange(d)
    PROVE  MediaInv'
<1> DEFINE out == d \in m.plugged
           T == {t \in DOMAIN m.trk : m.trk[t].k = "mic" /\ m.trk[t].dev = d}
           z == Stop(m, T)
           s == IF out THEN Fail(z, "mic") ELSE m
           b == Begins(s, "mic")
           p == Op("mic", "enum", "none", 0, 0, FALSE)
<1>1. /\ ~m.closed /\ uses' = uses + 1 /\ ops' = ops \cup {p}
      /\ m' = [b EXCEPT !.plugged = IF out THEN b.plugged \ {d} ELSE b.plugged \cup {d}]
  BY DEF DeviceChange, Use, Waits
<1>2. p \in Waiting /\ p.k = "mic" /\ p.at = "enum"
  BY MediaFacts DEF Op, Waiting, Kinds
<1>3. /\ z \in Media /\ SameRest(z, m) /\ z.senders = m.senders /\ z.streams = m.streams
      /\ DOMAIN z.trk = DOMAIN m.trk
      /\ \A i \in DOMAIN m.trk :
            /\ z.trk[i].k = m.trk[i].k /\ z.trk[i].on = m.trk[i].on
            /\ z.trk[i].src = m.trk[i].src /\ z.trk[i].stray = m.trk[i].stray
            /\ z.trk[i].live => m.trk[i].live
            /\ m.trk[i].k # "mic" => z.trk[i] = m.trk[i]
  <2>1. T \in SUBSET DOMAIN m.trk /\ m \in Media
    BY MediaFacts
  <2>2. \A i \in DOMAIN m.trk : m.trk[i].k # "mic" => i \notin T /\ \A t \in T : m.trk[t].src # i
    <3>1. \A t \in T : m.trk[t].src = 0
      BY DEF MediaInv, Named
    <3> QED BY <3>1, MediaFacts
  <2> HIDE DEF T
  <2> QED BY <2>1, <2>2, StopFacts, SMTT(30)
<1> HIDE DEF z, p
<1>4. /\ s \in Media /\ NotedOnly(s, IF out THEN z ELSE m) /\ ChoiceKept(s, m)
      /\ s.past.mic = m.past.mic /\ s.past.cam = m.past.cam
      /\ s.past.failed = IF out THEN m.past.failed \cup {"mic"} ELSE m.past.failed
  <2>1. CASE out
    <3>1. s = Fail(z, "mic")
      BY <2>1
    <3> HIDE DEF s
    <3>2. /\ s \in Media /\ NotedOnly(s, z) /\ ChoiceKept(s, z) /\ s.past.failed = z.past.failed \cup {"mic"}
          /\ \A j \in Kinds : s.past[j] = z.past[j]
      BY <1>3, <3>1, FailFacts DEF Kinds
    <3> QED BY <1>3, <2>1, <3>2 DEF ChoiceKept, SameRest, Kinds
  <2>2. CASE ~out
    BY <2>2, MediaFacts DEF NotedOnly, ChoiceKept
  <2> QED BY <2>1, <2>2
<1> HIDE DEF s
<1>5. /\ b \in Media /\ NotedOnly(b, s) /\ ChoiceKept(b, s) /\ b.past.failed = s.past.failed
      /\ b.past.mic <=> s.past.mic \/ Busy("mic")
      /\ b.past.cam = s.past.cam
  BY <1>4, BeginsFacts DEF Kinds
<1> HIDE DEF b
<1>6. /\ m' \in Media /\ NotedOnly(m', b) /\ m'.past = b.past /\ m'.cur = m.cur /\ m'.sel = m.sel
      /\ m'.plugged = IF out THEN m.plugged \ {d} ELSE m.plugged \cup {d}
  <2>1. d \in Nat /\ b.plugged = m.plugged /\ b.cur = m.cur /\ b.sel = m.sel
    BY <1>4, <1>5 DEF ChoiceKept
  <2> QED BY <1>1, <1>5, <2>1 DEF Media, NotedOnly
<1>7. /\ m'.trk = (IF out THEN z ELSE m).trk /\ m'.senders = m.senders /\ m'.streams = m.streams
      /\ m'.audio = m.audio /\ m'.stream = m.stream
      /\ m'.video = m.video /\ m'.videoAdded = m.videoAdded /\ m'.vsender = m.vsender /\ m'.seg = m.seg
      /\ m'.screen = m.screen /\ m'.blur = m.blur /\ m'.peer = m.peer /\ m'.closed = m.closed
      /\ m'.shown = m.shown /\ m'.past.raw = m.past.raw /\ m'.past.cam = m.past.cam
      /\ m'.past.early = m.past.early
      /\ m'.past.failed = IF out THEN m.past.failed \cup {"mic"} ELSE m.past.failed
      /\ m'.past.mic <=> m.past.mic \/ Busy("mic")
  BY <1>3, <1>4, <1>5, <1>6 DEF NotedOnly, ChoiceKept, SameRest
<1> HIDE DEF out
<1>8. /\ DOMAIN m'.trk = DOMAIN m.trk
      /\ \A i \in DOMAIN m.trk :
            /\ m'.trk[i].k = m.trk[i].k /\ m'.trk[i].on = m.trk[i].on
            /\ m'.trk[i].src = m.trk[i].src /\ m'.trk[i].stray = m.trk[i].stray
            /\ m'.trk[i].live => m.trk[i].live
            /\ m.trk[i].k # "mic" => m'.trk[i] = m.trk[i]
            /\ ~out => m'.trk[i] = m.trk[i]
  BY <1>3, <1>7
<1>9. Typed'
  BY <1>1, <1>2, <1>6 DEF MediaInv, Typed
<1>10. Named'
  BY <1>1, <1>2, <1>7, <1>8 DEF MediaInv, Named, IsA
<1>11. Released'
  <2>1. TracksKept
    BY <1>8 DEF TracksKept
  <2> QED BY <1>1, <1>7, <1>8, <2>1, ReleasedKept DEF MediaInv, Released
<1>12. CamStill
  <2>1. SameTracks(Video)
    BY <1>7, <1>8 DEF SameTracks, Video
  <2> QED BY <1>1, <1>2, <1>7, <2>1 DEF CamStill, SameOps
<1>13. MicSteady' /\ MicChosen'
  <2>1. CASE m.past.mic \/ Busy("mic")
    BY <1>7, <2>1 DEF MicSteady, MicChosen
  <2>2. CASE ~m.past.mic /\ ~Busy("mic")
    <3>1. MicTrack
      BY <1>1, <2>2 DEF MediaInv, MicSteady
    <3>2. m.audio # 0 => m.audio \in DOMAIN m.trk
      BY DEF MediaInv, Named, IsA
    <3>3. MicTrack'
      BY <1>7, <1>8, <3>1, <3>2, MediaFacts DEF MicTrack
    <3>4. \A r \in ops' : r.k = "mic" => r = p
      BY <1>1, <1>2, <2>2 DEF Busy
    <3>5. MicSteady'
      BY <1>2, <3>3, <3>4 DEF MicSteady, Alone, MicWaits
    <3>6. ~\E q \in ops : q.at = "enum"
      BY <2>2 DEF MediaInv, Typed, Busy
    <3>7. ~m.past.early => Fits
      BY <2>2, <3>6 DEF MediaInv, MicChosen
    <3>8. Fits => Changed'
      <4>1. CASE out
        BY <1>6, <4>1 DEF Fits, Changed
      <4>2. CASE ~out
        BY <1>6, <4>2 DEF Fits, Changed
      <4> QED BY <4>1, <4>2
    <3>9. \E q \in ops' : q.at = "enum"
      BY <1>1, <1>2
    <3> QED BY <1>7, <3>5, <3>7, <3>8, <3>9 DEF MicChosen
  <2> QED BY <2>1, <2>2
<1> QED BY <1>9, <1>10, <1>11, <1>12, <1>13, CamStillKept DEF MediaInv

\* The device to fall back to is there, and is the selected one if that is.
LEMMA FallbackFacts ==
    ASSUME Mics \in SUBSET (Nat \ {0}), MediaInv, NEW d, d = handleAudioDeviceFallback(m)
    PROVE  /\ d # 0 => d \in m.plugged /\ d \in Mics
           /\ d # 0 /\ Changed /\ m.cur # 0 => (m.sel \in m.plugged => d = m.sel)
           /\ d = 0 => Fits
<1>1. m.plugged \subseteq Mics /\ m.sel \in Mics \cup {0} /\ m.cur \in Mics \cup {0} /\ 0 \notin m.plugged
  BY DEF MediaInv, Typed
<1>2. CASE m.cur \notin m.plugged /\ m.plugged # {}
  <2>1. d = First(m.plugged)
    BY <1>2 DEF handleAudioDeviceFallback
  <2>2. d \in m.plugged
    BY <1>1, <1>2, <2>1, FirstOf
  <2> QED BY <1>1, <1>2, <2>2 DEF Changed
<1>3. CASE ~(m.cur \notin m.plugged /\ m.plugged # {})
  BY <1>1, <1>3 DEF handleAudioDeviceFallback, getSelectedAudioDevice, Fits
<1> QED BY <1>2, <1>3

LEMMA updateDevicesKept ==
    ASSUME Mics \in SUBSET (Nat \ {0}), MediaInv, NEW o \in ops, updateDevices(o)
    PROVE  MediaInv'
<1> DEFINE d == IF m.cur = 0 THEN 0 ELSE handleAudioDeviceFallback(m)
           w == SwitchOp(m, d)
           p == [w EXCEPT !.id = o.id, !.late = o.late]
<1>1. /\ o.at = "enum" /\ uses' = uses
      /\ \/ /\ d = 0 \/ ~m.peer
            /\ m' = [m EXCEPT !.past.early = m.past.early \/ d # 0] /\ ops' = ops \ {o}
         \/ d # 0 /\ m.peer /\ m' = [m EXCEPT !.cur = d] /\ ops' = (ops \ {o}) \cup {p}
  BY DEF updateDevices, Ends, Goes
<1>2. /\ o.k = "mic" /\ o \in Waiting
      /\ d # 0 => d \in m.plugged /\ d \in Mics /\ m.cur # 0
      /\ d # 0 /\ Changed => (m.sel \in m.plugged => d = m.sel)
      /\ d = 0 => Fits
  BY <1>1, FallbackFacts DEF MediaInv, Typed, Fits
<1> HIDE DEF d
<1>3. d # 0 => /\ p \in Waiting /\ p.k = "mic" /\ p.late = o.late /\ p.dev = d /\ p.at \in {"open", "switch"}
               /\ p.at = "switch" => /\ p.old = m.audio /\ m.audio # 0 /\ IsA(m.audio, {"mic"})
                                     /\ p.on = m.trk[m.audio].on
               /\ p.at = "open" => m.audio = 0 \/ ~m.stream
  <2> SUFFICES ASSUME d # 0
               PROVE  /\ p \in Waiting /\ p.k = "mic" /\ p.late = o.late /\ p.dev = d /\ p.at \in {"open", "switch"}
                      /\ p.at = "switch" => /\ p.old = m.audio /\ m.audio # 0 /\ IsA(m.audio, {"mic"})
                                            /\ p.on = m.trk[m.audio].on
                      /\ p.at = "open" => m.audio = 0 \/ ~m.stream
    OBVIOUS
  <2>1. /\ w \in Waiting /\ w.k = "mic" /\ w.dev = d /\ w.at \in {"open", "switch"}
        /\ w.at = "switch" => /\ w.old = m.audio /\ m.audio # 0 /\ IsA(m.audio, {"mic"})
                              /\ w.on = m.trk[m.audio].on
        /\ w.at = "open" => m.audio = 0 \/ ~m.stream
    BY <1>2, SwitchOpFacts, ZenonT(40)
  <2> HIDE DEF w
  <2>2. p \in Waiting /\ p.k = w.k /\ p.late = o.late /\ p.dev = w.dev /\ p.at = w.at /\ p.old = w.old /\ p.on = w.on
    BY <1>2, <2>1 DEF Waiting
  <2> QED BY <2>1, <2>2
<1> HIDE DEF p, w
<1>4. /\ m' \in Media /\ m'.trk = m.trk /\ m'.senders = m.senders /\ m'.streams = m.streams
      /\ m'.audio = m.audio /\ m'.stream = m.stream
      /\ m'.video = m.video /\ m'.videoAdded = m.videoAdded /\ m'.vsender = m.vsender /\ m'.seg = m.seg
      /\ m'.screen = m.screen /\ m'.blur = m.blur /\ m'.peer = m.peer /\ m'.closed = m.closed
      /\ m'.shown = m.shown /\ m'.past.raw = m.past.raw /\ m'.past.cam = m.past.cam
      /\ m'.past.failed = m.past.failed /\ m'.past.mic = m.past.mic
      /\ m'.sel = m.sel /\ m'.plugged = m.plugged
      /\ \/ ops' = ops \ {o} /\ m'.cur = m.cur /\ (m'.past.early <=> m.past.early \/ d # 0)
         \/ ops' = (ops \ {o}) \cup {p} /\ m'.cur = d /\ d # 0 /\ m'.past.early = m.past.early
  <2>1. CASE m' = [m EXCEPT !.past.early = m.past.early \/ d # 0] /\ ops' = ops \ {o}
    <3> DEFINE e == m.past.early \/ d # 0
    <3>1. e \in BOOLEAN /\ m.past \in Past
      BY MediaFacts DEF Media, Past
    <3>2. m' = [m EXCEPT !.past = [m.past EXCEPT !.early = e]]
      BY <2>1
    <3> HIDE DEF e
    <3>3. /\ [m.past EXCEPT !.early = e] \in Past /\ [m.past EXCEPT !.early = e].early = e
          /\ [m.past EXCEPT !.early = e].mic = m.past.mic /\ [m.past EXCEPT !.early = e].cam = m.past.cam
          /\ [m.past EXCEPT !.early = e].failed = m.past.failed /\ [m.past EXCEPT !.early = e].raw = m.past.raw
      BY <3>1 DEF Past
    <3>4. /\ m' \in Media /\ m'.past = [m.past EXCEPT !.early = e]
          /\ m'.sel = m.sel /\ m'.plugged = m.plugged /\ m'.cur = m.cur
      BY <3>2, <3>3, MediaFacts DEF Media
    <3>5. /\ m'.trk = m.trk /\ m'.senders = m.senders /\ m'.streams = m.streams
          /\ m'.audio = m.audio /\ m'.stream = m.stream
          /\ m'.video = m.video /\ m'.videoAdded = m.videoAdded /\ m'.vsender = m.vsender /\ m'.seg = m.seg
          /\ m'.screen = m.screen /\ m'.blur = m.blur /\ m'.peer = m.peer /\ m'.closed = m.closed
          /\ m'.shown = m.shown
      BY <3>2, MediaFacts DEF Media
    <3> QED BY <2>1, <3>3, <3>4, <3>5 DEF e
  <2>2. CASE d # 0 /\ m' = [m EXCEPT !.cur = d] /\ ops' = (ops \ {o}) \cup {p}
    <3>1. d \in Nat
      BY <1>2, <2>2
    <3> QED BY <2>2, <3>1, MediaFacts DEF Media
  <2> QED BY <1>1, <2>1, <2>2
<1>5. Typed'
  BY <1>1, <1>2, <1>3, <1>4 DEF MediaInv, Typed
<1>6. Named'
  BY <1>1, <1>3, <1>4 DEF MediaInv, Named, IsA
<1>7. Released'
  <2>1. \A q \in ops' : q \in ops \/ (m.closed => q.late)
    BY <1>1, <1>3, <1>4 DEF MediaInv, Released
  <2> QED BY <1>4, <2>1, ReleasedKept DEF TracksKept, MediaInv, Released
<1>8. CamStill
  BY <1>1, <1>2, <1>3, <1>4, MediaFacts DEF CamStill, SameTracks, SameOps
<1>9. MicSteady' /\ MicChosen'
  <2>1. CASE m.past.mic
    BY <1>4, <2>1 DEF MicSteady, MicChosen
  <2>2. CASE ~m.past.mic
    <3>1. \A q \in ops : q.k = "mic" => q = o
      BY <1>2, <2>2, OnlyOp
    <3>2. \A q \in ops' : q.k = "mic" => q = p /\ d # 0
      BY <1>4, <3>1
    <3>3. ~m.closed => MicTrack'
      BY <1>4, <2>2 DEF MediaInv, MicSteady, MicTrack
    <3>4. ~m.closed => \A q \in ops' : q.k = "mic" => MicWaits(q)'
      BY <1>3, <1>4, <2>2, <3>2 DEF MediaInv, MicSteady, MicTrack, MicWaits
    <3>5. MicSteady'
      BY <1>4, <3>2, <3>3, <3>4 DEF MicSteady, Alone
    <3>6. ~\E q \in ops' : q.at = "enum"
      BY <1>3, <1>5, <3>2 DEF Typed
    <3>7. ~m.past.early => Changed
      BY <1>1, <2>2 DEF MediaInv, MicChosen
    <3>8. ~m'.past.early => Fits'
      BY <1>2, <1>4, <3>7 DEF Fits
    <3> QED BY <3>5, <3>6, <3>8 DEF MicChosen
  <2> QED BY <2>1, <2>2
<1> QED BY <1>5, <1>6, <1>7, <1>8, <1>9, CamStillKept DEF MediaInv

\* Track t of the microphone is opened; the tracks of the others are left alone.
MicOpens(t, late) ==
    /\ m' \in Media /\ t \in Nat \ {0} /\ t \notin DOMAIN m.trk /\ DOMAIN m'.trk = DOMAIN m.trk \cup {t}
    /\ m'.trk[t].k = "mic" /\ m'.trk[t].live /\ m'.trk[t].src = 0 /\ m'.trk[t].stray = late
    /\ \A i \in DOMAIN m.trk :
          /\ m'.trk[i].k = m.trk[i].k /\ m'.trk[i].src = m.trk[i].src /\ m'.trk[i].stray = m.trk[i].stray
          /\ m'.trk[i].live => m.trk[i].live
          /\ m'.trk[i].on = m.trk[i].on
          /\ m.trk[i].k # "mic" => m'.trk[i] = m.trk[i]
    /\ m'.streams = m.streams \cup {t} /\ m'.audio \in {m.audio, t}
    /\ \A i \in DOMAIN m'.senders : i = t \/ (i \in DOMAIN m.senders /\ m'.senders[i] = m.senders[i])
    /\ \A i \in DOMAIN m.senders : m.trk[i].k # "mic" => i \in DOMAIN m'.senders
    /\ t \in DOMAIN m'.senders => m'.senders[t] = t
    /\ m'.video = m.video /\ m'.videoAdded = m.videoAdded /\ m'.vsender = m.vsender /\ m'.seg = m.seg
    /\ m'.screen = m.screen /\ m'.blur = m.blur /\ m'.peer = m.peer /\ m'.closed = m.closed
    /\ m'.shown.cam = m.shown.cam /\ m'.past.cam = m.past.cam /\ m'.past.raw = m.past.raw
    /\ m'.past.mic = m.past.mic /\ m'.past.early = m.past.early
    /\ m.past.failed \subseteq m'.past.failed
    /\ m'.cur = m.cur /\ m'.sel = m.sel /\ m'.plugged = m.plugged

LEMMA MicOpensKept ==
    ASSUME MediaInv, NEW o \in ops, o.k = "mic", o.at # "enum", NEW t, MicOpens(t, o.late), uses' = uses,
           \/ ops' = ops \ {o}
           \/ m'.audio # 0 /\ ops' = (ops \ {o}) \cup {[o EXCEPT !.at = "add"]}
    PROVE  Typed' /\ Named' /\ Released' /\ CamStill /\ MicChosen'
<1> DEFINE p == [o EXCEPT !.at = "add"]
<1>1. o \in Waiting /\ p \in Waiting /\ p.k = "mic" /\ p.at = "add" /\ p.late = o.late
  BY MediaFacts DEF Waiting
<1> HIDE DEF p
<1>2. \A q \in ops' : q \in ops \/ (q = p /\ m'.audio # 0)
  BY DEF p
<1>3. Typed'
  BY <1>1, <1>2 DEF MediaInv, Typed, MicOpens
<1>4. \A i, ks : IsA(i, ks) => IsA(i, ks)'
  BY DEF IsA, MicOpens
<1>5. Named'
  <2>1. IsA(t, {"mic"})' /\ t # 0
    BY DEF IsA, MicOpens
  <2>2. \A i \in DOMAIN m'.senders : i \in DOMAIN m'.trk /\ m'.senders[i] \in {0, i}
    BY DEF MicOpens, MediaInv, Named
  <2>3. (\A i \in DOMAIN m.trk : m.trk[i].src # 0 => m.trk[i].k = "blur" /\ IsA(m.trk[i].src, Video))'
    BY DEF MicOpens, MediaInv, Named, IsA
  <2>4. /\ (m.audio # 0 => IsA(m.audio, {"mic"}))'
        /\ (m.video # 0 => IsA(m.video, Video))'
        /\ (m.screen # 0 => IsA(m.screen, {"scr"}))'
        /\ (m.videoAdded \/ m.vsender # 0 => IsA(m.vsender, Video))'
    BY <2>1 DEF MicOpens, MediaInv, Named, IsA
  <2>5. m.audio # 0 => m'.audio # 0
    BY <2>1 DEF MicOpens
  <2>6. \A q \in ops' : /\ q.k = "mic" /\ q.at = "switch" => IsA(q.old, {"mic"})'
                        /\ q.k = "mic" /\ q.at = "add" => m'.audio # 0
                        /\ q.k = "cam" /\ q.at \in {"switch", "add"} => IsA(q.old, Video)'
                        /\ q.at = "off" => IsA(q.old, {"scr"})'
    BY <1>1, <1>2, <1>4, <2>5 DEF MediaInv, Named
  <2> QED BY <2>2, <2>3, <2>4, <2>6 DEF Named
<1>6. Released'
  <2>1. TracksKept
    BY DEF TracksKept, MicOpens
  <2>2. \A q \in ops' : q \in ops \/ (m.closed => q.late)
    BY <1>1, <1>2 DEF MediaInv, Released
  <2>3. m.closed => o.late /\ ~m.peer
    BY DEF MediaInv, Released
  <2> QED BY <2>1, <2>2, <2>3, ReleasedKept DEF MicOpens
<1>7. CamStill
  <2>1. SameTracks(Video)
    <3>1. \A i \in DOMAIN m.trk : m.trk[i].k \in Video => m.trk[i].k # "mic"
      BY DEF Video
    <3>2. "mic" \notin Video
      BY DEF Video
    <3> QED BY <3>1, <3>2 DEF SameTracks, MicOpens
  <2>2. SameOps("cam")
    BY <1>1 DEF SameOps, p
  <2> QED BY <2>1, <2>2 DEF CamStill, MicOpens
<1>8. MicChosen'
  <2>1. CASE m.past.mic
    BY <2>1 DEF MicChosen, MicOpens
  <2>2. CASE ~m.past.mic
    <3>1. \A q \in ops : q.k = "mic" => q = o
      BY <2>2, OnlyOp
    <3>2. (~\E q \in ops : q.at = "enum") /\ ~\E q \in ops' : q.at = "enum"
      BY <1>1, <1>2, <3>1 DEF MediaInv, Typed
    <3> QED BY <2>2, <3>2 DEF MediaInv, MicChosen, Fits, MicOpens
  <2> QED BY <2>1, <2>2
<1> QED BY <1>3, <1>5, <1>6, <1>7, <1>8

LEMMA MicOpenedKept ==
    ASSUME Mics \in SUBSET (Nat \ {0}), MediaInv, NEW o \in ops, MicOpened(o)
    PROVE  MediaInv'
<1> DEFINE t == New(m)
           d == IF o.dev = 0 THEN First(m.plugged) ELSE o.dev
           a == Opened(m, "mic", d, o.late)
           b == Enable(a, t, FALSE)
           c == Keep(b, t)
           s == [c EXCEPT !.audio = t, !.stream = TRUE]
           p == [o EXCEPT !.at = "add"]
<1>1. /\ o.k = "mic" /\ o.at = "open" /\ m.plugged # {} /\ uses' = uses
      /\ \/ m' = UnmuteRest(s) /\ ~s.voiceAdded /\ ops' = (ops \ {o}) \cup {p}
         \/ m' = UnmuteRest(s) /\ ops' = ops \ {o}
         \/ m' = s /\ ops' = ops \ {o}
  BY DEF MicOpened, Goes, Ends, Adds
<1>2. d \in Nat /\ o.late \in BOOLEAN /\ o \in Waiting
  <2>1. m.plugged \in SUBSET Nat /\ o \in Waiting
    BY MediaFacts DEF MediaInv, Typed
  <2>2. First(m.plugged) \in Nat
    BY <1>1, <2>1, FirstOf
  <2> QED BY <2>1, <2>2 DEF Waiting
<1> HIDE DEF d
<1>3. /\ a \in Media /\ SameRest(a, m) /\ a.senders = m.senders /\ a.streams = m.streams
      /\ DOMAIN a.trk = DOMAIN m.trk \cup {t} /\ t \notin DOMAIN m.trk /\ t \in Nat \ {0}
      /\ \A i \in DOMAIN m.trk : a.trk[i] = m.trk[i]
      /\ a.trk[t] = [k |-> "mic", live |-> TRUE, on |-> TRUE, dev |-> d, src |-> 0, stray |-> o.late]
  <2>1. m \in Media
    BY MediaFacts
  <2> HIDE DEF t
  <2> QED BY <1>2, <2>1, OpenedFacts DEF t
<1> HIDE DEF a, t
<1>4. Switched(b, a, t) /\ ~b.trk[t].on
  BY <1>3, EnableFacts, Zenon
<1> HIDE DEF b
<1>5. /\ c \in Media /\ SameRest(c, m) /\ c.senders = m.senders /\ c.streams = m.streams \cup {t}
      /\ DOMAIN c.trk = DOMAIN m.trk \cup {t}
      /\ \A i \in DOMAIN m.trk : c.trk[i] = m.trk[i]
      /\ c.trk[t].k = "mic" /\ c.trk[t].live /\ ~c.trk[t].on /\ c.trk[t].src = 0 /\ c.trk[t].stray = o.late
  <2>1. /\ c \in Media /\ SameRest(c, b) /\ c.trk = b.trk /\ c.senders = b.senders /\ c.streams = b.streams \cup {t}
    BY <1>3, <1>4, KeepFacts DEF Switched
  <2> QED BY <1>3, <1>4, <2>1 DEF Switched, SameRest
<1> HIDE DEF c
<1>6. /\ s \in Media /\ s.trk = c.trk /\ s.senders = c.senders /\ s.streams = c.streams
      /\ s.audio = t /\ s.stream = TRUE /\ s.voiceAdded = c.voiceAdded
      /\ s.video = c.video /\ s.videoAdded = c.videoAdded /\ s.vsender = c.vsender /\ s.seg = c.seg
      /\ s.screen = c.screen /\ s.blur = c.blur /\ s.peer = c.peer /\ s.closed = c.closed /\ s.init = c.init
      /\ s.cur = c.cur /\ s.sel = c.sel /\ s.plugged = c.plugged /\ s.past = c.past /\ s.shown = c.shown
  BY <1>3, <1>5 DEF Media
<1> HIDE DEF s
<1>7. /\ VoiceOnly(m', s) /\ ChoiceKept(m', s)
      /\ \/ m' = s
         \/ /\ m'.trk[t].on /\ m'.shown.mic = ~s.closed
            /\ t \in DOMAIN m'.senders /\ m'.senders[t] = t
         \/ /\ m'.trk = s.trk /\ m'.shown = s.shown
            /\ t \in DOMAIN m'.senders /\ m'.senders[t] = t
      /\ p \in ops' \ ops => t \in DOMAIN m'.senders /\ m'.senders[t] = t
  <2>1. CASE m' = s /\ ops' = ops \ {o}
    BY <1>6, <2>1 DEF VoiceOnly, ChoiceKept
  <2>2. CASE m' = UnmuteRest(s)
    <3>1. s.audio \in DOMAIN s.trk /\ s.audio # 0
      BY <1>3, <1>5, <1>6
    <3>2. /\ VoiceOnly(m', s) /\ ChoiceKept(m', s)
          /\ \/ m' = s /\ s.voiceAdded
             \/ /\ s.voiceAdded /\ m'.trk[s.audio].on /\ m'.shown.mic = ~s.closed
                /\ s.audio \in DOMAIN m'.senders /\ m'.senders[s.audio] = s.audio
             \/ /\ ~s.voiceAdded /\ m'.trk = s.trk /\ m'.shown = s.shown
                /\ s.audio \in DOMAIN m'.senders /\ m'.senders[s.audio] = s.audio
      BY <1>6, <2>2, <3>1, UnmuteRestFacts
    <3>3. p \in ops' \ ops => ~s.voiceAdded
      <4>1. CASE ops' = ops \ {o}
        BY <4>1
      <4>2. CASE ~s.voiceAdded
        BY <4>2
      <4> QED BY <1>1, <4>1, <4>2
    <3> QED BY <1>6, <3>2, <3>3
  <2> QED BY <1>1, <2>1, <2>2
<1>8. MicOpens(t, o.late) /\ m'.audio = t /\ m'.stream /\ m'.past = m.past
  <2>1. m'.past = m.past /\ m'.audio = t /\ m'.stream
    BY <1>5, <1>6, <1>7 DEF VoiceOnly, SameRest
  <2>2. m.past.failed \subseteq m'.past.failed
    BY <2>1
  <2>3. \A i \in DOMAIN m.trk : i # t /\ m'.trk[i] = m.trk[i]
    BY <1>3, <1>5, <1>6, <1>7 DEF VoiceOnly
  <2>4. DOMAIN m'.trk = DOMAIN m.trk \cup {t} /\ m'.trk[t].k = "mic" /\ m'.trk[t].live
        /\ m'.trk[t].src = 0 /\ m'.trk[t].stray = o.late
    BY <1>3, <1>5, <1>6, <1>7 DEF VoiceOnly
  <2>5. /\ \A i \in DOMAIN m'.senders : i = t \/ (i \in DOMAIN m.senders /\ m'.senders[i] = m.senders[i])
        /\ \A i \in DOMAIN m.senders : i \in DOMAIN m'.senders
        /\ t \in DOMAIN m'.senders => m'.senders[t] = t
    <3>1. t \notin DOMAIN s.senders
      BY <1>3, <1>5, <1>6, MediaFacts
    <3>2. \A i : i # t => /\ i \in DOMAIN m'.senders <=> i \in DOMAIN m.senders
                          /\ i \in DOMAIN m.senders => m'.senders[i] = m.senders[i]
      BY <1>5, <1>6, <1>7 DEF VoiceOnly
    <3> QED BY <1>5, <1>6, <1>7, <3>1, <3>2
  <2>6. /\ m' \in Media /\ m'.streams = m.streams \cup {t}
        /\ m'.video = m.video /\ m'.videoAdded = m.videoAdded /\ m'.vsender = m.vsender /\ m'.seg = m.seg
        /\ m'.screen = m.screen /\ m'.blur = m.blur /\ m'.peer = m.peer /\ m'.closed = m.closed
        /\ m'.shown.cam = m.shown.cam
        /\ m'.cur = m.cur /\ m'.sel = m.sel /\ m'.plugged = m.plugged
    BY <1>5, <1>6, <1>7 DEF VoiceOnly, ChoiceKept, SameRest
  <2> QED BY <1>3, <2>1, <2>2, <2>3, <2>4, <2>5, <2>6 DEF MicOpens
<1>9. Typed' /\ Named' /\ Released' /\ CamStill /\ MicChosen'
  BY <1>1, <1>3, <1>8, MicOpensKept
<1>10. MicSteady'
  <2>1. CASE m.past.mic
    BY <1>8, <2>1 DEF MicSteady
  <2>2. CASE ~m.past.mic
    <3>1. \A q \in ops : q.k = "mic" => q = o
      BY <1>1, <2>2, OnlyOp
    <3>2. \A q \in ops' : q.k = "mic" => q = p /\ p \in ops'
      BY <1>1, <3>1
    <3>3. p.at = "add" /\ p.k = "mic"
      BY <1>1, <1>2 DEF Waiting
    <3> HIDE DEF p
    <3>4. p \notin ops
      BY <1>1, <3>1, <3>3
    <3>5. ASSUME ~m.closed PROVE MicTrack'
      <4>1. MicTrack /\ m.audio = 0
        BY <1>1, <2>2, <3>5 DEF MediaInv, MicSteady, MicWaits
      <4>2. ~m.shown.mic /\ \A i \in DOMAIN m.senders : ~(m.trk[i].k = "mic" /\ m.senders[i] # 0 /\ m.trk[i].live /\ m.trk[i].on)
        BY <4>1, MediaFacts DEF MicTrack
      <4>3. s.closed = m.closed /\ s.shown = m.shown /\ s.senders = m.senders /\ ~s.trk[t].on
        BY <1>5, <1>6 DEF SameRest
      <4>4. \A i \in DOMAIN m'.senders : m'.trk[i].k = "mic" /\ m'.senders[i] # 0 /\ m'.trk[i].live /\ m'.trk[i].on => i = t
        BY <1>8, <4>2, MediaFacts DEF MicOpens
      <4>5. m'.trk[t].on => m'.shown.mic
        BY <1>7, <3>5, <4>3
      <4>6. m'.shown.mic => m'.trk[t].on /\ t \in DOMAIN m'.senders /\ m'.senders[t] = t
        BY <1>7, <4>2, <4>3
      <4> QED BY <1>3, <1>8, <4>4, <4>5, <4>6 DEF MicTrack, MicOpens
    <3>6. \A q \in ops' : q.k = "mic" => MicWaits(q)'
      BY <1>3, <1>7, <1>8, <3>2, <3>3, <3>4 DEF MicWaits
    <3>7. Alone("mic")'
      BY <3>2 DEF Alone
    <3> QED BY <1>8, <3>5, <3>6, <3>7 DEF MicSteady, MicOpens
  <2> QED BY <2>1, <2>2
<1> QED BY <1>9, <1>10, CamStillKept DEF MediaInv

LEMMA MicSwitchedKept ==
    ASSUME Mics \in SUBSET (Nat \ {0}), MediaInv, NEW o \in ops, MicSwitched(o)
    PROVE  MediaInv'
<1> DEFINE t == New(m)
           a == Opened(m, "mic", o.dev, o.late)
           b == Keep(a, t)
           c == Stop(b, {o.old})
           s == Enable(c, t, o.on)
           r == replaceTrack(s, o.old, t)
<1>1. /\ o.k = "mic" /\ o.at = "switch" /\ uses' = uses /\ ops' = ops \ {o}
      /\ \/ ~o.on /\ m' = [s EXCEPT !.audio = t, !.voiceAdded = FALSE]
         \/ o.on /\ HasSender(s, o.old) /\ m' = [r EXCEPT !.audio = t]
         \/ o.on /\ m' = Fail(s, "mic")
  BY DEF MicSwitched, Ends
<1>2. /\ o \in Waiting /\ o.dev \in Nat /\ o.late \in BOOLEAN /\ o.on \in BOOLEAN /\ o.old \in Nat
      /\ o.old \in DOMAIN m.trk /\ m.trk[o.old].k = "mic" /\ m.trk[o.old].src = 0
  BY <1>1, MediaFacts DEF Waiting, MediaInv, Named, IsA
<1>3. /\ a \in Media /\ SameRest(a, m) /\ a.senders = m.senders /\ a.streams = m.streams
      /\ DOMAIN a.trk = DOMAIN m.trk \cup {t} /\ t \notin DOMAIN m.trk /\ t \in Nat \ {0}
      /\ \A i \in DOMAIN m.trk : a.trk[i] = m.trk[i]
      /\ a.trk[t] = [k |-> "mic", live |-> TRUE, on |-> TRUE, dev |-> o.dev, src |-> 0, stray |-> o.late]
  <2>1. m \in Media
    BY MediaFacts
  <2> HIDE DEF t
  <2> QED BY <1>2, <2>1, OpenedFacts DEF t
<1> HIDE DEF a, t
<1>4. b \in Media /\ SameRest(b, a) /\ b.trk = a.trk /\ b.senders = a.senders /\ b.streams = a.streams \cup {t}
  BY <1>3, KeepFacts
<1> HIDE DEF b
<1>5. /\ c \in Media /\ SameRest(c, b) /\ c.senders = b.senders /\ c.streams = b.streams
      /\ DOMAIN c.trk = DOMAIN b.trk
      /\ \A i \in DOMAIN b.trk :
            /\ c.trk[i].k = b.trk[i].k /\ c.trk[i].on = b.trk[i].on
            /\ c.trk[i].src = b.trk[i].src /\ c.trk[i].stray = b.trk[i].stray
            /\ c.trk[i].live <=> b.trk[i].live /\ i # o.old
            /\ i # o.old => c.trk[i] = b.trk[i]
  <2>1. {o.old} \in SUBSET DOMAIN b.trk /\ b.trk[o.old].src = 0 /\ 0 \notin DOMAIN b.trk
    BY <1>2, <1>3, <1>4, MediaFacts
  <2>2. \A i \in DOMAIN b.trk : (i \notin {o.old} <=> i # o.old) /\ \A j \in {o.old} : b.trk[j].src # i
    BY <2>1
  <2> QED BY <1>4, <2>1, <2>2, StopFacts, SMTT(30)
<1> HIDE DEF c
<1>6. Switched(s, c, t) /\ s.trk[t].on = o.on
  BY <1>2, <1>3, <1>4, <1>5, EnableFacts
<1> HIDE DEF s
<1>7. /\ s \in Media /\ SameRest(s, m) /\ s.senders = m.senders /\ s.streams = m.streams \cup {t}
      /\ DOMAIN s.trk = DOMAIN m.trk \cup {t}
      /\ s.trk[t].k = "mic" /\ s.trk[t].live /\ s.trk[t].src = 0 /\ s.trk[t].stray = o.late
      /\ \A i \in DOMAIN m.trk :
            /\ s.trk[i].k = m.trk[i].k /\ s.trk[i].on = m.trk[i].on
            /\ s.trk[i].src = m.trk[i].src /\ s.trk[i].stray = m.trk[i].stray
            /\ s.trk[i].live <=> m.trk[i].live /\ i # o.old
            /\ m.trk[i].k # "mic" => s.trk[i] = m.trk[i]
  <2>1. SameRest(s, m)
    BY <1>3, <1>4, <1>5, <1>6 DEF Switched, SameRest
  <2>2. t # o.old
    BY <1>2, <1>3
  <2> QED BY <1>2, <1>3, <1>4, <1>5, <1>6, <2>1, <2>2 DEF Switched
<1>8. /\ r \in Media /\ SameRest(r, s) /\ r.trk = s.trk /\ r.streams = s.streams
      /\ DOMAIN r.senders = (DOMAIN s.senders \ {o.old}) \cup {t} /\ r.senders[t] = t
      /\ \A i \in DOMAIN s.senders : i \notin {o.old, t} => r.senders[i] = s.senders[i]
  <2>1. t \in Nat /\ t # 0 /\ o.old \in Nat /\ s \in Media
    BY <1>2, <1>3, <1>7
  <2> QED BY <2>1, replaceTrackFacts
<1> HIDE DEF r
<1>9. /\ MicOpens(t, o.late) /\ m'.trk = s.trk /\ m'.stream = m.stream /\ m'.shown = m.shown
      /\ \/ ~o.on /\ m'.audio = t /\ m'.senders = m.senders /\ m'.past = m.past
         \/ o.on /\ m'.audio = t /\ m'.senders = r.senders /\ m'.past = m.past
         \/ o.on /\ m'.audio = m.audio /\ m'.senders = m.senders /\ "mic" \in m'.past.failed
  <2>1. CASE ~o.on /\ m' = [s EXCEPT !.audio = t, !.voiceAdded = FALSE]
    <3>1. /\ m' \in Media /\ m'.trk = s.trk /\ m'.senders = s.senders /\ m'.streams = s.streams
          /\ m'.audio = t /\ m'.stream = s.stream /\ m'.video = s.video /\ m'.videoAdded = s.videoAdded
          /\ m'.vsender = s.vsender /\ m'.seg = s.seg /\ m'.screen = s.screen /\ m'.blur = s.blur
          /\ m'.peer = s.peer /\ m'.closed = s.closed /\ m'.cur = s.cur /\ m'.sel = s.sel
          /\ m'.plugged = s.plugged /\ m'.shown = s.shown /\ m'.past = s.past
      BY <1>3, <1>7, <2>1 DEF Media
    <3>2. MicOpens(t, o.late)
      BY <1>3, <1>7, <3>1, MediaFacts DEF MicOpens, SameRest
    <3> QED BY <1>7, <2>1, <3>1, <3>2 DEF SameRest
  <2>2. CASE o.on /\ HasSender(s, o.old) /\ m' = [r EXCEPT !.audio = t]
    <3>1. /\ m' \in Media /\ m'.trk = r.trk /\ m'.senders = r.senders /\ m'.streams = r.streams
          /\ m'.audio = t /\ m'.stream = r.stream /\ m'.video = r.video /\ m'.videoAdded = r.videoAdded
          /\ m'.vsender = r.vsender /\ m'.seg = r.seg /\ m'.screen = r.screen /\ m'.blur = r.blur
          /\ m'.peer = r.peer /\ m'.closed = r.closed /\ m'.cur = r.cur /\ m'.sel = r.sel
          /\ m'.plugged = r.plugged /\ m'.shown = r.shown /\ m'.past = r.past
      BY <1>3, <1>8, <2>2 DEF Media
    <3>2. /\ \A i \in DOMAIN m'.senders : i = t \/ (i \in DOMAIN m.senders /\ m'.senders[i] = m.senders[i])
          /\ \A i \in DOMAIN m.senders : m.trk[i].k # "mic" => i \in DOMAIN m'.senders
          /\ t \in DOMAIN m'.senders => m'.senders[t] = t
      BY <1>2, <1>7, <1>8, <3>1
    <3>3. MicOpens(t, o.late)
      BY <1>3, <1>7, <1>8, <3>1, <3>2 DEF MicOpens, SameRest
    <3> QED BY <1>7, <1>8, <2>2, <3>1, <3>3 DEF SameRest
  <2>3. CASE o.on /\ m' = Fail(s, "mic")
    <3>1. /\ m' \in Media /\ NotedOnly(m', s) /\ ChoiceKept(m', s) /\ m'.past.failed = s.past.failed \cup {"mic"}
          /\ m'.past.mic = s.past.mic /\ m'.past.cam = s.past.cam
      BY <1>7, <2>3, FailFacts DEF Kinds
    <3>2. MicOpens(t, o.late)
      BY <1>3, <1>7, <3>1, MediaFacts DEF MicOpens, SameRest, NotedOnly, ChoiceKept
    <3> QED BY <1>7, <2>3, <3>1, <3>2 DEF SameRest, NotedOnly
  <2> QED BY <1>1, <2>1, <2>2, <2>3
<1>10. Typed' /\ Named' /\ Released' /\ CamStill /\ MicChosen'
  BY <1>1, <1>9, MicOpensKept
<1>11. MicSteady'
  <2>1. CASE m.past.mic
    BY <1>9, <2>1 DEF MicSteady, MicOpens
  <2>2. CASE ~m.past.mic
    <3>1. \A q \in ops' : q.k # "mic"
      BY <1>1, <2>2, OnlyOp
    <3>2. ASSUME ~m.closed PROVE MicTrack'
      <4>1. MicTrack /\ o.old = m.audio /\ o.on = m.trk[m.audio].on /\ m.audio # 0
        BY <1>1, <1>2, <2>2, <3>2, MediaFacts DEF MediaInv, MicSteady, MicWaits
      <4>2. /\ ~m'.trk[m.audio].live /\ m'.trk[m.audio].on = m.trk[m.audio].on /\ m'.trk[t].live
            /\ m'.trk[t].on = o.on
        BY <1>2, <1>6, <1>7, <1>9, <4>1
      <4>3. \A i \in DOMAIN m'.senders :
               m'.trk[i].k = "mic" /\ m'.senders[i] # 0 /\ m'.trk[i].live /\ m'.trk[i].on => i = t /\ t \in DOMAIN m'.senders
        <5>1. SUFFICES ASSUME NEW i \in DOMAIN m'.senders, i # t,
                              m'.trk[i].k = "mic", m'.senders[i] # 0, m'.trk[i].live, m'.trk[i].on
                       PROVE  FALSE
          OBVIOUS
        <5>2. i \in DOMAIN m.senders /\ m'.senders[i] = m.senders[i] /\ i \in DOMAIN m.trk
          BY <1>9, <5>1, MediaFacts DEF MicOpens
        <5>3. m.trk[i].k = "mic" /\ m.trk[i].live /\ m.trk[i].on
          BY <1>9, <5>1, <5>2 DEF MicOpens
        <5>4. i = m.audio
          BY <4>1, <5>1, <5>2, <5>3 DEF MicTrack
        <5> QED BY <4>2, <5>1, <5>4
      <4>4. CASE ~o.on /\ m'.audio = t /\ m'.senders = m.senders /\ m'.past = m.past
        BY <1>3, <1>9, <4>1, <4>2, <4>3, <4>4 DEF MicTrack
      <4>5. CASE o.on /\ m'.audio = t /\ m'.senders = r.senders /\ m'.past = m.past
        BY <1>3, <1>8, <1>9, <4>1, <4>2, <4>3, <4>5 DEF MicTrack
      <4>6. CASE o.on /\ m'.audio = m.audio /\ m'.senders = m.senders /\ "mic" \in m'.past.failed
        <5>1. t \notin DOMAIN m'.senders
          BY <1>3, <4>6, MediaFacts
        <5> QED BY <1>9, <4>1, <4>2, <4>3, <4>6, <5>1 DEF MicTrack
      <4> QED BY <1>9, <4>4, <4>5, <4>6
    <3> QED BY <1>9, <3>1, <3>2 DEF MicSteady, Alone, MicOpens
  <2> QED BY <2>1, <2>2
<1> QED BY <1>10, <1>11, CamStillKept DEF MediaInv

-----------------------------------------------------------------------------
(* Steps of the camera *)

\* r and s differ in the tracks, the senders and the fields of the camera at
\* most; cleanup knows the tracks that r has and s has not.
VideoOnly(r, s) ==
    /\ r \in Media
    /\ r.audio = s.audio /\ r.stream = s.stream /\ r.screen = s.screen /\ r.peer = s.peer /\ r.closed = s.closed
    /\ r.cur = s.cur /\ r.sel = s.sel /\ r.plugged = s.plugged /\ r.shown.mic = s.shown.mic
    /\ r.past.mic = s.past.mic /\ r.past.early = s.past.early
    /\ "mic" \in s.past.failed => "mic" \in r.past.failed
    /\ \A i \in s.streams : i \in r.streams
    /\ \A i \in DOMAIN s.trk :
          /\ i \in DOMAIN r.trk /\ r.trk[i].k = s.trk[i].k /\ r.trk[i].src = s.trk[i].src
          /\ r.trk[i].stray = s.trk[i].stray /\ (r.trk[i].live => s.trk[i].live)
          /\ s.trk[i].k \notin Video => r.trk[i] = s.trk[i]
    /\ \A i \in DOMAIN r.trk : i \notin DOMAIN s.trk =>
          /\ r.trk[i].k \in Video /\ i \in r.streams /\ (s.closed => r.trk[i].stray)
          /\ r.trk[i].src # 0 =>
                r.trk[i].k = "blur" /\ r.trk[i].src \in DOMAIN r.trk /\ r.trk[r.trk[i].src].k \in Video
    /\ \A i \in DOMAIN s.senders : i \in DOMAIN r.senders \/ (i \in DOMAIN r.trk /\ r.trk[i].k \in Video)
    /\ \A i \in DOMAIN r.senders :
          \/ i \in DOMAIN s.senders /\ r.senders[i] = s.senders[i]
          \/ i \in DOMAIN r.trk /\ r.trk[i].k \in Video /\ r.senders[i] \in {0, i}

LEMMA VideoOnlyTrans ==
    ASSUME NEW q, NEW s, NEW r, VideoOnly(s, q), VideoOnly(r, s)
    PROVE  VideoOnly(r, q)
<1>1. /\ r \in Media
      /\ r.audio = q.audio /\ r.stream = q.stream /\ r.screen = q.screen /\ r.peer = q.peer /\ r.closed = q.closed
      /\ r.cur = q.cur /\ r.sel = q.sel /\ r.plugged = q.plugged /\ r.shown.mic = q.shown.mic
      /\ r.past.mic = q.past.mic /\ r.past.early = q.past.early
      /\ "mic" \in q.past.failed => "mic" \in r.past.failed
      /\ \A i \in q.streams : i \in r.streams
  BY DEF VideoOnly
<1>2. \A i \in DOMAIN q.trk :
         /\ i \in DOMAIN r.trk /\ r.trk[i].k = q.trk[i].k /\ r.trk[i].src = q.trk[i].src
         /\ r.trk[i].stray = q.trk[i].stray /\ (r.trk[i].live => q.trk[i].live)
         /\ q.trk[i].k \notin Video => r.trk[i] = q.trk[i]
  BY DEF VideoOnly
<1>3. ASSUME NEW i \in DOMAIN r.trk, i \notin DOMAIN q.trk
      PROVE  /\ r.trk[i].k \in Video /\ i \in r.streams /\ (q.closed => r.trk[i].stray)
             /\ r.trk[i].src # 0 =>
                   r.trk[i].k = "blur" /\ r.trk[i].src \in DOMAIN r.trk /\ r.trk[r.trk[i].src].k \in Video
  <2>1. CASE i \in DOMAIN s.trk
    <3>1. /\ s.trk[i].k \in Video /\ i \in s.streams /\ (q.closed => s.trk[i].stray)
          /\ s.trk[i].src # 0 =>
                s.trk[i].k = "blur" /\ s.trk[i].src \in DOMAIN s.trk /\ s.trk[s.trk[i].src].k \in Video
      BY <1>3, <2>1 DEF VideoOnly
    <3>2. r.trk[i].k = s.trk[i].k /\ r.trk[i].src = s.trk[i].src /\ r.trk[i].stray = s.trk[i].stray /\ i \in r.streams
      BY <2>1, <3>1 DEF VideoOnly
    <3>3. s.trk[i].src \in DOMAIN s.trk =>
             s.trk[i].src \in DOMAIN r.trk /\ r.trk[s.trk[i].src].k = s.trk[s.trk[i].src].k
      BY DEF VideoOnly
    <3> QED BY <3>1, <3>2, <3>3
  <2>2. CASE i \notin DOMAIN s.trk
    BY <1>3, <2>2 DEF VideoOnly
  <2> QED BY <2>1, <2>2
<1>4. ASSUME NEW i \in DOMAIN q.senders
      PROVE  i \in DOMAIN r.senders \/ (i \in DOMAIN r.trk /\ r.trk[i].k \in Video)
  BY DEF VideoOnly
<1>5. ASSUME NEW i \in DOMAIN r.senders
      PROVE  \/ i \in DOMAIN q.senders /\ r.senders[i] = q.senders[i]
             \/ i \in DOMAIN r.trk /\ r.trk[i].k \in Video /\ r.senders[i] \in {0, i}
  BY DEF VideoOnly
<1> QED BY <1>1, <1>2, <1>3, <1>4, <1>5 DEF VideoOnly

\* Such a step concerns the camera only.
LEMMA VideoStep ==
    ASSUME MediaInv, VideoOnly(m', m),
           (m.video # 0 => IsA(m.video, Video))', (m.videoAdded \/ m.vsender # 0 => IsA(m.vsender, Video))',
           ops' \subseteq Waiting, uses' \in Nat, SameOps("mic"),
           \A o \in ops' \ ops :
              /\ o.k = "cam" /\ (m.closed => o.late) /\ o.at \in {"open", "switch", "add"}
              /\ o.at \in {"switch", "add"} => IsA(o.old, Video)'
    PROVE  Typed' /\ Named' /\ Released' /\ MicStill
<1>1. Typed'
  BY DEF MediaInv, Typed, VideoOnly
<1>2. \A i : /\ IsA(i, {"mic"}) => IsA(i, {"mic"})'
             /\ IsA(i, {"scr"}) => IsA(i, {"scr"})'
             /\ IsA(i, Video) => IsA(i, Video)'
  BY DEF IsA, VideoOnly
<1>3. Named'
  <2>1. (m.audio # 0 => IsA(m.audio, {"mic"}))' /\ (m.screen # 0 => IsA(m.screen, {"scr"}))'
    BY DEF IsA, VideoOnly, MediaInv, Named
  <2>2. ASSUME NEW i \in DOMAIN m'.trk, m'.trk[i].src # 0
        PROVE  m'.trk[i].k = "blur" /\ m'.trk[i].src \in DOMAIN m'.trk /\ m'.trk[m'.trk[i].src].k \in Video
    <3>1. CASE i \in DOMAIN m.trk
      <4>1. m.trk[i].src # 0 /\ m'.trk[i].k = m.trk[i].k /\ m'.trk[i].src = m.trk[i].src
        BY <2>2, <3>1 DEF VideoOnly
      <4>2. m.trk[i].k = "blur" /\ m.trk[i].src \in DOMAIN m.trk /\ m.trk[m.trk[i].src].k \in Video
        BY <3>1, <4>1 DEF MediaInv, Named, IsA
      <4>3. m.trk[i].src \in DOMAIN m'.trk /\ m'.trk[m.trk[i].src].k = m.trk[m.trk[i].src].k
        BY <4>2 DEF VideoOnly
      <4> QED BY <4>1, <4>2, <4>3
    <3>2. CASE i \notin DOMAIN m.trk
      BY <2>2, <3>2 DEF VideoOnly
    <3> QED BY <3>1, <3>2
  <2>3. \A i \in DOMAIN m'.senders : i \in DOMAIN m'.trk /\ m'.senders[i] \in {0, i}
    <3>1. \A i \in DOMAIN m.senders : i \in DOMAIN m.trk /\ m.senders[i] \in {0, i}
      BY DEF MediaInv, Named
    <3> QED BY <3>1 DEF VideoOnly
  <2>4. m'.audio = m.audio
    BY DEF VideoOnly
  <2>5. \A q \in ops' : /\ q.k = "mic" /\ q.at = "switch" => IsA(q.old, {"mic"})'
                        /\ q.k = "mic" /\ q.at = "add" => m'.audio # 0
                        /\ q.k = "cam" /\ q.at \in {"switch", "add"} => IsA(q.old, Video)'
                        /\ q.at = "off" => IsA(q.old, {"scr"})'
    BY <1>2, <2>4 DEF MediaInv, Named
  <2> QED BY <2>1, <2>2, <2>3, <2>5 DEF Named, IsA
<1>4. Released'
  <2>1. TracksKept
    BY DEF TracksKept, VideoOnly
  <2>2. \A q \in ops' : q \in ops \/ (m.closed => q.late)
    OBVIOUS
  <2>3. m.closed => ~m.peer
    BY DEF MediaInv, Released
  <2> QED BY <2>1, <2>2, <2>3, ReleasedKept DEF VideoOnly
<1>5. MicStill
  <2>1. SameTracks({"mic"})
    <3>1. "mic" \notin Video
      BY DEF Video
    <3> QED BY <3>1 DEF SameTracks, VideoOnly
  <2> QED BY <2>1 DEF MicStill, VideoOnly
<1> QED BY <1>1, <1>3, <1>4, <1>5

\* Steps on the way: a camera is opened, a track of the camera is enabled,
\* stopped, given to a sender.
LEMMA CameraOpens ==
    ASSUME NEW s \in Media, NEW late \in BOOLEAN, s.closed => late,
           NEW t, t = New(s), NEW r, r = Keep(Opened(s, "cam", 0, late), t)
    PROVE  /\ VideoOnly(r, s) /\ SameRest(r, s) /\ r.senders = s.senders
           /\ DOMAIN r.trk = DOMAIN s.trk \cup {t} /\ t \notin DOMAIN s.trk /\ t \in Nat \ {0}
           /\ \A i \in DOMAIN s.trk : r.trk[i] = s.trk[i]
           /\ r.trk[t] = [k |-> "cam", live |-> TRUE, on |-> TRUE, dev |-> 0, src |-> 0, stray |-> late]
<1> DEFINE a == Opened(s, "cam", 0, late)
<1>1. /\ a \in Media /\ SameRest(a, s) /\ a.senders = s.senders /\ a.streams = s.streams
      /\ DOMAIN a.trk = DOMAIN s.trk \cup {t}
      /\ t \notin DOMAIN s.trk /\ t \in Nat \ {0}
      /\ \A i \in DOMAIN s.trk : a.trk[i] = s.trk[i]
      /\ a.trk[t] = [k |-> "cam", live |-> TRUE, on |-> TRUE, dev |-> 0, src |-> 0, stray |-> late]
  BY OpenedFacts
<1> HIDE DEF a
<1>2. /\ r \in Media /\ SameRest(r, a) /\ r.trk = a.trk /\ r.senders = a.senders
      /\ r.streams = a.streams \cup {t}
  <2>1. r = Keep(a, t)
    BY DEF a
  <2> QED BY <1>1, <2>1, KeepFacts
<1>3. SameRest(r, s)
  BY <1>1, <1>2 DEF SameRest
<1>4. VideoOnly(r, s)
  BY <1>1, <1>2, <1>3 DEF VideoOnly, SameRest, Video
<1> QED BY <1>1, <1>2, <1>3, <1>4

LEMMA CameraSwitched ==
    ASSUME NEW s \in Media, NEW t \in DOMAIN s.trk, s.trk[t].k \in Video, NEW r, Switched(r, s, t)
    PROVE  VideoOnly(r, s)
  BY DEF VideoOnly, Switched, SameRest

LEMMA CameraStops ==
    ASSUME NEW s \in Media, NEW t \in DOMAIN s.trk, s.trk[t].k \in Video, NEW r, r = Stop(s, {t}),
           s.trk[t].src \in DOMAIN s.trk => s.trk[s.trk[t].src].k \in Video
    PROVE  /\ VideoOnly(r, s) /\ SameRest(r, s) /\ r.senders = s.senders /\ DOMAIN r.trk = DOMAIN s.trk
           /\ \A i \in DOMAIN s.trk : /\ r.trk[i].live <=> s.trk[i].live /\ i # t /\ s.trk[t].src # i
                                      /\ r.trk[i].on = s.trk[i].on
<1>1. {t} \in SUBSET DOMAIN s.trk
  OBVIOUS
<1>2. /\ r \in Media /\ SameRest(r, s) /\ r.senders = s.senders /\ r.streams = s.streams
      /\ DOMAIN r.trk = DOMAIN s.trk
      /\ \A i \in DOMAIN s.trk :
            /\ r.trk[i].k = s.trk[i].k /\ r.trk[i].on = s.trk[i].on
            /\ r.trk[i].src = s.trk[i].src /\ r.trk[i].stray = s.trk[i].stray
            /\ r.trk[i].live <=> s.trk[i].live /\ i \notin {t} /\ \A j \in {t} : s.trk[j].src # i
            /\ i \notin {t} /\ (\A j \in {t} : s.trk[j].src # i) => r.trk[i] = s.trk[i]
  BY <1>1, StopFacts
<1>3. \A i : /\ i \notin {t} <=> i # t
             /\ (\A j \in {t} : s.trk[j].src # i) <=> s.trk[t].src # i
  OBVIOUS
<1>4. ASSUME NEW i \in DOMAIN s.trk
      PROVE  /\ r.trk[i].k = s.trk[i].k /\ r.trk[i].on = s.trk[i].on
             /\ r.trk[i].src = s.trk[i].src /\ r.trk[i].stray = s.trk[i].stray
             /\ r.trk[i].live <=> s.trk[i].live /\ i # t /\ s.trk[t].src # i
             /\ i # t /\ s.trk[t].src # i => r.trk[i] = s.trk[i]
  <2>1. /\ r.trk[i].k = s.trk[i].k /\ r.trk[i].on = s.trk[i].on
        /\ r.trk[i].src = s.trk[i].src /\ r.trk[i].stray = s.trk[i].stray
        /\ r.trk[i].live <=> s.trk[i].live /\ i \notin {t} /\ \A j \in {t} : s.trk[j].src # i
        /\ i \notin {t} /\ (\A j \in {t} : s.trk[j].src # i) => r.trk[i] = s.trk[i]
    BY <1>2, Zenon
  <2> QED BY <1>3, <2>1, Zenon
<1>5. \A i \in DOMAIN s.trk : s.trk[i].k \notin Video => r.trk[i] = s.trk[i]
  BY <1>4
<1>6. r \in Media /\ SameRest(r, s) /\ r.senders = s.senders /\ r.streams = s.streams /\ DOMAIN r.trk = DOMAIN s.trk
  BY <1>2
<1>7. VideoOnly(r, s)
  BY <1>4, <1>5, <1>6 DEF VideoOnly, SameRest
<1> QED BY <1>4, <1>6, <1>7

LEMMA CameraSent ==
    ASSUME NEW s \in Media, NEW t \in DOMAIN s.trk, s.trk[t].k \in Video, t \in Nat, NEW r, r = addTrack(s, t)
    PROVE  /\ VideoOnly(r, s) /\ SameRest(r, s) /\ r.trk = s.trk
           /\ DOMAIN r.senders = DOMAIN s.senders \cup {t} /\ r.senders[t] = t
           /\ \A i \in DOMAIN s.senders : i # t => r.senders[i] = s.senders[i]
<1>1. /\ r \in Media /\ SameRest(r, s) /\ r.trk = s.trk /\ r.streams = s.streams
      /\ DOMAIN r.senders = DOMAIN s.senders \cup {t} /\ r.senders[t] = t
      /\ \A i \in DOMAIN s.senders : i # t => r.senders[i] = s.senders[i]
  BY addTrackFacts
<1>2. VideoOnly(r, s)
  BY <1>1 DEF VideoOnly, SameRest
<1> QED BY <1>1, <1>2

LEMMA CameraReplaced ==
    ASSUME NEW s \in Media, NEW id \in Nat, id \in DOMAIN s.trk, s.trk[id].k \in Video,
           NEW t \in Nat, t # 0 => t \in DOMAIN s.trk /\ s.trk[t].k \in Video, NEW r, r = replaceTrack(s, id, t)
    PROVE  /\ VideoOnly(r, s) /\ SameRest(r, s) /\ r.trk = s.trk
           /\ t = 0 => /\ DOMAIN r.senders = DOMAIN s.senders
                       /\ id \in DOMAIN s.senders => r.senders[id] = 0
                       /\ \A i \in DOMAIN s.senders : i # id => r.senders[i] = s.senders[i]
           /\ t # 0 => /\ DOMAIN r.senders = (DOMAIN s.senders \ {id}) \cup {t} /\ r.senders[t] = t
                       /\ \A i \in DOMAIN s.senders : i \notin {id, t} => r.senders[i] = s.senders[i]
<1>1. /\ r \in Media /\ SameRest(r, s) /\ r.trk = s.trk /\ r.streams = s.streams
      /\ t = 0 => /\ DOMAIN r.senders = DOMAIN s.senders
                  /\ id \in DOMAIN s.senders => r.senders[id] = 0
                  /\ \A i \in DOMAIN s.senders : i # id => r.senders[i] = s.senders[i]
      /\ t # 0 => /\ DOMAIN r.senders = (DOMAIN s.senders \ {id}) \cup {t} /\ r.senders[t] = t
                  /\ \A i \in DOMAIN s.senders : i \notin {id, t} => r.senders[i] = s.senders[i]
  BY replaceTrackFacts, SMTT(30)
<1>2. VideoOnly(r, s)
  <2>1. CASE t = 0
    BY <1>1, <2>1 DEF VideoOnly, SameRest
  <2>2. CASE t # 0
    BY <1>1, <2>2 DEF VideoOnly, SameRest
  <2> QED BY <2>1, <2>2
<1> QED BY <1>1, <1>2

\* A field of the camera, or what is noted, changes.
SameVoice(r, s) ==
    /\ r \in Media /\ r.trk = s.trk /\ r.senders = s.senders /\ r.streams = s.streams
    /\ r.audio = s.audio /\ r.stream = s.stream /\ r.screen = s.screen /\ r.peer = s.peer /\ r.closed = s.closed
    /\ r.cur = s.cur /\ r.sel = s.sel /\ r.plugged = s.plugged /\ r.shown.mic = s.shown.mic
    /\ r.past.mic = s.past.mic /\ r.past.early = s.past.early
    /\ "mic" \in s.past.failed => "mic" \in r.past.failed

LEMMA CameraNoted ==
    ASSUME NEW s \in Media, NEW r, SameVoice(r, s)
    PROVE  VideoOnly(r, s)
  BY DEF SameVoice, VideoOnly

LEMMA CameraFails ==
    ASSUME NEW s \in Media, NEW r, r = Fail(s, "cam")
    PROVE  /\ VideoOnly(r, s) /\ NotedOnly(r, s) /\ ChoiceKept(r, s)
           /\ r.past.cam = s.past.cam /\ "cam" \in r.past.failed
<1>1. /\ r \in Media /\ NotedOnly(r, s) /\ ChoiceKept(r, s) /\ r.past.failed = s.past.failed \cup {"cam"}
      /\ r.past.mic = s.past.mic /\ r.past.cam = s.past.cam
  BY FailFacts DEF Kinds
<1>2. SameVoice(r, s)
  BY <1>1 DEF SameVoice, NotedOnly, ChoiceKept
<1> QED BY <1>1, <1>2, CameraNoted

LEMMA CameraBegins ==
    ASSUME NEW s \in Media, NEW r, r = Begins(s, "cam")
    PROVE  /\ VideoOnly(r, s) /\ NotedOnly(r, s) /\ ChoiceKept(r, s) /\ r.past.failed = s.past.failed
           /\ r.past.cam <=> s.past.cam \/ Busy("cam")
<1>1. /\ r \in Media /\ NotedOnly(r, s) /\ ChoiceKept(r, s) /\ r.past.failed = s.past.failed
      /\ r.past.mic = s.past.mic /\ (r.past.cam <=> s.past.cam \/ Busy("cam"))
  BY BeginsFacts DEF Kinds
<1>2. SameVoice(r, s)
  BY <1>1 DEF SameVoice, NotedOnly, ChoiceKept
<1> QED BY <1>1, <1>2, CameraNoted

\* The fields of the camera other than the segmenter are as they were.
SameCam(r, s) ==
    /\ r.video = s.video /\ r.videoAdded = s.videoAdded /\ r.vsender = s.vsender /\ r.blur = s.blur
    /\ r.peer = s.peer /\ r.closed = s.closed /\ r.shown = s.shown /\ r.past = s.past

LEMMA SameNew ==
    ASSUME NEW s \in Media, NEW r \in Media, DOMAIN r.trk = DOMAIN s.trk
    PROVE  New(r) = New(s)
<1>1. s.trk \in Seq(Track) /\ r.trk \in Seq(Track)
  BY DEF Media
<1>2. DOMAIN s.trk = 1 .. Len(s.trk) /\ Len(s.trk) \in Nat /\ DOMAIN r.trk = 1 .. Len(r.trk) /\ Len(r.trk) \in Nat
  BY <1>1, TrackSeq
<1>3. ASSUME NEW a \in Nat, NEW b \in Nat, 1 .. a = 1 .. b PROVE a = b
  <2>1. a # 0 => a \in 1 .. a
    OBVIOUS
  <2>2. b # 0 => b \in 1 .. b
    OBVIOUS
  <2>3. (a # 0 => a <= b /\ b # 0) /\ (b # 0 => b <= a /\ a # 0)
    BY <1>3, <2>1, <2>2
  <2> QED BY <2>3
<1>4. Len(s.trk) = Len(r.trk)
  BY <1>2, <1>3
<1> QED BY <1>4 DEF New

\* A canvas is made for camera t exactly when it is wanted and there is none.
LEMMA BgFacts ==
    ASSUME NEW s \in Media, NEW t \in DOMAIN s.trk, s.trk[t].k \in Video, s.closed => s.trk[t].stray,
           NEW r, r = initBgBackgroundTrack(s, t), NEW n, n = VideoTrack(s, t)
    PROVE  /\ VideoOnly(r, s) /\ SameCam(r, s) /\ r.senders = s.senders
           /\ n \in DOMAIN r.trk /\ n \in Nat \ {0} /\ r.trk[n].k \in Video
           /\ \A i \in DOMAIN s.trk : r.trk[i] = s.trk[i]
           /\ \/ ~(s.blur /\ s.seg = 0) /\ n = t /\ r = s
              \/ /\ s.blur /\ s.seg = 0 /\ n \notin DOMAIN s.trk /\ DOMAIN r.trk = DOMAIN s.trk \cup {n}
                 /\ r.trk[n].k = "blur" /\ r.trk[n].on /\ r.trk[n].src = t /\ r.seg = n
<1>1. s.trk \in Seq(Track) /\ s.trk[t] \in Track /\ t \in Nat \ {0}
  <2>1. s.trk \in Seq(Track)
    BY DEF Media
  <2> QED BY <2>1, TrackSeq
<1>2. CASE ~(s.blur /\ s.seg = 0)
  <2>1. r = s /\ n = t
    BY <1>2 DEF initBgBackgroundTrack, VideoTrack
  <2>2. VideoOnly(s, s)
    BY CameraNoted DEF SameVoice
  <2> QED BY <1>1, <1>2, <2>1, <2>2 DEF SameCam
<1>3. CASE s.blur /\ s.seg = 0
  <2> DEFINE stray == s.trk[t].stray
             a == Opened(s, "blur", 0, stray)
             p == Keep(a, n)
             f == [p.trk EXCEPT ![n].src = t]
  <2>1. n = New(s) /\ r = [p EXCEPT !.trk = f, !.seg = n]
    <3>1. n = New(s)
      BY <1>3 DEF VideoTrack
    <3>2. r = [p EXCEPT !.trk[n].src = t, !.seg = n]
      BY <1>3, <3>1 DEF initBgBackgroundTrack
    <3> QED BY <3>1, <3>2
  <2>2. stray \in BOOLEAN
    BY <1>1 DEF Track
  <2> HIDE DEF stray
  <2>3. /\ a \in Media /\ SameRest(a, s) /\ a.senders = s.senders /\ a.streams = s.streams
        /\ DOMAIN a.trk = DOMAIN s.trk \cup {n}
        /\ n \notin DOMAIN s.trk /\ n \in Nat \ {0}
        /\ \A i \in DOMAIN s.trk : a.trk[i] = s.trk[i]
        /\ a.trk[n] = [k |-> "blur", live |-> TRUE, on |-> TRUE, dev |-> 0, src |-> 0, stray |-> stray]
    BY <2>1, <2>2, OpenedFacts
  <2> HIDE DEF a
  <2>4. p \in Media /\ SameRest(p, a) /\ p.trk = a.trk /\ p.senders = a.senders /\ p.streams = a.streams \cup {n}
    BY <2>3, KeepFacts
  <2> HIDE DEF p
  <2>5. /\ f \in Seq(Track) /\ DOMAIN f = DOMAIN a.trk /\ \A i \in DOMAIN s.trk : f[i] = s.trk[i]
        /\ f[n].k = "blur" /\ f[n].on /\ f[n].src = t /\ f[n].stray = stray
    <3>1. p.trk \in Seq(Track) /\ \A i \in DOMAIN p.trk : p.trk[i] \in Track
      <4>1. p.trk \in Seq(Track)
        BY <2>4 DEF Media
      <4> QED BY <4>1, TrackSeq
    <3>2. f = [i \in DOMAIN p.trk |-> IF i = n THEN [p.trk[i] EXCEPT !.src = t] ELSE p.trk[i]]
      OBVIOUS
    <3> HIDE DEF f
    <3>3. p.trk[n] \in Track /\ p.trk[n].k = "blur" /\ p.trk[n].on /\ p.trk[n].stray = stray
      BY <2>3, <2>4, <3>1
    <3>4. f[n] \in Track /\ f[n].k = "blur" /\ f[n].on /\ f[n].src = t /\ f[n].stray = stray
      <4>1. f[n] = [p.trk[n] EXCEPT !.src = t]
        BY <2>3, <2>4, <3>2
      <4> QED BY <1>1, <3>3, <4>1 DEF Track
    <3>5. f \in [DOMAIN p.trk -> Track]
      BY <3>1, <3>2, <3>4
    <3>6. f \in Seq(Track)
      BY <3>1, <3>5, TrackSeq
    <3> QED BY <2>3, <2>4, <3>2, <3>4, <3>6
  <2> HIDE DEF f
  <2>6. /\ r \in Media /\ r.trk = f /\ r.seg = n /\ r.senders = p.senders /\ r.streams = p.streams
        /\ r.audio = p.audio /\ r.stream = p.stream /\ r.video = p.video /\ r.videoAdded = p.videoAdded
        /\ r.vsender = p.vsender /\ r.screen = p.screen /\ r.blur = p.blur /\ r.peer = p.peer
        /\ r.closed = p.closed /\ r.cur = p.cur /\ r.sel = p.sel /\ r.plugged = p.plugged
        /\ r.shown = p.shown /\ r.past = p.past
    <3>1. p \in Media /\ f \in Seq(Track) /\ n \in Nat
      BY <2>3, <2>4, <2>5
    <3>2. r = [p EXCEPT !.trk = f, !.seg = n]
      BY <2>1
    <3> QED BY <3>1, <3>2, ZenonT(40) DEF Media
  <2>7. SameCam(r, s)
    BY <2>3, <2>4, <2>6 DEF SameCam, SameRest
  <2>8. DOMAIN r.trk = DOMAIN s.trk \cup {n} /\ r.trk[n].stray = stray /\ r.trk[n].k = "blur" /\ r.trk[n].on
        /\ r.trk[n].src = t /\ \A i \in DOMAIN s.trk : r.trk[i] = s.trk[i]
    BY <2>3, <2>5, <2>6
  <2>9. VideoOnly(r, s)
    <3>1. s.closed => stray
      BY DEF stray
    <3>2. t \in DOMAIN r.trk /\ r.trk[t].k \in Video /\ "blur" \in Video
      BY <2>8 DEF Video
    <3>3. r.streams = s.streams \cup {n} /\ r.senders = s.senders
      BY <2>3, <2>4, <2>6
    <3>4. /\ r.audio = s.audio /\ r.stream = s.stream /\ r.screen = s.screen /\ r.peer = s.peer /\ r.closed = s.closed
          /\ r.cur = s.cur /\ r.sel = s.sel /\ r.plugged = s.plugged /\ r.shown = s.shown /\ r.past = s.past
      BY <2>3, <2>4, <2>6 DEF SameRest
    <3> QED BY <2>6, <2>8, <3>1, <3>2, <3>3, <3>4 DEF VideoOnly
  <2>10. "blur" \in Video
    BY DEF Video
  <2> QED BY <1>3, <2>3, <2>4, <2>6, <2>7, <2>8, <2>9, <2>10
<1> QED BY <1>2, <1>3

\* The camera is enabled and its canvas made, on the way of startVideo.
Prepared(s) == [initBgBackgroundTrack(Enable(s, s.video, TRUE), s.video) EXCEPT !.video = VideoTrack(s, s.video)]

LEMMA PreparedFacts ==
    ASSUME NEW s \in Media, NEW v, v = s.video, v \in DOMAIN s.trk, s.trk[v].k \in Video, s.closed => s.trk[v].stray,
           NEW r, r = Prepared(s)
    PROVE  /\ VideoOnly(r, s) /\ r.senders = s.senders
           /\ r.videoAdded = s.videoAdded /\ r.vsender = s.vsender /\ r.blur = s.blur
           /\ r.shown = s.shown /\ r.past = s.past
           /\ r.video \in Nat \ {0} /\ r.video = VideoTrack(s, v)
           /\ r.video \in DOMAIN r.trk /\ r.trk[r.video].k \in Video /\ r.trk[r.video].on
           /\ \A i \in DOMAIN s.trk : i \in DOMAIN r.trk /\ r.trk[i].k = s.trk[i].k /\ r.trk[i].live = s.trk[i].live
           /\ \/ ~(s.blur /\ s.seg = 0) /\ r.video = v /\ r.seg = s.seg /\ DOMAIN r.trk = DOMAIN s.trk
              \/ /\ s.blur /\ s.seg = 0 /\ r.video \notin DOMAIN s.trk /\ DOMAIN r.trk = DOMAIN s.trk \cup {r.video}
                 /\ r.trk[r.video].k = "blur" /\ r.trk[r.video].src = v /\ r.seg = r.video
<1> DEFINE e == Enable(s, v, TRUE)
           b == initBgBackgroundTrack(e, v)
           n == VideoTrack(s, v)
<1>1. Switched(e, s, v) /\ e.trk[v].on
  BY EnableFacts, Zenon
<1> HIDE DEF e
<1>2. r = [b EXCEPT !.video = n]
  BY Zenon DEF Prepared, e
<1>3. /\ e \in Media /\ DOMAIN e.trk = DOMAIN s.trk /\ e.senders = s.senders /\ SameRest(e, s)
      /\ e.trk[v].k \in Video /\ e.trk[v].stray = s.trk[v].stray
  BY <1>1 DEF Switched
<1>4. n = VideoTrack(e, v)
  <2>1. e.blur = s.blur /\ e.seg = s.seg /\ New(e) = New(s)
    BY <1>3, SameNew DEF SameRest
  <2> QED BY <2>1 DEF VideoTrack
<1> HIDE DEF n
<1>5. /\ VideoOnly(b, e) /\ SameCam(b, e) /\ b.senders = e.senders
      /\ n \in DOMAIN b.trk /\ n \in Nat \ {0} /\ b.trk[n].k \in Video
      /\ \A i \in DOMAIN e.trk : b.trk[i] = e.trk[i]
      /\ \/ ~(e.blur /\ e.seg = 0) /\ n = v /\ b = e
         \/ /\ e.blur /\ e.seg = 0 /\ n \notin DOMAIN e.trk /\ DOMAIN b.trk = DOMAIN e.trk \cup {n}
            /\ b.trk[n].k = "blur" /\ b.trk[n].on /\ b.trk[n].src = v /\ b.seg = n
  <2>1. v \in DOMAIN e.trk /\ (e.closed => e.trk[v].stray)
    BY <1>3 DEF SameRest
  <2> QED BY <1>3, <1>4, <2>1, BgFacts
<1> HIDE DEF b
<1>6. SameVoice(r, b) /\ r.seg = b.seg /\ r.video = n /\ r.trk = b.trk /\ r.senders = b.senders /\ r.videoAdded = b.videoAdded
      /\ r.vsender = b.vsender /\ r.blur = b.blur /\ r.shown = b.shown /\ r.past = b.past
  <2>1. b \in Media
    BY <1>5 DEF VideoOnly
  <2>2. n \in Nat
    BY <1>5
  <2>3. /\ r \in Media /\ r.trk = b.trk /\ r.senders = b.senders /\ r.streams = b.streams
        /\ r.audio = b.audio /\ r.stream = b.stream /\ r.screen = b.screen /\ r.peer = b.peer /\ r.closed = b.closed
        /\ r.cur = b.cur /\ r.sel = b.sel /\ r.plugged = b.plugged /\ r.shown = b.shown /\ r.past = b.past
        /\ r.seg = b.seg /\ r.video = n /\ r.videoAdded = b.videoAdded /\ r.vsender = b.vsender /\ r.blur = b.blur
    BY <1>2, <2>1, <2>2, ZenonT(40) DEF Media
  <2> QED BY <2>3 DEF SameVoice
<1>7. VideoOnly(r, s)
  <2>1. VideoOnly(e, s)
    BY <1>1, CameraSwitched
  <2>2. VideoOnly(r, b)
    <3>1. b \in Media
      BY <1>5 DEF VideoOnly
    <3> QED BY <1>6, <3>1, CameraNoted
  <2>3. VideoOnly(b, s)
    BY <1>5, <2>1, VideoOnlyTrans
  <2> QED BY <2>2, <2>3, VideoOnlyTrans
<1>8. /\ r.videoAdded = s.videoAdded /\ r.vsender = s.vsender /\ r.blur = s.blur
      /\ r.shown = s.shown /\ r.past = s.past /\ r.senders = s.senders /\ e.blur = s.blur /\ e.seg = s.seg
  BY <1>3, <1>5, <1>6 DEF SameCam, SameRest
<1>9. \A i \in DOMAIN s.trk : i \in DOMAIN r.trk /\ r.trk[i].k = s.trk[i].k /\ r.trk[i].live = s.trk[i].live
                              /\ r.trk[i].src = s.trk[i].src
  <2>1. \A i \in DOMAIN s.trk : i \in DOMAIN r.trk
    BY <1>7 DEF VideoOnly
  <2> QED BY <1>1, <1>3, <1>5, <1>6, <2>1 DEF Switched
<1>10. r.trk[n].on
  BY <1>1, <1>5, <1>6
<1>11. n = VideoTrack(s, v)
  BY DEF n
<1> QED BY <1>3, <1>5, <1>6, <1>7, <1>8, <1>9, <1>10, <1>11

LEMMA StartRestFacts ==
    ASSUME NEW s \in Media, NEW v, v = s.video, v \in DOMAIN s.trk, s.trk[v].k \in Video, s.closed => s.trk[v].stray,
           s.videoAdded => s.vsender \in DOMAIN s.trk /\ s.trk[s.vsender].k \in Video,
           NEW p, p = Prepared(s), NEW r, r = StartRest(s)
    PROVE  /\ VideoOnly(r, s) /\ r.trk = p.trk /\ r.video = p.video /\ r.seg = p.seg /\ r.blur = s.blur
           /\ r.past.cam = s.past.cam /\ r.past.raw = s.past.raw
           /\ "cam" \in s.past.failed => "cam" \in r.past.failed
           /\ r.vsender \in {s.vsender, r.video}
           /\ \/ /\ ~s.videoAdded /\ ~r.videoAdded /\ r.shown = s.shown
                 /\ DOMAIN r.senders = DOMAIN s.senders \cup {p.video} /\ r.senders[p.video] = p.video
                 /\ \A i \in DOMAIN s.senders : i # p.video => r.senders[i] = s.senders[i]
              \/ /\ s.videoAdded /\ r.videoAdded /\ r.shown.cam /\ r.vsender = p.video
                 /\ DOMAIN r.senders = (DOMAIN s.senders \ {s.vsender}) \cup {p.video} /\ r.senders[p.video] = p.video
                 /\ \A i \in DOMAIN s.senders : i \notin {s.vsender, p.video} => r.senders[i] = s.senders[i]
              \/ /\ s.videoAdded /\ r.videoAdded /\ r.vsender = s.vsender /\ ~HasSender(s, s.vsender)
                 /\ "cam" \in r.past.failed
<1>1. /\ VideoOnly(p, s) /\ p.senders = s.senders
      /\ p.videoAdded = s.videoAdded /\ p.vsender = s.vsender /\ p.blur = s.blur
      /\ p.shown = s.shown /\ p.past = s.past
      /\ p.video \in Nat \ {0} /\ p.video = VideoTrack(s, v)
      /\ p.video \in DOMAIN p.trk /\ p.trk[p.video].k \in Video
  BY PreparedFacts
<1>2. r = IF ~p.videoAdded THEN addTrack(p, p.video)
          ELSE IF HasSender(p, p.vsender) THEN VideoOn([replaceTrack(p, p.vsender, p.video) EXCEPT !.vsender = p.video])
          ELSE Fail(p, "cam")
  <2> DEFINE n == VideoTrack(s, s.video)
             P == Prepared(s)
  <2>1. StartRest(s) = IF ~P.videoAdded THEN addTrack(P, n)
                       ELSE IF HasSender(P, P.vsender) THEN VideoOn([replaceTrack(P, P.vsender, n) EXCEPT !.vsender = n])
                       ELSE Fail(P, "cam")
    BY Zenon DEF StartRest, Prepared
  <2>2. n = p.video /\ P = p
    BY <1>1
  <2> HIDE DEF n, P
  <2> QED BY <2>1, <2>2, Zenon
<1>3. p \in Media
  BY <1>1 DEF VideoOnly
<1>4. CASE ~p.videoAdded
  <2>1. /\ VideoOnly(r, p) /\ SameRest(r, p) /\ r.trk = p.trk
        /\ DOMAIN r.senders = DOMAIN p.senders \cup {p.video} /\ r.senders[p.video] = p.video
        /\ \A i \in DOMAIN p.senders : i # p.video => r.senders[i] = p.senders[i]
    BY <1>1, <1>2, <1>3, <1>4, CameraSent
  <2>2. VideoOnly(r, s)
    BY <1>1, <2>1, VideoOnlyTrans
  <2> QED BY <1>1, <1>4, <2>1, <2>2 DEF SameRest
<1>5. CASE p.videoAdded /\ HasSender(p, p.vsender)
  <2> DEFINE a == replaceTrack(p, p.vsender, p.video)
  <2>1. /\ VideoOnly(a, p) /\ SameRest(a, p) /\ a.trk = p.trk
        /\ DOMAIN a.senders = (DOMAIN p.senders \ {p.vsender}) \cup {p.video} /\ a.senders[p.video] = p.video
        /\ \A i \in DOMAIN p.senders : i \notin {p.vsender, p.video} => a.senders[i] = p.senders[i]
    <3>1. p.vsender \in DOMAIN p.trk /\ p.trk[p.vsender].k \in Video /\ p.vsender \in Nat
      <4>1. p.vsender \in DOMAIN s.trk /\ s.trk[p.vsender].k \in Video
        BY <1>1, <1>5
      <4> QED BY <1>1, <1>3, <4>1 DEF VideoOnly, Media
    <3>2. p.video \in Nat /\ p.video # 0
      BY <1>1
    <3> QED BY <1>1, <1>3, <3>1, <3>2, CameraReplaced
  <2>2. r = [a EXCEPT !.vsender = p.video, !.shown = [a.shown EXCEPT !.cam = TRUE]]
    BY <1>2, <1>5 DEF VideoOn
  <2> HIDE DEF a
  <2>3. a \in Media /\ a.shown \in Shown /\ p.video \in Nat
    BY <1>1, <2>1 DEF VideoOnly, Media
  <2>4. /\ [a.shown EXCEPT !.cam = TRUE] \in Shown /\ [a.shown EXCEPT !.cam = TRUE].cam
        /\ [a.shown EXCEPT !.cam = TRUE].mic = a.shown.mic
    BY <2>3 DEF Shown
  <2>5. /\ r \in Media /\ r.trk = a.trk /\ r.senders = a.senders /\ r.streams = a.streams
        /\ r.audio = a.audio /\ r.stream = a.stream /\ r.screen = a.screen /\ r.peer = a.peer /\ r.closed = a.closed
        /\ r.cur = a.cur /\ r.sel = a.sel /\ r.plugged = a.plugged /\ r.past = a.past
        /\ r.seg = a.seg /\ r.video = a.video /\ r.videoAdded = a.videoAdded /\ r.vsender = p.video /\ r.blur = a.blur
        /\ r.shown = [a.shown EXCEPT !.cam = TRUE]
    BY <2>2, <2>3, <2>4, ZenonT(40) DEF Media
  <2>6. r.shown.cam /\ r.shown.mic = a.shown.mic
    BY <2>4, <2>5
  <2>7. SameVoice(r, a)
    BY <2>5, <2>6 DEF SameVoice
  <2>8. VideoOnly(r, s)
    BY <1>1, <2>1, <2>3, <2>7, CameraNoted, VideoOnlyTrans
  <2> QED BY <1>1, <1>5, <2>1, <2>5, <2>6, <2>8 DEF SameRest
<1>6. CASE p.videoAdded /\ ~HasSender(p, p.vsender)
  <2>1. /\ VideoOnly(r, p) /\ NotedOnly(r, p) /\ ChoiceKept(r, p)
        /\ r.past.cam = p.past.cam /\ "cam" \in r.past.failed
    BY <1>2, <1>3, <1>6, CameraFails
  <2>2. VideoOnly(r, s)
    BY <1>1, <2>1, VideoOnlyTrans
  <2> QED BY <1>1, <1>6, <2>1, <2>2 DEF NotedOnly, HasSender
<1> QED BY <1>4, <1>5, <1>6

\* startVideo, begun alone for a client whose camera is only open for its
\* video, leaves the camera open for the video alone.
LEMMA StartRestSteady ==
    ASSUME NEW s \in Media, NEW v, v = s.video, v \in DOMAIN s.trk, v # 0, 0 \notin DOMAIN s.trk,
           s.trk[v].k \in Video, s.closed => s.trk[v].stray,
           s.videoAdded => s.vsender \in DOMAIN s.trk /\ s.trk[s.vsender].k \in Video,
           DOMAIN s.senders \subseteq DOMAIN s.trk,
           \A t \in DOMAIN s.trk : s.trk[t].k \in Video /\ s.trk[t].live => t \in {v, s.trk[v].src},
           s.trk[v].k = "blur" => s.seg # 0,
           s.trk[v].k # "blur" => s.trk[v].src = 0,
           s.videoAdded => s.vsender \in DOMAIN s.senders,
           \A i \in DOMAIN s.senders : s.trk[i].k \in Video /\ s.senders[i] # 0 => s.videoAdded /\ i = s.vsender,
           s.shown.cam => s.videoAdded, s.peer,
           m' = StartRest(s), ~s.videoAdded => \E o \in ops' : o.k = "cam" /\ o.at = "add"
    PROVE  CamTrack' /\ m'.video \in DOMAIN m'.senders /\ m'.video # 0
<1> DEFINE p == Prepared(s)
<1>1. /\ VideoOnly(p, s)
      /\ p.video \in Nat \ {0}
      /\ p.video \in DOMAIN p.trk /\ p.trk[p.video].k \in Video /\ p.trk[p.video].on
      /\ \A i \in DOMAIN s.trk : i \in DOMAIN p.trk /\ p.trk[i].k = s.trk[i].k /\ p.trk[i].live = s.trk[i].live
      /\ \/ ~(s.blur /\ s.seg = 0) /\ p.video = v /\ p.seg = s.seg /\ DOMAIN p.trk = DOMAIN s.trk
         \/ /\ s.blur /\ s.seg = 0 /\ p.video \notin DOMAIN s.trk /\ DOMAIN p.trk = DOMAIN s.trk \cup {p.video}
            /\ p.trk[p.video].k = "blur" /\ p.trk[p.video].src = v /\ p.seg = p.video
  BY PreparedFacts
<1> HIDE DEF p
<1>2. /\ m'.trk = p.trk /\ m'.video = p.video /\ m'.seg = p.seg
      /\ m'.peer
      /\ \/ /\ ~s.videoAdded /\ ~m'.videoAdded /\ m'.shown = s.shown
            /\ DOMAIN m'.senders = DOMAIN s.senders \cup {p.video} /\ m'.senders[p.video] = p.video
            /\ \A i \in DOMAIN s.senders : i # p.video => m'.senders[i] = s.senders[i]
         \/ /\ s.videoAdded /\ m'.videoAdded /\ m'.shown.cam /\ m'.vsender = p.video
            /\ DOMAIN m'.senders = (DOMAIN s.senders \ {s.vsender}) \cup {p.video} /\ m'.senders[p.video] = p.video
            /\ \A i \in DOMAIN s.senders : i \notin {s.vsender, p.video} => m'.senders[i] = s.senders[i]
         \/ s.videoAdded /\ ~HasSender(s, s.vsender)
  BY StartRestFacts DEF p, VideoOnly
<1>3. ~(s.videoAdded /\ ~HasSender(s, s.vsender))
  BY DEF HasSender
<1>4. \A t \in DOMAIN m'.trk : m'.trk[t].k \in Video /\ m'.trk[t].live =>
         m'.video # 0 /\ t \in {m'.video, m'.trk[m'.video].src}
  <2>1. SUFFICES ASSUME NEW t \in DOMAIN p.trk, p.trk[t].k \in Video, p.trk[t].live, t # p.video
                 PROVE  t = p.trk[p.video].src
    BY <1>1, <1>2
  <2>2. t \in DOMAIN s.trk /\ t \in {v, s.trk[v].src}
    BY <1>1, <2>1
  <2>3. CASE p.video = v
    <3>1. p.trk[v].src = s.trk[v].src
      BY <1>1 DEF VideoOnly
    <3> QED BY <2>1, <2>2, <2>3, <3>1
  <2>4. CASE s.seg = 0 /\ p.trk[p.video].src = v
    BY <2>2, <2>4
  <2> QED BY <1>1, <2>3, <2>4
<1>5. \A i \in DOMAIN m'.senders : m'.trk[i].k \in Video /\ m'.senders[i] # 0 => i = m'.video
  BY <1>1, <1>2, <1>3
<1>6. m'.videoAdded => m'.vsender = m'.video /\ m'.shown.cam
  BY <1>2, <1>3
<1>7. m'.video \in DOMAIN m'.senders
  BY <1>2, <1>3
<1>8. m'.shown.cam => m'.videoAdded
  BY <1>2, <1>3
<1>9. m'.shown.cam \/ \E o \in ops' : o.k = "cam" /\ o.at = "add"
  BY <1>2, <1>3
<1>10. m'.video # 0 /\ m'.peer /\ m'.trk[m'.video].on /\ (m'.trk[m'.video].k = "blur" => m'.seg # 0)
  BY <1>1, <1>2
<1> QED BY <1>4, <1>5, <1>6, <1>7, <1>8, <1>9, <1>10 DEF CamTrack

LEMMA startVideoKept ==
    ASSUME MediaInv, startVideo
    PROVE  MediaInv'
<1> DEFINE s == Begins(m, "cam")
           n == VideoTrack(m, m.video)
           p == Op("cam", "open", "start", 0, 0, FALSE)
           q == Op("cam", "add", "start", 0, n, FALSE)
<1>1. /\ m.peer /\ uses' = uses + 1
      /\ \/ m.video = 0 /\ m' = s /\ ops' = ops \cup {p}
         \/ m.video # 0 /\ ~m.videoAdded /\ m' = StartRest(s) /\ ops' = ops \cup {q}
         \/ m.video # 0 /\ m.videoAdded /\ m' = StartRest(s) /\ ops' = ops
  BY DEF startVideo, Use, Waits, Does, AddsVideo
<1>2. /\ VideoOnly(s, m) /\ NotedOnly(s, m) /\ s.past.failed = m.past.failed
      /\ s.past.cam <=> m.past.cam \/ Busy("cam")
  BY MediaFacts, CameraBegins
<1> HIDE DEF s
<1>3. /\ p \in Waiting /\ p.k = "cam" /\ p.at = "open"
      /\ n \in Nat => q \in Waiting /\ q.k = "cam" /\ q.at = "add" /\ q.old = n
  BY MediaFacts DEF Op, Waiting, Kinds
<1> HIDE DEF p, q
<1>4. /\ ~m.closed /\ (m.video # 0 => m.video \in DOMAIN m.trk /\ m.trk[m.video].k \in Video)
      /\ m.videoAdded \/ m.vsender # 0 => m.vsender \in DOMAIN m.trk /\ m.trk[m.vsender].k \in Video
  BY <1>1 DEF MediaInv, Released, Named, IsA
<1>5. /\ s \in Media /\ s.trk = m.trk /\ s.senders = m.senders /\ s.video = m.video /\ s.videoAdded = m.videoAdded
      /\ s.vsender = m.vsender /\ s.seg = m.seg /\ s.blur = m.blur /\ s.closed = m.closed /\ s.shown = m.shown
      /\ s.past.raw = m.past.raw
  BY <1>2 DEF VideoOnly, NotedOnly
<1>6. CASE m.video = 0 /\ m' = s /\ ops' = ops \cup {p}
  <2>1. Typed' /\ Named' /\ Released' /\ MicStill
    <3>1. ops' \subseteq Waiting /\ uses' \in Nat /\ SameOps("mic") /\ \A r \in ops' \ ops : r = p
      BY <1>1, <1>3, <1>6, MediaFacts DEF SameOps
    <3>2. (m.video # 0 => IsA(m.video, Video))' /\ (m.videoAdded \/ m.vsender # 0 => IsA(m.vsender, Video))'
      BY <1>4, <1>5, <1>6 DEF IsA
    <3> QED BY <1>2, <1>3, <1>4, <1>6, <3>1, <3>2, VideoStep
  <2>2. CamSteady'
    <3>1. CASE m.past.cam \/ Busy("cam")
      BY <1>2, <1>6, <3>1 DEF CamSteady
    <3>2. CASE ~m.past.cam /\ ~Busy("cam")
      <4>1. CamTrack
        BY <1>4, <3>2 DEF MediaInv, CamSteady
      <4>2. CamTrack'
        BY <1>5, <1>6, <4>1 DEF CamTrack
      <4>3. \A r \in ops' : r.k = "cam" => r = p
        BY <1>6, <3>2 DEF Busy
      <4>4. m'.peer
        BY <1>1, <1>2, <1>6 DEF NotedOnly
      <4> QED BY <1>3, <1>5, <1>6, <4>2, <4>3, <4>4 DEF CamSteady, Alone, CamWaits
    <3> QED BY <3>1, <3>2
  <2>3. CamBlurred'
    BY <1>5, <1>6 DEF CamBlurred
  <2> QED BY <2>1, <2>2, <2>3, MicStillKept DEF MediaInv
<1>7. CASE /\ m.video # 0 /\ m' = StartRest(s)
           /\ (~m.videoAdded /\ ops' = ops \cup {q}) \/ (m.videoAdded /\ ops' = ops)
  <2> DEFINE P == Prepared(s)
  <2>1. /\ P.video \in Nat \ {0} /\ P.video = VideoTrack(s, s.video)
        /\ P.video \in DOMAIN P.trk /\ P.trk[P.video].k \in Video
        /\ \A i \in DOMAIN s.trk : i \in DOMAIN P.trk /\ P.trk[i].k = s.trk[i].k
        /\ \/ ~(s.blur /\ s.seg = 0) /\ P.video = s.video /\ P.seg = s.seg
           \/ P.trk[P.video].k = "blur" /\ P.seg = P.video
    BY <1>4, <1>5, <1>7, PreparedFacts
  <2>2. /\ VideoOnly(m', s) /\ m'.trk = P.trk /\ m'.video = P.video /\ m'.seg = P.seg /\ m'.blur = s.blur
        /\ m'.past.cam = s.past.cam /\ m'.past.raw = s.past.raw
        /\ "cam" \in s.past.failed => "cam" \in m'.past.failed
        /\ m'.vsender \in {m.vsender, m'.video} /\ (m'.videoAdded => m.videoAdded)
    BY <1>4, <1>5, <1>7, StartRestFacts
  <2>3. P.video = n
    BY <1>5, <2>1 DEF VideoTrack, New
  <2> HIDE DEF P, n
  <2>4. Typed' /\ Named' /\ Released' /\ MicStill
    <3>1. VideoOnly(m', m)
      BY <1>2, <2>2, VideoOnlyTrans
    <3>2. (m.video # 0 => IsA(m.video, Video))' /\ (m.videoAdded \/ m.vsender # 0 => IsA(m.vsender, Video))'
      BY <1>4, <1>5, <2>1, <2>2 DEF IsA
    <3>3. n \in DOMAIN m'.trk /\ m'.trk[n].k \in Video
      BY <2>1, <2>2, <2>3
    <3>4. /\ ops' \subseteq Waiting /\ uses' \in Nat /\ SameOps("mic")
          /\ \A r \in ops' \ ops : r.k = "cam" /\ r.at = "add" /\ r.old = n
      BY <1>1, <1>3, <1>7, <2>1, <2>3, MediaFacts DEF SameOps
    <3>5. \A r \in ops' \ ops : IsA(r.old, Video)'
      BY <3>3, <3>4 DEF IsA
    <3> QED BY <1>4, <3>1, <3>2, <3>4, <3>5, VideoStep
  <2>5. CamSteady'
    <3>1. CASE m.past.cam \/ Busy("cam")
      BY <1>2, <2>2, <3>1 DEF CamSteady
    <3>2. CASE ~m.past.cam /\ ~Busy("cam")
      <4>1. CamTrack /\ m.shown.cam /\ m.videoAdded /\ m.vsender = m.video
        BY <1>4, <1>7, <3>2 DEF MediaInv, CamSteady, CamTrack, Busy
      <4>2. CamTrack'
        <5>1. /\ \A t \in DOMAIN s.trk : s.trk[t].k \in Video /\ s.trk[t].live => t \in {s.video, s.trk[s.video].src}
              /\ s.trk[s.video].k = "blur" => s.seg # 0
              /\ s.vsender \in DOMAIN s.senders
              /\ \A i \in DOMAIN s.senders : s.trk[i].k \in Video /\ s.senders[i] # 0 => i = s.vsender
          BY <1>5, <1>7, <4>1 DEF CamTrack
        <5>2. s.trk[s.video].k # "blur" => s.trk[s.video].src = 0
          BY <1>4, <1>5, <1>7 DEF MediaInv, Named
        <5>3. DOMAIN s.senders \subseteq DOMAIN s.trk /\ 0 \notin DOMAIN s.trk
          BY <1>5, MediaFacts
        <5>4. s.peer
          BY <1>1, <1>2 DEF NotedOnly
        <5> QED BY <1>4, <1>5, <1>7, <4>1, <5>1, <5>2, <5>3, <5>4, StartRestSteady
      <4>3. \A r \in ops' : r.k # "cam"
        BY <1>7, <3>2, <4>1 DEF Busy
      <4> QED BY <4>2, <4>3 DEF CamSteady, Alone
    <3> QED BY <3>1, <3>2
  <2>6. CamBlurred'
    <3>1. SUFFICES ASSUME ~m'.past.cam, ~m'.past.raw, "cam" \notin m'.past.failed
                   PROVE  (m'.seg # 0 => m'.trk[m'.video].k = "blur") /\ (m'.blur => m'.seg # 0)
      BY DEF CamBlurred
    <3>2. ~m.past.cam /\ ~m.past.raw /\ "cam" \notin m.past.failed
      BY <1>2, <1>5, <2>2, <3>1
    <3>3. m.seg # 0 => m.trk[m.video].k = "blur"
      BY <1>4, <1>7, <3>2 DEF MediaInv, CamBlurred
    <3>4. CASE ~(s.blur /\ s.seg = 0) /\ P.video = s.video /\ P.seg = s.seg
      BY <1>4, <1>5, <1>7, <2>1, <2>2, <3>3, <3>4
    <3>5. CASE P.trk[P.video].k = "blur" /\ P.seg = P.video
      BY <2>1, <2>2, <3>5
    <3> QED BY <2>1, <3>4, <3>5
  <2> QED BY <2>4, <2>5, <2>6, MicStillKept DEF MediaInv
<1> QED BY <1>1, <1>6, <1>7

LEMMA VideoRefusedKept ==
    ASSUME MediaInv, NEW o \in ops, VideoRefused(o)
    PROVE  MediaInv'
<1> DEFINE s == Fail(m, "cam")
<1>1. /\ m' = [s EXCEPT !.init = IF o.next = "init" THEN "failed" ELSE s.init]
      /\ ops' = ops \ {o} /\ uses' = uses /\ o.k = "cam" /\ o.at \in {"open", "switch"}
  BY DEF VideoRefused, Ends
<1>2. /\ VideoOnly(s, m) /\ NotedOnly(s, m) /\ s.past.cam = m.past.cam /\ "cam" \in s.past.failed /\ s \in Media
  BY MediaFacts, CameraFails DEF VideoOnly
<1> HIDE DEF s
<1>3. /\ SameVoice(m', s) /\ m'.past = s.past
      /\ m'.video = m.video /\ m'.videoAdded = m.videoAdded /\ m'.vsender = m.vsender /\ m'.seg = m.seg
      /\ m'.blur = m.blur /\ m'.shown = m.shown /\ m'.trk = m.trk /\ m'.senders = m.senders /\ m'.closed = m.closed
      /\ m'.peer = m.peer
  <2>1. /\ m' \in Media /\ m'.trk = s.trk /\ m'.senders = s.senders /\ m'.streams = s.streams
        /\ m'.audio = s.audio /\ m'.stream = s.stream /\ m'.screen = s.screen /\ m'.peer = s.peer
        /\ m'.closed = s.closed /\ m'.cur = s.cur /\ m'.sel = s.sel /\ m'.plugged = s.plugged
        /\ m'.shown = s.shown /\ m'.past = s.past /\ m'.video = s.video /\ m'.videoAdded = s.videoAdded
        /\ m'.vsender = s.vsender /\ m'.seg = s.seg /\ m'.blur = s.blur
    BY <1>1, <1>2 DEF Media
  <2> QED BY <1>2, <2>1 DEF SameVoice, NotedOnly
<1>4. Typed' /\ Named' /\ Released' /\ MicStill
  <2>1. VideoOnly(m', m)
    BY <1>2, <1>3, CameraNoted, VideoOnlyTrans
  <2>2. ops' \subseteq Waiting /\ uses' \in Nat /\ SameOps("mic") /\ \A r \in ops' : r \in ops
    BY <1>1, MediaFacts DEF SameOps
  <2>3. (m.video # 0 => IsA(m.video, Video))' /\ (m.videoAdded \/ m.vsender # 0 => IsA(m.vsender, Video))'
    BY <1>3 DEF MediaInv, Named, IsA
  <2> QED BY <2>1, <2>2, <2>3, VideoStep
<1>5. CamSteady'
  <2>1. CASE m.past.cam
    BY <1>2, <1>3, <2>1 DEF CamSteady
  <2>2. CASE ~m.past.cam
    <3>1. \A q \in ops : q.k = "cam" => q = o
      BY <1>1, <2>2, OnlyOp
    <3>2. \A q \in ops' : q.k # "cam"
      BY <1>1, <3>1
    <3>3. ~m.closed => CamTrack
      BY <2>2 DEF MediaInv, CamSteady
    <3>4. CamTrack => CamTrack'
      BY <1>1, <1>3, <3>1 DEF CamTrack
    <3> QED BY <1>3, <3>2, <3>3, <3>4 DEF CamSteady, Alone
  <2> QED BY <2>1, <2>2
<1>6. CamBlurred'
  BY <1>2, <1>3 DEF CamBlurred
<1> QED BY <1>4, <1>5, <1>6, MicStillKept DEF MediaInv

LEMMA initVideoKept ==
    ASSUME MediaInv, NEW o \in ops, initVideo(o)
    PROVE  MediaInv'
<1> DEFINE t == New(m)
           a == Opened(m, "cam", 0, o.late)
           b == Enable(a, t, FALSE)
           c == Keep(b, t)
           s == [c EXCEPT !.video = t]
           P == Prepared(s)
           n == VideoTrack(s, t)
           p == [o EXCEPT !.at = "add", !.old = n]
<1>1. /\ o.k = "cam" /\ o.at = "open" /\ uses' = uses
      /\ \/ m' = m /\ ops' = ops \ {o}
         \/ o.next = "start" /\ ~s.peer /\ m' = Fail(P, "cam") /\ ops' = ops \ {o}
         \/ o.next = "start" /\ s.peer /\ ~s.videoAdded /\ m' = StartRest(s) /\ ops' = (ops \ {o}) \cup {p}
         \/ o.next = "start" /\ s.peer /\ s.videoAdded /\ m' = StartRest(s) /\ ops' = ops \ {o}
  <2>1. s.video = t
    <3>1. c \in Media
      <4>1. m \in Media /\ o.late \in BOOLEAN
        BY MediaFacts DEF Waiting
      <4>2. a \in Media /\ t \in Nat
        BY <4>1, OpenedFacts
      <4> HIDE DEF a, t
      <4>3. b \in Media
        BY <4>2, EnableFacts, Zenon DEF Switched
      <4> HIDE DEF b
      <4> QED BY <4>2, <4>3, KeepFacts
    <3> HIDE DEF c
    <3> QED BY <3>1 DEF Media
  <2> USE DEF initVideo
  <2>2. o.k = "cam" /\ o.at = "open" /\ uses' = uses
    BY Zenon DEF Ends, Goes
  <2>3. CASE o.next # "start"
    BY <2>2, <2>3, Zenon DEF Ends
  <2>4. CASE o.next = "start" /\ ~s.peer
    <3>1. m' = Fail([initBgBackgroundTrack(Enable(s, t, TRUE), t) EXCEPT !.video = VideoTrack(s, t)], "cam") /\ ops' = ops \ {o}
      BY <2>4, Zenon DEF Ends
    <3>2. P = [initBgBackgroundTrack(Enable(s, t, TRUE), t) EXCEPT !.video = VideoTrack(s, t)]
      <4> HIDE DEF s, t
      <4> QED BY <2>1, Zenon DEF Prepared
    <3> QED BY <2>2, <2>4, <3>1, <3>2, Zenon
  <2>5. CASE o.next = "start" /\ s.peer
    BY <2>2, <2>5, Zenon DEF Ends, Goes, AddsVideo
  <2> QED BY <2>2, <2>3, <2>4, <2>5, Zenon
<1>2. o \in Waiting /\ o.late \in BOOLEAN /\ m \in Media /\ (m.closed => o.late /\ ~m.peer)
  BY MediaFacts DEF Waiting, MediaInv, Released
<1>3. /\ a \in Media /\ SameRest(a, m) /\ a.senders = m.senders /\ a.streams = m.streams
      /\ DOMAIN a.trk = DOMAIN m.trk \cup {t} /\ t \notin DOMAIN m.trk /\ t \in Nat \ {0}
      /\ \A i \in DOMAIN m.trk : a.trk[i] = m.trk[i]
      /\ a.trk[t] = [k |-> "cam", live |-> TRUE, on |-> TRUE, dev |-> 0, src |-> 0, stray |-> o.late]
  <2> HIDE DEF t
  <2> QED BY <1>2, OpenedFacts DEF t
<1> HIDE DEF a, t
<1>4. Switched(b, a, t)
  BY <1>3, EnableFacts, Zenon
<1> HIDE DEF b
<1>5. /\ c \in Media /\ SameRest(c, m) /\ c.senders = m.senders /\ c.streams = m.streams \cup {t}
      /\ DOMAIN c.trk = DOMAIN m.trk \cup {t}
      /\ \A i \in DOMAIN m.trk : c.trk[i] = m.trk[i]
      /\ c.trk[t].k = "cam" /\ c.trk[t].src = 0 /\ c.trk[t].stray = o.late
  <2>1. /\ c \in Media /\ SameRest(c, b) /\ c.trk = b.trk /\ c.senders = b.senders /\ c.streams = b.streams \cup {t}
    BY <1>3, <1>4, KeepFacts DEF Switched
  <2> QED BY <1>3, <1>4, <2>1 DEF Switched, SameRest
<1> HIDE DEF c
<1>6. /\ SameVoice(s, c) /\ s.video = t /\ s.videoAdded = m.videoAdded /\ s.vsender = m.vsender /\ s.seg = m.seg
      /\ s.blur = m.blur /\ s.shown = m.shown /\ s.past = m.past /\ s.trk = c.trk /\ s.senders = m.senders
      /\ s.closed = m.closed /\ s.peer = m.peer /\ s \in Media
  <2>1. /\ s \in Media /\ s.trk = c.trk /\ s.senders = c.senders /\ s.streams = c.streams
        /\ s.audio = c.audio /\ s.stream = c.stream /\ s.screen = c.screen /\ s.peer = c.peer /\ s.closed = c.closed
        /\ s.cur = c.cur /\ s.sel = c.sel /\ s.plugged = c.plugged /\ s.shown = c.shown /\ s.past = c.past
        /\ s.seg = c.seg /\ s.video = t /\ s.videoAdded = c.videoAdded /\ s.vsender = c.vsender /\ s.blur = c.blur
    BY <1>3, <1>5 DEF Media
  <2> QED BY <1>5, <2>1 DEF SameVoice, SameRest
<1> HIDE DEF s
<1>7. VideoOnly(s, m)
  <2>1. VideoOnly(c, m)
    BY <1>2, <1>3, <1>5 DEF VideoOnly, SameRest, Video
  <2> QED BY <1>5, <1>6, <2>1, CameraNoted, VideoOnlyTrans
<1>8. /\ t \in DOMAIN s.trk /\ s.trk[t].k = "cam" /\ s.trk[t].k \in Video /\ s.trk[t].src = 0 /\ t # 0
      /\ s.closed => s.trk[t].stray
      /\ s.videoAdded \/ s.vsender # 0 => s.vsender \in DOMAIN s.trk /\ s.trk[s.vsender].k \in Video
      /\ DOMAIN s.trk = DOMAIN m.trk \cup {t} /\ \A i \in DOMAIN m.trk : s.trk[i] = m.trk[i]
  <2>1. m.videoAdded \/ m.vsender # 0 => m.vsender \in DOMAIN m.trk /\ m.trk[m.vsender].k \in Video
    BY DEF MediaInv, Named, IsA
  <2> QED BY <1>2, <1>3, <1>5, <1>6, <2>1 DEF Video
<1>9. /\ VideoOnly(P, s) /\ P \in Media /\ P.video \in Nat \ {0} /\ P.video = n
      /\ P.video \in DOMAIN P.trk /\ P.trk[P.video].k \in Video
      /\ P.videoAdded = s.videoAdded /\ P.vsender = s.vsender /\ P.past = s.past
      /\ \A i \in DOMAIN s.trk : i \in DOMAIN P.trk /\ P.trk[i].k = s.trk[i].k
      /\ \/ ~(s.blur /\ s.seg = 0) /\ P.video = t /\ P.seg = s.seg
         \/ P.trk[P.video].k = "blur" /\ P.seg = P.video
  BY <1>6, <1>8, PreparedFacts DEF VideoOnly
<1>10. CASE m' = m /\ ops' = ops \ {o}
  <2>1. Typed' /\ Named' /\ Released' /\ MicStill
    <3>1. VideoOnly(m', m)
      BY <1>2, <1>10, CameraNoted DEF SameVoice
    <3>2. ops' \subseteq Waiting /\ uses' \in Nat /\ SameOps("mic") /\ \A r \in ops' : r \in ops
      BY <1>1, <1>10, MediaFacts DEF SameOps
    <3>3. (m.video # 0 => IsA(m.video, Video))' /\ (m.videoAdded \/ m.vsender # 0 => IsA(m.vsender, Video))'
      BY <1>10 DEF MediaInv, Named, IsA
    <3> QED BY <3>1, <3>2, <3>3, VideoStep
  <2>2. CamSteady'
    <3>1. CASE m.past.cam
      BY <1>10, <3>1 DEF CamSteady
    <3>2. CASE ~m.past.cam
      <4>1. \A q \in ops : q.k = "cam" => q = o
        BY <1>1, <3>2, OnlyOp
      <4>2. CamTrack => CamTrack'
        BY <1>1, <1>10, <4>1 DEF CamTrack
      <4> QED BY <1>10, <3>2, <4>1, <4>2 DEF MediaInv, CamSteady, Alone
    <3> QED BY <3>1, <3>2
  <2>3. CamBlurred'
    BY <1>1, <1>10 DEF MediaInv, CamBlurred
  <2> QED BY <2>1, <2>2, <2>3, MicStillKept DEF MediaInv
<1>11. CASE o.next = "start" /\ ~s.peer /\ m' = Fail(P, "cam") /\ ops' = ops \ {o}
  <2>1. /\ VideoOnly(m', P) /\ NotedOnly(m', P) /\ m'.past.cam = P.past.cam /\ "cam" \in m'.past.failed
    BY <1>9, <1>11, CameraFails
  <2>2. VideoOnly(m', m)
    BY <1>7, <1>9, <2>1, VideoOnlyTrans
  <2>3. Typed' /\ Named' /\ Released' /\ MicStill
    <3>1. ops' \subseteq Waiting /\ uses' \in Nat /\ SameOps("mic") /\ \A r \in ops' : r \in ops
      BY <1>1, <1>11, MediaFacts DEF SameOps
    <3>2. (m.video # 0 => IsA(m.video, Video))' /\ (m.videoAdded \/ m.vsender # 0 => IsA(m.vsender, Video))'
      BY <1>8, <1>9, <2>1 DEF NotedOnly, IsA
    <3> QED BY <2>2, <3>1, <3>2, VideoStep
  <2>4. CamSteady'
    <3>1. CASE m.past.cam
      BY <1>6, <1>9, <2>1, <3>1 DEF CamSteady
    <3>2. CASE ~m.past.cam
      <4>1. \A q \in ops : q.k = "cam" => q = o
        BY <1>1, <3>2, OnlyOp
      <4>2. m.closed /\ m'.closed = m.closed
        BY <1>6, <1>11, <2>2, <3>2, <1>1 DEF MediaInv, CamSteady, CamWaits, VideoOnly
      <4> QED BY <1>11, <4>1, <4>2 DEF CamSteady, Alone
    <3> QED BY <3>1, <3>2
  <2>5. CamBlurred'
    BY <2>1 DEF CamBlurred
  <2> QED BY <2>3, <2>4, <2>5, MicStillKept DEF MediaInv
<1>12. CASE /\ o.next = "start" /\ s.peer /\ m' = StartRest(s)
            /\ (~s.videoAdded /\ ops' = (ops \ {o}) \cup {p}) \/ (s.videoAdded /\ ops' = ops \ {o})
  <2>1. /\ VideoOnly(m', s) /\ m'.trk = P.trk /\ m'.video = P.video /\ m'.seg = P.seg /\ m'.blur = s.blur
        /\ m'.past.cam = s.past.cam /\ m'.past.raw = s.past.raw
        /\ m'.vsender \in {s.vsender, m'.video} /\ (m'.videoAdded => s.videoAdded)
    BY <1>6, <1>8, <1>12, StartRestFacts
  <2>2. n \in DOMAIN m'.trk /\ m'.trk[n].k \in Video /\ n \in Nat /\ m'.video = n
    BY <1>9, <2>1
  <2>3. VideoOnly(m', m)
    BY <1>7, <2>1, VideoOnlyTrans
  <2> HIDE DEF P, n
  <2>4. p \in Waiting /\ p.k = "cam" /\ p.at = "add" /\ p.old = n /\ p.next = o.next /\ p.late = o.late
    BY <1>1, <1>2, <2>2 DEF Waiting
  <2> HIDE DEF p
  <2>5. Typed' /\ Named' /\ Released' /\ MicStill
    <3>1. (m.video # 0 => IsA(m.video, Video))' /\ (m.videoAdded \/ m.vsender # 0 => IsA(m.vsender, Video))'
      BY <1>8, <1>9, <2>1 DEF IsA
    <3>2. /\ ops' \subseteq Waiting /\ uses' \in Nat /\ SameOps("mic") /\ \A r \in ops' \ ops : r = p
      BY <1>1, <1>12, <2>4, MediaFacts DEF SameOps
    <3>3. \A r \in ops' \ ops : IsA(r.old, Video)'
      BY <2>2, <2>4, <3>2 DEF IsA
    <3> QED BY <1>2, <2>3, <2>4, <3>1, <3>2, <3>3, VideoStep
  <2>6. CamSteady'
    <3>1. CASE m.past.cam
      BY <1>6, <2>1, <3>1 DEF CamSteady
    <3>2. CASE ~m.past.cam
      <4>1. \A q \in ops : q.k = "cam" => q = o
        BY <1>1, <3>2, OnlyOp
      <4>2. \A q \in ops' : q.k = "cam" => q = p
        BY <1>12, <4>1
      <4>3. ~m.closed /\ CamTrack /\ m.video = 0
        BY <1>1, <1>2, <1>6, <1>12, <3>2 DEF MediaInv, CamSteady, CamWaits
      <4>4. CamTrack' /\ m'.video \in DOMAIN m'.senders /\ m'.video # 0
        <5>1. /\ \A i \in DOMAIN s.trk : s.trk[i].k \in Video /\ s.trk[i].live => i \in {t, s.trk[t].src}
              /\ \A i \in DOMAIN s.senders : s.trk[i].k \in Video /\ s.senders[i] # 0 => FALSE
              /\ s.shown.cam => s.videoAdded
              /\ s.videoAdded => s.vsender \in DOMAIN s.senders
          BY <1>6, <1>8, <4>3, MediaFacts DEF CamTrack
        <5>2. DOMAIN s.senders \subseteq DOMAIN s.trk /\ 0 \notin DOMAIN s.trk
          BY <1>3, <1>6, <1>8, MediaFacts
        <5>3. ~s.videoAdded => \E q \in ops' : q.k = "cam" /\ q.at = "add"
          BY <1>12, <2>4
        <5> QED BY <1>6, <1>8, <1>12, <5>1, <5>2, <5>3, StartRestSteady
      <4>5. m'.peer
        BY <1>12, <2>1 DEF VideoOnly
      <4>6. \A q \in ops' : q.k = "cam" => CamWaits(q)'
        BY <2>2, <2>4, <4>2, <4>4, <4>5 DEF CamWaits
      <4> QED BY <4>2, <4>4, <4>6 DEF CamSteady, Alone
    <3> QED BY <3>1, <3>2
  <2>7. CamBlurred'
    <3>1. SUFFICES ASSUME ~m'.past.cam, ~m'.past.raw, "cam" \notin m'.past.failed
                   PROVE  (m'.seg # 0 => m'.trk[m'.video].k = "blur") /\ (m'.blur => m'.seg # 0)
      BY DEF CamBlurred
    <3>2. ~m.past.cam /\ ~m.closed
      BY <1>2, <1>6, <1>12, <2>1, <3>1
    <3>3. m.seg = 0
      BY <1>1, <3>2 DEF MediaInv, CamSteady, CamTrack, CamWaits
    <3>4. CASE ~(s.blur /\ s.seg = 0) /\ P.video = t /\ P.seg = s.seg
      BY <1>6, <2>1, <3>3, <3>4
    <3>5. CASE P.trk[P.video].k = "blur" /\ P.seg = P.video
      BY <1>9, <2>1, <3>5
    <3> QED BY <1>9, <3>4, <3>5
  <2> QED BY <2>5, <2>6, <2>7, MicStillKept DEF MediaInv
<1> QED BY <1>1, <1>10, <1>11, <1>12

LEMMA VideoAddedKept ==
    ASSUME MediaInv, NEW o \in ops, VideoAdded(o)
    PROVE  MediaInv'
<1> DEFINE s == [m EXCEPT !.videoAdded = TRUE, !.vsender = o.old]
<1>1. /\ ops' = ops \ {o} /\ uses' = uses /\ o.k = "cam" /\ o.at = "add"
      /\ \/ (s.video = 0 \/ s.closed) /\ m' = Fail(s, "cam")
         \/ ~(s.video = 0 \/ s.closed) /\ m' = [s EXCEPT !.shown = [s.shown EXCEPT !.cam = TRUE]]
  BY DEF VideoAdded, Ends, VideoOn
<1>2. o \in Waiting /\ o.old \in Nat /\ o.old \in DOMAIN m.trk /\ m.trk[o.old].k \in Video
  BY <1>1, MediaFacts DEF Waiting, MediaInv, Named, IsA
<1>3. /\ SameVoice(s, m) /\ s \in Media /\ s.trk = m.trk /\ s.senders = m.senders /\ s.video = m.video /\ s.seg = m.seg
      /\ s.blur = m.blur /\ s.shown = m.shown /\ s.past = m.past /\ s.videoAdded /\ s.vsender = o.old
      /\ s.closed = m.closed /\ s.peer = m.peer
  BY <1>2, MediaFacts DEF Media, SameVoice
<1> HIDE DEF s
<1>4. /\ VideoOnly(m', s) /\ m'.trk = m.trk /\ m'.senders = m.senders /\ m'.video = m.video /\ m'.seg = m.seg
      /\ m'.blur = m.blur /\ m'.videoAdded /\ m'.vsender = o.old /\ m'.closed = m.closed /\ m'.peer = m.peer
      /\ m'.past.cam = m.past.cam /\ m'.past.raw = m.past.raw
      /\ "cam" \in m.past.failed => "cam" \in m'.past.failed
      /\ ~(m.video = 0 \/ m.closed) => m'.shown.cam
  <2>1. CASE (s.video = 0 \/ s.closed) /\ m' = Fail(s, "cam")
    <3>1. /\ VideoOnly(m', s) /\ NotedOnly(m', s) /\ m'.past.cam = s.past.cam /\ "cam" \in m'.past.failed
      BY <1>3, <2>1, CameraFails
    <3> QED BY <1>3, <2>1, <3>1 DEF NotedOnly
  <2>2. CASE m' = [s EXCEPT !.shown = [s.shown EXCEPT !.cam = TRUE]]
    <3>1. s.shown \in Shown
      BY <1>3 DEF Media
    <3>2. /\ [s.shown EXCEPT !.cam = TRUE] \in Shown /\ [s.shown EXCEPT !.cam = TRUE].cam
          /\ [s.shown EXCEPT !.cam = TRUE].mic = s.shown.mic
      BY <3>1 DEF Shown
    <3>3. /\ m' \in Media /\ m'.trk = s.trk /\ m'.senders = s.senders /\ m'.streams = s.streams
          /\ m'.audio = s.audio /\ m'.stream = s.stream /\ m'.screen = s.screen /\ m'.peer = s.peer
          /\ m'.closed = s.closed /\ m'.cur = s.cur /\ m'.sel = s.sel /\ m'.plugged = s.plugged /\ m'.past = s.past
          /\ m'.seg = s.seg /\ m'.video = s.video /\ m'.videoAdded = s.videoAdded /\ m'.vsender = s.vsender
          /\ m'.blur = s.blur /\ m'.shown = [s.shown EXCEPT !.cam = TRUE]
      BY <1>3, <2>2, <3>2 DEF Media
    <3>4. SameVoice(m', s) /\ m'.shown.cam
      BY <3>2, <3>3 DEF SameVoice
    <3>5. VideoOnly(m', s)
      BY <1>3, <3>4, CameraNoted
    <3> QED BY <1>3, <3>3, <3>4, <3>5
  <2> QED BY <1>1, <2>1, <2>2
<1>5. Typed' /\ Named' /\ Released' /\ MicStill
  <2>1. VideoOnly(m', m)
    BY <1>3, <1>4, MediaFacts, CameraNoted, VideoOnlyTrans
  <2>2. ops' \subseteq Waiting /\ uses' \in Nat /\ SameOps("mic") /\ \A r \in ops' : r \in ops
    BY <1>1, MediaFacts DEF SameOps
  <2>3. (m.video # 0 => IsA(m.video, Video))' /\ (m.videoAdded \/ m.vsender # 0 => IsA(m.vsender, Video))'
    BY <1>2, <1>4 DEF MediaInv, Named, IsA
  <2> QED BY <2>1, <2>2, <2>3, VideoStep
<1>6. CamSteady' /\ CamBlurred'
  <2>1. CASE m.past.cam
    BY <1>4, <2>1 DEF CamSteady, CamBlurred
  <2>2. CASE ~m.past.cam
    <3>1. \A q \in ops : q.k = "cam" => q = o
      BY <1>1, <2>2, OnlyOp
    <3>2. \A q \in ops' : q.k # "cam"
      BY <1>1, <3>1
    <3>3. ~m.closed => CamTrack'
      <4>1. SUFFICES ASSUME ~m.closed PROVE CamTrack'
        OBVIOUS
      <4>2. CamTrack /\ m.video # 0 /\ o.old = m.video /\ m.video \in DOMAIN m.senders
        BY <1>1, <2>2, <4>1 DEF MediaInv, CamSteady, CamWaits
      <4> QED BY <1>4, <4>1, <4>2 DEF CamTrack
    <3>4. CamSteady'
      BY <1>4, <3>2, <3>3 DEF CamSteady, Alone
    <3>5. CamBlurred'
      BY <1>1, <1>4, <3>1 DEF MediaInv, CamBlurred
    <3> QED BY <3>4, <3>5
  <2> QED BY <2>1, <2>2
<1> QED BY <1>5, <1>6, MicStillKept DEF MediaInv

\* stopVideo, once the sender has let the track go.
Cleared(s) == [s EXCEPT !.seg = 0, !.video = 0, !.shown.cam = FALSE]
Off(s) == Cleared(Stop(s, {s.video}))

LEMMA ClearedFacts ==
    ASSUME NEW a \in Media, NEW r, r = Cleared(a)
    PROVE  /\ SameVoice(r, a) /\ ~r.shown.cam /\ r.trk = a.trk /\ r.senders = a.senders /\ r.past = a.past
           /\ r.seg = 0 /\ r.video = 0 /\ r.videoAdded = a.videoAdded /\ r.vsender = a.vsender
<1> DEFINE d == [a.shown EXCEPT !.cam = FALSE]
<1>1. a.shown \in Shown
  BY DEF Media
<1>2. d \in Shown /\ ~d.cam /\ d.mic = a.shown.mic
  BY <1>1 DEF Shown
<1> DEFINE x == 0
<1>3. x \in Nat /\ r = [a EXCEPT !.seg = x, !.video = x, !.shown = d]
  BY DEF Cleared
<1> HIDE DEF d, x
<1>4. /\ r \in Media /\ r.trk = a.trk /\ r.senders = a.senders /\ r.streams = a.streams
      /\ r.audio = a.audio /\ r.stream = a.stream /\ r.screen = a.screen /\ r.peer = a.peer /\ r.closed = a.closed
      /\ r.cur = a.cur /\ r.sel = a.sel /\ r.plugged = a.plugged /\ r.past = a.past
      /\ r.seg = x /\ r.video = x /\ r.videoAdded = a.videoAdded /\ r.vsender = a.vsender
      /\ r.shown = d
  <2> DEFINE y == [a EXCEPT !.seg = x, !.video = x]
  <2>1. /\ y \in Media /\ y.trk = a.trk /\ y.senders = a.senders /\ y.streams = a.streams
        /\ y.audio = a.audio /\ y.stream = a.stream /\ y.screen = a.screen /\ y.peer = a.peer /\ y.closed = a.closed
        /\ y.cur = a.cur /\ y.sel = a.sel /\ y.plugged = a.plugged /\ y.past = a.past
        /\ y.seg = x /\ y.video = x /\ y.videoAdded = a.videoAdded /\ y.vsender = a.vsender
    BY <1>3 DEF Media
  <2>2. r = [y EXCEPT !.shown = d]
    BY <1>3
  <2> HIDE DEF y
  <2>3. /\ r \in Media /\ r.trk = y.trk /\ r.senders = y.senders /\ r.streams = y.streams
        /\ r.audio = y.audio /\ r.stream = y.stream /\ r.screen = y.screen /\ r.peer = y.peer /\ r.closed = y.closed
        /\ r.cur = y.cur /\ r.sel = y.sel /\ r.plugged = y.plugged /\ r.past = y.past
        /\ r.seg = y.seg /\ r.video = y.video /\ r.videoAdded = y.videoAdded /\ r.vsender = y.vsender
        /\ r.shown = d
    <3>1. y \in Media
      BY <2>1
    <3> QED BY <1>2, <2>2, <3>1, ZenonT(40) DEF Media
  <2> QED BY <2>1, <2>3
<1> QED BY <1>2, <1>4 DEF SameVoice, x

LEMMA OffFacts ==
    ASSUME NEW s \in Media, NEW v \in DOMAIN s.trk, s.trk[v].k \in Video,
           s.trk[v].src \in DOMAIN s.trk => s.trk[s.trk[v].src].k \in Video, s.video = v, NEW r, r = Off(s)
    PROVE  /\ VideoOnly(r, s) /\ r.senders = s.senders /\ r.past = s.past /\ ~r.shown.cam
           /\ r.videoAdded = s.videoAdded /\ r.vsender = s.vsender /\ r.video = 0 /\ r.seg = 0
           /\ DOMAIN r.trk = DOMAIN s.trk
           /\ \A i \in DOMAIN s.trk : r.trk[i].live <=> s.trk[i].live /\ i # v /\ s.trk[v].src # i
<1> DEFINE a == Stop(s, {v})
<1>0. r = Cleared(a)
  BY DEF Off
<1>1. a = Stop(s, {v})
  OBVIOUS
<1> HIDE DEF a
<1>2. /\ VideoOnly(a, s) /\ SameRest(a, s) /\ a.senders = s.senders /\ DOMAIN a.trk = DOMAIN s.trk
      /\ \A i \in DOMAIN s.trk : /\ a.trk[i].live <=> s.trk[i].live /\ i # v /\ s.trk[v].src # i
                                 /\ a.trk[i].on = s.trk[i].on
  BY <1>1, CameraStops
<1>3. a \in Media
  BY <1>2 DEF VideoOnly
<1>4. /\ SameVoice(r, a) /\ ~r.shown.cam /\ r.trk = a.trk /\ r.senders = a.senders /\ r.past = a.past
      /\ r.seg = 0 /\ r.video = 0 /\ r.videoAdded = a.videoAdded /\ r.vsender = a.vsender
  BY <1>0, <1>3, ClearedFacts
<1>5. VideoOnly(r, s)
  BY <1>2, <1>3, <1>4, CameraNoted, VideoOnlyTrans
<1> QED BY <1>2, <1>4, <1>5 DEF SameRest

LEMMA stopVideoKept ==
    ASSUME MediaInv, stopVideo
    PROVE  MediaInv'
<1> DEFINE s == Begins(m, "cam")
           z == replaceTrack(s, m.vsender, 0)
<1>0. /\ VideoOnly(s, m) /\ NotedOnly(s, m) /\ s.past.failed = m.past.failed
      /\ s.past.cam <=> m.past.cam \/ Busy("cam")
  BY MediaFacts, CameraBegins
<1>1. /\ m.peer /\ m.video # 0 /\ uses' = uses + 1 /\ ops' = ops
      /\ \/ HasSender(m, m.vsender) /\ m' = Off(z)
         \/ ~HasSender(m, m.vsender) /\ (m' = Off(s) \/ m' = s)
  <2>1. s.video = m.video /\ z.video = m.video
    <3>1. m.vsender \in Nat /\ 0 \in Nat /\ s \in Media /\ s.video = m.video
      BY <1>0, MediaFacts DEF VideoOnly, NotedOnly, Media
    <3> HIDE DEF s
    <3> QED BY <3>1, replaceTrackFacts DEF SameRest
  <2> QED BY <2>1 DEF stopVideo, Use, Does, Off, Cleared
<1> HIDE DEF s
<1>2. /\ ~m.closed /\ m.video \in DOMAIN m.trk /\ m.trk[m.video].k \in Video
      /\ m.videoAdded \/ m.vsender # 0 => m.vsender \in DOMAIN m.trk /\ m.trk[m.vsender].k \in Video
      /\ m.trk[m.video].src \in DOMAIN m.trk => m.trk[m.trk[m.video].src].k \in Video
  <2>1. \A i \in DOMAIN m.trk : m.trk[i].src # 0 => IsA(m.trk[i].src, Video)
    BY DEF MediaInv, Named
  <2> QED BY <1>1, <2>1, MediaFacts DEF MediaInv, Released, Named, IsA
<1>3. /\ s \in Media /\ s.trk = m.trk /\ s.senders = m.senders /\ s.video = m.video /\ s.videoAdded = m.videoAdded
      /\ s.vsender = m.vsender /\ s.seg = m.seg /\ s.blur = m.blur /\ s.closed = m.closed /\ s.shown = m.shown
  BY <1>0 DEF VideoOnly, NotedOnly
<1>4. /\ z \in Media /\ SameRest(z, s) /\ z.trk = s.trk /\ z.streams = s.streams
      /\ DOMAIN z.senders = DOMAIN s.senders
      /\ m.vsender \in DOMAIN s.senders => z.senders[m.vsender] = 0
      /\ \A i \in DOMAIN s.senders : i # m.vsender => z.senders[i] = s.senders[i]
  <2>1. 0 \in Nat /\ m.vsender \in Nat /\ s \in Media
    BY <1>3, MediaFacts DEF Media
  <2> QED BY <2>1, replaceTrackFacts, SMTT(30)
<1> HIDE DEF z
<1>5. HasSender(m, m.vsender) => VideoOnly(z, s)
  <2>1. SUFFICES ASSUME m.vsender \in DOMAIN m.senders PROVE VideoOnly(z, s)
    BY DEF HasSender
  <2>2. m.vsender \in Nat /\ m.vsender # 0 /\ m.vsender \in DOMAIN s.trk /\ s.trk[m.vsender].k \in Video
    BY <1>2, <1>3, <2>1, MediaFacts
  <2>3. 0 \in Nat
    OBVIOUS
  <2> QED BY <1>3, <2>2, <2>3, CameraReplaced DEF z
<1>6. CASE m' = s /\ ~HasSender(m, m.vsender)
  <2>1. Typed' /\ Named' /\ Released' /\ MicStill
    <3>1. ops' \subseteq Waiting /\ uses' \in Nat /\ SameOps("mic") /\ \A r \in ops' : r \in ops
      BY <1>1, MediaFacts DEF SameOps
    <3>2. (m.video # 0 => IsA(m.video, Video))' /\ (m.videoAdded \/ m.vsender # 0 => IsA(m.vsender, Video))'
      BY <1>2, <1>3, <1>6 DEF IsA
    <3> QED BY <1>0, <1>6, <3>1, <3>2, VideoStep
  <2>2. m.past.cam \/ Busy("cam")
    BY <1>1, <1>2, <1>6 DEF MediaInv, CamSteady, CamTrack, Busy, HasSender
  <2>3. CamSteady' /\ CamBlurred'
    BY <1>0, <1>6, <2>2 DEF CamSteady, CamBlurred
  <2> QED BY <2>1, <2>3, MicStillKept DEF MediaInv
<1>7. CASE \/ HasSender(m, m.vsender) /\ m' = Off(z)
           \/ ~HasSender(m, m.vsender) /\ m' = Off(s)
  <2>1. /\ VideoOnly(m', m) /\ m'.past = s.past /\ ~m'.shown.cam
        /\ m'.videoAdded = m.videoAdded /\ m'.vsender = m.vsender /\ m'.video = 0 /\ m'.seg = 0
        /\ DOMAIN m'.trk = DOMAIN m.trk
        /\ \A i \in DOMAIN m.trk : m'.trk[i].live <=> m.trk[i].live /\ i # m.video /\ m.trk[m.video].src # i
        /\ HasSender(m, m.vsender) => m'.senders = z.senders
    <3>1. CASE HasSender(m, m.vsender) /\ m' = Off(z)
      <4>1. /\ z.video = m.video /\ z.past = s.past /\ z.videoAdded = m.videoAdded /\ z.vsender = m.vsender
            /\ z.trk = m.trk
        BY <1>3, <1>4 DEF SameRest
      <4>2. /\ VideoOnly(m', z) /\ m'.senders = z.senders /\ m'.past = z.past /\ ~m'.shown.cam
            /\ m'.videoAdded = z.videoAdded /\ m'.vsender = z.vsender /\ m'.video = 0 /\ m'.seg = 0
            /\ DOMAIN m'.trk = DOMAIN z.trk
            /\ \A i \in DOMAIN z.trk : m'.trk[i].live <=> z.trk[i].live /\ i # m.video /\ z.trk[m.video].src # i
        BY <1>2, <1>4, <3>1, <4>1, OffFacts
      <4>3. VideoOnly(m', m)
        BY <1>0, <1>5, <3>1, <4>2, VideoOnlyTrans
      <4> QED BY <4>1, <4>2, <4>3
    <3>2. CASE ~HasSender(m, m.vsender) /\ m' = Off(s)
      <4>1. /\ VideoOnly(m', s) /\ m'.past = s.past /\ ~m'.shown.cam
            /\ m'.videoAdded = s.videoAdded /\ m'.vsender = s.vsender /\ m'.video = 0 /\ m'.seg = 0
            /\ DOMAIN m'.trk = DOMAIN s.trk
            /\ \A i \in DOMAIN s.trk : m'.trk[i].live <=> s.trk[i].live /\ i # m.video /\ s.trk[m.video].src # i
        BY <1>2, <1>3, <3>2, OffFacts
      <4>2. VideoOnly(m', m)
        BY <1>0, <4>1, VideoOnlyTrans
      <4> QED BY <1>3, <3>2, <4>1, <4>2
    <3> QED BY <1>7, <3>1, <3>2
  <2>2. Typed' /\ Named' /\ Released' /\ MicStill
    <3>1. ops' \subseteq Waiting /\ uses' \in Nat /\ SameOps("mic") /\ \A r \in ops' : r \in ops
      BY <1>1, MediaFacts DEF SameOps
    <3>2. (m.video # 0 => IsA(m.video, Video))' /\ (m.videoAdded \/ m.vsender # 0 => IsA(m.vsender, Video))'
      <4>1. m.videoAdded \/ m.vsender # 0 => m.vsender \in DOMAIN m'.trk /\ m'.trk[m.vsender].k \in Video
        BY <1>2, <2>1 DEF VideoOnly
      <4> QED BY <2>1, <4>1 DEF IsA
    <3> QED BY <2>1, <3>1, <3>2, VideoStep
  <2>3. CamSteady'
    <3>1. CASE m.past.cam \/ Busy("cam")
      BY <1>0, <2>1, <3>1 DEF CamSteady
    <3>2. CASE ~m.past.cam /\ ~Busy("cam")
      <4>1. CamTrack /\ m.shown.cam /\ m.videoAdded /\ m.vsender = m.video /\ m.vsender \in DOMAIN m.senders
        BY <1>1, <1>2, <3>2 DEF MediaInv, CamSteady, CamTrack, Busy
      <4>2. m'.senders = z.senders
        BY <2>1, <4>1 DEF HasSender
      <4>3. \A i \in DOMAIN m'.trk : m'.trk[i].k = m.trk[i].k
        BY <2>1 DEF VideoOnly
      <4>4. \A i \in DOMAIN m'.senders : m'.trk[i].k \in Video /\ m'.senders[i] # 0 => FALSE
        BY <1>3, <1>4, <2>1, <4>1, <4>2, <4>3, MediaFacts DEF CamTrack
      <4>5. \A i \in DOMAIN m'.trk : m'.trk[i].k \in Video /\ m'.trk[i].live => FALSE
        BY <2>1, <4>1, <4>3 DEF CamTrack
      <4>6. m'.vsender \in DOMAIN m'.senders
        BY <1>3, <1>4, <2>1, <4>1, <4>2
      <4>7. CamTrack'
        BY <2>1, <4>4, <4>5, <4>6 DEF CamTrack
      <4>8. \A r \in ops' : r.k # "cam"
        BY <1>1, <3>2 DEF Busy
      <4> QED BY <4>7, <4>8 DEF CamSteady, Alone
    <3> QED BY <3>1, <3>2
  <2>4. CamBlurred'
    BY <2>1 DEF CamBlurred
  <2> QED BY <2>2, <2>3, <2>4, MicStillKept DEF MediaInv
<1> QED BY <1>1, <1>6, <1>7

\* The operation of setVideoInputDevice is about the video that is on.
LEMMA VideoOpFacts ==
    ASSUME MediaInv, NEW p, p = setVideoInputDevice(m)
    PROVE  /\ p \in Waiting /\ p.k = "cam" /\ p.next = "none" /\ p.at \in {"open", "switch"}
           /\ p.at = "open" => m.video = 0
           /\ p.at = "switch" => /\ p.old = m.video /\ m.video # 0 /\ p.dev = m.seg /\ p.on = m.trk[m.video].on
                                 /\ m.video \in DOMAIN m.trk /\ m.trk[m.video].k \in Video
<1>1. m.video \in Nat /\ m.seg \in Nat /\ uses \in Nat
  BY MediaFacts DEF Media
<1>2. m.video # 0 => m.video \in DOMAIN m.trk /\ m.trk[m.video].k \in Video /\ m.trk[m.video].on \in BOOLEAN
  BY MediaFacts DEF MediaInv, Named, IsA, Track
<1>3. CASE m.video = 0
  <2>1. p = Op("cam", "open", "none", 0, 0, FALSE)
    BY <1>3 DEF setVideoInputDevice
  <2> QED BY <1>1, <1>3, <2>1 DEF Op, Waiting, Kinds
<1>4. CASE m.video # 0
  <2>1. p = Op("cam", "switch", "none", m.seg, m.video, m.trk[m.video].on)
    BY <1>4 DEF setVideoInputDevice
  <2> QED BY <1>1, <1>2, <1>4, <2>1 DEF Op, Waiting, Kinds
<1> QED BY <1>3, <1>4

\* The camera is picked, or the choice of blur is stored: the video is opened
\* again unless the choice is what it has.
LEMMA VideoAskedKept ==
    ASSUME MediaInv, m.peer, uses' = uses + 1, NEW b \in BOOLEAN,
           m' = [Begins(m, "cam") EXCEPT !.blur = b],
           \/ ops' = ops \cup {setVideoInputDevice(m)}
           \/ ops' = ops /\ (m.video = 0 \/ (b => m.seg # 0))
    PROVE  MediaInv'
<1> DEFINE s == Begins(m, "cam")
           p == setVideoInputDevice(m)
<1>1. /\ VideoOnly(s, m) /\ NotedOnly(s, m) /\ s.past.failed = m.past.failed
      /\ s.past.cam <=> m.past.cam \/ Busy("cam")
  BY MediaFacts, CameraBegins
<1> HIDE DEF s
<1>2. s \in Media /\ m' = [s EXCEPT !.blur = b]
  BY <1>1 DEF VideoOnly, s
<1>3. /\ m' \in Media /\ m'.trk = s.trk /\ m'.senders = s.senders /\ m'.streams = s.streams
      /\ m'.audio = s.audio /\ m'.stream = s.stream /\ m'.screen = s.screen /\ m'.peer = s.peer
      /\ m'.closed = s.closed /\ m'.cur = s.cur /\ m'.sel = s.sel /\ m'.plugged = s.plugged /\ m'.past = s.past
      /\ m'.seg = s.seg /\ m'.video = s.video /\ m'.videoAdded = s.videoAdded /\ m'.vsender = s.vsender
      /\ m'.blur = b /\ m'.shown = s.shown
  BY <1>2 DEF Media
<1>4. VideoOnly(m', m)
  <2>1. SameVoice(m', s)
    BY <1>3 DEF SameVoice
  <2> QED BY <1>1, <1>2, <2>1, CameraNoted, VideoOnlyTrans
<1>5. /\ m'.trk = m.trk /\ m'.senders = m.senders /\ m'.seg = m.seg /\ m'.video = m.video
      /\ m'.videoAdded = m.videoAdded /\ m'.vsender = m.vsender /\ m'.shown = m.shown /\ m'.peer = m.peer
      /\ m'.past.raw = m.past.raw /\ m'.past.failed = m.past.failed
  BY <1>1, <1>3 DEF NotedOnly
<1>6. /\ p \in Waiting /\ p.k = "cam" /\ p.next = "none" /\ p.at \in {"open", "switch"}
      /\ p.at = "open" => m.video = 0
      /\ p.at = "switch" => /\ p.old = m.video /\ m.video # 0 /\ p.dev = m.seg /\ p.on = m.trk[m.video].on
                            /\ m.video \in DOMAIN m.trk /\ m.trk[m.video].k \in Video
  BY VideoOpFacts
<1>7. \A r \in ops' : r \in ops \/ r = p
  OBVIOUS
<1>8. p \in ops' \/ (ops' = ops /\ (m.video = 0 \/ (b => m.seg # 0)))
  OBVIOUS
<1>9. ops \subseteq ops'
  OBVIOUS
<1> HIDE DEF p
<1>10. ~m.closed
  BY DEF MediaInv, Released
<1>11. Typed' /\ Named' /\ Released' /\ MicStill
  <2>1. ops' \subseteq Waiting /\ uses' \in Nat /\ SameOps("mic")
    BY <1>6, <1>7, <1>9, MediaFacts DEF SameOps
  <2>2. (m.video # 0 => IsA(m.video, Video))' /\ (m.videoAdded \/ m.vsender # 0 => IsA(m.vsender, Video))'
    BY <1>5 DEF MediaInv, Named, IsA
  <2>3. \A r \in ops' \ ops : r.k = "cam" /\ r.at \in {"open", "switch"} /\ (r.at = "switch" => IsA(r.old, Video)')
    BY <1>5, <1>6, <1>7 DEF IsA
  <2> QED BY <1>4, <1>10, <2>1, <2>2, <2>3, VideoStep
<1>12. CamSteady' /\ CamBlurred'
  <2>1. CASE m.past.cam \/ Busy("cam")
    BY <1>1, <1>3, <2>1 DEF CamSteady, CamBlurred
  <2>2. CASE ~m.past.cam /\ ~Busy("cam")
    <3>1. CamTrack
      BY <1>10, <2>2 DEF MediaInv, CamSteady
    <3>2. CamTrack'
      BY <1>5, <2>2, <3>1, ZenonT(40) DEF CamTrack, Busy
    <3>3. \A r \in ops' : r.k = "cam" => r = p
      BY <1>7, <2>2 DEF Busy
    <3>4. \A r \in ops' : r.k = "cam" => CamWaits(r)'
      BY <1>5, <1>6, <3>1, <3>3 DEF CamWaits, CamTrack
    <3>5. CamSteady'
      BY <3>2, <3>3, <3>4 DEF CamSteady, Alone
    <3>6. CamBlurred'
      BY <1>3, <1>5, <1>6, <1>8, <1>10, <2>2 DEF MediaInv, CamBlurred
    <3> QED BY <3>5, <3>6
  <2> QED BY <2>1, <2>2
<1> QED BY <1>11, <1>12, MicStillKept DEF MediaInv

LEMMA PickCameraKept ==
    ASSUME MediaInv, PickCamera
    PROVE  MediaInv'
<1> DEFINE s == Begins(m, "cam")
<1>1. m.peer /\ uses' = uses + 1 /\ m' = s /\ ops' = ops \cup {setVideoInputDevice(m)}
  BY DEF PickCamera, Use, Waits
<1>2. s \in Media /\ s.blur = m.blur /\ m.blur \in BOOLEAN
  BY MediaFacts, CameraBegins DEF VideoOnly, NotedOnly, Media
<1>3. s = [s EXCEPT !.blur = m.blur]
  <2> HIDE DEF s
  <2> QED BY <1>2 DEF Media
<1> QED BY <1>1, <1>2, <1>3, VideoAskedKept

LEMMA setBlurSettingsKept ==
    ASSUME MediaInv, NEW b \in BOOLEAN, setBlurSettings(b)
    PROVE  MediaInv'
<1>1. m.peer /\ uses' = uses + 1 /\ m' = [Begins(m, "cam") EXCEPT !.blur = b]
  BY DEF setBlurSettings, Use, Does, Waits
<1>2. \/ ops' = ops \cup {setVideoInputDevice(m)}
      \/ ops' = ops /\ (m.video = 0 \/ (b => m.seg # 0))
  BY DEF setBlurSettings, Use, Does, Waits
<1> QED BY <1>1, <1>2, VideoAskedKept

\* The new camera is open, with its canvas, and the old one is stopped; the
\* segmenter goes when blur is not wanted, and raw is noted.
Noted(s, seg, raw) == [s EXCEPT !.seg = seg, !.past.raw = raw]

LEMMA NotedFacts ==
    ASSUME NEW s \in Media, NEW seg \in Nat, NEW raw \in BOOLEAN, NEW r, r = Noted(s, seg, raw)
    PROVE  /\ SameVoice(r, s) /\ r.trk = s.trk /\ r.senders = s.senders /\ r.video = s.video
           /\ r.videoAdded = s.videoAdded /\ r.vsender = s.vsender /\ r.blur = s.blur /\ r.shown = s.shown
           /\ r.seg = seg /\ r.past.raw = raw /\ r.past.cam = s.past.cam /\ r.past.failed = s.past.failed
<1> DEFINE d == [s.past EXCEPT !.raw = raw]
<1>1. s.past \in Past
  BY DEF Media
<1>2. /\ d \in Past /\ d.raw = raw /\ d.mic = s.past.mic /\ d.cam = s.past.cam /\ d.failed = s.past.failed
      /\ d.early = s.past.early
  BY <1>1 DEF Past
<1>3. r = [s EXCEPT !.seg = seg, !.past = d]
  BY DEF Noted
<1> HIDE DEF d
<1>4. /\ r \in Media /\ r.trk = s.trk /\ r.senders = s.senders /\ r.streams = s.streams
      /\ r.audio = s.audio /\ r.stream = s.stream /\ r.screen = s.screen /\ r.peer = s.peer /\ r.closed = s.closed
      /\ r.cur = s.cur /\ r.sel = s.sel /\ r.plugged = s.plugged /\ r.shown = s.shown
      /\ r.seg = seg /\ r.video = s.video /\ r.videoAdded = s.videoAdded /\ r.vsender = s.vsender
      /\ r.blur = s.blur /\ r.past = d
  BY <1>2, <1>3, ZenonT(40) DEF Media
<1> QED BY <1>2, <1>4 DEF SameVoice

\* What is there once the new camera t, or its canvas n, is open.
Reopens(g, t, n) ==
    /\ VideoOnly(g, m) /\ SameCam(g, m) /\ g.senders = m.senders
    /\ t \in Nat \ {0} /\ t \notin DOMAIN m.trk /\ t \in DOMAIN g.trk
    /\ n \in Nat \ {0} /\ n \notin DOMAIN m.trk /\ n \in DOMAIN g.trk /\ g.trk[n].k \in Video
    /\ DOMAIN g.trk = DOMAIN m.trk \cup {t, n}
    /\ \A i \in DOMAIN m.trk : g.trk[i] = m.trk[i]
    /\ \/ ~(m.blur /\ m.seg = 0) /\ n = t /\ g.trk[n].k = "cam" /\ g.seg = m.seg
       \/ m.blur /\ m.seg = 0 /\ g.trk[n].k = "blur" /\ g.trk[n].src = t /\ g.seg = n

LEMMA ReopensFacts ==
    ASSUME m \in Media, NEW late \in BOOLEAN, m.closed => late,
           NEW t, t = New(m), NEW a, a = Keep(Opened(m, "cam", 0, late), t), NEW n, n = VideoTrack(a, t),
           NEW g, g = initBgBackgroundTrack(a, t)
    PROVE  Reopens(g, t, n)
<1>2. /\ VideoOnly(a, m) /\ SameRest(a, m) /\ a.senders = m.senders
      /\ DOMAIN a.trk = DOMAIN m.trk \cup {t} /\ t \notin DOMAIN m.trk /\ t \in Nat \ {0}
      /\ \A i \in DOMAIN m.trk : a.trk[i] = m.trk[i]
      /\ a.trk[t] = [k |-> "cam", live |-> TRUE, on |-> TRUE, dev |-> 0, src |-> 0, stray |-> late]
  BY CameraOpens
<1>3. a \in Media /\ t \in DOMAIN a.trk /\ a.trk[t].k = "cam" /\ a.trk[t].k \in Video /\ (a.closed => a.trk[t].stray)
  BY <1>2 DEF VideoOnly, SameRest, Video
<1>4. /\ VideoOnly(g, a) /\ SameCam(g, a) /\ g.senders = a.senders
      /\ n \in DOMAIN g.trk /\ n \in Nat \ {0} /\ g.trk[n].k \in Video
      /\ \A i \in DOMAIN a.trk : g.trk[i] = a.trk[i]
      /\ \/ ~(a.blur /\ a.seg = 0) /\ n = t /\ g = a
         \/ /\ a.blur /\ a.seg = 0 /\ n \notin DOMAIN a.trk /\ DOMAIN g.trk = DOMAIN a.trk \cup {n}
            /\ g.trk[n].k = "blur" /\ g.trk[n].on /\ g.trk[n].src = t /\ g.seg = n
  BY <1>3, BgFacts
<1>5. a.blur = m.blur /\ a.seg = m.seg /\ SameCam(g, m)
  BY <1>2, <1>4 DEF SameRest, SameCam
<1>6. VideoOnly(g, m)
  BY <1>2, <1>4, VideoOnlyTrans
<1>7. DOMAIN g.trk = DOMAIN m.trk \cup {t, n} /\ n \notin DOMAIN m.trk
  BY <1>2, <1>4, ZenonT(40)
<1>8. ASSUME NEW i \in DOMAIN m.trk PROVE g.trk[i] = m.trk[i]
  <2>1. i \in DOMAIN a.trk /\ a.trk[i] = m.trk[i]
    BY <1>2, Zenon
  <2> QED BY <1>4, <2>1, Zenon
<1>9. \/ ~(m.blur /\ m.seg = 0) /\ n = t /\ g.trk[n].k = "cam" /\ g.seg = m.seg
      \/ m.blur /\ m.seg = 0 /\ g.trk[n].k = "blur" /\ g.trk[n].src = t /\ g.seg = n
  BY <1>3, <1>4, <1>5, Zenon
<1>10. g.senders = m.senders /\ t \in DOMAIN g.trk
  BY <1>2, <1>4, <1>7, Zenon
<1> QED BY <1>2, <1>4, <1>5, <1>6, <1>7, <1>8, <1>9, <1>10, Zenon DEF Reopens

\* What is there once the new camera has taken the place of the old one.
Reopened(r, o, t, n) ==
    /\ VideoOnly(r, m) /\ r.senders = m.senders /\ r.video = m.video /\ r.videoAdded = m.videoAdded
    /\ r.vsender = m.vsender /\ r.blur = m.blur /\ r.shown = m.shown
    /\ r.past.cam = m.past.cam /\ r.past.failed = m.past.failed
    /\ r.past.raw <=> m.past.raw \/ (m.blur /\ m.seg # 0)
    /\ t \in Nat \ {0} /\ t \notin DOMAIN m.trk /\ t \in DOMAIN r.trk
    /\ n \in Nat \ {0} /\ n \notin DOMAIN m.trk /\ n \in DOMAIN r.trk /\ r.trk[n].k \in Video
    /\ DOMAIN r.trk = DOMAIN m.trk \cup {t, n}
    /\ o.old \in DOMAIN m.trk /\ m.trk[o.old].k \in Video
    /\ \A i \in DOMAIN m.trk : r.trk[i].live => m.trk[i].live /\ i # o.old /\ m.trk[o.old].src # i
    /\ \/ /\ ~(m.blur /\ m.seg = 0) /\ n = t /\ r.trk[n].k = "cam"
          /\ r.seg = IF o.dev # 0 /\ ~m.blur THEN 0 ELSE m.seg
       \/ m.blur /\ m.seg = 0 /\ r.trk[n].k = "blur" /\ r.trk[n].src = t /\ r.seg = n

\* The old camera is stopped, and its canvas with it.
OldStopped(b, o, n, g) ==
    /\ o.old \in DOMAIN m.trk /\ m.trk[o.old].k \in Video
    /\ VideoOnly(b, m) /\ SameCam(b, m) /\ b.senders = m.senders /\ DOMAIN b.trk = DOMAIN g.trk
    /\ b.trk[n].k = g.trk[n].k /\ b.trk[n].src = g.trk[n].src /\ b.seg = g.seg
    /\ \A i \in DOMAIN m.trk : b.trk[i].live => m.trk[i].live /\ i # o.old /\ m.trk[o.old].src # i

LEMMA ReopenedStops ==
    ASSUME MediaInv, NEW o \in ops, o.k = "cam", o.at = "switch",
           NEW t, NEW n, NEW g, Reopens(g, t, n), NEW b, b = Stop(g, {o.old})
    PROVE  OldStopped(b, o, n, g)
<1>1. /\ m \in Media /\ o.old \in DOMAIN m.trk /\ m.trk[o.old].k \in Video
      /\ m.trk[o.old].src # 0 => m.trk[o.old].src \in DOMAIN m.trk /\ m.trk[m.trk[o.old].src].k \in Video
  <2>1. m \in Media
    BY MediaFacts
  <2>2. o.old \in DOMAIN m.trk /\ m.trk[o.old].k \in Video
    BY DEF MediaInv, Named, IsA
  <2>3. m.trk[o.old].src # 0 => m.trk[o.old].src \in DOMAIN m.trk /\ m.trk[m.trk[o.old].src].k \in Video
    BY <2>2 DEF MediaInv, Named, IsA
  <2> QED BY <2>1, <2>2, <2>3
<1>2. /\ VideoOnly(g, m) /\ SameCam(g, m) /\ g.senders = m.senders /\ n \in DOMAIN g.trk
      /\ DOMAIN g.trk = DOMAIN m.trk \cup {t, n}
      /\ \A i \in DOMAIN m.trk : g.trk[i] = m.trk[i]
  BY DEF Reopens
<1>3. g \in Media /\ 0 \notin DOMAIN g.trk
  <2>1. g \in Media
    BY <1>2 DEF VideoOnly
  <2> QED BY <2>1, TrackSeq DEF Media
<1>4. o.old \in DOMAIN g.trk /\ g.trk[o.old] = m.trk[o.old]
  BY <1>1, <1>2, Zenon
<1>5. g.trk[o.old].k \in Video
  BY <1>1, <1>4, Zenon
<1>6. g.trk[o.old].src \in DOMAIN g.trk => g.trk[g.trk[o.old].src].k \in Video
  BY <1>1, <1>2, <1>3, <1>4, Zenon
<1>7. /\ VideoOnly(b, g) /\ SameRest(b, g) /\ b.senders = g.senders /\ DOMAIN b.trk = DOMAIN g.trk
      /\ \A i \in DOMAIN g.trk : /\ b.trk[i].live <=> g.trk[i].live /\ i # o.old /\ g.trk[o.old].src # i
                                 /\ b.trk[i].on = g.trk[i].on
  <2> DEFINE d == o.old
  <2>1. d \in DOMAIN g.trk /\ g.trk[d].k \in Video /\ b = Stop(g, {d})
    BY <1>4, <1>5, Zenon
  <2>2. g.trk[d].src \in DOMAIN g.trk => g.trk[g.trk[d].src].k \in Video
    BY <1>6, Zenon
  <2>3. d = o.old
    OBVIOUS
  <2> HIDE DEF d
  <2>4. /\ VideoOnly(b, g) /\ SameRest(b, g) /\ b.senders = g.senders /\ DOMAIN b.trk = DOMAIN g.trk
        /\ \A i \in DOMAIN g.trk : /\ b.trk[i].live <=> g.trk[i].live /\ i # d /\ g.trk[d].src # i
                                   /\ b.trk[i].on = g.trk[i].on
    BY <1>3, <2>1, <2>2, CameraStops, ZenonT(40)
  <2> QED BY <2>3, <2>4, Zenon
<1>8. VideoOnly(b, m)
  BY <1>2, <1>7, VideoOnlyTrans, Zenon
<1>9. SameCam(b, m) /\ b.seg = g.seg
  BY <1>2, <1>7, Zenon DEF SameCam, SameRest
<1>10. b.trk[n].k = g.trk[n].k /\ b.trk[n].src = g.trk[n].src
  BY <1>2, <1>7, Zenon DEF VideoOnly
<1>11. \A i \in DOMAIN m.trk : b.trk[i].live => m.trk[i].live /\ i # o.old /\ m.trk[o.old].src # i
  BY <1>2, <1>4, <1>7, ZenonT(40)
<1>12. b.senders = m.senders
  BY <1>2, <1>7, Zenon
<1> QED BY <1>1, <1>7, <1>8, <1>9, <1>10, <1>11, <1>12, Zenon DEF OldStopped

LEMMA ReopenedNoted ==
    ASSUME MediaInv, NEW o, NEW t, NEW n, NEW g, Reopens(g, t, n), NEW b, OldStopped(b, o, n, g),
           NEW seg \in Nat, seg = (IF o.dev # 0 /\ ~m.blur THEN 0 ELSE b.seg),
           NEW raw \in BOOLEAN, raw <=> (m.past.raw \/ (m.blur /\ m.seg # 0)),
           NEW r, r = Noted(b, seg, raw)
    PROVE  Reopened(r, o, t, n)
<1>0. /\ o.old \in DOMAIN m.trk /\ m.trk[o.old].k \in Video
      /\ VideoOnly(b, m) /\ SameCam(b, m) /\ b.senders = m.senders /\ DOMAIN b.trk = DOMAIN g.trk
      /\ b.trk[n].k = g.trk[n].k /\ b.trk[n].src = g.trk[n].src /\ b.seg = g.seg
      /\ \A i \in DOMAIN m.trk : b.trk[i].live => m.trk[i].live /\ i # o.old /\ m.trk[o.old].src # i
  BY Zenon DEF OldStopped
<1>1. b \in Media
  BY <1>0 DEF VideoOnly
<1>2. /\ SameVoice(r, b) /\ r.trk = b.trk /\ r.senders = b.senders /\ r.video = b.video
      /\ r.videoAdded = b.videoAdded /\ r.vsender = b.vsender /\ r.blur = b.blur /\ r.shown = b.shown
      /\ r.seg = seg /\ r.past.raw = raw /\ r.past.cam = b.past.cam /\ r.past.failed = b.past.failed
  BY <1>1, NotedFacts
<1>3. VideoOnly(r, m)
  BY <1>0, <1>1, <1>2, CameraNoted, VideoOnlyTrans, Zenon
<1>4. /\ r.senders = m.senders /\ r.video = m.video /\ r.videoAdded = m.videoAdded
      /\ r.vsender = m.vsender /\ r.blur = m.blur /\ r.shown = m.shown
      /\ r.past.cam = m.past.cam /\ r.past.failed = m.past.failed
  BY <1>0, <1>2, Zenon DEF SameCam
<1>5. r.past.raw <=> m.past.raw \/ (m.blur /\ m.seg # 0)
  BY <1>0, <1>2, Zenon
<1>6. \A i \in DOMAIN m.trk : r.trk[i].live => m.trk[i].live /\ i # o.old /\ m.trk[o.old].src # i
  BY <1>0, <1>2, Zenon
<1>7. /\ t \in Nat \ {0} /\ t \notin DOMAIN m.trk /\ t \in DOMAIN r.trk
      /\ n \in Nat \ {0} /\ n \notin DOMAIN m.trk /\ n \in DOMAIN r.trk /\ r.trk[n].k \in Video
      /\ DOMAIN r.trk = DOMAIN m.trk \cup {t, n}
  BY <1>0, <1>2, ZenonT(40) DEF Reopens
<1>8. \/ /\ ~(m.blur /\ m.seg = 0) /\ n = t /\ r.trk[n].k = "cam"
         /\ r.seg = IF o.dev # 0 /\ ~m.blur THEN 0 ELSE m.seg
      \/ m.blur /\ m.seg = 0 /\ r.trk[n].k = "blur" /\ r.trk[n].src = t /\ r.seg = n
  BY <1>0, <1>2, Zenon DEF Reopens
<1> QED BY <1>0, <1>3, <1>4, <1>5, <1>6, <1>7, <1>8, Zenon DEF Reopened

WithVideo(s, n) == [s EXCEPT !.video = n]
WithSender(s, n) == [s EXCEPT !.vsender = n]
Unadded(s) == [s EXCEPT !.videoAdded = FALSE]

\* The track of the video and its sender are fields of their own.
SameButVideo(r, s) ==
    /\ SameVoice(r, s) /\ r.trk = s.trk /\ r.senders = s.senders /\ r.seg = s.seg /\ r.blur = s.blur
    /\ r.shown = s.shown /\ r.past = s.past

LEMMA WithVideoFacts ==
    ASSUME NEW s \in Media, NEW n \in Nat, NEW r, r = WithVideo(s, n)
    PROVE  SameButVideo(r, s) /\ r.video = n /\ r.videoAdded = s.videoAdded /\ r.vsender = s.vsender
  BY DEF WithVideo, SameButVideo, SameVoice, Media

LEMMA WithSenderFacts ==
    ASSUME NEW s \in Media, NEW n \in Nat, NEW r, r = WithSender(s, n)
    PROVE  SameButVideo(r, s) /\ r.video = s.video /\ r.videoAdded = s.videoAdded /\ r.vsender = n
  BY DEF WithSender, SameButVideo, SameVoice, Media

LEMMA UnaddedFacts ==
    ASSUME NEW s \in Media, NEW r, r = Unadded(s)
    PROVE  SameButVideo(r, s) /\ r.video = s.video /\ ~r.videoAdded /\ r.vsender = s.vsender
  BY DEF Unadded, SameButVideo, SameVoice, Media

\* The new track n is the video, enabled if the old one was.
LEMMA TakesOverFacts ==
    ASSUME NEW s \in Media, NEW n \in Nat \ {0}, n \in DOMAIN s.trk, s.trk[n].k \in Video, NEW on \in BOOLEAN,
           NEW r, r = Enable(WithVideo(s, n), n, on)
    PROVE  /\ VideoOnly(r, s) /\ r.senders = s.senders /\ r.video = n /\ r.videoAdded = s.videoAdded
           /\ r.vsender = s.vsender /\ r.seg = s.seg /\ r.blur = s.blur /\ r.shown = s.shown /\ r.past = s.past
           /\ DOMAIN r.trk = DOMAIN s.trk /\ r.trk[n].on = on
           /\ \A i \in DOMAIN s.trk : /\ r.trk[i].k = s.trk[i].k /\ r.trk[i].live = s.trk[i].live
                                      /\ r.trk[i].src = s.trk[i].src
<1> DEFINE e == WithVideo(s, n)
<1>1. e = WithVideo(s, n) /\ r = Enable(e, n, on)
  OBVIOUS
<1> HIDE DEF e
<1>2. SameButVideo(e, s) /\ e.video = n /\ e.videoAdded = s.videoAdded /\ e.vsender = s.vsender
  BY <1>1, WithVideoFacts
<1>3. e \in Media /\ e.trk = s.trk /\ VideoOnly(e, s)
  BY <1>2, CameraNoted DEF SameButVideo, SameVoice
<1>4. Switched(r, e, n) /\ r.trk[n].on = on
  BY <1>1, <1>3, EnableFacts
<1>5. VideoOnly(r, e)
  BY <1>3, <1>4, CameraSwitched
<1>6. VideoOnly(r, s)
  BY <1>3, <1>5, VideoOnlyTrans
<1> QED BY <1>2, <1>3, <1>4, <1>6 DEF SameButVideo, Switched, SameRest

\* A switch whose answer finds the client closed, or that overlapped.
LEMMA SwitchedLoose ==
    ASSUME MediaInv, NEW o \in ops, o.k = "cam", VideoOnly(m', m), ops' = ops \ {o}, uses' = uses,
           m'.past.cam = m.past.cam, m.past.cam \/ m.closed,
           m'.video # 0 => m'.video \in DOMAIN m'.trk /\ m'.trk[m'.video].k \in Video,
           m'.videoAdded => m.videoAdded, m'.vsender = m.vsender
    PROVE  MediaInv'
<1>1. Typed' /\ Named' /\ Released' /\ MicStill
  <2>1. ops' \subseteq Waiting /\ uses' \in Nat /\ SameOps("mic") /\ \A r \in ops' : r \in ops
    BY MediaFacts DEF SameOps
  <2>2. m.videoAdded \/ m.vsender # 0 => m.vsender \in DOMAIN m.trk /\ m.trk[m.vsender].k \in Video
    BY DEF MediaInv, Named, IsA
  <2>3. m.vsender \in DOMAIN m.trk => m.vsender \in DOMAIN m'.trk /\ m'.trk[m.vsender].k = m.trk[m.vsender].k
    BY DEF VideoOnly
  <2>4. (m.video # 0 => IsA(m.video, Video))' /\ (m.videoAdded \/ m.vsender # 0 => IsA(m.vsender, Video))'
    BY <2>2, <2>3 DEF IsA
  <2> QED BY <2>1, <2>4, VideoStep
<1>2. CamSteady' /\ CamBlurred'
  <2>1. CASE m.past.cam
    BY <2>1 DEF CamSteady, CamBlurred
  <2>2. CASE ~m.past.cam /\ m.closed
    <3>1. m'.closed
      BY <2>2 DEF VideoOnly
    <3>2. Alone("cam")'
      BY <2>2 DEF MediaInv, CamSteady, Alone
    <3> QED BY <3>1, <3>2 DEF CamSteady, CamBlurred
  <2> QED BY <2>1, <2>2
<1> QED BY <1>1, <1>2, MicStillKept DEF MediaInv

\* The sender of the old track gets the new one, n.
HandedOver(o, t, n, s) ==
    /\ VideoOnly(s, m) /\ s.video = n /\ s.vsender = n /\ s.videoAdded = m.videoAdded
    /\ s.blur = m.blur /\ s.shown = m.shown /\ s.past.cam = m.past.cam /\ s.past.failed = m.past.failed
    /\ s.past.raw <=> m.past.raw \/ (m.blur /\ m.seg # 0)
    /\ n \in Nat \ {0} /\ n \notin DOMAIN m.trk /\ n \in DOMAIN s.trk /\ s.trk[n].k \in Video /\ s.trk[n].on
    /\ DOMAIN s.trk = DOMAIN m.trk \cup {t, n}
    /\ \A i \in DOMAIN m.trk : s.trk[i].live => m.trk[i].live /\ i # o.old /\ m.trk[o.old].src # i
    /\ DOMAIN s.senders = (DOMAIN m.senders \ {o.old}) \cup {n} /\ s.senders[n] = n
    /\ \A i \in DOMAIN m.senders : i # o.old /\ i # n => s.senders[i] = m.senders[i]
    /\ \/ /\ ~(m.blur /\ m.seg = 0) /\ n = t /\ s.trk[n].k = "cam"
          /\ s.seg = IF o.dev # 0 /\ ~m.blur THEN 0 ELSE m.seg
       \/ m.blur /\ m.seg = 0 /\ s.trk[n].k = "blur" /\ s.trk[n].src = t /\ s.seg = n

\* The new track n is the video, and the sender has the old one still.
TakenOver(o, t, n, a) ==
    /\ VideoOnly(a, m) /\ a.senders = m.senders /\ a.video = n /\ a.videoAdded = m.videoAdded
    /\ a.vsender = m.vsender /\ a.blur = m.blur /\ a.shown = m.shown
    /\ a.past.cam = m.past.cam /\ a.past.failed = m.past.failed
    /\ a.past.raw <=> m.past.raw \/ (m.blur /\ m.seg # 0)
    /\ n \in Nat \ {0} /\ n \notin DOMAIN m.trk /\ n \in DOMAIN a.trk /\ a.trk[n].k \in Video
    /\ DOMAIN a.trk = DOMAIN m.trk \cup {t, n}
    /\ o.old \in DOMAIN a.trk /\ a.trk[o.old].k \in Video
    /\ \A i \in DOMAIN m.trk : a.trk[i].live => m.trk[i].live /\ i # o.old /\ m.trk[o.old].src # i
    /\ \/ /\ ~(m.blur /\ m.seg = 0) /\ n = t /\ a.trk[n].k = "cam"
          /\ a.seg = IF o.dev # 0 /\ ~m.blur THEN 0 ELSE m.seg
       \/ m.blur /\ m.seg = 0 /\ a.trk[n].k = "blur" /\ a.trk[n].src = t /\ a.seg = n

LEMMA TakenOverFacts ==
    ASSUME NEW o, NEW t, NEW n, NEW r, Reopened(r, o, t, n), NEW on \in BOOLEAN,
           NEW a, a = Enable(WithVideo(r, n), n, on)
    PROVE  TakenOver(o, t, n, a) /\ a.trk[n].on = on
<1>1. /\ r \in Media /\ VideoOnly(r, m) /\ n \in Nat \ {0} /\ n \in DOMAIN r.trk /\ r.trk[n].k \in Video
      /\ r.senders = m.senders /\ r.videoAdded = m.videoAdded /\ r.blur = m.blur /\ r.shown = m.shown
      /\ r.vsender = m.vsender /\ n \notin DOMAIN m.trk /\ DOMAIN r.trk = DOMAIN m.trk \cup {t, n}
      /\ o.old \in DOMAIN m.trk /\ m.trk[o.old].k \in Video
      /\ r.past.cam = m.past.cam /\ r.past.failed = m.past.failed
      /\ \A i \in DOMAIN m.trk : r.trk[i].live => m.trk[i].live /\ i # o.old /\ m.trk[o.old].src # i
  BY DEF Reopened, VideoOnly
<1>2. /\ VideoOnly(a, r) /\ a.senders = r.senders /\ a.video = n /\ a.videoAdded = r.videoAdded
      /\ a.vsender = r.vsender /\ a.seg = r.seg /\ a.blur = r.blur /\ a.shown = r.shown /\ a.past = r.past
      /\ DOMAIN a.trk = DOMAIN r.trk /\ a.trk[n].on = on
      /\ \A i \in DOMAIN r.trk : /\ a.trk[i].k = r.trk[i].k /\ a.trk[i].live = r.trk[i].live
                                 /\ a.trk[i].src = r.trk[i].src
  <2>1. n \in Nat \ {0} /\ n \in DOMAIN r.trk /\ r.trk[n].k \in Video /\ r \in Media
    BY <1>1
  <2> QED BY <2>1, TakesOverFacts
<1>3. VideoOnly(a, m)
  BY <1>1, <1>2, VideoOnlyTrans
<1>4. o.old \in DOMAIN a.trk /\ a.trk[o.old].k \in Video
  <2>1. o.old \in DOMAIN a.trk /\ a.trk[o.old].k = m.trk[o.old].k
    BY <1>1, <1>3, Zenon DEF VideoOnly
  <2> QED BY <1>1, <2>1, Zenon
<1>5. n \in DOMAIN a.trk /\ a.trk[n].k \in Video /\ a.trk[n].k = r.trk[n].k /\ a.trk[n].src = r.trk[n].src
  <2>1. n \in DOMAIN a.trk /\ a.trk[n].k = r.trk[n].k /\ a.trk[n].src = r.trk[n].src
    BY <1>1, <1>2
  <2> QED BY <1>1, <2>1, Zenon
<1>6. ASSUME NEW i \in DOMAIN m.trk, a.trk[i].live PROVE m.trk[i].live /\ i # o.old /\ m.trk[o.old].src # i
  <2>1. i \in DOMAIN r.trk
    BY <1>1
  <2>2. r.trk[i].live
    BY <1>2, <1>6, <2>1
  <2> QED BY <1>1, <2>2, Zenon
<1>7. \/ /\ ~(m.blur /\ m.seg = 0) /\ n = t /\ a.trk[n].k = "cam"
         /\ a.seg = IF o.dev # 0 /\ ~m.blur THEN 0 ELSE m.seg
      \/ m.blur /\ m.seg = 0 /\ a.trk[n].k = "blur" /\ a.trk[n].src = t /\ a.seg = n
  <2>1. a.seg = r.seg
    BY <1>2
  <2> QED BY <1>5, <2>1, Zenon DEF Reopened
<1>8. /\ a.senders = m.senders /\ a.videoAdded = m.videoAdded /\ a.vsender = m.vsender /\ a.blur = m.blur
      /\ a.shown = m.shown /\ a.past = r.past /\ a.past.cam = m.past.cam /\ a.past.failed = m.past.failed
      /\ DOMAIN a.trk = DOMAIN m.trk \cup {t, n}
  BY <1>1, <1>2
<1>9. a.past.raw <=> m.past.raw \/ (m.blur /\ m.seg # 0)
  BY <1>8, Zenon DEF Reopened
<1> QED BY <1>1, <1>2, <1>3, <1>4, <1>5, <1>6, <1>7, <1>8, <1>9, Zenon DEF TakenOver

LEMMA HandedOverFacts ==
    ASSUME NEW o, NEW t, NEW n, NEW a, TakenOver(o, t, n, a), a.trk[n].on, NEW d \in Nat, d = o.old,
           NEW b, b = replaceTrack(a, d, n), NEW s, s = WithSender(b, n)
    PROVE  HandedOver(o, t, n, s)
<1>1. /\ a \in Media /\ VideoOnly(a, m) /\ n \in Nat \ {0} /\ n \in DOMAIN a.trk /\ a.trk[n].k \in Video
      /\ a.senders = m.senders /\ a.video = n /\ a.videoAdded = m.videoAdded /\ a.blur = m.blur /\ a.shown = m.shown
      /\ d \in DOMAIN a.trk /\ a.trk[d].k \in Video
  BY DEF TakenOver, VideoOnly
<1>2. n \in Nat /\ n # 0
  BY <1>1
<1>4. /\ VideoOnly(b, a) /\ SameRest(b, a) /\ b.trk = a.trk
      /\ DOMAIN b.senders = (DOMAIN a.senders \ {d}) \cup {n} /\ b.senders[n] = n
      /\ \A i \in DOMAIN a.senders : i \notin {d, n} => b.senders[i] = a.senders[i]
  BY <1>1, <1>2, CameraReplaced
<1>5. b \in Media
  BY <1>4 DEF VideoOnly
<1>6. SameButVideo(s, b) /\ s.video = b.video /\ s.videoAdded = b.videoAdded /\ s.vsender = n
  BY <1>2, <1>5, WithSenderFacts
<1>7. VideoOnly(s, m)
  <2>1. VideoOnly(s, b)
    BY <1>5, <1>6, CameraNoted DEF SameButVideo
  <2>2. VideoOnly(s, a)
    BY <1>4, <2>1, VideoOnlyTrans
  <2> QED BY <1>1, <2>2, VideoOnlyTrans
<1>8. /\ s.trk = a.trk /\ s.senders = b.senders /\ s.video = n /\ s.vsender = n /\ s.videoAdded = m.videoAdded
      /\ s.blur = m.blur /\ s.shown = m.shown /\ s.past = a.past /\ s.seg = a.seg
  BY <1>1, <1>4, <1>6 DEF SameButVideo, SameRest
<1>12. /\ DOMAIN s.senders = (DOMAIN m.senders \ {o.old}) \cup {n} /\ s.senders[n] = n
       /\ \A i \in DOMAIN m.senders : i # o.old /\ i # n => s.senders[i] = m.senders[i]
  BY <1>1, <1>4, <1>8
<1> QED BY <1>7, <1>8, <1>12, ZenonT(40) DEF HandedOver, TakenOver

LEMMA HandedOverKept ==
    ASSUME MediaInv, NEW o \in ops, o.k = "cam", o.at = "switch", NEW t, NEW n, HandedOver(o, t, n, m'),
           ops' = ops \ {o}, uses' = uses
    PROVE  MediaInv'
<1>1. /\ VideoOnly(m', m) /\ m'.video = n /\ m'.vsender = n /\ m'.videoAdded = m.videoAdded
      /\ m'.blur = m.blur /\ m'.shown = m.shown /\ m'.past.cam = m.past.cam /\ m'.past.failed = m.past.failed
      /\ m'.past.raw <=> m.past.raw \/ (m.blur /\ m.seg # 0)
      /\ n \in Nat \ {0} /\ n \notin DOMAIN m.trk /\ n \in DOMAIN m'.trk /\ m'.trk[n].k \in Video /\ m'.trk[n].on
      /\ DOMAIN m'.trk = DOMAIN m.trk \cup {t, n}
  BY DEF HandedOver
<1>2. Typed' /\ Named' /\ Released' /\ MicStill
  <2>1. ops' \subseteq Waiting /\ uses' \in Nat /\ SameOps("mic") /\ \A r \in ops' : r \in ops
    BY MediaFacts DEF SameOps
  <2>2. (m.video # 0 => IsA(m.video, Video))' /\ (m.videoAdded \/ m.vsender # 0 => IsA(m.vsender, Video))'
    BY <1>1 DEF IsA
  <2> QED BY <1>1, <2>1, <2>2, VideoStep
<1>3. CASE m.past.cam
  <2>1. CamSteady' /\ CamBlurred'
    BY <1>1, <1>3 DEF CamSteady, CamBlurred
  <2> QED BY <1>2, <2>1, MicStillKept DEF MediaInv
<1>4. CASE ~m.past.cam
  <2>1. \A q \in ops' : q.k # "cam"
    <3>1. \A q \in ops : q.k = "cam" => q = o
      BY <1>4, OnlyOp
    <3> QED BY <3>1
  <2>2. m'.closed = m.closed /\ m'.peer = m.peer
    BY <1>1 DEF VideoOnly
  <2>3. ~m.closed => CamTrack' /\ CamBlurred'
    <3>1. SUFFICES ASSUME ~m.closed PROVE CamTrack' /\ CamBlurred'
      OBVIOUS
    <3>2. CamTrack /\ CamWaits(o)
      BY <1>4, <3>1 DEF MediaInv, CamSteady
    <3>3. o.old = m.video /\ m.video # 0 /\ o.dev = m.seg
      BY <3>2 DEF CamWaits
    <3>4. m.shown.cam /\ m.videoAdded /\ m.peer
      <4>1. \A q \in ops : q.k = "cam" => q = o
        BY <1>4, OnlyOp
      <4> QED BY <3>2, <3>3, <4>1 DEF CamTrack
    <3>5. ASSUME NEW i \in DOMAIN m'.trk, m'.trk[i].k \in Video, m'.trk[i].live
          PROVE  i \in {n, m'.trk[n].src}
      <4>1. CASE i \in DOMAIN m.trk
        <5>1. m.trk[i].live /\ i # m.video /\ m.trk[m.video].src # i /\ m'.trk[i].k = m.trk[i].k
          BY <1>1, <3>3, <3>5, <4>1 DEF HandedOver, VideoOnly
        <5> QED BY <3>2, <3>5, <4>1, <5>1 DEF CamTrack
      <4>2. CASE i \in {t, n}
        BY <4>2 DEF HandedOver
      <4> QED BY <1>1, <4>1, <4>2
    <3>6. /\ DOMAIN m'.senders = (DOMAIN m.senders \ {o.old}) \cup {n}
          /\ \A i \in DOMAIN m.senders : i # o.old /\ i # n => m'.senders[i] = m.senders[i]
      BY DEF HandedOver
    <3>7. ASSUME NEW i \in DOMAIN m'.senders, m'.trk[i].k \in Video, m'.senders[i] # 0
          PROVE  i = n
      <4>1. SUFFICES ASSUME i # n PROVE FALSE
        OBVIOUS
      <4>2. i \in DOMAIN m.senders /\ i # o.old /\ m'.senders[i] = m.senders[i]
        BY <3>6, <4>1
      <4>3. i \in DOMAIN m.trk /\ m'.trk[i].k = m.trk[i].k
        BY <1>1, <4>2, MediaFacts DEF VideoOnly
      <4> QED BY <3>2, <3>3, <3>7, <4>2, <4>3 DEF CamTrack
    <3>8. m'.trk[n].k = "blur" => m'.seg # 0
      BY <1>1 DEF HandedOver
    <3>9. CamTrack'
      BY <1>1, <2>2, <3>4, <3>5, <3>6, <3>7, <3>8 DEF CamTrack
    <3>10. ASSUME ~m'.past.raw PROVE (m'.seg # 0 => m'.trk[n].k = "blur") /\ (m'.blur => m'.seg # 0)
      BY <1>1, <3>3, <3>10 DEF HandedOver
    <3>11. CamBlurred'
      BY <1>1, <3>10 DEF CamBlurred
    <3> QED BY <3>9, <3>11
  <2>4. CamSteady' /\ CamBlurred'
    <3>1. CASE m.closed
      BY <2>1, <2>2, <3>1 DEF CamSteady, CamBlurred, Alone
    <3>2. CASE ~m.closed
      BY <2>1, <2>3, <3>2 DEF CamSteady, Alone
    <3> QED BY <3>1, <3>2
  <2> QED BY <1>2, <2>4, MicStillKept DEF MediaInv
<1> QED BY <1>3, <1>4

LEMMA VideoSwitchedKept ==
    ASSUME MediaInv, NEW o \in ops, VideoSwitched(o)
    PROVE  MediaInv'
<1> DEFINE t == New(m)
           s1 == Keep(Opened(m, "cam", 0, o.late), t)
           n == VideoTrack(s1, t)
           g == initBgBackgroundTrack(s1, t)
           b == Stop(g, {o.old})
           seg == IF o.dev # 0 /\ ~b.blur THEN 0 ELSE b.seg
           raw == b.past.raw \/ (m.blur /\ m.seg # 0)
           r == Noted(b, seg, raw)
           a == Enable(WithVideo(r, n), n, o.on)
<1>1. /\ o.k = "cam" /\ o.at = "switch" /\ ops' = ops \ {o} /\ uses' = uses
      /\ m' = IF r.video = 0 THEN Fail(r, "cam")
              ELSE IF ~o.on THEN Unadded(a)
              ELSE IF a.peer /\ HasSender(a, o.old) THEN WithSender(replaceTrack(a, o.old, n), n)
              ELSE Fail(a, "cam")
  BY Zenon DEF VideoSwitched, Ends, Noted, WithVideo, WithSender, Unadded
<1>2. /\ m \in Media /\ o \in Waiting /\ o.late \in BOOLEAN /\ o.on \in BOOLEAN /\ o.old \in Nat
      /\ m.closed => o.late
  BY MediaFacts DEF Waiting, MediaInv, Released
<1>3. Reopens(g, t, n)
  BY <1>2, ReopensFacts, Zenon
<1> HIDE DEF g, n, t
<1>4. b = Stop(g, {o.old})
  OBVIOUS
<1> HIDE DEF b
<1>5. OldStopped(b, o, n, g)
  <2>1. o.k = "cam" /\ o.at = "switch"
    BY <1>1, Zenon
  <2> QED BY <1>3, <1>4, <2>1, ReopenedStops, Zenon
<1>6. b \in Media /\ b.blur = m.blur /\ b.past = m.past
  BY <1>5 DEF OldStopped, VideoOnly, SameCam
<1>7. seg \in Nat /\ seg = (IF o.dev # 0 /\ ~m.blur THEN 0 ELSE b.seg)
  BY <1>6 DEF Media
<1>8. raw \in BOOLEAN /\ (raw <=> (m.past.raw \/ (m.blur /\ m.seg # 0)))
  BY <1>6
<1>9. r = Noted(b, seg, raw)
  OBVIOUS
<1> HIDE DEF seg, raw, r
<1>10. Reopened(r, o, t, n)
  BY <1>3, <1>5, <1>7, <1>8, <1>9, ReopenedNoted, Zenon
<1>11. a = Enable(WithVideo(r, n), n, o.on)
  OBVIOUS
<1> HIDE DEF a
<1>12. TakenOver(o, t, n, a) /\ a.trk[n].on = o.on
  <2> DEFINE on == o.on
  <2>1. on = o.on /\ on \in BOOLEAN /\ a = Enable(WithVideo(r, n), n, on)
    BY <1>2, <1>11, Zenon
  <2> HIDE DEF on
  <2>2. TakenOver(o, t, n, a) /\ a.trk[n].on = on
    BY <1>10, <2>1, TakenOverFacts
  <2> QED BY <2>1, <2>2
<1>13. /\ r \in Media /\ VideoOnly(r, m) /\ r.video = m.video /\ r.videoAdded = m.videoAdded /\ r.vsender = m.vsender
       /\ r.past.cam = m.past.cam
  BY <1>10 DEF Reopened, VideoOnly
<1>14. /\ a \in Media /\ VideoOnly(a, m) /\ a.senders = m.senders /\ a.videoAdded = m.videoAdded
       /\ a.vsender = m.vsender /\ a.past.cam = m.past.cam /\ a.video \in DOMAIN a.trk /\ a.trk[a.video].k \in Video
  BY <1>12 DEF TakenOver, VideoOnly
<1>15. ~m.past.cam /\ ~m.closed => m.video # 0 /\ o.on /\ m.peer /\ o.old \in DOMAIN m.senders
  <2>1. SUFFICES ASSUME ~m.past.cam /\ ~m.closed PROVE m.video # 0 /\ o.on /\ m.peer /\ o.old \in DOMAIN m.senders
    OBVIOUS
  <2>2. CamTrack /\ CamWaits(o)
    BY <1>1, <2>1 DEF MediaInv, CamSteady
  <2>3. \A q \in ops : q.k = "cam" => q = o
    BY <1>1, <2>1, OnlyOp
  <2>4. o.old = m.video /\ m.video # 0 /\ o.on
    BY <1>1, <2>2 DEF CamWaits
  <2> QED BY <1>1, <2>2, <2>3, <2>4 DEF CamTrack
<1>16. CASE r.video = 0 /\ m' = Fail(r, "cam")
  <2>1. VideoOnly(m', r) /\ NotedOnly(m', r) /\ m'.past.cam = r.past.cam
    BY <1>13, <1>16, CameraFails
  <2>2. VideoOnly(m', m)
    BY <1>13, <2>1, VideoOnlyTrans
  <2> QED BY <1>1, <1>13, <1>15, <1>16, <2>1, <2>2, SwitchedLoose DEF NotedOnly
<1>17. CASE ~o.on /\ m' = Unadded(a)
  <2>1. SameButVideo(m', a) /\ m'.video = a.video /\ ~m'.videoAdded /\ m'.vsender = a.vsender
    BY <1>14, <1>17, UnaddedFacts
  <2>2. VideoOnly(m', m) /\ m'.trk = a.trk /\ m'.past = a.past
    BY <1>14, <2>1, CameraNoted, VideoOnlyTrans DEF SameButVideo, SameVoice
  <2> QED BY <1>1, <1>14, <1>15, <1>17, <2>1, <2>2, SwitchedLoose
<1>18. CASE ~(a.peer /\ HasSender(a, o.old)) /\ m' = Fail(a, "cam")
  <2>1. VideoOnly(m', a) /\ NotedOnly(m', a) /\ m'.past.cam = a.past.cam
    BY <1>14, <1>18, CameraFails
  <2>2. VideoOnly(m', m)
    BY <1>14, <2>1, VideoOnlyTrans
  <2>3. m.past.cam \/ m.closed
    <3>1. a.peer = m.peer
      BY <1>14 DEF VideoOnly
    <3> QED BY <1>14, <1>15, <1>18, <3>1 DEF HasSender
  <2> QED BY <1>1, <1>14, <2>1, <2>2, <2>3, SwitchedLoose, ZenonT(40) DEF NotedOnly
<1>19. CASE o.on /\ m' = WithSender(replaceTrack(a, o.old, n), n)
  <2>1. HandedOver(o, t, n, m')
    BY <1>2, <1>12, <1>19, HandedOverFacts, Zenon
  <2> QED BY <1>1, <2>1, HandedOverKept
<1> QED BY <1>1, <1>16, <1>17, <1>18, <1>19, Zenon

-----------------------------------------------------------------------------
(* Steps of the screen *)

\* r is s with screens opened, stopped, sent or no longer sent.
ScreenOnly(r, s) ==
    /\ r \in Media
    /\ r.audio = s.audio /\ r.stream = s.stream /\ r.peer = s.peer /\ r.closed = s.closed /\ r.blur = s.blur
    /\ r.video = s.video /\ r.videoAdded = s.videoAdded /\ r.vsender = s.vsender /\ r.seg = s.seg
    /\ r.cur = s.cur /\ r.sel = s.sel /\ r.plugged = s.plugged
    /\ r.shown.mic = s.shown.mic /\ r.shown.cam = s.shown.cam
    /\ r.past.mic = s.past.mic /\ r.past.cam = s.past.cam /\ r.past.raw = s.past.raw /\ r.past.early = s.past.early
    /\ r.past.failed = s.past.failed
    /\ \A i \in s.streams : i \in r.streams
    /\ \A i \in DOMAIN s.trk :
          /\ i \in DOMAIN r.trk /\ r.trk[i].k = s.trk[i].k /\ r.trk[i].src = s.trk[i].src
          /\ r.trk[i].stray = s.trk[i].stray /\ (r.trk[i].live => s.trk[i].live)
          /\ s.trk[i].k # "scr" => /\ r.trk[i] = s.trk[i]
                                   /\ i \in DOMAIN s.senders <=> i \in DOMAIN r.senders
                                   /\ i \in DOMAIN s.senders => r.senders[i] = s.senders[i]
    /\ \A i \in DOMAIN r.trk : i \notin DOMAIN s.trk =>
          /\ r.trk[i].k = "scr" /\ r.trk[i].src = 0
          /\ r.trk[i].stray \/ i \in r.streams
          /\ s.closed => r.trk[i].stray
    /\ \A i \in DOMAIN r.senders :
          \/ i \in DOMAIN s.senders /\ r.senders[i] = s.senders[i]
          \/ i \in DOMAIN r.trk /\ r.senders[i] \in {0, i}

LEMMA ScreenStep ==
    ASSUME MediaInv, ScreenOnly(m', m), m'.screen # 0 => m'.screen \in DOMAIN m'.trk /\ m'.trk[m'.screen].k = "scr",
           ops' \subseteq Waiting, uses' \in Nat, SameOps("mic"), SameOps("cam"),
           \A o \in ops' \ ops :
              /\ o.k = "scr" /\ (m.closed => o.late) /\ o.at \in {"pick", "off"}
              /\ o.at = "off" => o.old \in DOMAIN m.trk /\ m.trk[o.old].k = "scr"
    PROVE  MediaInv'
<1>1. Typed'
  BY DEF MediaInv, Typed, ScreenOnly
<1>2. \A i : /\ IsA(i, {"mic"}) => IsA(i, {"mic"})'
             /\ IsA(i, {"scr"}) => IsA(i, {"scr"})'
             /\ IsA(i, Video) => IsA(i, Video)'
  BY DEF IsA, ScreenOnly
<1>3. Named'
  <2>1. (m.audio # 0 => IsA(m.audio, {"mic"}))' /\ (m.video # 0 => IsA(m.video, Video))'
    BY DEF IsA, ScreenOnly, MediaInv, Named
  <2>2. (m.screen # 0 => IsA(m.screen, {"scr"}))' /\ (m.videoAdded \/ m.vsender # 0 => IsA(m.vsender, Video))'
    BY DEF IsA, ScreenOnly, MediaInv, Named
  <2>3. ASSUME NEW i \in DOMAIN m'.trk, m'.trk[i].src # 0
        PROVE  m'.trk[i].k = "blur" /\ m'.trk[i].src \in DOMAIN m'.trk /\ m'.trk[m'.trk[i].src].k \in Video
    <3>1. i \in DOMAIN m.trk /\ m.trk[i].src # 0 /\ m'.trk[i].k = m.trk[i].k /\ m'.trk[i].src = m.trk[i].src
      BY <2>3 DEF ScreenOnly
    <3>2. m.trk[i].k = "blur" /\ m.trk[i].src \in DOMAIN m.trk /\ m.trk[m.trk[i].src].k \in Video
      BY <3>1 DEF MediaInv, Named, IsA
    <3>3. m.trk[i].src \in DOMAIN m'.trk /\ m'.trk[m.trk[i].src].k = m.trk[m.trk[i].src].k
      BY <3>2 DEF ScreenOnly
    <3> QED BY <3>1, <3>2, <3>3
  <2>4. \A i \in DOMAIN m'.senders : i \in DOMAIN m'.trk /\ m'.senders[i] \in {0, i}
    <3>1. \A i \in DOMAIN m.senders : i \in DOMAIN m.trk /\ m.senders[i] \in {0, i}
      BY DEF MediaInv, Named
    <3> QED BY <3>1 DEF ScreenOnly
  <2>5. m'.audio = m.audio
    BY DEF ScreenOnly
  <2>6. \A i \in DOMAIN m.trk : m.trk[i].k = "scr" => IsA(i, {"scr"})'
    BY DEF IsA, ScreenOnly
  <2>7. \A q \in ops' : /\ q.k = "mic" /\ q.at = "switch" => IsA(q.old, {"mic"})'
                        /\ q.k = "mic" /\ q.at = "add" => m'.audio # 0
                        /\ q.k = "cam" /\ q.at \in {"switch", "add"} => IsA(q.old, Video)'
                        /\ q.at = "off" => IsA(q.old, {"scr"})'
    BY <1>2, <2>5, <2>6 DEF MediaInv, Named
  <2> QED BY <2>1, <2>2, <2>3, <2>4, <2>7 DEF Named, IsA
<1>4. Released'
  <2>1. TracksKept
    BY DEF TracksKept, ScreenOnly
  <2>2. \A q \in ops' : q \in ops \/ (m.closed => q.late)
    OBVIOUS
  <2>3. m.closed => ~m.peer
    BY DEF MediaInv, Released
  <2> QED BY <2>1, <2>2, <2>3, ReleasedKept DEF ScreenOnly
<1>5. MicStill
  <2>1. SameTracks({"mic"})
    BY DEF SameTracks, ScreenOnly
  <2> QED BY <2>1 DEF MicStill, ScreenOnly
<1>6. CamStill
  <2>1. SameTracks(Video)
    <3>1. "scr" \notin Video
      BY DEF Video
    <3> QED BY <3>1 DEF SameTracks, ScreenOnly
  <2> QED BY <2>1 DEF CamStill, ScreenOnly
<1> QED BY <1>1, <1>3, <1>4, <1>5, <1>6, MicStillKept, CamStillKept DEF MediaInv

LEMMA ScreenBegins ==
    ASSUME MediaInv, NEW r, r = Begins(m, "scr")
    PROVE  ScreenOnly(r, m) /\ r \in Media /\ r.trk = m.trk /\ r.screen = m.screen
<1>1. /\ r \in Media /\ NotedOnly(r, m) /\ ChoiceKept(r, m) /\ r.past.failed = m.past.failed
      /\ \A j \in Kinds : j # "scr" => r.past[j] = m.past[j]
  BY MediaFacts, BeginsFacts DEF Kinds
<1>2. r.past.mic = m.past.mic /\ r.past.cam = m.past.cam
  BY <1>1 DEF Kinds
<1> QED BY <1>1, <1>2 DEF ScreenOnly, NotedOnly, ChoiceKept

LEMMA shareScreenKept ==
    ASSUME MediaInv, shareScreen
    PROVE  MediaInv'
<1> DEFINE p == Op("scr", "pick", "none", 0, 0, FALSE)
<1>1. m.peer /\ uses' = uses + 1 /\ m' = Begins(m, "scr") /\ ops' = ops \cup {p}
  BY DEF shareScreen, Use, Waits
<1>2. p \in Waiting /\ p.k = "scr" /\ p.at = "pick"
  BY MediaFacts DEF Op, Waiting, Kinds
<1> HIDE DEF p
<1>3. ScreenOnly(m', m) /\ m'.trk = m.trk /\ m'.screen = m.screen
  BY <1>1, ScreenBegins
<1>4. ~m.closed /\ (m.screen # 0 => m.screen \in DOMAIN m.trk /\ m.trk[m.screen].k = "scr")
  BY <1>1 DEF MediaInv, Released, Named, IsA
<1>5. ops' \subseteq Waiting /\ uses' \in Nat /\ SameOps("mic") /\ SameOps("cam")
  BY <1>1, <1>2, MediaFacts DEF SameOps
<1> QED BY <1>1, <1>2, <1>3, <1>4, <1>5, ScreenStep

LEMMA ScreenRefusedKept ==
    ASSUME MediaInv, NEW o \in ops, ScreenRefused(o)
    PROVE  MediaInv'
<1>1. m' = m /\ ops' = ops \ {o} /\ uses' = uses /\ o.k = "scr"
  BY DEF ScreenRefused, Ends, MediaInv, Typed
<1>2. ScreenOnly(m', m)
  <2>1. m \in Media
    BY MediaFacts
  <2> QED BY <1>1, <2>1 DEF ScreenOnly
<1>3. m.screen # 0 => m.screen \in DOMAIN m.trk /\ m.trk[m.screen].k = "scr"
  BY DEF MediaInv, Named, IsA
<1>4. ops' \subseteq Waiting /\ uses' \in Nat /\ SameOps("mic") /\ SameOps("cam") /\ ops' \ ops = {}
  BY <1>1, MediaFacts DEF SameOps
<1> QED BY <1>1, <1>2, <1>3, <1>4, ScreenStep

LEMMA unshareScreenKept ==
    ASSUME MediaInv, unshareScreen
    PROVE  MediaInv'
<1> DEFINE v == m.screen
           p == Op("scr", "off", "none", 0, v, FALSE)
           s == Begins(m, "scr")
           r == Stop(s, {v})
<1>1. m.peer /\ v # 0 /\ uses' = uses + 1 /\ m' = [r EXCEPT !.screen = 0] /\ ops' = ops \cup {p}
  BY DEF unshareScreen, Use, Waits
<1>2. ~m.closed /\ v \in DOMAIN m.trk /\ m.trk[v].k = "scr" /\ v \in Nat /\ m.trk[v].src = 0 /\ 0 \notin DOMAIN m.trk
  BY <1>1, MediaFacts DEF MediaInv, Released, Named, IsA, Media
<1>3. p \in Waiting /\ p.k = "scr" /\ p.at = "off" /\ p.old = v
  BY <1>2, MediaFacts DEF Op, Waiting, Kinds
<1>4. ops' \subseteq Waiting /\ uses' \in Nat /\ SameOps("mic") /\ SameOps("cam")
  <2>1. ops' = ops \cup {p} /\ uses' = uses + 1
    BY <1>1
  <2> HIDE DEF p, s, r, v
  <2> QED BY <1>3, <2>1, MediaFacts DEF SameOps
<1>5. \A q \in ops' \ ops : q = p
  BY <1>1
<1>6. s = Begins(m, "scr") /\ r = Stop(s, {v})
  OBVIOUS
<1> HIDE DEF p, s, r, v
<1>7. ScreenOnly(s, m) /\ s \in Media /\ s.trk = m.trk
  BY <1>6, ScreenBegins
<1>8. /\ r \in Media /\ SameRest(r, s) /\ r.senders = s.senders /\ r.streams = s.streams
      /\ DOMAIN r.trk = DOMAIN s.trk
      /\ \A i \in DOMAIN s.trk :
            /\ r.trk[i].k = s.trk[i].k /\ r.trk[i].on = s.trk[i].on
            /\ r.trk[i].src = s.trk[i].src /\ r.trk[i].stray = s.trk[i].stray
            /\ r.trk[i].live <=> s.trk[i].live /\ i \notin {v} /\ \A t \in {v} : s.trk[t].src # i
            /\ i \notin {v} /\ (\A t \in {v} : s.trk[t].src # i) => r.trk[i] = s.trk[i]
  <2>1. {v} \in SUBSET DOMAIN s.trk
    BY <1>2, <1>7
  <2> QED BY <1>6, <1>7, <2>1, StopFacts
<1>9. ScreenOnly(r, m)
  <2>1. \A i \in DOMAIN m.trk : i # v => r.trk[i] = m.trk[i]
    BY <1>2, <1>7, <1>8
  <2>2. \A i \in DOMAIN m.trk : /\ r.trk[i].k = m.trk[i].k /\ r.trk[i].src = m.trk[i].src
                                /\ r.trk[i].stray = m.trk[i].stray /\ (r.trk[i].live => m.trk[i].live)
    BY <1>7, <1>8
  <2>3. DOMAIN r.trk = DOMAIN m.trk
    BY <1>7, <1>8
  <2> QED BY <1>2, <1>7, <1>8, <2>1, <2>2, <2>3 DEF ScreenOnly, SameRest
<1>10. ScreenOnly(m', m) /\ m'.screen = 0
  <2>1. /\ m' \in Media /\ m'.trk = r.trk /\ m'.senders = r.senders /\ m'.streams = r.streams
        /\ m'.audio = r.audio /\ m'.stream = r.stream /\ m'.video = r.video /\ m'.videoAdded = r.videoAdded
        /\ m'.vsender = r.vsender /\ m'.seg = r.seg /\ m'.blur = r.blur /\ m'.peer = r.peer /\ m'.closed = r.closed
        /\ m'.cur = r.cur /\ m'.sel = r.sel /\ m'.plugged = r.plugged /\ m'.shown = r.shown /\ m'.past = r.past
        /\ m'.screen = 0
    BY <1>1, <1>8 DEF Media
  <2> QED BY <1>9, <2>1 DEF ScreenOnly
<1> QED BY <1>2, <1>3, <1>4, <1>5, <1>10, ScreenStep

\* The screen that is shared, and what the user is shown of it.
WithScreen(s, t, b) == [s EXCEPT !.screen = t, !.shown.scr = b]

LEMMA WithScreenFacts ==
    ASSUME MediaInv, NEW s, ScreenOnly(s, m), NEW t \in Nat, NEW b \in BOOLEAN, NEW r, r = WithScreen(s, t, b)
    PROVE  ScreenOnly(r, m) /\ r.trk = s.trk /\ r.screen = t
<1> DEFINE d == [s.shown EXCEPT !.scr = b]
<1>1. s \in Media /\ s.shown \in Shown
  BY DEF ScreenOnly, Media
<1>2. d \in Shown /\ d.mic = s.shown.mic /\ d.cam = s.shown.cam
  BY <1>1 DEF Shown
<1>3. r = [s EXCEPT !.screen = t, !.shown = d]
  BY DEF WithScreen
<1> HIDE DEF d
<1>4. /\ r \in Media /\ r.trk = s.trk /\ r.senders = s.senders /\ r.streams = s.streams
      /\ r.audio = s.audio /\ r.stream = s.stream /\ r.video = s.video /\ r.videoAdded = s.videoAdded
      /\ r.vsender = s.vsender /\ r.seg = s.seg /\ r.blur = s.blur /\ r.peer = s.peer /\ r.closed = s.closed
      /\ r.cur = s.cur /\ r.sel = s.sel /\ r.plugged = s.plugged /\ r.shown = d /\ r.past = s.past
      /\ r.screen = t
  BY <1>1, <1>2, <1>3, ZenonT(40) DEF Media
<1> QED BY <1>2, <1>4 DEF ScreenOnly

LEMMA ScreenRemovedKept ==
    ASSUME MediaInv, NEW o \in ops, ScreenRemoved(o)
    PROVE  MediaInv'
<1> DEFINE s == removeTrack(m, o.old)
<1>1. /\ ops' = ops \ {o} /\ uses' = uses /\ o.at = "off"
      /\ m' = IF m.closed THEN m ELSE [s EXCEPT !.shown.scr = FALSE]
  BY DEF ScreenRemoved, Ends
<1>2. o \in Waiting /\ o.k = "scr" /\ o.old \in Nat /\ o.old \in DOMAIN m.trk /\ m.trk[o.old].k = "scr"
  BY <1>1, MediaFacts DEF MediaInv, Typed, Named, IsA, Waiting
<1>3. ops' \subseteq Waiting /\ uses' \in Nat /\ SameOps("mic") /\ SameOps("cam") /\ ops' \ ops = {}
  BY <1>1, <1>2, MediaFacts DEF SameOps
<1>4. m.screen # 0 => m.screen \in DOMAIN m.trk /\ m.trk[m.screen].k = "scr"
  BY DEF MediaInv, Named, IsA
<1>5. /\ s \in Media /\ SameRest(s, m) /\ s.trk = m.trk /\ s.streams = m.streams
      /\ DOMAIN s.senders = DOMAIN m.senders \ {o.old}
      /\ \A i \in DOMAIN s.senders : s.senders[i] = m.senders[i]
  <2>1. s = removeTrack(m, o.old)
    OBVIOUS
  <2>2. m \in Media /\ o.old \in Nat
    BY <1>2, MediaFacts
  <2> HIDE DEF s
  <2> QED BY <2>1, <2>2, removeTrackFacts
<1> HIDE DEF s
<1>6. ScreenOnly(m', m) /\ m'.trk = m.trk /\ m'.screen = m.screen
  <2>1. CASE m' = m
    BY <2>1, MediaFacts DEF ScreenOnly
  <2>2. CASE m' = [s EXCEPT !.shown.scr = FALSE]
    <3>1. s.screen = m.screen /\ s.screen \in Nat
      BY <1>5 DEF SameRest, Media
    <3>2. ScreenOnly(s, m)
      BY <1>2, <1>5 DEF ScreenOnly, SameRest
    <3>3. m' = WithScreen(s, s.screen, FALSE)
      BY <2>2, <1>5 DEF WithScreen, Media
    <3> DEFINE b == FALSE
    <3>4. b \in BOOLEAN /\ m' = WithScreen(s, s.screen, b)
      BY <3>3
    <3> HIDE DEF b
    <3>5. ScreenOnly(m', m) /\ m'.trk = s.trk /\ m'.screen = s.screen
      BY <3>1, <3>2, <3>4, WithScreenFacts
    <3> QED BY <1>5, <3>1, <3>5
  <2> QED BY <1>1, <2>1, <2>2
<1> QED BY <1>3, <1>4, <1>6, ScreenStep

LEMMA ScreenOpens ==
    ASSUME MediaInv, NEW stray \in BOOLEAN, NEW t, t = New(m),
           NEW r, r = Opened(m, "scr", 0, stray)
    PROVE  /\ r \in Media /\ SameRest(r, m) /\ r.senders = m.senders /\ r.streams = m.streams
           /\ t \in Nat \ {0} /\ t \notin DOMAIN m.trk /\ DOMAIN r.trk = DOMAIN m.trk \cup {t}
           /\ r.trk[t].k = "scr" /\ r.trk[t].stray = stray /\ r.trk[t].src = 0
           /\ \A i \in DOMAIN m.trk : r.trk[i] = m.trk[i]
<1>1. m \in Media
  BY MediaFacts
<1>2. /\ r \in Media /\ SameRest(r, m) /\ r.senders = m.senders /\ r.streams = m.streams
      /\ DOMAIN r.trk = DOMAIN m.trk \cup {t}
      /\ t \notin DOMAIN m.trk /\ t \in Nat \ {0}
      /\ \A i \in DOMAIN m.trk : r.trk[i] = m.trk[i]
      /\ r.trk[t] = [k |-> "scr", live |-> TRUE, on |-> TRUE, dev |-> 0, src |-> 0, stray |-> stray]
  BY <1>1, OpenedFacts
<1> QED BY <1>2

LEMMA setScreenStreamKept ==
    ASSUME MediaInv, NEW o \in ops, setScreenStream(o)
    PROVE  MediaInv'
<1> DEFINE t == New(m)
           stray == TRUE
           a == Opened(m, "scr", 0, stray)
           b == Opened(m, "scr", 0, o.late)
           c == Keep(b, t)
           d == addTrack(c, t)
           shown == TRUE
           e == WithScreen(d, t, shown)
<1>1. /\ ops' = ops \ {o} /\ uses' = uses /\ o.at = "pick"
      /\ \/ (~m.peer \/ m.screen # 0) /\ m' = a
         \/ ~(~m.peer \/ m.screen # 0) /\ m' = e
  BY DEF setScreenStream, Ends, WithScreen
<1>2. o \in Waiting /\ o.k = "scr" /\ o.late \in BOOLEAN
  <2>1. o \in Waiting /\ o.at = "pick"
    BY <1>1, MediaFacts
  <2> QED BY <2>1 DEF MediaInv, Typed, Waiting
<1>3. m.screen # 0 => m.screen \in DOMAIN m.trk /\ m.trk[m.screen].k = "scr"
  BY DEF MediaInv, Named, IsA
<1>4. stray \in BOOLEAN /\ shown \in BOOLEAN
  OBVIOUS
<1>9. stray
  OBVIOUS
<1>5. /\ t = New(m) /\ a = Opened(m, "scr", 0, stray) /\ b = Opened(m, "scr", 0, o.late) /\ c = Keep(b, t)
      /\ d = addTrack(c, t) /\ e = WithScreen(d, t, shown)
  BY Zenon
<1> HIDE DEF t, stray, a, b, c, d, shown, e
<1>6. ops' \subseteq Waiting /\ uses' \in Nat /\ SameOps("mic") /\ SameOps("cam") /\ ops' \ ops = {}
  BY <1>1, <1>2, MediaFacts DEF SameOps
<1>7. CASE m' = a
  <2>1. /\ a \in Media /\ SameRest(a, m) /\ a.senders = m.senders /\ a.streams = m.streams
        /\ t \in Nat \ {0} /\ t \notin DOMAIN m.trk /\ DOMAIN a.trk = DOMAIN m.trk \cup {t}
        /\ a.trk[t].k = "scr" /\ a.trk[t].stray = stray /\ a.trk[t].src = 0
        /\ \A i \in DOMAIN m.trk : a.trk[i] = m.trk[i]
    BY <1>4, <1>5, ScreenOpens
  <2>2. ScreenOnly(a, m) /\ a.screen = m.screen
    BY <1>9, <2>1 DEF ScreenOnly, SameRest
  <2>3. m'.screen # 0 => m'.screen \in DOMAIN m'.trk /\ m'.trk[m'.screen].k = "scr"
    BY <1>3, <1>7, <2>1, <2>2
  <2> QED BY <1>6, <1>7, <2>2, <2>3, ScreenStep
<1>8. CASE m.peer /\ m' = e
  <2>1. ~m.closed
    BY <1>8 DEF MediaInv, Released
  <2>2. /\ b \in Media /\ SameRest(b, m) /\ b.senders = m.senders /\ b.streams = m.streams
        /\ t \in Nat \ {0} /\ t \notin DOMAIN m.trk /\ DOMAIN b.trk = DOMAIN m.trk \cup {t}
        /\ b.trk[t].k = "scr" /\ b.trk[t].src = 0
        /\ \A i \in DOMAIN m.trk : b.trk[i] = m.trk[i]
    BY <1>2, <1>5, <2>1, ScreenOpens
  <2>3. /\ c \in Media /\ SameRest(c, b) /\ c.trk = b.trk /\ c.senders = b.senders
        /\ c.streams = b.streams \cup {t}
    BY <1>5, <2>2, KeepFacts
  <2>4. /\ d \in Media /\ SameRest(d, c) /\ d.trk = c.trk /\ d.streams = c.streams
        /\ DOMAIN d.senders = DOMAIN c.senders \cup {t} /\ d.senders[t] = t
        /\ \A i \in DOMAIN c.senders : i # t => d.senders[i] = c.senders[i]
    BY <1>5, <2>2, <2>3, addTrackFacts
  <2>5. SameRest(d, m)
    BY <2>2, <2>3, <2>4 DEF SameRest
  <2>6. /\ d.trk = b.trk /\ d.streams = m.streams \cup {t} /\ DOMAIN d.senders = DOMAIN m.senders \cup {t}
        /\ d.senders[t] = t /\ \A i \in DOMAIN m.senders : i # t => d.senders[i] = m.senders[i]
    BY <2>2, <2>3, <2>4
  <2>7. ScreenOnly(d, m)
    BY <2>1, <2>2, <2>4, <2>5, <2>6 DEF ScreenOnly, SameRest
  <2>8. ScreenOnly(e, m) /\ e.trk = d.trk /\ e.screen = t
    <3>1. t \in Nat
      BY <2>2
    <3> QED BY <1>4, <1>5, <2>7, <3>1, WithScreenFacts
  <2>9. m'.screen \in DOMAIN m'.trk /\ m'.trk[m'.screen].k = "scr"
    BY <1>8, <2>2, <2>6, <2>8
  <2> QED BY <1>6, <1>8, <2>8, <2>9, ScreenStep
<1> QED BY <1>1, <1>7, <1>8

-----------------------------------------------------------------------------
(* Steps of the client *)

LEMMA JoinsKept ==
    ASSUME MediaInv, Joins
    PROVE  MediaInv'
<1>1. /\ ~m.closed /\ ops' = ops /\ uses' = uses /\ m \in Media
      /\ m' = [m EXCEPT !.peer = TRUE, !.init = "done"]
  BY MediaFacts DEF Joins
<1>2. /\ m' \in Media /\ m'.trk = m.trk /\ m'.senders = m.senders /\ m'.streams = m.streams
      /\ m'.audio = m.audio /\ m'.stream = m.stream /\ m'.video = m.video /\ m'.videoAdded = m.videoAdded
      /\ m'.vsender = m.vsender /\ m'.seg = m.seg /\ m'.screen = m.screen /\ m'.blur = m.blur
      /\ m'.closed = m.closed /\ m'.cur = m.cur /\ m'.sel = m.sel /\ m'.plugged = m.plugged
      /\ m'.shown = m.shown /\ m'.past = m.past /\ m'.peer
  BY <1>1 DEF Media
<1>3. Typed'
  BY <1>1, <1>2 DEF MediaInv, Typed
<1>4. Named'
  BY <1>1, <1>2 DEF MediaInv, Named, IsA
<1>5. Released'
  BY <1>1, <1>2 DEF MediaInv, Released
<1>6. MicStill /\ CamStill
  BY <1>1, <1>2 DEF MicStill, CamStill, SameTracks, SameOps
<1> QED BY <1>3, <1>4, <1>5, <1>6, MicStillKept, CamStillKept DEF MediaInv

\* cleanup stops the tracks of the streams, and what they draw.
LEMMA cleanupFacts ==
    ASSUME NEW s \in Media, NEW r, r = cleanup(s)
    PROVE  /\ r \in Media /\ SameRest(r, s) /\ r.senders = s.senders /\ r.streams = s.streams
           /\ DOMAIN r.trk = DOMAIN s.trk
           /\ \A i \in DOMAIN s.trk :
                 /\ r.trk[i].k = s.trk[i].k /\ r.trk[i].src = s.trk[i].src /\ r.trk[i].stray = s.trk[i].stray
                 /\ r.trk[i].live => s.trk[i].live /\ i \notin s.streams
<1> DEFINE all == s.streams \cup {s.trk[t].src : t \in s.streams}
           f == [t \in DOMAIN s.trk |-> IF t \in all THEN [s.trk[t] EXCEPT !.live = FALSE] ELSE s.trk[t]]
<1>1. s.trk \in Seq(Track) /\ \A i \in DOMAIN s.trk : s.trk[i] \in Track
  BY TrackSeq DEF Media
<1>2. ASSUME NEW i \in DOMAIN s.trk
      PROVE  /\ f[i] \in Track /\ f[i].k = s.trk[i].k /\ f[i].src = s.trk[i].src /\ f[i].stray = s.trk[i].stray
             /\ f[i].live => s.trk[i].live /\ i \notin s.streams
  <2>1. f[i] = IF i \in all THEN [s.trk[i] EXCEPT !.live = FALSE] ELSE s.trk[i]
    OBVIOUS
  <2>2. i \in s.streams => i \in all
    OBVIOUS
  <2>3. s.trk[i] \in Track
    BY <1>1
  <2> HIDE DEF f, all
  <2> QED BY <2>1, <2>2, <2>3 DEF Track
<1>3. DOMAIN f = DOMAIN s.trk /\ f = [i \in DOMAIN s.trk |-> f[i]]
  OBVIOUS
<1>4. r = [s EXCEPT !.trk = f]
  BY DEF cleanup, Stop
<1> HIDE DEF f, all
<1>5. f \in Seq(Track)
  <2>1. f \in [DOMAIN s.trk -> Track]
    BY <1>2, <1>3
  <2> QED BY <1>1, <2>1, TrackSeq
<1>6. r \in Media /\ SameRest(r, s) /\ r.senders = s.senders /\ r.streams = s.streams /\ r.trk = f
  BY <1>4, <1>5 DEF Media, SameRest
<1> QED BY <1>2, <1>3, <1>6

\* What is closed is not steady any more, but the choice of a microphone is.
LEMMA ClosedStep ==
    ASSUME MediaInv, Typed', Named', Released', m'.closed, m'.past = m.past,
           m'.cur = m.cur, m'.sel = m.sel, m'.plugged = m.plugged,
           ops' = ops \/ ops' = {[o EXCEPT !.late = TRUE] : o \in ops}
    PROVE  MediaInv'
<1>1. ASSUME NEW o \in ops
      PROVE  [o EXCEPT !.late = TRUE].k = o.k /\ [o EXCEPT !.late = TRUE].at = o.at
  BY MediaFacts DEF Waiting
<1>5. ASSUME NEW k, Alone(k) PROVE Alone(k)'
  <2>1. CASE ops' = ops
    BY <1>5, <2>1 DEF Alone
  <2>2. CASE ops' = {[o EXCEPT !.late = TRUE] : o \in ops}
    <3>1. ASSUME NEW p \in ops', NEW q \in ops', p.k = k, q.k = k PROVE p = q
      <4>1. PICK o \in ops : p = [o EXCEPT !.late = TRUE]
        BY <2>2
      <4>2. PICK o2 \in ops : q = [o2 EXCEPT !.late = TRUE]
        BY <2>2
      <4>3. o.k = k /\ o2.k = k
        BY <1>1, <3>1, <4>1, <4>2
      <4>4. o = o2
        BY <1>5, <4>3 DEF Alone
      <4> QED BY <4>1, <4>2, <4>4
    <3> QED BY <3>1 DEF Alone
  <2> QED BY <2>1, <2>2
<1>2. MicSteady' /\ CamSteady'
  BY <1>5 DEF MediaInv, MicSteady, CamSteady
<1>3. MicChosen'
  <2>1. (\E o \in ops : o.at = "enum") <=> (\E o \in ops' : o.at = "enum")
    <3>1. CASE ops' = {[o EXCEPT !.late = TRUE] : o \in ops}
      <4> DEFINE L(o) == [o EXCEPT !.late = TRUE]
      <4>1. ops' = {L(o) : o \in ops} /\ \A o \in ops : L(o).at = o.at
        BY <1>1, <3>1
      <4> HIDE DEF L
      <4> QED BY <4>1
    <3> QED BY <3>1
  <2> QED BY <2>1 DEF MediaInv, MicChosen, Fits, Changed
<1>4. CamBlurred'
  BY DEF CamBlurred
<1> QED BY <1>2, <1>3, <1>4 DEF MediaInv

LEMMA InitAfterCloseKept ==
    ASSUME MediaInv, InitAfterClose
    PROVE  MediaInv'
<1> DEFINE s == cleanup(m)
<1>1. m.closed /\ ops' = ops /\ uses' = uses /\ m' = [s EXCEPT !.init = "done"] /\ m \in Media
  BY MediaFacts DEF InitAfterClose
<1>2. s = cleanup(m)
  OBVIOUS
<1> HIDE DEF s
<1>3. /\ s \in Media /\ SameRest(s, m) /\ s.senders = m.senders /\ s.streams = m.streams
      /\ DOMAIN s.trk = DOMAIN m.trk
      /\ \A i \in DOMAIN m.trk :
            /\ s.trk[i].k = m.trk[i].k /\ s.trk[i].src = m.trk[i].src /\ s.trk[i].stray = m.trk[i].stray
            /\ s.trk[i].live => m.trk[i].live /\ i \notin m.streams
  BY <1>1, <1>2, cleanupFacts
<1>4. /\ m' \in Media /\ m'.trk = s.trk /\ m'.senders = s.senders /\ m'.streams = s.streams
      /\ m'.audio = s.audio /\ m'.video = s.video /\ m'.videoAdded = s.videoAdded
      /\ m'.vsender = s.vsender /\ m'.screen = s.screen /\ m'.peer = s.peer
      /\ m'.closed = s.closed /\ m'.cur = s.cur /\ m'.sel = s.sel /\ m'.plugged = s.plugged
      /\ m'.past = s.past
  BY <1>1, <1>3 DEF Media
<1>5. /\ m'.audio = m.audio /\ m'.video = m.video /\ m'.videoAdded = m.videoAdded
      /\ m'.vsender = m.vsender /\ m'.screen = m.screen /\ m'.peer = m.peer /\ m'.closed = m.closed
      /\ m'.cur = m.cur /\ m'.sel = m.sel /\ m'.plugged = m.plugged /\ m'.past = m.past
  BY <1>3, <1>4 DEF SameRest
<1>6. Typed'
  BY <1>1, <1>4, <1>5 DEF MediaInv, Typed
<1>7. Named'
  <2>1. \A i \in DOMAIN m.trk : /\ i \in DOMAIN m'.trk /\ m'.trk[i].k = m.trk[i].k /\ m'.trk[i].src = m.trk[i].src
    BY <1>3, <1>4
  <2>2. DOMAIN m'.trk = DOMAIN m.trk /\ m'.senders = m.senders
    BY <1>3, <1>4
  <2> QED BY <1>1, <1>5, <2>1, <2>2 DEF MediaInv, Named, IsA
<1>8. Released'
  BY <1>1, <1>3, <1>4, <1>5 DEF MediaInv, Released
<1> QED BY <1>1, <1>5, <1>6, <1>7, <1>8, ClosedStep

\* What is left of a client that is closed.
Closed(s) == [s EXCEPT !.closed = TRUE, !.peer = FALSE, !.senders = <<>>, !.screen = 0,
                       !.shown = [mic |-> FALSE, cam |-> FALSE, scr |-> FALSE]]

Shut(s) == [s EXCEPT !.closed = TRUE, !.peer = FALSE, !.screen = 0]

LEMMA ShutFacts ==
    ASSUME NEW s \in Media, NEW r, r = Shut(s)
    PROVE  /\ r \in Media /\ r.trk = s.trk /\ r.senders = s.senders /\ r.streams = s.streams
           /\ r.audio = s.audio /\ r.video = s.video /\ r.videoAdded = s.videoAdded
           /\ r.vsender = s.vsender /\ r.screen = 0 /\ ~r.peer /\ r.closed
           /\ r.cur = s.cur /\ r.sel = s.sel /\ r.plugged = s.plugged /\ r.past = s.past
  BY DEF Shut, Media

LEMMA ClosedFacts ==
    ASSUME NEW s \in Media, NEW r, r = Closed(s)
    PROVE  /\ r \in Media /\ r.trk = s.trk /\ DOMAIN r.senders = {} /\ r.streams = s.streams
           /\ r.audio = s.audio /\ r.video = s.video /\ r.videoAdded = s.videoAdded
           /\ r.vsender = s.vsender /\ r.screen = 0 /\ ~r.peer /\ r.closed
           /\ r.cur = s.cur /\ r.sel = s.sel /\ r.plugged = s.plugged /\ r.past = s.past
<1> DEFINE none == [mic |-> FALSE, cam |-> FALSE, scr |-> FALSE]
           e == <<>>
<1>1. none \in Shown
  BY DEF Shown
<1>2. e \in Senders /\ DOMAIN e = {}
  <2>1. e \in [{} -> Nat]
    OBVIOUS
  <2> QED BY <2>1, SendersFacts
<1>3. r = [s EXCEPT !.closed = TRUE, !.peer = FALSE, !.senders = e, !.screen = 0, !.shown = none]
  BY DEF Closed
<1> HIDE DEF none, e
<1> DEFINE a == [s EXCEPT !.senders = e, !.shown = none]
<1>4. /\ a \in Media /\ a.trk = s.trk /\ a.senders = e /\ a.streams = s.streams
      /\ a.audio = s.audio /\ a.video = s.video /\ a.videoAdded = s.videoAdded
      /\ a.vsender = s.vsender
      /\ a.cur = s.cur /\ a.sel = s.sel /\ a.plugged = s.plugged /\ a.past = s.past
  BY <1>1, <1>2 DEF Media
<1>5. r = Shut(a)
  BY <1>3 DEF Media, Shut
<1> HIDE DEF a
<1>6. /\ r \in Media /\ r.trk = a.trk /\ r.senders = a.senders /\ r.streams = a.streams
      /\ r.audio = a.audio /\ r.video = a.video /\ r.videoAdded = a.videoAdded
      /\ r.vsender = a.vsender /\ r.screen = 0 /\ ~r.peer /\ r.closed
      /\ r.cur = a.cur /\ r.sel = a.sel /\ r.plugged = a.plugged /\ r.past = a.past
  BY <1>4, <1>5, ShutFacts
<1> QED BY <1>2, <1>4, <1>6

LEMMA DisconnectsKept ==
    ASSUME MediaInv, Disconnects
    PROVE  MediaInv'
<1> DEFINE s == cleanup(m)
<1>1. /\ ops' = {[o EXCEPT !.late = TRUE] : o \in ops} /\ uses' = uses /\ m' = Closed(s) /\ m \in Media
  BY MediaFacts DEF Disconnects, Closed
<1>2. s = cleanup(m)
  OBVIOUS
<1> HIDE DEF s
<1>3. /\ s \in Media /\ SameRest(s, m) /\ s.senders = m.senders /\ s.streams = m.streams
      /\ DOMAIN s.trk = DOMAIN m.trk
      /\ \A i \in DOMAIN m.trk :
            /\ s.trk[i].k = m.trk[i].k /\ s.trk[i].src = m.trk[i].src /\ s.trk[i].stray = m.trk[i].stray
            /\ s.trk[i].live => m.trk[i].live /\ i \notin m.streams
  BY <1>1, <1>2, cleanupFacts
<1>4. /\ m' \in Media /\ m'.trk = s.trk /\ DOMAIN m'.senders = {} /\ m'.streams = s.streams
      /\ m'.audio = s.audio /\ m'.video = s.video /\ m'.videoAdded = s.videoAdded
      /\ m'.vsender = s.vsender /\ m'.screen = 0 /\ ~m'.peer /\ m'.closed
      /\ m'.cur = s.cur /\ m'.sel = s.sel /\ m'.plugged = s.plugged /\ m'.past = s.past
  BY <1>1, <1>3, ClosedFacts
<1>5. /\ m'.audio = m.audio /\ m'.video = m.video /\ m'.videoAdded = m.videoAdded /\ m'.vsender = m.vsender
      /\ m'.cur = m.cur /\ m'.sel = m.sel /\ m'.plugged = m.plugged /\ m'.past = m.past
  BY <1>3, <1>4 DEF SameRest
<1>6. ASSUME NEW q \in ops'
      PROVE  /\ q \in Waiting /\ q.late
             /\ \E o \in ops : q.k = o.k /\ q.at = o.at /\ q.dev = o.dev /\ q.old = o.old
  <2>1. PICK o \in ops : q = [o EXCEPT !.late = TRUE]
    BY <1>1
  <2>2. o \in Waiting
    BY MediaFacts
  <2>3. /\ q \in Waiting /\ q.late
        /\ q.k = o.k /\ q.at = o.at /\ q.dev = o.dev /\ q.old = o.old
    BY <2>1, <2>2 DEF Waiting
  <2> QED BY <2>3
<1>7. Typed'
  BY <1>1, <1>4, <1>5, <1>6 DEF MediaInv, Typed
<1>8. Named'
  <2>1. \A i \in DOMAIN m.trk : /\ i \in DOMAIN m'.trk /\ m'.trk[i].k = m.trk[i].k /\ m'.trk[i].src = m.trk[i].src
    BY <1>3, <1>4
  <2>2. DOMAIN m'.trk = DOMAIN m.trk
    BY <1>3, <1>4
  <2>3. \A i, ks : IsA(i, ks) => IsA(i, ks)'
    BY <2>1 DEF IsA
  <2>4. \A q \in ops' : /\ q.k = "mic" /\ q.at = "switch" => IsA(q.old, {"mic"})'
                        /\ q.k = "mic" /\ q.at = "add" => m'.audio # 0
                        /\ q.k = "cam" /\ q.at \in {"switch", "add"} => IsA(q.old, Video)'
                        /\ q.at = "off" => IsA(q.old, {"scr"})'
    BY <1>5, <1>6, <2>3 DEF MediaInv, Named
  <2> QED BY <1>4, <1>5, <2>1, <2>2, <2>4 DEF MediaInv, Named, IsA
<1>9. Released'
  BY <1>3, <1>4, <1>6 DEF MediaInv, Released
<1> QED BY <1>1, <1>4, <1>5, <1>7, <1>8, <1>9, ClosedStep

-----------------------------------------------------------------------------
(* The invariant *)

LEMMA NoneYet == /\ <<>> \in Seq(Track) /\ <<>> \in Senders /\ DOMAIN <<>> = {}
<1>1. <<>> \in [{} -> Nat]
  OBVIOUS
<1>2. <<>> \in Senders
  BY <1>1, SendersFacts
<1> QED BY <1>2

LEMMA StartFacts ==
    ASSUME Mics \in SUBSET (Nat \ {0}), NEW sel \in Mics \cup {0}, NEW blur \in BOOLEAN, NEW kinds,
           MediaStart(sel, blur, kinds)
    PROVE  /\ m \in Media /\ DOMAIN m.trk = {} /\ DOMAIN m.senders = {} /\ m.streams = {}
           /\ m.audio = 0 /\ m.video = 0 /\ ~m.videoAdded /\ m.vsender = 0 /\ m.seg = 0 /\ m.screen = 0
           /\ ~m.peer /\ ~m.closed /\ m.cur = 0 /\ m.sel = sel /\ m.plugged = Mics
           /\ ~m.shown.mic /\ ~m.shown.cam
<1> DEFINE none == [mic |-> FALSE, cam |-> FALSE, scr |-> FALSE]
           past == [mic |-> FALSE, cam |-> FALSE, scr |-> FALSE, failed |-> {}, raw |-> FALSE, early |-> FALSE]
           e == <<>>
<1>1. none \in Shown /\ ~none.mic /\ ~none.cam /\ past \in Past
  BY DEF Shown, Past
<1>2. e \in Seq(Track) /\ e \in Senders /\ DOMAIN e = {}
  BY NoneYet
<1>3. m = [trk |-> e, senders |-> e, streams |-> {}, audio |-> 0, stream |-> FALSE, voiceAdded |-> FALSE,
           video |-> 0, videoAdded |-> FALSE, vsender |-> 0, seg |-> 0, screen |-> 0, blur |-> blur,
           peer |-> FALSE, closed |-> FALSE, init |-> "asked", cur |-> 0, sel |-> sel, plugged |-> Mics,
           shown |-> none, past |-> past]
  BY DEF MediaStart
<1> HIDE DEF none, past, e
<1>4. sel \in Nat /\ Mics \in SUBSET Nat
  OBVIOUS
<1>5. /\ m.trk = e /\ m.senders = e /\ m.streams = {} /\ m.audio = 0 /\ m.video = 0 /\ ~m.videoAdded
      /\ m.vsender = 0 /\ m.seg = 0 /\ m.screen = 0 /\ ~m.peer /\ ~m.closed /\ m.cur = 0 /\ m.sel = sel
      /\ m.plugged = Mics /\ m.shown = none
  BY <1>3
<1>6. m \in Media
  BY <1>1, <1>2, <1>3, <1>4 DEF Media
<1> QED BY <1>1, <1>2, <1>5, <1>6

LEMMA StartOps ==
    ASSUME NEW sel, NEW blur, NEW kinds, MediaStart(sel, blur, kinds)
    PROVE  \A o \in ops : /\ o \in Waiting /\ o.dev = 0
                          /\ \/ o.k = "mic" /\ o.at = "perm" /\ o = Op("mic", "perm", "init", 0, 0, FALSE)
                             \/ o.k = "cam" /\ o.at = "open" /\ o = Op("cam", "open", "init", 0, 0, FALSE)
                          /\ o.next = "init"
<1>1. uses = 0
  BY DEF MediaStart
<1>2. ASSUME NEW k \in {"mic", "cam"}, NEW at \in {"perm", "open"}
      PROVE  /\ Op(k, at, "init", 0, 0, FALSE) \in Waiting /\ Op(k, at, "init", 0, 0, FALSE).dev = 0
             /\ Op(k, at, "init", 0, 0, FALSE).k = k /\ Op(k, at, "init", 0, 0, FALSE).at = at
             /\ Op(k, at, "init", 0, 0, FALSE).next = "init"
  BY <1>1 DEF Op, Waiting, Kinds
<1>3. \A o \in ops : \/ o = Op("mic", "perm", "init", 0, 0, FALSE)
                     \/ o = Op("cam", "open", "init", 0, 0, FALSE)
  BY DEF MediaStart
<1>4. ASSUME NEW o \in ops
      PROVE  /\ o \in Waiting /\ o.dev = 0
             /\ \/ o.k = "mic" /\ o.at = "perm" /\ o = Op("mic", "perm", "init", 0, 0, FALSE)
                \/ o.k = "cam" /\ o.at = "open" /\ o = Op("cam", "open", "init", 0, 0, FALSE)
             /\ o.next = "init"
  <2>1. CASE o = Op("mic", "perm", "init", 0, 0, FALSE)
    BY <1>2, <2>1, Zenon
  <2>2. CASE o = Op("cam", "open", "init", 0, 0, FALSE)
    BY <1>2, <2>2, Zenon
  <2> QED BY <1>3, <2>1, <2>2, Zenon
<1> QED BY <1>4, Zenon

LEMMA MediaInvInit ==
    ASSUME Mics \in SUBSET (Nat \ {0}), MediaInit
    PROVE  MediaInv
<1>1. PICK kinds \in Scopes, sel \in Mics \cup {0}, blur \in BOOLEAN : MediaStart(sel, blur, kinds)
  BY Zenon DEF MediaInit
<1>2. /\ m \in Media /\ DOMAIN m.trk = {} /\ DOMAIN m.senders = {} /\ m.streams = {}
      /\ m.audio = 0 /\ m.video = 0 /\ ~m.videoAdded /\ m.vsender = 0 /\ m.seg = 0 /\ m.screen = 0
      /\ ~m.peer /\ ~m.closed /\ m.cur = 0 /\ m.sel = sel /\ m.plugged = Mics
      /\ ~m.shown.mic /\ ~m.shown.cam
  BY <1>1, StartFacts
<1> DEFINE mic == Op("mic", "perm", "init", 0, 0, FALSE)
           cam == Op("cam", "open", "init", 0, 0, FALSE)
<1>3. \A o \in ops : /\ o \in Waiting /\ o.dev = 0
                     /\ \/ o.k = "mic" /\ o.at = "perm" /\ o = mic
                        \/ o.k = "cam" /\ o.at = "open" /\ o = cam
                     /\ o.next = "init"
  BY <1>1, StartOps, Zenon
<1>4. uses = 0
  BY <1>1 DEF MediaStart
<1> HIDE DEF mic, cam
<1>5. Typed
  BY <1>2, <1>3, <1>4 DEF Typed
<1>6. Named
  BY <1>2, <1>3 DEF Named, IsA
<1>7. Released
  BY <1>2 DEF Released
<1>8. Alone("mic") /\ Alone("cam")
  BY <1>3 DEF Alone
<1>9. MicSteady
  BY <1>2, <1>3, <1>8 DEF MicSteady, MicTrack, MicWaits
<1>10. MicChosen
  BY <1>2 DEF MicChosen, Fits, Changed
<1>11. CamSteady
  BY <1>2, <1>3, <1>8 DEF CamSteady, CamTrack, CamWaits
<1>12. CamBlurred
  BY <1>2 DEF CamBlurred
<1> QED BY <1>5, <1>6, <1>7, <1>9, <1>10, <1>11, <1>12 DEF MediaInv

LEMMA MediaInvStutters ==
    ASSUME MediaInv, UNCHANGED mediaVars
    PROVE  MediaInv'
<1>1. m' = m /\ ops' = ops /\ uses' = uses
  BY DEF mediaVars
<1>2. Typed' /\ Named' /\ Released'
  BY <1>1 DEF MediaInv, Typed, Named, IsA, Released
<1>3. MicStill /\ CamStill
  BY <1>1 DEF MicStill, CamStill, SameTracks, SameOps
<1> QED BY <1>2, <1>3, MicStillKept, CamStillKept DEF MediaInv

LEMMA MediaInvKept ==
    ASSUME MediaInv, MediaNext
    PROVE  MediaInv'
<1>1. ASSUME NEW o \in ops,
             MicPermission(o) \/ MicOpened(o) \/ MicRefused(o) \/ MicAdded(o) \/ MicSwitched(o) \/ updateDevices(o)
      PROVE  MediaInv'
  BY <1>1, MediaAssumption, MicPermissionKept, MicOpenedKept, MicRefusedKept, MicAddedKept, MicSwitchedKept,
     updateDevicesKept, Zenon
<1>2. ASSUME NEW o \in ops, initVideo(o) \/ VideoRefused(o) \/ VideoAdded(o) \/ VideoSwitched(o)
      PROVE  MediaInv'
  BY <1>2, initVideoKept, VideoRefusedKept, VideoAddedKept, VideoSwitchedKept, Zenon
<1>3. ASSUME NEW o \in ops, setScreenStream(o) \/ ScreenRefused(o) \/ ScreenRemoved(o)
      PROVE  MediaInv'
  BY <1>3, setScreenStreamKept, ScreenRefusedKept, ScreenRemovedKept, Zenon
<1>4. CASE unmute \/ mute \/ startVideo \/ stopVideo \/ PickCamera \/ shareScreen \/ unshareScreen
  BY <1>4, unmuteKept, muteKept, startVideoKept, stopVideoKept, PickCameraKept, shareScreenKept, unshareScreenKept, Zenon
<1>5. ASSUME NEW d \in Mics, PickMic(d) \/ DeviceChange(d)
      PROVE  MediaInv'
  BY <1>5, MediaAssumption, PickMicKept, DeviceChangeKept, Zenon
<1>6. ASSUME NEW b \in BOOLEAN, setBlurSettings(b)
      PROVE  MediaInv'
  BY <1>6, setBlurSettingsKept, Zenon
<1>7. CASE Joins \/ Disconnects \/ InitAfterClose
  BY <1>7, JoinsKept, DisconnectsKept, InitAfterCloseKept, Zenon
<1> QED BY <1>1, <1>2, <1>3, <1>4, <1>5, <1>6, <1>7, Zenon DEF MediaNext

LEMMA MediaInvHolds == MediaSpec => []MediaInv
<1>1. MediaInit => MediaInv
  BY MediaAssumption, MediaInvInit
<1>2. MediaInv /\ [MediaNext]_mediaVars => MediaInv'
  BY MediaInvKept, MediaInvStutters
<1> QED BY <1>1, <1>2, PTL DEF MediaSpec

-----------------------------------------------------------------------------
(* The properties *)

\* client.ts, mute and unmute: for any devices, and any number of operations one
\* after the other, a track of the microphone is sent exactly while the button
\* shows that the user is not muted, unless a device failed.
THEOREM SentIsShown == MediaSpec => []MicFollowsButton
<1>1. MediaInv => MicFollowsButton
  <2>1. SUFFICES ASSUME MediaInv, m.peer, Settled1("mic")
                 PROVE  /\ Sent(m, {"mic"}) # {} => m.shown.mic
                        /\ m.shown.mic => Sent(m, {"mic"}) # {} \/ "mic" \in m.past.failed
    BY DEF MicFollowsButton
  <2>2. MicTrack
    BY <2>1 DEF MediaInv, Released, MicSteady, Settled1
  <2>3. ASSUME NEW t \in Sent(m, {"mic"}) PROVE m.shown.mic
    <3>1. t # 0 /\ m.trk[t].k = "mic" /\ m.trk[t].live /\ m.trk[t].on /\ \E i \in DOMAIN m.senders : m.senders[i] = t
      BY DEF Sent
    <3>2. PICK i \in DOMAIN m.senders : m.senders[i] = t
      BY <3>1
    <3>3. t = i
      BY <2>1, <3>1, <3>2 DEF MediaInv, Named
    <3>4. i = m.audio
      BY <2>2, <3>1, <3>2, <3>3 DEF MicTrack
    <3>5. i \in Nat \ {0}
      BY <2>1, <3>2, MediaFacts
    <3> QED BY <2>2, <3>1, <3>3, <3>4, <3>5 DEF MicTrack
  <2>4. ASSUME m.shown.mic, "mic" \notin m.past.failed PROVE m.audio \in Sent(m, {"mic"})
    <3>1. /\ m.audio # 0 /\ m.trk[m.audio].on /\ m.trk[m.audio].live
          /\ m.audio \in DOMAIN m.senders /\ m.senders[m.audio] = m.audio
      BY <2>2, <2>4 DEF MicTrack
    <3>2. m.trk[m.audio].k = "mic"
      BY <2>1, <3>1 DEF MediaInv, Named, IsA
    <3> QED BY <3>1, <3>2 DEF Sent
  <2> QED BY <2>3, <2>4
<1> QED BY <1>1, MediaInvHolds, PTL

\* client.ts, handleAudioDeviceFallback: however the devices come and go, the
\* microphone in use is the one the user selected when it is there, and is one
\* that is there when it is not.
THEOREM UsesSelectedMic == MediaSpec => []SelectedMicUsed
<1>1. MediaInv => SelectedMicUsed
  <2>1. SUFFICES ASSUME MediaInv, m.peer, Settled1("mic"), ~m.past.early, m.cur # 0, m.plugged # {}
                 PROVE  m.cur = (IF m.sel \in m.plugged THEN m.sel ELSE m.cur) /\ m.cur \in m.plugged
    BY DEF SelectedMicUsed
  <2>2. \A o \in ops : o.at # "enum"
    BY <2>1 DEF MediaInv, Typed, Settled1, Busy
  <2>3. Fits
    BY <2>1, <2>2 DEF MediaInv, MicChosen, Settled1
  <2> QED BY <2>1, <2>3 DEF Fits
<1> QED BY <1>1, MediaInvHolds, PTL

\* client.ts, stopVideo and setVideoInputDevice: while the video is off no
\* camera is open, nor the camera behind a canvas.
THEOREM CamerasAreReleased == MediaSpec => []CameraReleased
<1>1. MediaInv => CameraReleased
  <2>1. SUFFICES ASSUME MediaInv, m.peer, Settled1("cam"), ~m.shown.cam,
                        NEW t \in DOMAIN m.trk, m.trk[t].k \in {"cam", "blur"}
                 PROVE  ~m.trk[t].live
    BY DEF CameraReleased
  <2>2. CamTrack
    BY <2>1 DEF MediaInv, Released, CamSteady, Settled1
  <2>3. m.video = 0
    BY <2>1, <2>2 DEF CamTrack, Settled1, Busy
  <2> QED BY <2>1, <2>2, <2>3 DEF CamTrack, Video
<1> QED BY <1>1, MediaInvHolds, PTL

\* client.ts, initBgBackgroundTrack: when the user wants a blurred background,
\* what is sent is the canvas and never the camera itself.
THEOREM BlurIsKept == MediaSpec => []BlurKept
<1>1. MediaInv => BlurKept
  <2>1. SUFFICES ASSUME MediaInv, m.peer, Settled1("cam"), m.blur, ~m.past.raw, "cam" \notin m.past.failed,
                        NEW t \in Sent(m, {"cam"})
                 PROVE  FALSE
    BY DEF BlurKept
  <2>2. CamTrack /\ ~m.closed /\ ~m.past.cam
    BY <2>1 DEF MediaInv, Released, CamSteady, Settled1
  <2>3. t # 0 /\ m.trk[t].k = "cam" /\ \E i \in DOMAIN m.senders : m.senders[i] = t
    BY DEF Sent
  <2>4. PICK i \in DOMAIN m.senders : m.senders[i] = t
    BY <2>3
  <2>5. t = i
    BY <2>1, <2>3, <2>4 DEF MediaInv, Named
  <2>6. t = m.video
    BY <2>2, <2>3, <2>4, <2>5 DEF CamTrack, Video
  <2>7. ~\E o \in ops : o.k = "cam"
    BY <2>1 DEF Settled1, Busy
  <2>8. m.seg # 0 /\ m.trk[m.video].k = "blur"
    BY <2>1, <2>2, <2>3, <2>6, <2>7 DEF MediaInv, CamBlurred
  <2> QED BY <2>3, <2>6, <2>8
<1> QED BY <1>1, MediaInvHolds, PTL

\* client.ts, disconnect and cleanup: once the client is closed, only what the
\* browser granted after that is captured, and a second screen that
\* setScreenStream dropped.
THEOREM CapturesAreReleased == MediaSpec => []CapturesReleased
<1>1. MediaInv => CapturesReleased
  BY DEF MediaInv, Released, CapturesReleased
<1> QED BY <1>1, MediaInvHolds, PTL

=============================================================================

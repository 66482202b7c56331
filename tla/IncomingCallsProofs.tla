------------------------ MODULE IncomingCallsProofs ------------------------
(***************************************************************************)
(* Proofs that a ring tone ends, that a call rings and notifies once, and  *)
(* that a call that is announced is on, for any number of calls and        *)
(* whatever users, server and network do.                                  *)
(***************************************************************************)
EXTENDS IncomingCalls, FiniteSetTheorems, SequenceTheorems, TLAPS

-----------------------------------------------------------------------------
(* The inductive invariant *)

Places == {"large", "condensed", "widget"}

\* The slices of the store, the sound and the components.
Notifications ==
    [incoming : SUBSET RingCalls, ringing : SUBSET RingCalls, didRing : SUBSET RingCalls,
     didNotify : SUBSET RingCalls, dismissed : SUBSET RingCalls, sound : BOOLEAN,
     timers : SUBSET RingCalls, mounted : SUBSET (RingCalls \X Places),
     rung : [RingCalls -> Nat], sent : [RingCalls -> Nat],
     loose : BOOLEAN, together : SUBSET RingCalls]

Messages == {"start", "end", "dismissed", "joined"} \X RingCalls

Surroundings ==
    /\ life \in [RingCalls -> {"none", "on", "over"}]
    /\ evts \in Seq(Messages)
    /\ fetch.calls \subseteq RingCalls
    /\ fetch = [at |-> fetch.at, calls |-> fetch.calls, skip |-> fetch.skip]
    /\ profs \in [RingCalls -> Nat]
    /\ chans \subseteq RingCalls
    /\ conn \in 0 .. NumCalls /\ modal \in 0 .. NumCalls
    /\ prefs.ringing \in BOOLEAN

\* The tone of notifications m ends, only calls announced together ring
\* together, and a call that rang is marked.
ToneOK(m) ==
    /\ m.sound => (m.ringing \cap m.timers # {} \/ m.loose)
    /\ m.ringing \subseteq m.didRing
    /\ \A c \in RingCalls : m.rung[c] <= 1 /\ (c \notin m.didRing => m.rung[c] = 0)
    /\ \A c, d \in m.ringing : c # d => {c, d} \subseteq m.together

\* With ringing enabled, Calls sends the desktop notification and marks it.
MarkedOnce(m) == \A c \in RingCalls : m.sent[c] <= 1 /\ (c \notin m.didNotify => m.sent[c] = 0)

\* Without, nothing is ever announced, and the notification is that of the
\* post, which the one event that the call started brings.
Quiet == n.incoming = {} /\ n.mounted = {} /\ chans = {} /\ \A c \in RingCalls : profs[c] = 0
StartOnce ==
    \A c \in RingCalls :
       /\ n.sent[c] <= 1
       /\ life[c] = "none" \/ (\E i \in DOMAIN evts : evts[i] = <<"start", c>>) => n.sent[c] = 0
       /\ life[c] = "none" => \A i \in DOMAIN evts : evts[i] # <<"start", c>>
       /\ \A i, j \in DOMAIN evts : evts[i] = <<"start", c>> /\ evts[j] = <<"start", c>> => i = j

RingInv ==
    /\ n \in Notifications
    /\ Surroundings
    /\ ToneOK(n)
    /\ prefs.ringing => MarkedOnce(n)
    /\ ~prefs.ringing => Quiet /\ StartOnce

-----------------------------------------------------------------------------
(* A commit of React *)

\* The calls whose components are mounted by a commit, those of them that
\* never ring, and those that begin to ring.
Fresh(m, connected) == {k[1] : k \in Components(m, connected) \ m.mounted}
Never(m, connected) ==
    {c \in Fresh(m, connected) : connected \/ (m.ringing # {} /\ c \notin m.ringing)}
Begins(m, connected) == (Fresh(m, connected) \ Never(m, connected)) \ m.didRing

\* The counts of rings and notifications, and who was mounted together, after
\* a commit.
RungAfter(m, connected) ==
    [c \in RingCalls |-> IF c \in Begins(m, connected) THEN m.rung[c] + 1 ELSE m.rung[c]]
SentAfter(m, connected) ==
    [c \in RingCalls |-> IF c \in Fresh(m, connected) \ m.didNotify THEN m.sent[c] + 1 ELSE m.sent[c]]
TogetherAfter(m, connected) ==
    IF Cardinality(Fresh(m, connected)) > 1 THEN m.together \cup Fresh(m, connected) ELSE m.together

LEMMA FreshCalls ==
    ASSUME NEW m \in Notifications, NEW connected \in BOOLEAN
    PROVE  /\ Components(m, connected) \in SUBSET (RingCalls \X Places)
           /\ Fresh(m, connected) \subseteq m.incoming
           /\ m.incoming \subseteq RingCalls
           /\ m.incoming = {} => Components(m, connected) = {}
  BY DEF Notifications, Components, Place, Places, Fresh

\* What a commit leaves of the notifications m, slice by slice.
LEMMA CommitsSlices ==
    ASSUME NEW m \in Notifications, NEW connected \in BOOLEAN, NEW r,
           r = Commits(m, connected)
    PROVE  /\ r \in Notifications
           /\ r.incoming = m.incoming
           /\ r.dismissed = m.dismissed
           /\ r.ringing = (m.ringing \ Never(m, connected)) \cup Begins(m, connected)
           /\ r.didRing = m.didRing \cup Never(m, connected) \cup Begins(m, connected)
           /\ r.timers = m.timers \cup Begins(m, connected)
           /\ r.sound = (m.sound \/ Begins(m, connected) # {})
           /\ r.loose = (m.loose \/ (m.sound /\ Never(m, connected) \cap m.ringing # {}))
           /\ r.rung = RungAfter(m, connected)
           /\ r.didNotify = m.didNotify \cup Fresh(m, connected)
           /\ r.sent = SentAfter(m, connected)
           /\ r.mounted = Components(m, connected)
           /\ r.together = TogetherAfter(m, connected)
<1> DEFINE now == Components(m, connected)
           fresh == Fresh(m, connected)
           never == Never(m, connected)
           begins == Begins(m, connected)
           m1 == [m EXCEPT !.ringing = @ \ never, !.didRing = @ \cup never,
                           !.loose = @ \/ (m.sound /\ never \cap m.ringing # {})]
           m2 == useNotification(m1, fresh)
           m3 == ringForCall(m2, begins)
<1>1. /\ now \in SUBSET (RingCalls \X Places) /\ fresh \in SUBSET RingCalls
      /\ never \in SUBSET RingCalls /\ begins \in SUBSET RingCalls
  BY FreshCalls DEF Never, Begins
<1>2. r = [m3 EXCEPT !.mounted = now,
                     !.together = IF Cardinality(fresh) > 1 THEN @ \cup fresh ELSE @]
  BY DEF Commits, useRingingAndNotification, Fresh, Never, Begins
<1> HIDE DEF now, fresh, never, begins
<1>3. /\ m1 \in Notifications
      /\ m1.ringing = m.ringing \ never /\ m1.didRing = m.didRing \cup never
      /\ m1.loose = (m.loose \/ (m.sound /\ never \cap m.ringing # {}))
      /\ m1.incoming = m.incoming /\ m1.dismissed = m.dismissed /\ m1.timers = m.timers
      /\ m1.sound = m.sound /\ m1.rung = m.rung /\ m1.didNotify = m.didNotify
      /\ m1.sent = m.sent /\ m1.together = m.together
  BY <1>1 DEF Notifications
<1> HIDE DEF m1
<1>4. /\ m2 \in Notifications
      /\ m2.didNotify = m1.didNotify \cup fresh
      /\ m2.sent = [c \in RingCalls |-> IF c \in fresh \ m1.didNotify THEN m1.sent[c] + 1 ELSE m1.sent[c]]
      /\ m2.ringing = m1.ringing /\ m2.didRing = m1.didRing /\ m2.loose = m1.loose
      /\ m2.incoming = m1.incoming /\ m2.dismissed = m1.dismissed /\ m2.timers = m1.timers
      /\ m2.sound = m1.sound /\ m2.rung = m1.rung /\ m2.together = m1.together
  <2> DEFINE sent == [c \in RingCalls |-> IF c \in fresh \ m1.didNotify THEN m1.sent[c] + 1 ELSE m1.sent[c]]
  <2>1. m2 = [m1 EXCEPT !.didNotify = m1.didNotify \cup fresh, !.sent = sent]
    BY DEF m2, useNotification
  <2>2. m1.sent \in [RingCalls -> Nat] /\ m1.didNotify \cup fresh \in SUBSET RingCalls
    BY <1>1, <1>3 DEF Notifications
  <2>3. sent \in [RingCalls -> Nat]
    BY <2>2
  <2> HIDE DEF sent
  <2>0. m1 \in Notifications
    BY <1>3
  <2>4. /\ m2 \in Notifications /\ m2.didNotify = m1.didNotify \cup fresh /\ m2.sent = sent
        /\ m2.ringing = m1.ringing /\ m2.didRing = m1.didRing /\ m2.loose = m1.loose
        /\ m2.incoming = m1.incoming /\ m2.dismissed = m1.dismissed /\ m2.timers = m1.timers
        /\ m2.sound = m1.sound /\ m2.rung = m1.rung /\ m2.together = m1.together
    BY <2>0, <2>1, <2>2, <2>3 DEF Notifications
  <2> QED BY <2>4 DEF sent
<1> HIDE DEF m2
<1>5. /\ m3 \in Notifications
      /\ m3.sound = (m2.sound \/ begins # {})
      /\ m3.ringing = m2.ringing \cup begins /\ m3.didRing = m2.didRing \cup begins
      /\ m3.timers = m2.timers \cup begins
      /\ m3.rung = [c \in RingCalls |-> IF c \in begins THEN m2.rung[c] + 1 ELSE m2.rung[c]]
      /\ m3.didNotify = m2.didNotify /\ m3.sent = m2.sent /\ m3.loose = m2.loose
      /\ m3.incoming = m2.incoming /\ m3.dismissed = m2.dismissed /\ m3.together = m2.together
  <2> DEFINE rung == [c \in RingCalls |-> IF c \in begins THEN m2.rung[c] + 1 ELSE m2.rung[c]]
             tone == (m2.sound \/ begins # {})
  <2>1. m3 = [m2 EXCEPT !.sound = tone, !.ringing = m2.ringing \cup begins,
                        !.didRing = m2.didRing \cup begins, !.timers = m2.timers \cup begins,
                        !.rung = rung]
    BY DEF m3, ringForCall
  <2>2. /\ m2.rung \in [RingCalls -> Nat] /\ m2.ringing \cup begins \in SUBSET RingCalls
        /\ m2.didRing \cup begins \in SUBSET RingCalls /\ m2.timers \cup begins \in SUBSET RingCalls
    BY <1>1, <1>4 DEF Notifications
  <2>3. rung \in [RingCalls -> Nat] /\ tone \in BOOLEAN
    BY <2>2
  <2> HIDE DEF rung, tone
  <2>0. m2 \in Notifications
    BY <1>4
  <2>4. m3 \in Notifications
    BY <2>0, <2>1, <2>2, <2>3, ZenonT(40) DEF Notifications
  <2>5. /\ m3.sound = tone /\ m3.ringing = m2.ringing \cup begins
        /\ m3.didRing = m2.didRing \cup begins /\ m3.timers = m2.timers \cup begins /\ m3.rung = rung
        /\ m3.didNotify = m2.didNotify /\ m3.sent = m2.sent /\ m3.loose = m2.loose
        /\ m3.incoming = m2.incoming /\ m3.dismissed = m2.dismissed /\ m3.together = m2.together
    BY <2>0, <2>1, <2>2, <2>3 DEF Notifications
  <2> QED BY <2>4, <2>5 DEF rung, tone
<1> HIDE DEF m3
<1>6. /\ r \in Notifications
      /\ r.mounted = now
      /\ r.together = IF Cardinality(fresh) > 1 THEN m3.together \cup fresh ELSE m3.together
      /\ r.sound = m3.sound /\ r.ringing = m3.ringing /\ r.didRing = m3.didRing
      /\ r.timers = m3.timers /\ r.rung = m3.rung /\ r.didNotify = m3.didNotify
      /\ r.sent = m3.sent /\ r.loose = m3.loose /\ r.incoming = m3.incoming
      /\ r.dismissed = m3.dismissed
  <2> DEFINE together == IF Cardinality(fresh) > 1 THEN m3.together \cup fresh ELSE m3.together
  <2>1. r = [m3 EXCEPT !.mounted = now, !.together = together]
    BY <1>2
  <2>2. together \in SUBSET RingCalls
    BY <1>1, <1>5 DEF Notifications
  <2> HIDE DEF together
  <2>3. /\ r \in Notifications
        /\ r.mounted = now /\ r.together = together
        /\ r.sound = m3.sound /\ r.ringing = m3.ringing /\ r.didRing = m3.didRing
        /\ r.timers = m3.timers /\ r.rung = m3.rung /\ r.didNotify = m3.didNotify
        /\ r.sent = m3.sent /\ r.loose = m3.loose /\ r.incoming = m3.incoming
        /\ r.dismissed = m3.dismissed
    BY <1>1, <1>5, <2>1, <2>2 DEF Notifications
  <2> QED BY <2>3 DEF together
<1> QED BY <1>3, <1>4, <1>5, <1>6 DEF now, fresh, never, begins, RungAfter, SentAfter, TogetherAfter

\* Two calls that are mounted together are noted.
LEMMA TwoFresh ==
    ASSUME NumCalls \in Nat, NEW S \in SUBSET RingCalls, NEW c \in S, NEW d \in S, c # d
    PROVE  Cardinality(S) > 1
<1>1. IsFiniteSet(RingCalls)
  BY FS_Interval DEF RingCalls
<1>2. IsFiniteSet(S) /\ IsFiniteSet(S \ {c}) /\ Cardinality(S) \in Nat
  BY <1>1, FS_Subset, FS_CardinalityType
<1>3. Cardinality(S) # 0
  BY <1>2, FS_EmptySet
<1>4. Cardinality(S) # 1
  BY <1>2, FS_Singleton
<1> QED BY <1>2, <1>3, <1>4

LEMMA CommitsTone ==
    ASSUME NumCalls \in Nat, NEW m \in Notifications, NEW connected \in BOOLEAN, ToneOK(m)
    PROVE  ToneOK(Commits(m, connected))
<1> DEFINE r == Commits(m, connected)
           fresh == Fresh(m, connected)
           never == Never(m, connected)
           begins == Begins(m, connected)
<1>0. r = Commits(m, connected)
  OBVIOUS
<1> HIDE DEF r
<1>1. /\ r \in Notifications
      /\ r.ringing = (m.ringing \ never) \cup begins
      /\ r.didRing = m.didRing \cup never \cup begins
      /\ r.timers = m.timers \cup begins
      /\ r.sound = (m.sound \/ begins # {})
      /\ r.loose = (m.loose \/ (m.sound /\ never \cap m.ringing # {}))
      /\ r.rung = RungAfter(m, connected)
      /\ r.together = TogetherAfter(m, connected)
  BY <1>0, CommitsSlices
<1>2. fresh \in SUBSET RingCalls
  BY FreshCalls
<1>3. begins \subseteq fresh /\ begins \cap m.didRing = {} /\ (begins # {} => m.ringing = {})
  BY DEF Begins, Never, ToneOK
<1> HIDE DEF fresh, never, begins
<1>4. r.sound => (r.ringing \cap r.timers # {} \/ r.loose)
  <2>1. CASE begins # {}
    BY <1>1, <2>1
  <2>2. CASE begins = {} /\ never \cap m.ringing = {}
    BY <1>1, <2>2 DEF ToneOK
  <2>3. CASE begins = {} /\ never \cap m.ringing # {}
    BY <1>1, <2>3
  <2> QED BY <2>1, <2>2, <2>3
<1>5. r.ringing \subseteq r.didRing
  BY <1>1 DEF ToneOK
<1>6. \A c \in RingCalls : r.rung[c] <= 1 /\ (c \notin r.didRing => r.rung[c] = 0)
  <2> TAKE c \in RingCalls
  <2>1. m.rung[c] \in Nat /\ m.rung[c] <= 1 /\ (c \notin m.didRing => m.rung[c] = 0)
    BY DEF ToneOK, Notifications
  <2>2. r.rung[c] = IF c \in begins THEN m.rung[c] + 1 ELSE m.rung[c]
    BY <1>1 DEF RungAfter, begins
  <2> QED BY <1>1, <1>3, <2>1, <2>2
<1>7. ASSUME NEW c \in r.ringing, NEW d \in r.ringing, c # d
      PROVE  {c, d} \subseteq r.together
  <2>1. CASE begins = {}
    <3>1. {c, d} \subseteq m.together
      BY <1>1, <1>7, <2>1 DEF ToneOK
    <3> QED BY <1>1, <3>1 DEF TogetherAfter
  <2>2. CASE begins # {}
    <3>1. {c, d} \subseteq fresh
      BY <1>1, <1>3, <2>2
    <3>2. Cardinality(fresh) > 1
      BY <1>2, <1>7, <3>1, TwoFresh
    <3> QED BY <1>1, <3>1, <3>2 DEF TogetherAfter, fresh
  <2> QED BY <2>1, <2>2
<1>8. ToneOK(r)
  BY <1>4, <1>5, <1>6, <1>7 DEF ToneOK
<1> QED BY <1>8 DEF r

LEMMA CommitsMarked ==
    ASSUME NEW m \in Notifications, NEW connected \in BOOLEAN
    PROVE  /\ Commits(m, connected) \in Notifications
           /\ MarkedOnce(m) => MarkedOnce(Commits(m, connected))
           /\ m.incoming = {} => /\ Commits(m, connected).incoming = {}
                                 /\ Commits(m, connected).mounted = {}
                                 /\ Commits(m, connected).sent = m.sent
<1> DEFINE r == Commits(m, connected)
           fresh == Fresh(m, connected)
<1>0. r = Commits(m, connected)
  OBVIOUS
<1> HIDE DEF r
<1>1. /\ r \in Notifications
      /\ r.incoming = m.incoming /\ r.mounted = Components(m, connected)
      /\ r.didNotify = m.didNotify \cup fresh
      /\ r.sent = SentAfter(m, connected)
  BY <1>0, CommitsSlices
<1>2. m.sent \in [RingCalls -> Nat]
  BY DEF Notifications
<1>3. m.incoming = {} => fresh = {} /\ Components(m, connected) = {}
  BY FreshCalls
<1> HIDE DEF fresh
<1>4. ASSUME MarkedOnce(m) PROVE MarkedOnce(r)
  <2> SUFFICES ASSUME NEW c \in RingCalls
               PROVE  r.sent[c] <= 1 /\ (c \notin r.didNotify => r.sent[c] = 0)
    BY DEF MarkedOnce
  <2>1. m.sent[c] \in Nat /\ m.sent[c] <= 1 /\ (c \notin m.didNotify => m.sent[c] = 0)
    BY <1>2, <1>4 DEF MarkedOnce
  <2>2. r.sent[c] = IF c \in fresh \ m.didNotify THEN m.sent[c] + 1 ELSE m.sent[c]
    BY <1>1 DEF SentAfter, fresh
  <2> QED BY <1>1, <2>1, <2>2
<1>5. m.incoming = {} => r.sent = m.sent
  BY <1>1, <1>2, <1>3 DEF SentAfter, fresh
<1> QED BY <1>1, <1>3, <1>4, <1>5 DEF r

-----------------------------------------------------------------------------
(* Reducers and actions *)

\* m came from the notifications o without a ring or a notification.
Calmer(m, o) ==
    /\ m \in Notifications
    /\ ToneOK(o) => ToneOK(m)
    /\ m.sent = o.sent /\ m.didNotify = o.didNotify /\ m.mounted = o.mounted

LEMMA StopRingingCalm ==
    ASSUME NEW m \in Notifications
    PROVE  /\ Calmer(notificationsStopRinging(m), m)
           /\ notificationsStopRinging(m).incoming = m.incoming
<1>1. /\ notificationsStopRinging(m) \in Notifications
      /\ notificationsStopRinging(m).sound = FALSE
      /\ notificationsStopRinging(m).ringing = m.ringing
      /\ notificationsStopRinging(m).didRing = m.didRing
      /\ notificationsStopRinging(m).rung = m.rung
      /\ notificationsStopRinging(m).together = m.together
      /\ notificationsStopRinging(m).sent = m.sent
      /\ notificationsStopRinging(m).didNotify = m.didNotify
      /\ notificationsStopRinging(m).mounted = m.mounted
      /\ notificationsStopRinging(m).incoming = m.incoming
  BY DEF notificationsStopRinging, Notifications
<1> QED BY <1>1 DEF Calmer, ToneOK

\* stopRingingForCall after the timer of the call, or before.
LEMMA StopCalm ==
    ASSUME NEW m \in Notifications, NEW c \in RingCalls, NEW ts \in SUBSET RingCalls,
           ts \in {m.timers, m.timers \ {c}}, NEW r,
           r = stopRingingForCall([m EXCEPT !.timers = ts], c)
    PROVE  Calmer(r, m) /\ r.incoming = m.incoming
<1> DEFINE o == [m EXCEPT !.timers = ts]
           p == IF c \in o.ringing THEN notificationsStopRinging(o) ELSE o
<1>1. /\ o \in Notifications /\ o.timers = ts
      /\ o.ringing = m.ringing /\ o.sound = m.sound /\ o.loose = m.loose
      /\ o.didRing = m.didRing /\ o.rung = m.rung /\ o.together = m.together
      /\ o.sent = m.sent /\ o.didNotify = m.didNotify /\ o.mounted = m.mounted
      /\ o.incoming = m.incoming
  BY DEF Notifications
<1> HIDE DEF o
<1>2. /\ p \in Notifications /\ p.timers = o.timers
      /\ p.ringing = o.ringing
      /\ IF c \in o.ringing THEN p.sound = FALSE ELSE p.sound = o.sound /\ p.loose = o.loose
      /\ p.didRing = o.didRing /\ p.rung = o.rung /\ p.together = o.together
      /\ p.sent = o.sent /\ p.didNotify = o.didNotify /\ p.mounted = o.mounted
      /\ p.incoming = o.incoming
  BY <1>1 DEF Notifications, notificationsStopRinging
<1>3. r = Mark(p, c)
  BY DEF stopRingingForCall, o, p
<1> HIDE DEF p
<1>4. r \in Notifications
  <2>1. p.ringing \ {c} \in SUBSET RingCalls /\ p.didRing \cup {c} \in SUBSET RingCalls
    BY <1>2 DEF Notifications
  <2>2. r = [p EXCEPT !.ringing = p.ringing \ {c}, !.didRing = p.didRing \cup {c}]
    BY <1>3 DEF Mark
  <2> QED BY <1>2, <2>1, <2>2 DEF Notifications
<1>5. /\ r.timers = p.timers
      /\ r.ringing = p.ringing \ {c} /\ r.didRing = p.didRing \cup {c}
      /\ r.sound = p.sound /\ r.loose = p.loose /\ r.rung = p.rung /\ r.together = p.together
      /\ r.sent = p.sent /\ r.didNotify = p.didNotify /\ r.mounted = p.mounted
      /\ r.incoming = p.incoming
  BY <1>2, <1>3 DEF Notifications, Mark
<1>6. ASSUME ToneOK(m) PROVE ToneOK(r)
  <2>1. r.sound => (r.ringing \cap r.timers # {} \/ r.loose)
    <3>1. CASE c \in m.ringing
      BY <1>1, <1>2, <1>5, <3>1
    <3>2. CASE c \notin m.ringing
      <4>1. r.ringing = m.ringing /\ r.sound = m.sound /\ r.loose = m.loose
        BY <1>1, <1>2, <1>5, <3>2
      <4>2. m.ringing \cap r.timers = m.ringing \cap m.timers
        BY <1>1, <1>2, <1>5, <3>2
      <4> QED BY <1>6, <4>1, <4>2 DEF ToneOK
    <3> QED BY <3>1, <3>2
  <2>2. r.ringing \subseteq r.didRing
    BY <1>1, <1>2, <1>5, <1>6 DEF ToneOK
  <2>3. \A d \in RingCalls : r.rung[d] <= 1 /\ (d \notin r.didRing => r.rung[d] = 0)
    BY <1>1, <1>2, <1>5, <1>6 DEF ToneOK
  <2>4. \A d, e \in r.ringing : d # e => {d, e} \subseteq r.together
    BY <1>1, <1>2, <1>5, <1>6 DEF ToneOK
  <2> QED BY <2>1, <2>2, <2>3, <2>4 DEF ToneOK
<1> QED BY <1>1, <1>2, <1>4, <1>5, <1>6 DEF Calmer

LEMMA IncomingCalm ==
    ASSUME NEW m \in Notifications, NEW S \in SUBSET RingCalls
    PROVE  Calmer([m EXCEPT !.incoming = S], m) /\ [m EXCEPT !.incoming = S].incoming = S
<1> DEFINE r == [m EXCEPT !.incoming = S]
<1>1. r \in Notifications
  BY DEF Notifications
<1>2. /\ r.incoming = S /\ r.timers = m.timers /\ r.ringing = m.ringing /\ r.didRing = m.didRing
      /\ r.sound = m.sound /\ r.loose = m.loose /\ r.rung = m.rung /\ r.together = m.together
      /\ r.sent = m.sent /\ r.didNotify = m.didNotify /\ r.mounted = m.mounted
  BY DEF Notifications
<1> HIDE DEF r
<1>3. Calmer(r, m) /\ r.incoming = S
  BY <1>1, <1>2 DEF Calmer, ToneOK
<1> QED BY <1>3 DEF r

LEMMA DismissedCalm ==
    ASSUME NEW m \in Notifications, NEW c \in RingCalls
    PROVE  /\ Calmer(DISMISS_CALL(m, c), m) /\ DISMISS_CALL(m, c).incoming = m.incoming
<1> DEFINE r == DISMISS_CALL(m, c)
<1>1. r \in Notifications
  BY DEF Notifications, DISMISS_CALL
<1>2. /\ r.incoming = m.incoming /\ r.timers = m.timers /\ r.ringing = m.ringing
      /\ r.didRing = m.didRing
      /\ r.sound = m.sound /\ r.loose = m.loose /\ r.rung = m.rung /\ r.together = m.together
      /\ r.sent = m.sent /\ r.didNotify = m.didNotify /\ r.mounted = m.mounted
  BY DEF Notifications, DISMISS_CALL
<1> HIDE DEF r
<1>3. Calmer(r, m) /\ r.incoming = m.incoming
  BY <1>1, <1>2 DEF Calmer, ToneOK
<1> QED BY <1>3 DEF r

LEMMA CalmTrans ==
    ASSUME NEW p, NEW m, NEW o, Calmer(p, m), Calmer(m, o)
    PROVE  Calmer(p, o)
  BY DEF Calmer

LEMMA RemovedCalm ==
    ASSUME NEW m \in Notifications, NEW c \in RingCalls
    PROVE  /\ Calmer(stopRingingForCall(m, c), m)
           /\ Calmer(removeIncomingCallNotification(m, c), m)
           /\ removeIncomingCallNotification(m, c).incoming = m.incoming \ {c}
           /\ Calmer(dismissIncomingCallNotification(m, c), m)
           /\ dismissIncomingCallNotification(m, c).incoming = m.incoming \ {c}
<1> DEFINE s == stopRingingForCall(m, c)
           r == removeIncomingCallNotification(m, c)
<1>1. m.timers \in SUBSET RingCalls /\ m = [m EXCEPT !.timers = m.timers]
  BY DEF Notifications
<1>2. s = stopRingingForCall([m EXCEPT !.timers = m.timers], c)
  BY <1>1
<1> HIDE DEF s
<1>3. Calmer(s, m) /\ s.incoming = m.incoming
  BY <1>1, <1>2, StopCalm
<1>4. r = [s EXCEPT !.incoming = s.incoming \ {c}]
  BY DEF removeIncomingCallNotification, s
<1>5. s \in Notifications /\ s.incoming \ {c} \in SUBSET RingCalls
  BY <1>3 DEF Calmer, Notifications
<1> HIDE DEF r
<1>6. Calmer(r, s) /\ r.incoming = m.incoming \ {c}
  BY <1>3, <1>4, <1>5, IncomingCalm
<1>7. r \in Notifications /\ Calmer(r, m)
  BY <1>3, <1>6 DEF Calmer
<1>8. dismissIncomingCallNotification(m, c) = DISMISS_CALL(r, c)
  BY DEF dismissIncomingCallNotification, r
<1>9. Calmer(DISMISS_CALL(r, c), r) /\ DISMISS_CALL(r, c).incoming = r.incoming
  BY <1>7, DismissedCalm
<1>10. Calmer(DISMISS_CALL(r, c), m)
  BY <1>7, <1>9, CalmTrans
<1> QED BY <1>3, <1>6, <1>7, <1>8, <1>9, <1>10 DEF r, s

\* The end of a task keeps what is proved of the notifications.
LEMMA ThenKeeps ==
    ASSUME NumCalls \in Nat, NEW m, Calmer(m, n), ToneOK(n), NEW c \in 0 .. NumCalls, Then(m, c)
    PROVE  /\ n' \in Notifications /\ ToneOK(n') /\ conn' \in 0 .. NumCalls
           /\ MarkedOnce(n) => MarkedOnce(n')
           /\ m.incoming = {} => n'.incoming = {} /\ n'.mounted = {} /\ n'.sent = n.sent
<1>1. m \in Notifications /\ ToneOK(m) /\ (MarkedOnce(n) => MarkedOnce(m)) /\ m.sent = n.sent
  BY DEF Calmer, MarkedOnce
<1>2. n' = Commits(m, c # 0) /\ conn' = c /\ (c # 0) \in BOOLEAN
  BY DEF Then
<1> QED BY <1>1, <1>2, CommitsTone, CommitsMarked

-----------------------------------------------------------------------------
(* Events *)

LEMMA SeqFacts ==
    ASSUME NEW e \in Seq(Messages)
    PROVE  /\ DOMAIN e = 1 .. Len(e) /\ Len(e) \in Nat
           /\ \A x \in Messages :
                 /\ Append(e, x) \in Seq(Messages) /\ Len(Append(e, x)) = Len(e) + 1
                 /\ \A i \in 1 .. Len(e) : Append(e, x)[i] = e[i]
                 /\ Append(e, x)[Len(e) + 1] = x
           /\ e # <<>> => /\ Tail(e) \in Seq(Messages) /\ Len(Tail(e)) = Len(e) - 1
                          /\ \A i \in 1 .. Len(e) - 1 : Tail(e)[i] = e[i + 1]
                          /\ Head(e) = e[1] /\ Len(e) > 0
  OBVIOUS

\* Nobody else sends the event that a call started, and no call starts twice.
NoNewStart ==
    /\ \A c \in RingCalls : life'[c] = "none" => life[c] = "none"
    /\ \/ evts' = evts \/ evts' = <<>>
       \/ evts # <<>> /\ evts' = Tail(evts)
       \/ \E x \in Messages : x[1] # "start" /\ evts' = Append(evts, x)

LEMMA StartOnceKept ==
    ASSUME StartOnce, evts \in Seq(Messages), n'.sent = n.sent, NoNewStart
    PROVE  StartOnce'
<1> USE DEF NoNewStart
<1>1. CASE evts' = evts
  BY <1>1 DEF StartOnce
<1>2. CASE evts' = <<>>
  BY <1>2 DEF StartOnce
<1>3. CASE evts # <<>> /\ evts' = Tail(evts)
  <2>1. /\ DOMAIN evts = 1 .. Len(evts) /\ Len(evts) \in Nat
        /\ DOMAIN evts' = 1 .. Len(evts) - 1
        /\ \A i \in DOMAIN evts' : evts'[i] = evts[i + 1] /\ i + 1 \in DOMAIN evts
    BY <1>3, SeqFacts
  <2> SUFFICES ASSUME NEW c \in RingCalls
               PROVE  /\ n'.sent[c] <= 1
                      /\ life'[c] = "none" \/ (\E i \in DOMAIN evts' : evts'[i] = <<"start", c>>) => n'.sent[c] = 0
                      /\ life'[c] = "none" => \A i \in DOMAIN evts' : evts'[i] # <<"start", c>>
                      /\ \A i, j \in DOMAIN evts' : evts'[i] = <<"start", c>> /\ evts'[j] = <<"start", c>> => i = j
    BY DEF StartOnce
  <2>2. ASSUME NEW i \in DOMAIN evts', NEW j \in DOMAIN evts',
               evts'[i] = <<"start", c>>, evts'[j] = <<"start", c>>
        PROVE  i = j
    <3>1. i + 1 = j + 1
      BY <2>1, <2>2, ZenonT(40) DEF StartOnce
    <3>2. i \in 1 .. Len(evts) - 1 /\ j \in 1 .. Len(evts) - 1 /\ Len(evts) \in Nat
      BY <2>1
    <3> QED BY <3>1, <3>2
  <2>3. (\E i \in DOMAIN evts' : evts'[i] = <<"start", c>>) => \E i \in DOMAIN evts : evts[i] = <<"start", c>>
    BY <2>1
  <2> QED BY <2>2, <2>3 DEF StartOnce
<1>4. CASE \E x \in Messages : x[1] # "start" /\ evts' = Append(evts, x)
  <2>1. PICK x \in Messages : x[1] # "start" /\ evts' = Append(evts, x)
    BY <1>4
  <2>2. /\ DOMAIN evts = 1 .. Len(evts) /\ Len(evts) \in Nat
        /\ DOMAIN evts' = 1 .. Len(evts) + 1 /\ evts'[Len(evts) + 1] = x
        /\ \A i \in DOMAIN evts : evts'[i] = evts[i]
    BY <2>1, SeqFacts
  <2>3. ASSUME NEW i \in DOMAIN evts', NEW c \in RingCalls, evts'[i] = <<"start", c>>
        PROVE  i \in DOMAIN evts /\ evts[i] = <<"start", c>>
    <3>1. x # <<"start", c>>
      BY <2>1
    <3>2. i # Len(evts) + 1
      BY <2>2, <2>3, <3>1
    <3>3. i \in 1 .. Len(evts) + 1 /\ Len(evts) \in Nat
      BY <2>2
    <3>4. i \in 1 .. Len(evts)
      BY <3>2, <3>3
    <3> QED BY <2>2, <2>3, <3>4
  <2> QED BY <2>3 DEF StartOnce
<1> QED BY <1>1, <1>2, <1>3, <1>4

LEMMA PublishOther ==
    ASSUME RingInv, NEW t \in {"end", "dismissed", "joined"}, NEW c \in RingCalls,
           Publish(<<t, c>>) \/ UNCHANGED evts
    PROVE  /\ evts' \in Seq(Messages)
           /\ \/ evts' = evts
              \/ \E x \in Messages : x[1] # "start" /\ evts' = Append(evts, x)
<1>1. <<t, c>> \in Messages /\ <<t, c>>[1] # "start"
  BY DEF Messages
<1>2. evts' = evts \/ evts' = Append(evts, <<t, c>>)
  BY DEF Publish
<1>3. evts \in Seq(Messages)
  BY DEF RingInv, Surroundings
<1>4. Append(evts, <<t, c>>) \in Seq(Messages)
  BY <1>1, <1>3
<1>5. CASE evts' = Append(evts, <<t, c>>)
  BY <1>1, <1>4, <1>5
<1> QED BY <1>2, <1>3, <1>5

\* A step that leaves the notifications alone.
LEMMA SameStep ==
    ASSUME RingInv, Surroundings', NoNewStart, UNCHANGED <<n, chans, profs, prefs>>
    PROVE  RingInv'
<1>1. StartOnce => StartOnce'
  BY StartOnceKept DEF RingInv, Surroundings
<1>2. Quiet => Quiet'
  BY DEF Quiet
<1> QED BY <1>1, <1>2 DEF RingInv

\* A step that announces nothing.
LEMMA CalmStep ==
    ASSUME NumCalls \in Nat, RingInv, NEW m, NEW c \in 0 .. NumCalls,
           Calmer(m, n), m.incoming \subseteq n.incoming, Then(m, c),
           (conn' \in 0 .. NumCalls) => Surroundings', NoNewStart,
           UNCHANGED <<chans, profs, prefs>>
    PROVE  RingInv'
<1>1. /\ n' \in Notifications /\ ToneOK(n') /\ conn' \in 0 .. NumCalls
      /\ MarkedOnce(n) => MarkedOnce(n')
      /\ m.incoming = {} => n'.incoming = {} /\ n'.mounted = {} /\ n'.sent = n.sent
  BY ThenKeeps DEF RingInv
<1>2. ASSUME ~prefs.ringing PROVE Quiet' /\ StartOnce'
  <2>1. m.incoming = {}
    BY <1>2 DEF RingInv, Quiet
  <2>2. Quiet'
    BY <1>1, <1>2, <2>1 DEF RingInv, Quiet
  <2>3. StartOnce'
    BY <1>1, <1>2, <2>1, StartOnceKept DEF RingInv, Surroundings
  <2> QED BY <2>2, <2>3
<1> QED BY <1>1, <1>2 DEF RingInv

\* A step that may announce calls, with ringing enabled.
LEMMA RingingStep ==
    ASSUME NumCalls \in Nat, RingInv, prefs.ringing, NEW m, NEW c \in 0 .. NumCalls,
           Calmer(m, n), Then(m, c), (conn' \in 0 .. NumCalls) => Surroundings',
           UNCHANGED prefs
    PROVE  RingInv'
<1>1. /\ n' \in Notifications /\ ToneOK(n') /\ conn' \in 0 .. NumCalls
      /\ MarkedOnce(n) => MarkedOnce(n')
  BY ThenKeeps DEF RingInv
<1> QED BY <1>1 DEF RingInv

\* The server, and what does not reach the notifications.
LEMMA ServerSteps ==
    ASSUME NumCalls \in Nat, RingInv, NEW c \in RingCalls,
           CallStarts(c) \/ CallEnds(c) \/ DismissalArrives(c) \/ DismissedElsewhere(c) \/ JoinHandled(c)
    PROVE  RingInv'
<1> USE DEF Rest
<1>0. /\ life \in [RingCalls -> {"none", "on", "over"}]
      /\ evts \in Seq(Messages)
  BY DEF RingInv, Surroundings
<1>1. CASE CallEnds(c)
  <2>1. evts' \in Seq(Messages) /\ \/ evts' = evts
                                   \/ \E x \in Messages : x[1] # "start" /\ evts' = Append(evts, x)
    BY <1>1, PublishOther DEF CallEnds
  <2>2. /\ \A d \in RingCalls : life'[d] = "none" => life[d] = "none"
        /\ life' \in [RingCalls -> {"none", "on", "over"}]
    BY <1>0, <1>1 DEF CallEnds
  <2>3. NoNewStart
    BY <2>1, <2>2 DEF NoNewStart
  <2>4. Surroundings'
    BY <1>1, <2>1, <2>2 DEF CallEnds, Surroundings, RingInv
  <2> QED BY <1>1, <2>3, <2>4, SameStep DEF CallEnds
<1>2. CASE DismissalArrives(c) \/ DismissedElsewhere(c)
  <2>1. evts' \in Seq(Messages) /\ \/ evts' = evts
                                   \/ \E x \in Messages : x[1] # "start" /\ evts' = Append(evts, x)
    BY <1>2, PublishOther DEF DismissalArrives, DismissedElsewhere
  <2>2. UNCHANGED <<life, n, chans, profs, prefs, conn, modal, fetch>>
    BY <1>2 DEF DismissalArrives, DismissedElsewhere
  <2>3. NoNewStart
    BY <2>1, <2>2 DEF NoNewStart
  <2>4. Surroundings'
    BY <2>1, <2>2 DEF Surroundings, RingInv
  <2> QED BY <2>2, <2>3, <2>4, SameStep
<1>3. CASE JoinHandled(c)
  <2>1. evts' \in Seq(Messages) /\ \/ evts' = evts
                                   \/ \E x \in Messages : x[1] # "start" /\ evts' = Append(evts, x)
    BY <1>3, PublishOther DEF JoinHandled
  <2>2. UNCHANGED <<life, n, chans, profs, prefs, conn, modal, fetch>>
    BY <1>3 DEF JoinHandled
  <2>3. NoNewStart
    BY <2>1, <2>2 DEF NoNewStart
  <2>4. Surroundings'
    BY <2>1, <2>2 DEF Surroundings, RingInv
  <2> QED BY <2>2, <2>3, <2>4, SameStep
<1>4. CASE CallStarts(c)
  <2> DEFINE e == <<"start", c>>
  <2>1. /\ life[c] = "none" /\ life' = [life EXCEPT ![c] = "on"]
        /\ evts' = Append(evts, e) \/ evts' = evts
        /\ UNCHANGED <<n, chans, profs, prefs, conn, modal, fetch>>
    BY <1>4 DEF CallStarts, Publish
  <2>2. e \in Messages
    BY DEF Messages
  <2>3. evts' \in Seq(Messages) /\ life' \in [RingCalls -> {"none", "on", "over"}]
    BY <1>0, <2>1, <2>2, SeqFacts, ZenonT(40)
  <2>4. Surroundings'
    BY <2>1, <2>3 DEF Surroundings, RingInv
  <2>5. ASSUME StartOnce PROVE StartOnce'
    <3> SUFFICES ASSUME NEW d \in RingCalls
                 PROVE  /\ n.sent[d] <= 1
                        /\ life'[d] = "none" \/ (\E i \in DOMAIN evts' : evts'[i] = <<"start", d>>) => n.sent[d] = 0
                        /\ life'[d] = "none" => \A i \in DOMAIN evts' : evts'[i] # <<"start", d>>
                        /\ \A i, j \in DOMAIN evts' : evts'[i] = <<"start", d>> /\ evts'[j] = <<"start", d>> => i = j
      BY <2>1 DEF StartOnce
    <3>1. CASE evts' = evts
      BY <1>0, <2>1, <2>5, <3>1 DEF StartOnce
    <3>2. CASE evts' = Append(evts, e)
      <4>1. /\ DOMAIN evts = 1 .. Len(evts) /\ Len(evts) \in Nat
            /\ DOMAIN evts' = 1 .. Len(evts) + 1 /\ evts'[Len(evts) + 1] = e
            /\ \A i \in DOMAIN evts : evts'[i] = evts[i]
        BY <1>0, <2>2, <3>2, SeqFacts
      <4>2. \A i \in DOMAIN evts' : i \in DOMAIN evts \/ i = Len(evts) + 1
        <5> TAKE i \in DOMAIN evts'
        <5>1. i \in 1 .. Len(evts) + 1 /\ Len(evts) \in Nat /\ DOMAIN evts = 1 .. Len(evts)
          BY <4>1
        <5> QED BY <5>1
      <4>3. CASE d = c
        <5>1. n.sent[d] = 0 /\ life'[d] = "on" /\ \A i \in DOMAIN evts : evts[i] # <<"start", d>>
          BY <1>0, <2>1, <2>5, <4>3 DEF StartOnce
        <5>2. \A i \in DOMAIN evts' : evts'[i] = <<"start", d>> => i = Len(evts) + 1
          BY <4>1, <4>2, <5>1
        <5> QED BY <5>1, <5>2
      <4>4. CASE d # c
        <5>1. e # <<"start", d>>
          BY <4>4
        <5>2. \A i \in DOMAIN evts' : evts'[i] = <<"start", d>> => i \in DOMAIN evts /\ evts[i] = <<"start", d>>
          BY <4>1, <4>2, <5>1
        <5>3. life'[d] = life[d]
          BY <1>0, <2>1, <4>4
        <5> QED BY <2>5, <5>2, <5>3 DEF StartOnce
      <4> QED BY <4>3, <4>4
    <3> QED BY <2>1, <3>1, <3>2
  <2>6. Quiet => Quiet'
    BY <2>1 DEF Quiet
  <2> QED BY <2>1, <2>4, <2>5, <2>6 DEF RingInv
<1> QED BY <1>1, <1>2, <1>3, <1>4

\* Announcing: only with ringing enabled are there channels or callers to load.
LEMMA AnnounceStep ==
    ASSUME NumCalls \in Nat, RingInv, prefs.ringing, NEW cs \in SUBSET RingCalls,
           incomingCallOnChannel(n, cs), UNCHANGED prefs,
           conn' \in 0 .. NumCalls /\ profs' \in [RingCalls -> Nat] => Surroundings'
    PROVE  RingInv'
<1> DEFINE ok == Announced(n, cs)
           slow == IF "caller" \in prefs.loads THEN ok ELSE {}
           S == n.incoming \cup (ok \ slow)
<1>1. /\ profs' = [c \in RingCalls |-> IF c \in slow THEN profs[c] + 1 ELSE profs[c]]
      /\ Then([n EXCEPT !.incoming = S], conn)
  BY DEF incomingCallOnChannel
<1>2. n \in Notifications /\ profs \in [RingCalls -> Nat] /\ conn \in 0 .. NumCalls
  BY DEF RingInv, Surroundings
<1>3. S \in SUBSET RingCalls
  BY <1>2 DEF Announced, Notifications
<1>4. profs' \in [RingCalls -> Nat]
  BY <1>1, <1>2
<1>5. Calmer([n EXCEPT !.incoming = S], n)
  BY <1>2, <1>3, IncomingCalm
<1> QED BY <1>1, <1>2, <1>4, <1>5, RingingStep

LEMMA EventGone ==
    ASSUME RingInv, NEW t, NEW c, Event(t, c)
    PROVE  evts' \in Seq(Messages) /\ evts # <<>> /\ evts' = Tail(evts)
  BY DEF Event, RingInv, Surroundings

LEMMA AnnouncingSteps ==
    ASSUME NumCalls \in Nat, RingInv,
           \/ \E c \in RingCalls : handleCallStart(c) \/ ChannelLoaded(c) \/ CallerLoaded(c)
           \/ fetchChannels
    PROVE  RingInv'
<1>0. /\ n \in Notifications /\ profs \in [RingCalls -> Nat] /\ conn \in 0 .. NumCalls
      /\ Surroundings /\ prefs.ringing \in BOOLEAN /\ evts \in Seq(Messages)
  BY DEF RingInv, Surroundings
<1>1. ASSUME NEW c \in RingCalls, ChannelLoaded(c) PROVE RingInv'
  <2>1. c \in chans /\ incomingCallOnChannel(n, {c}) /\ chans' = chans \ {c}
        /\ UNCHANGED <<life, evts, fetch, modal, prefs>>
    BY <1>1 DEF ChannelLoaded
  <2>2. prefs.ringing
    BY <1>0, <2>1 DEF RingInv, Quiet
  <2>3. conn' \in 0 .. NumCalls /\ profs' \in [RingCalls -> Nat] => Surroundings'
    BY <1>0, <2>1 DEF Surroundings
  <2> QED BY <2>1, <2>2, <2>3, AnnounceStep
<1>2. ASSUME NEW c \in RingCalls, CallerLoaded(c) PROVE RingInv'
  <2> DEFINE m == [n EXCEPT !.incoming = n.incoming \cup {c}]
  <2>1. profs[c] > 0 /\ profs' = [profs EXCEPT ![c] = @ - 1] /\ Then(m, conn)
        /\ UNCHANGED <<life, evts, fetch, modal, prefs, chans>>
    BY <1>2 DEF CallerLoaded, ADD_INCOMING_CALL
  <2>2. prefs.ringing
    BY <1>0, <2>1 DEF RingInv, Quiet
  <2>3. n.incoming \cup {c} \in SUBSET RingCalls
    BY <1>0 DEF Notifications
  <2>4. Calmer(m, n)
    BY <1>0, <2>3, IncomingCalm
  <2>5. profs' \in [RingCalls -> Nat]
    BY <1>0, <2>1
  <2>6. conn' \in 0 .. NumCalls => Surroundings'
    BY <1>0, <2>1, <2>5 DEF Surroundings
  <2> HIDE DEF m
  <2> QED BY <1>0, <2>1, <2>2, <2>4, <2>6, RingingStep
<1>3. CASE fetchChannels
  <2>1. /\ fetch' = [fetch EXCEPT !.at = "done", !.calls = {}]
        /\ UNCHANGED <<life, evts, chans, modal, prefs>>
    BY <1>3 DEF fetchChannels
  <2>2. fetch'.calls = {} /\ fetch' = [at |-> fetch'.at, calls |-> fetch'.calls, skip |-> fetch'.skip]
    BY <1>0, <2>1 DEF Surroundings
  <2>3. conn' \in 0 .. NumCalls /\ profs' \in [RingCalls -> Nat] => Surroundings'
    BY <1>0, <2>1, <2>2 DEF Surroundings
  <2>4. CASE prefs.ringing
    <3>1. incomingCallOnChannel(n, fetch.calls \ known)
      BY <1>3, <2>4 DEF fetchChannels
    <3>2. fetch.calls \ known \in SUBSET RingCalls
      BY <1>0 DEF Surroundings
    <3> QED BY <2>1, <2>3, <2>4, <3>1, <3>2, AnnounceStep
  <2>5. CASE ~prefs.ringing
    <3>1. UNCHANGED <<profs, n, conn>>
      BY <1>3, <2>5 DEF fetchChannels
    <3>2. NoNewStart
      BY <2>1 DEF NoNewStart
    <3> QED BY <1>0, <2>1, <2>3, <3>1, <3>2, SameStep
  <2> QED BY <1>0, <2>4, <2>5
<1>4. ASSUME NEW c \in RingCalls, handleCallStart(c) PROVE RingInv'
  <2> DEFINE m == [n EXCEPT !.sent[c] = IF desktopNotificationHandler(prefs.ringing) THEN @ + 1 ELSE @]
  <2>1. /\ Event("start", c) /\ UNCHANGED <<life, fetch, modal, prefs>>
        /\ \/ (conn = c \/ ~prefs.ringing) /\ n' = m /\ UNCHANGED <<chans, profs, conn>>
           \/ conn # c /\ prefs.ringing /\ n' = m /\ chans' = chans \cup {c} /\ UNCHANGED <<profs, conn>>
           \/ conn # c /\ prefs.ringing /\ incomingCallOnChannel(m, {c}) /\ UNCHANGED chans
    BY <1>4 DEF handleCallStart
  <2>2. evts' \in Seq(Messages) /\ evts # <<>> /\ evts' = Tail(evts)
    BY <2>1, EventGone
  <2>3. ASSUME chans' \subseteq RingCalls, conn' \in 0 .. NumCalls, profs' \in [RingCalls -> Nat]
        PROVE  Surroundings'
    BY <1>0, <2>1, <2>2, <2>3 DEF Surroundings
  <2>4. CASE prefs.ringing
    <3>1. m = n
      BY <1>0, <2>4 DEF desktopNotificationHandler, Notifications
    <3> HIDE DEF m
    <3>2. CASE incomingCallOnChannel(n, {c}) /\ UNCHANGED chans
      <4>1. conn' \in 0 .. NumCalls /\ profs' \in [RingCalls -> Nat] => Surroundings'
        BY <1>0, <2>3, <3>2 DEF Surroundings
      <4> QED BY <2>1, <2>4, <3>2, <4>1, AnnounceStep
    <3>3. CASE n' = n /\ chans' \subseteq chans \cup {c} /\ UNCHANGED <<profs, conn>>
      <4>1. Surroundings'
        BY <1>0, <2>3, <3>3 DEF Surroundings
      <4> QED BY <2>1, <2>4, <3>3, <4>1 DEF RingInv
    <3> QED BY <2>1, <2>4, <3>1, <3>2, <3>3
  <2>5. CASE ~prefs.ringing
    <3>1. n' = m /\ UNCHANGED <<chans, profs, conn>>
      BY <2>1, <2>5
    <3>2. /\ m \in Notifications /\ m.incoming = n.incoming /\ m.mounted = n.mounted
          /\ m.sent = [n.sent EXCEPT ![c] = @ + 1] /\ m.timers = n.timers
          /\ m.ringing = n.ringing /\ m.didRing = n.didRing /\ m.sound = n.sound
          /\ m.loose = n.loose /\ m.rung = n.rung /\ m.together = n.together
      <4> DEFINE sent == [n.sent EXCEPT ![c] = @ + 1]
      <4>1. n.sent \in [RingCalls -> Nat]
        BY <1>0 DEF Notifications
      <4>2. sent \in [RingCalls -> Nat]
        BY <4>1
      <4>3. m = [n EXCEPT !.sent = sent]
        BY <2>5 DEF desktopNotificationHandler
      <4> HIDE DEF m, sent
      <4>4. m \in Notifications
        BY <1>0, <4>2, <4>3 DEF Notifications
      <4>5. /\ m.incoming = n.incoming /\ m.mounted = n.mounted
            /\ m.sent = sent /\ m.timers = n.timers
            /\ m.ringing = n.ringing /\ m.didRing = n.didRing /\ m.sound = n.sound
            /\ m.loose = n.loose /\ m.rung = n.rung /\ m.together = n.together
        BY <1>0, <4>3 DEF Notifications
      <4> QED BY <4>4, <4>5 DEF sent
    <3> HIDE DEF m
    <3>3. Surroundings' /\ Quiet' /\ ToneOK(n')
      BY <1>0, <2>3, <2>5, <3>1, <3>2 DEF Surroundings, RingInv, Quiet, ToneOK
    <3>4. StartOnce /\ evts[1] = <<"start", c>> /\ Len(evts) > 0 /\ Len(evts) \in Nat
          /\ n.sent \in [RingCalls -> Nat]
      BY <1>0, <2>1, <2>5, SeqFacts DEF RingInv, Event, Notifications
    <3>5. /\ DOMAIN evts = 1 .. Len(evts)
          /\ DOMAIN evts' = 1 .. Len(evts) - 1
          /\ \A i \in DOMAIN evts' : evts'[i] = evts[i + 1] /\ i + 1 \in DOMAIN evts /\ i + 1 # 1
      BY <1>0, <2>2, SeqFacts
    <3>6. n.sent[c] = 0 /\ life[c] # "none" /\ \A i \in DOMAIN evts' : evts'[i] # <<"start", c>>
      <4>1. 1 \in DOMAIN evts
        BY <3>4, <3>5
      <4> QED BY <3>4, <3>5, <4>1 DEF StartOnce
    <3>7. ASSUME NEW d \in RingCalls
          PROVE  /\ n'.sent[d] <= 1
                 /\ life'[d] = "none" \/ (\E i \in DOMAIN evts' : evts'[i] = <<"start", d>>) => n'.sent[d] = 0
                 /\ life'[d] = "none" => \A i \in DOMAIN evts' : evts'[i] # <<"start", d>>
                 /\ \A i, j \in DOMAIN evts' : evts'[i] = <<"start", d>> /\ evts'[j] = <<"start", d>> => i = j
      <4>1. CASE d = c
        BY <2>1, <3>1, <3>2, <3>4, <3>6, <4>1
      <4>2. CASE d # c
        <5>1. n'.sent[d] = n.sent[d]
          BY <3>1, <3>2, <3>4, <4>2
        <5>2. (\E i \in DOMAIN evts' : evts'[i] = <<"start", d>>) => \E i \in DOMAIN evts : evts[i] = <<"start", d>>
          BY <3>5
        <5>3. ASSUME NEW i \in DOMAIN evts', NEW j \in DOMAIN evts',
                     evts'[i] = <<"start", d>>, evts'[j] = <<"start", d>>
              PROVE  i = j
          <6>1. i + 1 = j + 1
            BY <3>4, <3>5, <5>3 DEF StartOnce
          <6>2. i \in 1 .. Len(evts) - 1 /\ j \in 1 .. Len(evts) - 1 /\ Len(evts) \in Nat
            BY <3>4, <3>5
          <6> QED BY <6>1, <6>2
        <5> QED BY <2>1, <3>4, <5>1, <5>2, <5>3 DEF StartOnce
      <4> QED BY <4>1, <4>2
    <3>8. StartOnce'
      BY <3>7 DEF StartOnce
    <3> QED BY <2>1, <2>5, <3>1, <3>2, <3>3, <3>8 DEF RingInv
  <2> QED BY <1>0, <2>4, <2>5
<1> QED BY <1>1, <1>2, <1>3, <1>4

\* The user, the timer and the events that take a notification away.
LEMMA CalmingSteps ==
    ASSUME NumCalls \in Nat, RingInv, NEW c \in RingCalls,
           \/ onDismiss(c) \/ onJoin(c) \/ onContainerClick(c) \/ Connects(c)
           \/ handleUserJoined(c) \/ handleUserDismissedNotification(c) \/ handleCallEnd(c)
           \/ RingTimer(c) \/ joinCall \/ ClientCloses
    PROVE  RingInv'
<1>0. /\ n \in Notifications /\ conn \in 0 .. NumCalls /\ modal \in 0 .. NumCalls
      /\ Surroundings /\ prefs.ringing \in BOOLEAN /\ evts \in Seq(Messages)
      /\ c \in 0 .. NumCalls /\ 0 \in 0 .. NumCalls
  BY DEF RingInv, Surroundings, RingCalls
<1>1. ASSUME UNCHANGED <<life, fetch, chans, profs, prefs>>, modal' \in 0 .. NumCalls,
             evts' = evts \/ (evts # <<>> /\ evts' = Tail(evts) /\ evts' \in Seq(Messages))
      PROVE  NoNewStart /\ (conn' \in 0 .. NumCalls => Surroundings')
  BY <1>0, <1>1 DEF NoNewStart, Surroundings
<1>2. ASSUME NEW m, NEW d \in 0 .. NumCalls, Calmer(m, n), m.incoming \subseteq n.incoming, Then(m, d),
             UNCHANGED <<life, fetch, chans, profs, prefs>>, modal' \in 0 .. NumCalls,
             evts' = evts \/ (evts # <<>> /\ evts' = Tail(evts) /\ evts' \in Seq(Messages))
      PROVE  RingInv'
  BY <1>1, <1>2, CalmStep
<1>3. Calmer(n, n) /\ n.incoming \subseteq n.incoming
  BY <1>0 DEF Calmer
<1>4. /\ Calmer(notificationsStopRinging(n), n)
      /\ notificationsStopRinging(n).incoming \subseteq n.incoming
      /\ notificationsStopRinging(n) \in Notifications
  BY <1>0, StopRingingCalm DEF Calmer
<1>5. ASSUME NEW d \in RingCalls
      PROVE  /\ Calmer(removeIncomingCallNotification(n, d), n)
             /\ removeIncomingCallNotification(n, d).incoming \subseteq n.incoming
             /\ removeIncomingCallNotification(n, d) \in Notifications
             /\ Calmer(dismissIncomingCallNotification(n, d), n)
             /\ dismissIncomingCallNotification(n, d).incoming \subseteq n.incoming
  BY <1>0, RemovedCalm, ZenonT(40) DEF Calmer
<1>6. CASE onDismiss(c)
  BY <1>0, <1>2, <1>5, <1>6 DEF onDismiss
<1>7. CASE onJoin(c)
  <2>1. UNCHANGED <<life, evts, fetch, chans, profs, prefs>>
    BY <1>7 DEF onJoin
  <2>2. CASE conn # 0
    <3>1. modal' = c /\ Then(notificationsStopRinging(n), conn)
      BY <1>7, <2>2 DEF onJoin
    <3> QED BY <1>0, <1>2, <1>4, <2>1, <3>1
  <2>3. CASE conn = 0
    <3> DEFINE s == notificationsStopRinging(n)
               m == dismissIncomingCallNotification(s, c)
    <3>1. modal' = modal /\ Then(m, c)
      BY <1>7, <2>3 DEF onJoin
    <3>2. Calmer(m, s) /\ m.incoming = s.incoming \ {c}
      BY <1>4, RemovedCalm
    <3>3. Calmer(m, n) /\ m.incoming \subseteq n.incoming
      BY <1>4, <3>2, CalmTrans
    <3> HIDE DEF m
    <3> QED BY <1>0, <1>2, <2>1, <3>1, <3>3
  <2> QED BY <2>2, <2>3
<1>8. CASE onContainerClick(c)
  BY <1>0, <1>2, <1>4, <1>8 DEF onContainerClick
<1>9. CASE Connects(c)
  BY <1>0, <1>2, <1>3, <1>9 DEF Connects
<1>10. CASE ClientCloses
  BY <1>0, <1>2, <1>3, <1>10 DEF ClientCloses
<1>11. CASE joinCall
  <2>1. modal \in RingCalls
    BY <1>0, <1>11 DEF joinCall, RingCalls
  <2> QED BY <1>0, <1>2, <1>5, <1>11, <2>1 DEF joinCall
<1>12. CASE handleUserDismissedNotification(c)
  <2>1. evts' \in Seq(Messages) /\ evts # <<>> /\ evts' = Tail(evts)
    BY <1>12, EventGone DEF handleUserDismissedNotification
  <2> QED BY <1>0, <1>2, <1>5, <1>12, <2>1 DEF handleUserDismissedNotification
<1>13. CASE handleCallEnd(c)
  <2>1. evts' \in Seq(Messages) /\ evts # <<>> /\ evts' = Tail(evts)
    BY <1>13, EventGone DEF handleCallEnd
  <2>2. UNCHANGED <<life, fetch, chans, profs, modal, prefs>>
    BY <1>13 DEF handleCallEnd
  <2>3. PICK m \in {removeIncomingCallNotification(n, c), n}, d \in {0, conn} : Then(m, d)
    BY <1>13 DEF handleCallEnd
  <2>4. Calmer(m, n) /\ m.incoming \subseteq n.incoming /\ d \in 0 .. NumCalls
    BY <1>0, <1>3, <1>5
  <2> QED BY <1>0, <1>2, <2>1, <2>2, <2>3, <2>4
<1>14. CASE handleUserJoined(c)
  <2>1. evts' \in Seq(Messages) /\ evts # <<>> /\ evts' = Tail(evts)
    BY <1>14, EventGone DEF handleUserJoined
  <2>2. UNCHANGED <<life, fetch, chans, profs, modal, prefs>>
    BY <1>14 DEF handleUserJoined
  <2>3. CASE prefs.ringing
    <3>1. PICK p \in {removeIncomingCallNotification(n, c), n} : Then(notificationsStopRinging(p), conn)
      BY <1>14, <2>3 DEF handleUserJoined
    <3>2. p \in Notifications /\ Calmer(p, n) /\ p.incoming \subseteq n.incoming
      BY <1>0, <1>3, <1>5
    <3>3. /\ Calmer(notificationsStopRinging(p), n)
          /\ notificationsStopRinging(p).incoming \subseteq n.incoming
      BY <3>2, StopRingingCalm, CalmTrans
    <3> QED BY <1>0, <1>2, <2>1, <2>2, <3>1, <3>3
  <2>4. CASE ~prefs.ringing
    <3>1. UNCHANGED <<n, conn>>
      BY <1>14, <2>4 DEF handleUserJoined
    <3> QED BY <1>0, <1>1, <2>1, <2>2, <3>1, SameStep
  <2> QED BY <1>0, <2>3, <2>4
<1>15. CASE RingTimer(c)
  <2> DEFINE ts == n.timers \ {c}
             m == stopRingingForCall([n EXCEPT !.timers = ts], c)
  <2>1. Then(m, conn) /\ UNCHANGED <<life, evts, fetch, chans, profs, modal, prefs>>
    BY <1>15 DEF RingTimer
  <2>2. ts \in SUBSET RingCalls
    BY <1>0 DEF Notifications
  <2>3. m = stopRingingForCall([n EXCEPT !.timers = ts], c) /\ ts \in {n.timers, n.timers \ {c}}
    OBVIOUS
  <2> HIDE DEF m, ts
  <2>4. Calmer(m, n) /\ m.incoming = n.incoming
    BY <1>0, <2>2, <2>3, StopCalm, SMTT(30)
  <2> QED BY <1>0, <1>2, <2>1, <2>4
<1> QED BY <1>6, <1>7, <1>8, <1>9, <1>10, <1>11, <1>12, <1>13, <1>14, <1>15

LEMMA ReconnectSteps ==
    ASSUME NumCalls \in Nat, RingInv,
           hideSwitchCallModal \/ RingDrop \/ RingReconnect \/ ChannelsAnswered
    PROVE  RingInv'
<1> USE DEF Rest
<1>0. Surroundings
  BY DEF RingInv
<1>1. CASE hideSwitchCallModal
  <2>1. Surroundings' /\ NoNewStart
    BY <1>0, <1>1 DEF hideSwitchCallModal, Surroundings, NoNewStart
  <2> QED BY <1>1, <2>1, SameStep DEF hideSwitchCallModal
<1>2. CASE RingDrop
  <2>1. evts' = <<>> /\ evts' \in Seq(Messages)
    BY <1>2 DEF RingDrop
  <2>2. Surroundings' /\ NoNewStart
    BY <1>0, <1>2, <2>1 DEF RingDrop, Surroundings, NoNewStart
  <2> QED BY <1>2, <2>2, SameStep DEF RingDrop
<1>3. CASE RingReconnect
  <2>1. fetch'.calls = {} /\ fetch' = [at |-> fetch'.at, calls |-> fetch'.calls, skip |-> fetch'.skip]
    BY <1>3 DEF RingReconnect
  <2>2. Surroundings' /\ NoNewStart
    BY <1>0, <1>3, <2>1 DEF RingReconnect, Surroundings, NoNewStart
  <2> QED BY <1>3, <2>2, SameStep DEF RingReconnect
<1>4. CASE ChannelsAnswered
  <2> DEFINE on == {c \in RingCalls : life[c] = "on" /\ c # fetch.skip}
  <2>1. fetch' = [fetch EXCEPT !.at = "got", !.calls = on \ posted]
    BY <1>4 DEF ChannelsAnswered
  <2>2. fetch'.calls \subseteq RingCalls
        /\ fetch' = [at |-> fetch'.at, calls |-> fetch'.calls, skip |-> fetch'.skip]
    BY <1>0, <2>1 DEF Surroundings
  <2>3. Surroundings' /\ NoNewStart
    BY <1>0, <1>4, <2>2 DEF ChannelsAnswered, Surroundings, NoNewStart
  <2> QED BY <1>4, <2>3, SameStep DEF ChannelsAnswered
<1> QED BY <1>1, <1>2, <1>3, <1>4

-----------------------------------------------------------------------------
LEMMA RingInvInit == ASSUME NumCalls \in Nat PROVE RingInit => RingInv
<1> SUFFICES ASSUME RingInit PROVE RingInv
  OBVIOUS
<1>1. n \in Notifications
  BY DEF RingInit, Notifications
<1>2. Surroundings
  <2>0. evts \in Seq(Messages)
    BY DEF RingInit
  <2>1. evts \in Seq(Messages) /\ prefs.ringing \in BOOLEAN
    <3>1. CASE prefs \in [ringing : {TRUE}, loads : {{}, {"channel"}, {"caller"}}]
      BY <2>0, <3>1
    <3>2. CASE prefs \in [ringing : {FALSE}, loads : {{}}]
      BY <2>0, <3>2
    <3> QED BY <3>1, <3>2 DEF RingInit
  <2> QED BY <2>1 DEF RingInit, Surroundings
<1>3. ToneOK(n) /\ MarkedOnce(n)
  BY DEF RingInit, ToneOK, MarkedOnce
<1>4. Quiet /\ StartOnce
  BY DEF RingInit, Quiet, StartOnce
<1> QED BY <1>1, <1>2, <1>3, <1>4 DEF RingInv

LEMMA RingInvNext == ASSUME NumCalls \in Nat PROVE RingInv /\ [RingNext]_ringVars => RingInv'
<1> SUFFICES ASSUME RingInv, [RingNext]_ringVars PROVE RingInv'
  OBVIOUS
<1>1. CASE UNCHANGED ringVars
  BY <1>1 DEF ringVars, RingInv, Surroundings, Quiet, StartOnce
<1>2. CASE \E c \in RingCalls :
             \/ CallStarts(c) \/ CallEnds(c) \/ DismissalArrives(c) \/ DismissedElsewhere(c)
             \/ JoinHandled(c)
  BY <1>2, ServerSteps
<1>3. CASE \E c \in RingCalls : handleCallStart(c) \/ ChannelLoaded(c) \/ CallerLoaded(c)
  BY <1>3, AnnouncingSteps
<1>4. CASE \E c \in RingCalls :
             \/ onDismiss(c) \/ onJoin(c) \/ onContainerClick(c) \/ Connects(c)
             \/ handleUserJoined(c) \/ handleUserDismissedNotification(c) \/ handleCallEnd(c)
             \/ RingTimer(c)
  BY <1>4, CalmingSteps
<1>5. CASE hideSwitchCallModal \/ RingDrop \/ RingReconnect \/ ChannelsAnswered
  BY <1>5, ReconnectSteps
<1>6. CASE joinCall \/ ClientCloses
  <2>1. PICK c : c \in RingCalls
    <3>1. modal \in 0 .. NumCalls /\ conn \in 0 .. NumCalls /\ (modal # 0 \/ conn # 0)
      BY <1>6 DEF joinCall, ClientCloses, RingInv, Surroundings
    <3> QED BY <3>1 DEF RingCalls
  <2> QED BY <1>6, <2>1, CalmingSteps
<1>7. CASE fetchChannels
  BY <1>7, AnnouncingSteps
<1> QED BY <1>1, <1>2, <1>3, <1>4, <1>5, <1>6, <1>7 DEF RingNext

LEMMA RingInvHolds == RingSpec => []RingInv
  BY RingAssumption, RingInvInit, RingInvNext, PTL DEF RingSpec

\* ringForCall and stopRingingForCall: a ring tone that plays has a timer that
\* will stop it, but for the tone that a connecting user sets loose.
THEOREM RingToneEnds == RingSpec => []RingEnds
<1>1. RingInv => RingEnds
  BY DEF RingInv, ToneOK, RingEnds
<1> QED BY <1>1, RingInvHolds, PTL

\* A call rings once and is notified of once, whatever is mounted again,
\* reconnected or announced twice, and two calls ring together only when one
\* commit mounted both.
THEOREM RingsOnce == RingSpec => []RingOnce
<1>1. RingInv => RingOnce
  BY DEF RingInv, Surroundings, ToneOK, MarkedOnce, StartOnce, RingOnce
<1> QED BY <1>1, RingInvHolds, PTL

-----------------------------------------------------------------------------
(* Announced calls are on *)

Pending(t, c) == \E i \in DOMAIN evts : evts[i] = <<t, c>>

\* Call c is announced, or something under way can still announce it.
Announces(c) ==
    \/ c \in n.incoming \/ c \in chans \/ profs[c] > 0
    \/ fetch.at = "got" /\ c \in fetch.calls
    \/ Pending("start", c)

\* Nothing refers to a call that has not started.
Begun ==
    \A c \in RingCalls : life[c] = "none" =>
       /\ ~Announces(c) /\ c \notin n.dismissed /\ modal # c /\ <<"dismiss", c>> \notin asks
       /\ \A t \in {"start", "end", "dismissed", "joined"} : ~Pending(t, c)

\* But for the exceptions, what announces a call is not dismissed, and the end
\* of its call is on its way.
Current ==
    \A c \in RingCalls \ late :
       Announces(c) => c \notin n.dismissed /\ (life[c] = "over" => Pending("end", c))

NewsInv == RingInv /\ Begun /\ Current

LEMMA PendingTail ==
    ASSUME evts \in Seq(Messages), evts # <<>>, evts' = Tail(evts), NEW t, NEW c
    PROVE  /\ Pending(t, c)' => Pending(t, c)
           /\ Pending(t, c) => Pending(t, c)' \/ Head(evts) = <<t, c>>
<1>1. /\ DOMAIN evts = 1 .. Len(evts) /\ Len(evts) \in Nat /\ Head(evts) = evts[1]
      /\ DOMAIN evts' = 1 .. Len(evts) - 1
      /\ \A i \in 1 .. Len(evts) - 1 : evts'[i] = evts[i + 1] /\ i + 1 \in DOMAIN evts
  BY SeqFacts
<1>2. Pending(t, c)' => Pending(t, c)
  BY <1>1 DEF Pending
<1>3. ASSUME NEW i \in DOMAIN evts, evts[i] = <<t, c>>, i # 1 PROVE Pending(t, c)'
  <2>1. i - 1 \in 1 .. Len(evts) - 1 /\ (i - 1) + 1 = i
    BY <1>1, <1>3
  <2> QED BY <1>1, <1>3, <2>1 DEF Pending
<1> QED BY <1>1, <1>2, <1>3 DEF Pending

LEMMA PendingPublish ==
    ASSUME evts \in Seq(Messages), NEW e \in Messages, Publish(e)
    PROVE  \A t, c : /\ Pending(t, c)' => Pending(t, c) \/ e = <<t, c>>
                     /\ Pending(t, c) => Pending(t, c)'
                     /\ online /\ e = <<t, c>> => Pending(t, c)'
<1>1. CASE ~online
  BY <1>1 DEF Publish, Pending
<1>2. CASE online
  <2>1. evts' = Append(evts, e)
    BY <1>2 DEF Publish
  <2>2. /\ DOMAIN evts = 1 .. Len(evts) /\ Len(evts) \in Nat
        /\ DOMAIN evts' = 1 .. Len(evts) + 1 /\ evts'[Len(evts) + 1] = e
        /\ \A i \in 1 .. Len(evts) : evts'[i] = evts[i]
    BY <2>1, SeqFacts
  <2>3. /\ \A i \in 1 .. Len(evts) + 1 : i \in 1 .. Len(evts) \/ i = Len(evts) + 1
        /\ \A i \in 1 .. Len(evts) : i \in 1 .. Len(evts) + 1
        /\ Len(evts) + 1 \in 1 .. Len(evts) + 1
    BY <2>2
  <2> QED BY <2>2, <2>3 DEF Pending
<1> QED BY <1>1, <1>2

\* What the end of a task and the actions do to the calls that are announced
\* and to those that are dismissed.
LEMMA ThenSets ==
    ASSUME NEW m \in Notifications, NEW c, Then(m, c)
    PROVE  n'.incoming = m.incoming /\ n'.dismissed = m.dismissed
  BY CommitsSlices, ZenonT(40) DEF Then

LEMMA TakenSets ==
    ASSUME NEW m \in Notifications, NEW c \in RingCalls
    PROVE  /\ notificationsStopRinging(m) \in Notifications
           /\ notificationsStopRinging(m).incoming = m.incoming
           /\ notificationsStopRinging(m).dismissed = m.dismissed
           /\ stopRingingForCall(m, c) \in Notifications
           /\ stopRingingForCall(m, c).incoming = m.incoming
           /\ stopRingingForCall(m, c).dismissed = m.dismissed
           /\ removeIncomingCallNotification(m, c) \in Notifications
           /\ removeIncomingCallNotification(m, c).incoming = m.incoming \ {c}
           /\ removeIncomingCallNotification(m, c).dismissed = m.dismissed
           /\ dismissIncomingCallNotification(m, c) \in Notifications
           /\ dismissIncomingCallNotification(m, c).incoming = m.incoming \ {c}
           /\ dismissIncomingCallNotification(m, c).dismissed = m.dismissed \cup {c}
<1> DEFINE s == stopRingingForCall(m, c)
           r == removeIncomingCallNotification(m, c)
           q == notificationsStopRinging(m)
<1>1. q \in Notifications /\ q.incoming = m.incoming /\ q.dismissed = m.dismissed
  BY DEF notificationsStopRinging, Notifications
<1>2. s \in Notifications /\ s.incoming = m.incoming /\ s.dismissed = m.dismissed
  <2>1. s \in Notifications
    BY RemovedCalm DEF Calmer
  <2>2. PICK p \in {m, q} : s = Mark(p, c)
    BY DEF stopRingingForCall
  <2>3. p \in Notifications /\ p.incoming = m.incoming /\ p.dismissed = m.dismissed
    BY <1>1
  <2> HIDE DEF s, q
  <2>4. s.incoming = p.incoming /\ s.dismissed = p.dismissed
    BY <2>2, <2>3 DEF Mark, Notifications
  <2> QED BY <2>1, <2>3, <2>4
<1>3. r \in Notifications /\ r.incoming = m.incoming \ {c} /\ r.dismissed = m.dismissed
  <2>1. r \in Notifications /\ r.incoming = m.incoming \ {c}
    BY RemovedCalm DEF Calmer
  <2>2. r = [s EXCEPT !.incoming = s.incoming \ {c}]
    BY DEF removeIncomingCallNotification
  <2> HIDE DEF r, s
  <2>3. r.dismissed = s.dismissed
    BY <1>2, <2>2 DEF Notifications
  <2> QED BY <1>2, <2>1, <2>3
<1>4. /\ dismissIncomingCallNotification(m, c) \in Notifications
      /\ dismissIncomingCallNotification(m, c).incoming = m.incoming \ {c}
      /\ dismissIncomingCallNotification(m, c).dismissed = m.dismissed \cup {c}
  <2>1. dismissIncomingCallNotification(m, c) = [r EXCEPT !.dismissed = r.dismissed \cup {c}]
    BY DEF dismissIncomingCallNotification, DISMISS_CALL
  <2> HIDE DEF r
  <2> QED BY <1>3, <2>1, RemovedCalm, ZenonT(40) DEF Notifications, Calmer
<1> QED BY <1>1, <1>2, <1>3, <1>4

LEMMA AnnouncedSets ==
    ASSUME NEW m \in Notifications, NEW cs \in SUBSET RingCalls, incomingCallOnChannel(m, cs)
    PROVE  /\ n'.incoming \subseteq m.incoming \cup cs /\ n'.dismissed = m.dismissed
           /\ \A c \in RingCalls : profs'[c] > 0 => profs[c] > 0 \/ c \in cs
<1> DEFINE ok == Announced(m, cs)
           slow == IF "caller" \in prefs.loads THEN ok ELSE {}
           p == [m EXCEPT !.incoming = m.incoming \cup (ok \ slow)]
<1>1. /\ profs' = [c \in RingCalls |-> IF c \in slow THEN profs[c] + 1 ELSE profs[c]]
      /\ Then(p, conn)
  BY DEF incomingCallOnChannel
<1>2. ok \subseteq cs /\ slow \subseteq cs
  BY DEF Announced
<1> HIDE DEF ok, slow
<1>3. p \in Notifications /\ p.incoming = m.incoming \cup (ok \ slow) /\ p.dismissed = m.dismissed
  BY <1>2 DEF Notifications
<1> HIDE DEF p
<1>4. n'.incoming = p.incoming /\ n'.dismissed = p.dismissed
  BY <1>1, <1>3, ThenSets
<1> QED BY <1>1, <1>2, <1>3, <1>4

\* A step that starts and ends no call.
LEMMA NewsKept ==
    ASSUME Begun, Current, life' = life, late \subseteq late',
           \A c \in RingCalls : Announces(c)' => Announces(c),
           \A c \in RingCalls :
              c \in n'.dismissed => c \in n.dismissed \/ (life[c] # "none" /\ (c \in late' \/ ~Announces(c)')),
           \A c \in RingCalls : modal' = c => modal = c \/ life[c] # "none",
           \A c \in RingCalls : <<"dismiss", c>> \in asks' => <<"dismiss", c>> \in asks \/ life[c] # "none",
           \A t, c : Pending(t, c)' => Pending(t, c) \/ life[c] # "none",
           \A c \in RingCalls : Pending("end", c) => Pending("end", c)' \/ c \in late' \/ ~Announces(c)'
    PROVE  Begun' /\ Current'
<1>1. Begun'
  BY DEF Begun
<1>2. Current'
  BY DEF Current
<1> QED BY <1>1, <1>2

\* With the types at hand, the steps of the lemma above for what a step leaves
\* alone.
LEMMA AnnouncesLess ==
    ASSUME NEW c \in RingCalls, n'.incoming \subseteq n.incoming, chans' \subseteq chans,
           profs' = profs, fetch' = fetch, Pending("start", c)' => Pending("start", c)
    PROVE  Announces(c)' => Announces(c)
  BY DEF Announces

LEMMA NewsServer ==
    ASSUME NewsInv, NEW c \in RingCalls,
           CallStarts(c) \/ CallEnds(c) \/ DismissalArrives(c) \/ DismissedElsewhere(c) \/ JoinHandled(c)
    PROVE  Begun' /\ Current'
<1> USE DEF Rest
<1>0. /\ evts \in Seq(Messages) /\ Begun /\ Current
      /\ life \in [RingCalls -> {"none", "on", "over"}]
      /\ \A t \in {"start", "end", "dismissed", "joined"} : <<t, c>> \in Messages
  BY DEF NewsInv, RingInv, Surroundings, Messages
<1>1. UNCHANGED <<n, chans, profs, fetch, modal, online>>
  BY DEF CallStarts, CallEnds, DismissalArrives, DismissedElsewhere, JoinHandled
<1>2. CASE DismissalArrives(c) \/ DismissedElsewhere(c) \/ JoinHandled(c)
  <2>1. life' = life /\ late \subseteq late' /\ asks' \subseteq asks
    BY <1>2 DEF DismissalArrives, DismissedElsewhere, JoinHandled
  <2>2. PICK t \in {"dismissed", "joined"} : (Publish(<<t, c>>) /\ life[c] # "none") \/ UNCHANGED evts
    BY <1>0, <1>2 DEF DismissalArrives, DismissedElsewhere, JoinHandled, Begun
  <2>3. \A s, d : /\ Pending(s, d)' => Pending(s, d) \/ <<t, c>> = <<s, d>>
                  /\ Pending(s, d) => Pending(s, d)'
    <3>1. CASE Publish(<<t, c>>)
      BY <1>0, <3>1, PendingPublish
    <3>2. CASE UNCHANGED evts
      BY <3>2 DEF Pending
    <3> QED BY <2>2, <3>1, <3>2
  <2>4. \A s, d : Pending(s, d)' => Pending(s, d) \/ life[d] # "none"
    <3>1. CASE life[c] # "none"
      BY <2>3, <3>1
    <3>2. CASE UNCHANGED evts
      BY <3>2 DEF Pending
    <3> QED BY <2>2, <3>1, <3>2
  <2>5. \A d \in RingCalls : Pending("start", d)' => Pending("start", d)
    BY <2>2, <2>3
  <2>6. \A d \in RingCalls : Announces(d)' => Announces(d)
    BY <1>1, <2>5, AnnouncesLess
  <2> QED BY <1>0, <1>1, <2>1, <2>3, <2>4, <2>6, NewsKept
<1>3. CASE CallStarts(c)
  <2>1. /\ life[c] = "none" /\ life' = [life EXCEPT ![c] = "on"] /\ Publish(<<"start", c>>)
        /\ late' = late /\ asks' = asks
    BY <1>3 DEF CallStarts
  <2>2. \A s, d : /\ Pending(s, d)' => Pending(s, d) \/ <<"start", c>> = <<s, d>>
                  /\ Pending(s, d) => Pending(s, d)'
    BY <1>0, <2>1, PendingPublish
  <2>3. \A d \in RingCalls : d # c => life'[d] = life[d] /\ (Announces(d)' => Announces(d))
    BY <1>0, <1>1, <2>1, <2>2, AnnouncesLess
  <2>4. life'[c] = "on" /\ c \notin n.dismissed
    BY <1>0, <2>1 DEF Begun
  <2>5. Begun'
    BY <1>0, <1>1, <2>1, <2>2, <2>3, <2>4 DEF Begun
  <2>6. Current'
    BY <1>0, <1>1, <2>1, <2>2, <2>3, <2>4 DEF Current
  <2> QED BY <2>5, <2>6
<1>4. CASE CallEnds(c)
  <2>1. /\ life[c] = "on" /\ life' = [life EXCEPT ![c] = "over"] /\ Publish(<<"end", c>>)
        /\ late' = IF online THEN late ELSE late \cup {c}
        /\ asks' = asks
    BY <1>4 DEF CallEnds
  <2>2. \A s, d : /\ Pending(s, d)' => Pending(s, d) \/ <<"end", c>> = <<s, d>>
                  /\ Pending(s, d) => Pending(s, d)'
                  /\ online /\ <<"end", c>> = <<s, d>> => Pending(s, d)'
    BY <1>0, <2>1, PendingPublish
  <2>3. \A d \in RingCalls : /\ d # c => life'[d] = life[d]
                             /\ Pending("start", d)' => Pending("start", d)
                             /\ life'[d] = "none" => life[d] = "none" /\ d # c
    BY <1>0, <2>1, <2>2
  <2>4. \A d \in RingCalls : Announces(d)' => Announces(d)
    BY <1>1, <2>3, AnnouncesLess
  <2>5. Begun'
    BY <1>0, <1>1, <2>1, <2>2, <2>3, <2>4 DEF Begun
  <2>6. Current'
    <3> SUFFICES ASSUME NEW d \in RingCalls, d \notin late', Announces(d)'
                 PROVE  d \notin n'.dismissed /\ (life'[d] = "over" => Pending("end", d)')
      BY DEF Current
    <3>1. d \notin late /\ Announces(d)
      BY <2>1, <2>4
    <3>2. d \notin n.dismissed /\ (life[d] = "over" => Pending("end", d))
      BY <1>0, <3>1 DEF Current
    <3>3. CASE d = c
      BY <1>1, <2>1, <2>2, <3>2, <3>3
    <3>4. CASE d # c
      BY <1>1, <2>2, <2>3, <3>2, <3>4
    <3> QED BY <3>3, <3>4
  <2> QED BY <2>5, <2>6
<1> QED BY <1>2, <1>3, <1>4

LEMMA NewsAnnounced ==
    ASSUME NewsInv, NEW c \in RingCalls,
           handleCallStart(c) \/ ChannelLoaded(c) \/ CallerLoaded(c)
    PROVE  Begun' /\ Current'
<1>0. /\ evts \in Seq(Messages) /\ Begun /\ Current /\ n \in Notifications /\ prefs.ringing \in BOOLEAN
      /\ {c} \in SUBSET RingCalls /\ profs \in [RingCalls -> Nat]
  BY DEF NewsInv, RingInv, Surroundings
<1>1. /\ UNCHANGED <<life, fetch, modal, late, asks>>
      /\ UNCHANGED evts \/ Event("start", c)
  BY DEF handleCallStart, ChannelLoaded, CallerLoaded
<1>2. \A t, d : /\ Pending(t, d)' => Pending(t, d)
                /\ t # "start" /\ Pending(t, d) => Pending(t, d)'
  <2>1. CASE UNCHANGED evts
    BY <2>1 DEF Pending
  <2>2. CASE Event("start", c)
    BY <1>0, <2>2, PendingTail DEF Event
  <2> QED BY <1>1, <2>1, <2>2
<1>3. ASSUME n'.incoming \subseteq n.incoming \cup {c}, n'.dismissed = n.dismissed,
             chans' \subseteq chans \cup {c},
             \A d \in RingCalls : profs'[d] > 0 => profs[d] > 0 \/ d = c,
             Announces(c)
      PROVE  Begun' /\ Current'
  <2>1. \A d \in RingCalls : Announces(d)' => Announces(d)
    BY <1>1, <1>2, <1>3 DEF Announces
  <2> QED BY <1>0, <1>1, <1>2, <1>3, <2>1, NewsKept
<1>4. CASE handleCallStart(c)
  <2> DEFINE m == [n EXCEPT !.sent[c] = IF desktopNotificationHandler(prefs.ringing) THEN @ + 1 ELSE @]
  <2>1. /\ Event("start", c)
        /\ \/ n' = m /\ chans' \subseteq chans \cup {c} /\ UNCHANGED profs
           \/ incomingCallOnChannel(m, {c}) /\ UNCHANGED chans
    BY <1>4 DEF handleCallStart
  <2>2. m \in Notifications /\ m.incoming = n.incoming /\ m.dismissed = n.dismissed
    <3> DEFINE sent == [n.sent EXCEPT ![c] = IF desktopNotificationHandler(prefs.ringing) THEN @ + 1 ELSE @]
    <3>1. n.sent \in [RingCalls -> Nat]
      BY <1>0 DEF Notifications
    <3>2. sent \in [RingCalls -> Nat]
      BY <3>1
    <3>3. m = [n EXCEPT !.sent = sent]
      OBVIOUS
    <3> HIDE DEF m, sent
    <3> QED BY <1>0, <3>2, <3>3 DEF Notifications
  <2> HIDE DEF m
  <2>3. Announces(c)
    <3>1. 1 \in DOMAIN evts /\ evts[1] = <<"start", c>>
      BY <1>0, <2>1, SeqFacts DEF Event
    <3> QED BY <3>1 DEF Announces, Pending
  <2>4. CASE n' = m /\ chans' \subseteq chans \cup {c} /\ UNCHANGED profs
    BY <1>3, <2>2, <2>3, <2>4
  <2>5. CASE incomingCallOnChannel(m, {c}) /\ UNCHANGED chans
    <3>1. /\ n'.incoming \subseteq m.incoming \cup {c} /\ n'.dismissed = m.dismissed
          /\ \A d \in RingCalls : profs'[d] > 0 => profs[d] > 0 \/ d \in {c}
      BY <1>0, <2>2, <2>5, AnnouncedSets
    <3> QED BY <1>3, <2>2, <2>3, <2>5, <3>1
  <2> QED BY <2>1, <2>4, <2>5
<1>5. CASE ChannelLoaded(c)
  <2>1. c \in chans /\ chans' = chans \ {c} /\ incomingCallOnChannel(n, {c})
    BY <1>5 DEF ChannelLoaded
  <2>2. /\ n'.incoming \subseteq n.incoming \cup {c} /\ n'.dismissed = n.dismissed
        /\ \A d \in RingCalls : profs'[d] > 0 => profs[d] > 0 \/ d \in {c}
    BY <1>0, <2>1, AnnouncedSets
  <2>3. Announces(c)
    BY <2>1 DEF Announces
  <2> QED BY <1>3, <2>1, <2>2, <2>3
<1>6. CASE CallerLoaded(c)
  <2> DEFINE m == ADD_INCOMING_CALL(n, c)
  <2>1. /\ profs[c] > 0 /\ profs' = [profs EXCEPT ![c] = @ - 1] /\ chans' = chans
        /\ Then(m, conn)
    BY <1>6 DEF CallerLoaded
  <2>2. m \in Notifications /\ m.incoming = n.incoming \cup {c} /\ m.dismissed = n.dismissed
    BY <1>0 DEF ADD_INCOMING_CALL, Notifications
  <2> HIDE DEF m
  <2>3. n'.incoming = m.incoming /\ n'.dismissed = m.dismissed
    BY <2>1, <2>2, ThenSets
  <2>4. Announces(c) /\ \A d \in RingCalls : profs'[d] > 0 => profs[d] > 0 \/ d = c
    BY <1>0, <2>1 DEF Announces
  <2> QED BY <1>3, <2>1, <2>2, <2>3, <2>4
<1> QED BY <1>4, <1>5, <1>6

\* A call that is taken away and that nothing was expected to announce is not
\* announced by anything afterwards.
LEMMA NothingExpected ==
    ASSUME NEW c \in RingCalls, ~Expected(c), c \notin n'.incoming,
           UNCHANGED <<chans, profs, fetch>>, Pending("start", c)' => Pending("start", c)
    PROVE  ~Announces(c)'
  BY DEF Expected, Announces, Pending

\* A step that announces nothing and dismisses at most call c.
LEMMA NewsTaken ==
    ASSUME NewsInv, NEW c \in RingCalls, UNCHANGED <<life, chans, profs, fetch>>, late \subseteq late',
           n'.incoming \subseteq n.incoming,
           \/ n'.dismissed = n.dismissed
           \/ /\ n'.dismissed = n.dismissed \cup {c} /\ c \notin n'.incoming /\ life[c] # "none"
              /\ Expected(c) => c \in late',
           \A d \in RingCalls : modal' = d => modal = d \/ life[d] # "none",
           \A d \in RingCalls : <<"dismiss", d>> \in asks' => <<"dismiss", d>> \in asks \/ life[d] # "none",
           \/ UNCHANGED evts
           \/ /\ \E t \in {"dismissed", "joined", "end"} : Event(t, c)
              /\ Event("end", c) => c \in late' \/ ~Announces(c)'
    PROVE  Begun' /\ Current'
<1>0. evts \in Seq(Messages) /\ Begun /\ Current
  BY DEF NewsInv, RingInv, Surroundings
<1>1. /\ \A t, d : Pending(t, d)' => Pending(t, d)
      /\ \A d \in RingCalls : Pending("end", d) => Pending("end", d)' \/ d \in late' \/ ~Announces(d)'
  <2>1. CASE UNCHANGED evts
    BY <2>1 DEF Pending
  <2>2. CASE /\ \E t \in {"dismissed", "joined", "end"} : Event(t, c)
             /\ Event("end", c) => c \in late' \/ ~Announces(c)'
    <3>1. evts # <<>> /\ evts' = Tail(evts)
      BY <2>2 DEF Event
    <3>2. \A t, d : /\ Pending(t, d)' => Pending(t, d)
                    /\ Pending(t, d) => Pending(t, d)' \/ Head(evts) = <<t, d>>
      BY <1>0, <3>1, PendingTail
    <3>3. ASSUME NEW d \in RingCalls, Head(evts) = <<"end", d>> PROVE d \in late' \/ ~Announces(d)'
      BY <2>2, <3>3 DEF Event
    <3> QED BY <3>2, <3>3
  <2> QED BY <2>1, <2>2
<1>2. \A d \in RingCalls : Announces(d)' => Announces(d)
  BY <1>1, AnnouncesLess
<1>3. \A d \in RingCalls :
         d \in n'.dismissed => d \in n.dismissed \/ (life[d] # "none" /\ (d \in late' \/ ~Announces(d)'))
  <2>1. CASE n'.dismissed = n.dismissed
    BY <2>1
  <2>2. CASE /\ n'.dismissed = n.dismissed \cup {c} /\ c \notin n'.incoming /\ life[c] # "none"
             /\ Expected(c) => c \in late'
    BY <1>1, <2>2, NothingExpected
  <2> QED BY <2>1, <2>2
<1> QED BY <1>0, <1>1, <1>2, <1>3, NewsKept

LEMMA NewsCalmed ==
    ASSUME NewsInv, NEW c \in RingCalls,
           \/ onDismiss(c) \/ onJoin(c) \/ onContainerClick(c) \/ Connects(c)
           \/ handleUserJoined(c) \/ handleUserDismissedNotification(c) \/ handleCallEnd(c)
           \/ RingTimer(c) \/ joinCall \/ ClientCloses \/ hideSwitchCallModal
    PROVE  Begun' /\ Current'
<1>0. /\ n \in Notifications /\ evts \in Seq(Messages) /\ Begun /\ modal \in 0 .. NumCalls
      /\ prefs.ringing \in BOOLEAN
  BY DEF NewsInv, RingInv, Surroundings
<1>1. ASSUME c \in n.incoming PROVE life[c] # "none"
  BY <1>0, <1>1 DEF Begun, Announces
<1>2. ASSUME NEW d \in RingCalls, NEW e, Then(dismissIncomingCallNotification(n, d), e)
      PROVE  n'.incoming = n.incoming \ {d} /\ n'.dismissed = n.dismissed \cup {d}
  <2> DEFINE m == dismissIncomingCallNotification(n, d)
  <2>1. m \in Notifications /\ m.incoming = n.incoming \ {d} /\ m.dismissed = n.dismissed \cup {d}
    BY <1>0, TakenSets
  <2>2. Then(m, e)
    BY <1>2
  <2> HIDE DEF m
  <2> QED BY <2>1, <2>2, ThenSets
<1>3. CASE onDismiss(c)
  BY <1>1, <1>2, <1>3, NewsTaken DEF onDismiss
<1>4. CASE onJoin(c)
  <2>1. UNCHANGED <<life, evts, fetch, chans, profs>> /\ life[c] # "none"
    BY <1>1, <1>4 DEF onJoin
  <2>2. CASE conn # 0
    <3>1. modal' = c /\ Then(notificationsStopRinging(n), conn) /\ UNCHANGED <<asks, late>>
      BY <1>4, <2>2 DEF onJoin
    <3>2. n'.incoming = n.incoming /\ n'.dismissed = n.dismissed
      BY <1>0, <3>1, ThenSets, TakenSets
    <3> QED BY <2>1, <3>1, <3>2, NewsTaken
  <2>3. CASE conn = 0
    <3> DEFINE s == notificationsStopRinging(n)
    <3>1. /\ modal' = modal /\ Then(dismissIncomingCallNotification(s, c), c)
          /\ asks' = asks \cup {<<"dismiss", c>>, <<"join", c>>}
          /\ late' = IF Expected(c) \/ fetch.at = "sent" THEN late \cup {c} ELSE late
      BY <1>4, <2>3 DEF onJoin
    <3>2. s \in Notifications /\ s.incoming = n.incoming /\ s.dismissed = n.dismissed
      BY <1>0, TakenSets
    <3> HIDE DEF s
    <3>3. n'.incoming = n.incoming \ {c} /\ n'.dismissed = n.dismissed \cup {c}
      BY <3>1, <3>2, ThenSets, TakenSets
    <3> QED BY <2>1, <3>1, <3>3, NewsTaken
  <2> QED BY <2>2, <2>3
<1>5. CASE onContainerClick(c)
  <2>1. n'.incoming = n.incoming /\ n'.dismissed = n.dismissed
    BY <1>0, <1>5, ThenSets, TakenSets DEF onContainerClick
  <2> QED BY <1>5, <2>1, NewsTaken DEF onContainerClick
<1>6. CASE Connects(c) \/ ClientCloses
  <2>1. n'.incoming = n.incoming /\ n'.dismissed = n.dismissed
    BY <1>0, <1>6, ThenSets DEF Connects, ClientCloses
  <2>2. /\ UNCHANGED <<life, chans, profs, fetch, evts, modal, late>>
        /\ asks' \subseteq asks \cup {<<"join", c>>}
    BY <1>6 DEF Connects, ClientCloses
  <2> QED BY <2>1, <2>2, NewsTaken
<1>7. CASE hideSwitchCallModal
  <2>1. UNCHANGED <<life, chans, profs, fetch, evts, n, asks, late>> /\ modal' = 0
    BY <1>7 DEF hideSwitchCallModal
  <2>2. \A d \in RingCalls : modal' # d
    BY <2>1 DEF RingCalls
  <2> QED BY <2>1, <2>2, NewsTaken
<1>8. CASE joinCall
  <2>1. /\ modal # 0 /\ modal' = 0 /\ UNCHANGED <<life, evts, fetch, chans, profs>>
        /\ asks' = asks \cup {<<"dismiss", modal>>, <<"join", modal>>}
        /\ late' = IF Expected(modal) \/ fetch.at = "sent" THEN late \cup {modal} ELSE late
        /\ Then(dismissIncomingCallNotification(n, modal), modal)
    BY <1>8 DEF joinCall
  <2>2. modal \in RingCalls /\ \A d \in RingCalls : modal' # d
    BY <1>0, <2>1 DEF RingCalls
  <2>3. life[modal] # "none"
    BY <1>0, <2>2 DEF Begun
  <2>4. n'.incoming = n.incoming \ {modal} /\ n'.dismissed = n.dismissed \cup {modal}
    BY <1>2, <2>1, <2>2
  <2> QED BY <2>1, <2>2, <2>3, <2>4, NewsTaken
<1>9. CASE handleUserDismissedNotification(c)
  <2>1. /\ Event("dismissed", c) /\ Took(c) /\ UNCHANGED <<life, fetch, chans, profs, asks, modal>>
        /\ Then(dismissIncomingCallNotification(n, c), conn)
    BY <1>9 DEF handleUserDismissedNotification
  <2>2. n'.incoming = n.incoming \ {c} /\ n'.dismissed = n.dismissed \cup {c}
    BY <1>2, <2>1
  <2>3. life[c] # "none"
    <3>1. 1 \in DOMAIN evts /\ evts[1] = <<"dismissed", c>>
      BY <1>0, <2>1, SeqFacts DEF Event
    <3> QED BY <1>0, <3>1 DEF Begun, Pending
  <2>4. late \subseteq late' /\ (Expected(c) => c \in late') /\ ~Event("end", c)
    BY <2>1 DEF Took, Event
  <2> QED BY <2>1, <2>2, <2>3, <2>4, NewsTaken
<1>10. CASE handleUserJoined(c)
  <2>1. Event("joined", c) /\ UNCHANGED <<life, fetch, chans, profs, asks, modal>>
    BY <1>10 DEF handleUserJoined
  <2>2. late \subseteq late' /\ ~Event("end", c)
    BY <1>10, <2>1 DEF handleUserJoined, Took, Event
  <2>3. n'.incoming \subseteq n.incoming /\ n'.dismissed = n.dismissed
    <3>1. CASE prefs.ringing
      <4>1. PICK p \in {removeIncomingCallNotification(n, c), n} : Then(notificationsStopRinging(p), conn)
        BY <1>10, <3>1 DEF handleUserJoined
      <4>2. p \in Notifications /\ p.incoming \subseteq n.incoming /\ p.dismissed = n.dismissed
        BY <1>0, TakenSets, ZenonT(40)
      <4> QED BY <4>1, <4>2, ThenSets, TakenSets
    <3>2. CASE ~prefs.ringing
      BY <1>10, <3>2 DEF handleUserJoined
    <3> QED BY <1>0, <3>1, <3>2
  <2> QED BY <2>1, <2>2, <2>3, NewsTaken
<1>11. CASE handleCallEnd(c)
  <2>1. Event("end", c) /\ Took(c) /\ UNCHANGED <<life, fetch, chans, profs, asks, modal>>
    BY <1>11 DEF handleCallEnd
  <2>2. late \subseteq late' /\ (Expected(c) => c \in late')
    BY <2>1 DEF Took
  <2>3. /\ n'.incoming \subseteq n.incoming /\ n'.dismissed = n.dismissed
        /\ c \in known => c \notin n'.incoming
    <3>1. PICK d : Then(IF c \in known THEN removeIncomingCallNotification(n, c) ELSE n, d)
      BY <1>11 DEF handleCallEnd
    <3>2. CASE c \in known
      <4> DEFINE m == removeIncomingCallNotification(n, c)
      <4>1. m \in Notifications /\ m.incoming = n.incoming \ {c} /\ m.dismissed = n.dismissed
        BY <1>0, TakenSets
      <4>2. Then(m, d)
        BY <3>1, <3>2
      <4> HIDE DEF m
      <4> QED BY <4>1, <4>2, ThenSets
    <3>3. CASE c \notin known
      BY <1>0, <3>1, <3>3, ThenSets
    <3> QED BY <3>2, <3>3
  <2>4. c \in late' \/ ~Announces(c)'
    <3>1. CASE Expected(c)
      BY <2>2, <3>1
    <3>2. CASE ~Expected(c)
      <4>1. c \in known
        BY <3>2 DEF Expected
      <4>2. Pending("start", c)' => Pending("start", c)
        BY <1>0, <2>1, PendingTail DEF Event
      <4> QED BY <2>1, <2>3, <3>2, <4>1, <4>2, NothingExpected
    <3> QED BY <3>1, <3>2
  <2> QED BY <2>1, <2>2, <2>3, <2>4, NewsTaken
<1>12. CASE RingTimer(c)
  <2> DEFINE ts == n.timers \ {c}
             o == [n EXCEPT !.timers = ts]
  <2>1. Then(stopRingingForCall(o, c), conn) /\ UNCHANGED <<life, evts, fetch, chans, profs, asks, modal, late>>
    BY <1>12 DEF RingTimer
  <2>2. ts \in SUBSET RingCalls
    BY <1>0 DEF Notifications
  <2> HIDE DEF ts
  <2>3. o \in Notifications /\ o.incoming = n.incoming /\ o.dismissed = n.dismissed
    BY <1>0, <2>2 DEF Notifications
  <2> HIDE DEF o
  <2>4. n'.incoming = n.incoming /\ n'.dismissed = n.dismissed
    BY <2>1, <2>3, ThenSets, TakenSets
  <2> QED BY <2>1, <2>4, NewsTaken
<1> QED BY <1>3, <1>4, <1>5, <1>6, <1>7, <1>8, <1>9, <1>10, <1>11, <1>12

LEMMA NewsReconnected ==
    ASSUME NewsInv, RingDrop \/ RingReconnect \/ ChannelsAnswered \/ fetchChannels
    PROVE  Begun' /\ Current'
<1> USE DEF Rest
<1>0. /\ n \in Notifications /\ Begun /\ Current /\ fetch.calls \subseteq RingCalls
      /\ fetch = [at |-> fetch.at, calls |-> fetch.calls, skip |-> fetch.skip]
      /\ prefs.ringing \in BOOLEAN
  BY DEF NewsInv, RingInv, Surroundings
<1>1. CASE RingDrop
  <2>1. /\ UNCHANGED <<life, n, chans, profs, fetch, modal, asks>> /\ evts' = <<>>
        /\ late' = late \cup {c \in RingCalls : \E i \in DOMAIN evts : evts[i] \in {<<"end", c>>, <<"dismissed", c>>}}
    BY <1>1 DEF RingDrop
  <2>2. \A t, c : ~Pending(t, c)'
    BY <2>1 DEF Pending
  <2>3. \A c \in RingCalls : Pending("end", c) => c \in late'
    BY <2>1 DEF Pending
  <2>4. \A c \in RingCalls : Announces(c)' => Announces(c)
    BY <2>1, <2>2, AnnouncesLess
  <2> QED BY <1>0, <2>1, <2>2, <2>3, <2>4, NewsKept
<1>2. CASE RingReconnect
  <2>1. UNCHANGED <<life, evts, n, chans, profs, modal, asks, late>> /\ fetch'.at = "sent"
    BY <1>2 DEF RingReconnect
  <2>2. \A t, c : Pending(t, c)' <=> Pending(t, c)
    BY <2>1 DEF Pending
  <2>3. \A c \in RingCalls : Announces(c)' => Announces(c)
    BY <2>1, <2>2 DEF Announces
  <2> QED BY <1>0, <2>1, <2>2, <2>3, NewsKept
<1>3. CASE ChannelsAnswered
  <2> DEFINE on == {c \in RingCalls : life[c] = "on" /\ c # fetch.skip}
  <2>1. /\ UNCHANGED <<life, evts, n, chans, profs, modal, asks>>
        /\ fetch' = [fetch EXCEPT !.at = "got", !.calls = on \ posted]
        /\ late' = late \cup ((on \cap n.dismissed) \ posted)
    BY <1>3 DEF ChannelsAnswered
  <2>2. fetch'.calls = on \ posted
    BY <1>0, <2>1
  <2>3. \A t, c : Pending(t, c)' <=> Pending(t, c)
    BY <2>1 DEF Pending
  <2>4. \A c \in RingCalls : Announces(c)' => Announces(c) \/ (life[c] = "on" /\ c \in on \ posted)
    BY <2>1, <2>2, <2>3 DEF Announces
  <2>5. Begun'
    BY <1>0, <2>1, <2>3, <2>4 DEF Begun
  <2>6. Current'
    <3> SUFFICES ASSUME NEW c \in RingCalls, c \notin late', Announces(c)'
                 PROVE  c \notin n.dismissed /\ (life[c] = "over" => Pending("end", c))
      BY <2>1, <2>3 DEF Current
    <3>1. CASE Announces(c)
      BY <1>0, <2>1, <3>1 DEF Current
    <3>2. CASE life[c] = "on" /\ c \in on \ posted
      BY <2>1, <3>2
    <3> QED BY <2>4, <3>1, <3>2
  <2> QED BY <2>5, <2>6
<1>4. CASE fetchChannels
  <2>1. /\ UNCHANGED <<life, evts, chans, modal, asks, late>> /\ fetch.at = "got"
        /\ fetch' = [fetch EXCEPT !.at = "done", !.calls = {}]
        /\ IF prefs.ringing THEN incomingCallOnChannel(n, fetch.calls \ known) ELSE UNCHANGED <<profs, n>>
    BY <1>4 DEF fetchChannels
  <2>2. /\ n'.incoming \subseteq n.incoming \cup fetch.calls /\ n'.dismissed = n.dismissed
        /\ \A c \in RingCalls : profs'[c] > 0 => profs[c] > 0 \/ c \in fetch.calls
    <3>1. CASE prefs.ringing
      <4>1. fetch.calls \ known \in SUBSET RingCalls /\ incomingCallOnChannel(n, fetch.calls \ known)
        BY <1>0, <2>1, <3>1
      <4> QED BY <1>0, <4>1, AnnouncedSets
    <3>2. CASE ~prefs.ringing
      BY <2>1, <3>2
    <3> QED BY <1>0, <3>1, <3>2
  <2>3. \A t, c : Pending(t, c)' <=> Pending(t, c)
    BY <2>1 DEF Pending
  <2>4. fetch'.at # "got"
    BY <1>0, <2>1
  <2>5. \A c \in RingCalls : Announces(c)' => Announces(c)
    BY <2>1, <2>2, <2>3, <2>4 DEF Announces
  <2> QED BY <1>0, <2>1, <2>2, <2>3, <2>5, NewsKept
<1> QED BY <1>1, <1>2, <1>3, <1>4

LEMMA NewsNext == ASSUME NumCalls \in Nat PROVE NewsInv /\ [RingNext]_ringVars => NewsInv'
<1> SUFFICES ASSUME NewsInv, [RingNext]_ringVars PROVE NewsInv'
  OBVIOUS
<1>0. RingInv'
  BY RingInvNext DEF NewsInv
<1>1. CASE UNCHANGED ringVars
  BY <1>0, <1>1 DEF ringVars, NewsInv, Begun, Current, Announces, Pending
<1>2. CASE \E c \in RingCalls :
             \/ CallStarts(c) \/ CallEnds(c) \/ DismissalArrives(c) \/ DismissedElsewhere(c)
             \/ JoinHandled(c)
  BY <1>0, <1>2, NewsServer DEF NewsInv
<1>3. CASE \E c \in RingCalls : handleCallStart(c) \/ ChannelLoaded(c) \/ CallerLoaded(c)
  BY <1>0, <1>3, NewsAnnounced DEF NewsInv
<1>4. CASE \E c \in RingCalls :
             \/ onDismiss(c) \/ onJoin(c) \/ onContainerClick(c) \/ Connects(c)
             \/ handleUserJoined(c) \/ handleUserDismissedNotification(c) \/ handleCallEnd(c)
             \/ RingTimer(c)
  BY <1>0, <1>4, NewsCalmed DEF NewsInv
<1>5. CASE joinCall \/ ClientCloses \/ hideSwitchCallModal
  <2>1. PICK c : c \in RingCalls
    <3>1. modal \in 0 .. NumCalls /\ conn \in 0 .. NumCalls /\ (modal # 0 \/ conn # 0)
      BY <1>5 DEF joinCall, ClientCloses, hideSwitchCallModal, NewsInv, RingInv, Surroundings
    <3> QED BY <3>1 DEF RingCalls
  <2> QED BY <1>0, <1>5, <2>1, NewsCalmed DEF NewsInv
<1>6. CASE RingDrop \/ RingReconnect \/ ChannelsAnswered \/ fetchChannels
  BY <1>0, <1>6, NewsReconnected DEF NewsInv
<1> QED BY <1>1, <1>2, <1>3, <1>4, <1>5, <1>6 DEF RingNext

\* A call that is announced is on and was not dismissed, once the events have
\* arrived: callEnd, handleUserDismissedNotification and the answers of GET
\* /channels leave no stale notification, but for the calls that something was
\* under way to announce when they were taken away or whose end was missed.
THEOREM AnnouncedCallIsOn == RingSpec => []AnnouncedIsOn
<1>1. RingInit => NewsInv
  <2> SUFFICES ASSUME RingInit PROVE NewsInv
    OBVIOUS
  <2>1. \A c \in RingCalls : ~Announces(c) /\ modal # c /\ \A t : ~Pending(t, c)
    BY DEF RingInit, Announces, Pending, RingCalls
  <2>2. n.dismissed = {} /\ asks = {}
    BY DEF RingInit
  <2> QED BY <2>1, <2>2, RingAssumption, RingInvInit DEF NewsInv, Begun, Current
<1>2. NewsInv => AnnouncedIsOn
  <2> SUFFICES ASSUME NewsInv, evts = <<>>, NEW c \in n.incoming \ late
               PROVE  life[c] = "on" /\ c \notin n.dismissed
    BY DEF AnnouncedIsOn
  <2>1. c \in RingCalls /\ life[c] \in {"none", "on", "over"} /\ Announces(c) /\ ~Pending("end", c)
    BY DEF NewsInv, RingInv, Notifications, Surroundings, Announces, Pending
  <2> QED BY <2>1 DEF NewsInv, Begun, Current
<1> QED BY <1>1, <1>2, RingAssumption, NewsNext, PTL DEF RingSpec
=============================================================================

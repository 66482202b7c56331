--------------------------- MODULE CallJobsProofs ---------------------------
(***************************************************************************)
(* Proofs about the jobs of a channel: recording, transcription, captions, *)
(* their bots and what the clients are told keep to each other, for any    *)
(* number of calls, recordings and requests, whatever fails.               *)
(***************************************************************************)
EXTENDS CallJobs, FiniteSetTheorems, SequenceTheorems, TLAPS

-----------------------------------------------------------------------------
(* The inductive invariant *)

Kinds == {"rec", "tr", "lc"}
Tolds == {"off", "init", "on"}
Rows == [k : Kinds, call : Nat, job : Nat, conn : Nat \X Nat, start : Nat, ended : BOOLEAN]
Bots == [st : {"none", "way", "in", "gone"}, id : {1, 2}, ends : BOOLEAN]
Requests == [at : {"rec", "tr"}, run : Nat, rec : Nat, res : {"wait", "ok", "err"}, shown : Tolds]
States == [rows : Seq(Rows), bots : Seq(Bots), told : Tolds]

Typed ==
    /\ call \in [id : Nat, on : BOOLEAN, users : BOOLEAN] /\ (call.users => call.on)
    /\ rows \in Seq(Rows) /\ bots \in Seq(Bots) /\ told \in Tolds /\ Len(bots) = Len(rows)
    /\ \A r \in DOMAIN rows : rows[r].call <= call.id
    /\ reqs \subseteq Requests

\* The active jobs of a kind.
Active(k) == ActiveJobs(Locked, k)

\* A request runs the bot of its own row, which has not been run before.
Requested ==
    \A q \in reqs :
       /\ q.run \in DOMAIN rows /\ rows[q.run].k = q.at
       /\ q.res # "ok" => bots[q.run].st = "none"
       /\ \A p \in reqs : p.run = q.run => p = q

\* Captions have no bot of their own.
Bare == \A r \in DOMAIN rows : rows[r].k = "lc" => cfg = "lc" /\ bots[r].st = "none"

Single == \A k \in {"rec", "tr"} : \A r, q \in Active(k) : r = q

\* Without overlapping requests, a request finds its own jobs.
Apart ==
    "overlap" \notin past =>
       /\ \A p, q \in reqs : p = q
       /\ Active("tr") # {} => Active("rec") # {}
       /\ \A q \in reqs : q.at = "rec" =>
             Active("tr") = {} /\ \A r \in Active("rec") : r = q.run /\ rows[r].job = 0
       /\ \A q \in reqs : q.at = "tr" => \A r \in Active("tr") : r = q.run

\* The captions follow the transcription.
Captioned ==
    "captions" \notin past =>
       \A l \in Active("lc") :
          /\ Active("tr") # {}
          /\ \A m \in Active("lc") : m = l
          /\ \A t \in Active("tr") : rows[l].conn = rows[t].conn /\ (rows[t].start = 0 => rows[l].start = 0)

\* An active job knows the connection of its bot.
Joined ==
    \A r \in Active("rec") \cup Active("tr") :
       /\ rows[r].conn \in {NoConn, <<r, bots[r].id>>}
       /\ bots[r].st = "in" => rows[r].conn = <<r, bots[r].id>>
       /\ "renamed" \notin past => bots[r].id = 1
       /\ rows[r].start # 0 => bots[r].st \in {"in", "gone"}

\* A job without an id is watched by its request; one with an id by its timer,
\* or by the request that goes on with the transcription.
WatchedBy(r) ==
    IF rows[r].job = 0 THEN \E q \in reqs : q.run = r
    ELSE \/ Timer(rows[r].k, rows[r].job) \in timers
         \/ \E q \in reqs : q.at = "tr" /\ rows[r].k = "rec" /\ q.rec = rows[r].job
Watching ==
    {"unchecked", "renamed"} \cap past = {} =>
       \A r \in Active("rec") \cup Active("tr") :
          IF rows[r].start = 0 THEN WatchedBy(r) ELSE bots[r].st = "in"

\* A bot that started and whose job is over has been told to leave.
Stopping ==
    "overlap" \notin past =>
       \A b \in DOMAIN bots :
          InCall(Locked, b) /\ rows[b].ended /\ rows[b].start # 0 => bots[b].ends

JobInv ==
    /\ Typed /\ Requested /\ Bare /\ Single /\ Apart /\ Captioned /\ Joined
    /\ Watching /\ Stopping /\ RecordingTold

-----------------------------------------------------------------------------
(* Ending jobs *)

\* In t the jobs R of s are over, and the bots B that were in the call are told
\* to leave.
Halted(t, s, R, B) ==
    /\ t \in States /\ Len(t.rows) = Len(s.rows) /\ Len(t.bots) = Len(s.bots)
    /\ DOMAIN t.rows = DOMAIN s.rows /\ DOMAIN t.bots = DOMAIN s.bots
    /\ \A r \in DOMAIN s.rows :
          /\ t.rows[r].k = s.rows[r].k /\ t.rows[r].call = s.rows[r].call
          /\ t.rows[r].job = s.rows[r].job /\ t.rows[r].conn = s.rows[r].conn
          /\ t.rows[r].start = s.rows[r].start
          /\ t.rows[r].ended <=> (s.rows[r].ended \/ r \in R)
    /\ \A b \in DOMAIN s.bots :
          /\ t.bots[b].st = s.bots[b].st /\ t.bots[b].id = s.bots[b].id
          /\ s.bots[b].ends \/ (b \in B /\ s.bots[b].st = "in") => t.bots[b].ends

LEMMA StateTypes ==
    ASSUME NEW s \in States
    PROVE  /\ s.rows \in Seq(Rows) /\ s.bots \in Seq(Bots) /\ s.told \in Tolds
           /\ DOMAIN s.rows = 1 .. Len(s.rows) /\ DOMAIN s.bots = 1 .. Len(s.bots)
           /\ Len(s.rows) \in Nat /\ Len(s.bots) \in Nat
           /\ \A r \in DOMAIN s.rows :
                 /\ s.rows[r] \in Rows /\ s.rows[r].k \in Kinds /\ s.rows[r].call \in Nat
                 /\ s.rows[r].job \in Nat /\ s.rows[r].conn \in Nat \X Nat
                 /\ s.rows[r].start \in Nat /\ s.rows[r].ended \in BOOLEAN
           /\ \A b \in DOMAIN s.bots :
                 /\ s.bots[b] \in Bots /\ s.bots[b].st \in {"none", "way", "in", "gone"}
                 /\ s.bots[b].id \in {1, 2} /\ s.bots[b].ends \in BOOLEAN
<1>1. s.rows \in Seq(Rows) /\ s.bots \in Seq(Bots) /\ s.told \in Tolds
  BY DEF States
<1>2. /\ DOMAIN s.rows = 1 .. Len(s.rows) /\ DOMAIN s.bots = 1 .. Len(s.bots)
      /\ Len(s.rows) \in Nat /\ Len(s.bots) \in Nat
      /\ \A r \in DOMAIN s.rows : s.rows[r] \in Rows
      /\ \A b \in DOMAIN s.bots : s.bots[b] \in Bots
  BY <1>1
<1>3. \A r \in DOMAIN s.rows :
         /\ s.rows[r].k \in Kinds /\ s.rows[r].call \in Nat
         /\ s.rows[r].job \in Nat /\ s.rows[r].conn \in Nat \X Nat
         /\ s.rows[r].start \in Nat /\ s.rows[r].ended \in BOOLEAN
  BY <1>2 DEF Rows
<1>4. \A b \in DOMAIN s.bots :
         /\ s.bots[b].st \in {"none", "way", "in", "gone"}
         /\ s.bots[b].id \in {1, 2} /\ s.bots[b].ends \in BOOLEAN
  BY <1>2 DEF Bots
<1> QED BY <1>1, <1>2, <1>3, <1>4

LEMMA ReplacedIn ==
    ASSUME NEW S, NEW f \in Seq(S), NEW i \in DOMAIN f, NEW v \in S
    PROVE  /\ [f EXCEPT ![i] = v] \in Seq(S)
           /\ Len([f EXCEPT ![i] = v]) = Len(f) /\ DOMAIN [f EXCEPT ![i] = v] = DOMAIN f
           /\ \A j \in DOMAIN f : [f EXCEPT ![i] = v][j] = IF j = i THEN v ELSE f[j]
  BY ExceptSeq

\* s with row r, or bot b, changed.
WithRow(s, r, v) == [s EXCEPT !.rows = [s.rows EXCEPT ![r] = v]]
WithBot(s, b, v) == [s EXCEPT !.bots = [s.bots EXCEPT ![b] = v]]

LEMMA WithRowState ==
    ASSUME NEW s \in States, NEW r \in DOMAIN s.rows, NEW v \in Rows, NEW t, t = WithRow(s, r, v)
    PROVE  /\ t \in States /\ Len(t.rows) = Len(s.rows) /\ DOMAIN t.rows = DOMAIN s.rows
           /\ t.bots = s.bots /\ t.told = s.told
           /\ \A q \in DOMAIN s.rows : t.rows[q] = IF q = r THEN v ELSE s.rows[q]
<1> DEFINE f == [s.rows EXCEPT ![r] = v]
<1>1. s.rows \in Seq(Rows)
  BY StateTypes
<1>2. /\ f \in Seq(Rows) /\ Len(f) = Len(s.rows) /\ DOMAIN f = DOMAIN s.rows
      /\ \A q \in DOMAIN s.rows : f[q] = IF q = r THEN v ELSE s.rows[q]
  BY <1>1, ReplacedIn
<1>3. t = [s EXCEPT !.rows = f]
  BY DEF WithRow
<1> HIDE DEF f
<1>4. t \in States /\ t.rows = f /\ t.bots = s.bots /\ t.told = s.told
  BY <1>2, <1>3 DEF States
<1> QED BY <1>2, <1>4

LEMMA WithBotState ==
    ASSUME NEW s \in States, NEW b \in DOMAIN s.bots, NEW v \in Bots, NEW t, t = WithBot(s, b, v)
    PROVE  /\ t \in States /\ Len(t.bots) = Len(s.bots) /\ DOMAIN t.bots = DOMAIN s.bots
           /\ t.rows = s.rows /\ t.told = s.told
           /\ \A c \in DOMAIN s.bots : t.bots[c] = IF c = b THEN v ELSE s.bots[c]
<1> DEFINE f == [s.bots EXCEPT ![b] = v]
<1>1. s.bots \in Seq(Bots)
  BY StateTypes
<1>2. /\ f \in Seq(Bots) /\ Len(f) = Len(s.bots) /\ DOMAIN f = DOMAIN s.bots
      /\ \A c \in DOMAIN s.bots : f[c] = IF c = b THEN v ELSE s.bots[c]
  BY <1>1, ReplacedIn
<1>3. t = [s EXCEPT !.bots = f]
  BY DEF WithBot
<1> HIDE DEF f
<1>4. t \in States /\ t.bots = f /\ t.rows = s.rows /\ t.told = s.told
  BY <1>2, <1>3 DEF States
<1> QED BY <1>2, <1>4

LEMMA HaltedSame ==
    ASSUME NEW s \in States
    PROVE  Halted(s, s, {}, {})
  BY StateTypes DEF Halted

LEMMA HaltedTrans ==
    ASSUME NEW s, NEW t, NEW u, NEW R, NEW B, NEW Q, NEW C, Halted(t, s, R, B), Halted(u, t, Q, C)
    PROVE  Halted(u, s, R \cup Q, B \cup C)
<1>1. u \in States /\ Len(u.rows) = Len(s.rows) /\ Len(u.bots) = Len(s.bots)
      /\ DOMAIN u.rows = DOMAIN s.rows /\ DOMAIN u.bots = DOMAIN s.bots
  BY DEF Halted
<1>2. \A r \in DOMAIN s.rows :
          /\ u.rows[r].k = s.rows[r].k /\ u.rows[r].call = s.rows[r].call
          /\ u.rows[r].job = s.rows[r].job /\ u.rows[r].conn = s.rows[r].conn
          /\ u.rows[r].start = s.rows[r].start
          /\ u.rows[r].ended <=> (s.rows[r].ended \/ r \in R \cup Q)
  BY DEF Halted
<1>3. \A b \in DOMAIN s.bots :
          /\ u.bots[b].st = s.bots[b].st /\ u.bots[b].id = s.bots[b].id
          /\ s.bots[b].ends \/ (b \in B \cup C /\ s.bots[b].st = "in") => u.bots[b].ends
  BY DEF Halted
<1> QED BY <1>1, <1>2, <1>3 DEF Halted

LEMMA HaltedSets ==
    ASSUME NEW s, NEW t, NEW R, NEW B, NEW Q, NEW C, Halted(t, s, R, B),
           R \cap DOMAIN s.rows = Q \cap DOMAIN s.rows, C \cap DOMAIN s.bots \subseteq B
    PROVE  Halted(t, s, Q, C)
<1>1. \A r \in DOMAIN s.rows : r \in R <=> r \in Q
  OBVIOUS
<1>2. \A b \in DOMAIN s.bots : b \in C => b \in B
  OBVIOUS
<1> QED BY <1>1, <1>2 DEF Halted

LEMMA ActiveHalted ==
    ASSUME NEW s, NEW t, NEW R, NEW B, Halted(t, s, R, B), NEW k
    PROVE  ActiveJobs(t, k) = ActiveJobs(s, k) \ R
<1>1. \A r : r \in ActiveJobs(t, k) <=> r \in ActiveJobs(s, k) /\ r \notin R
  BY DEF Halted, ActiveJobs
<1> QED BY <1>1

LEMMA EndHalts ==
    ASSUME NEW s \in States, NEW r \in {0} \cup DOMAIN s.rows
    PROVE  Halted(End(s, r), s, {r}, {}) /\ End(s, r).told = s.told /\ End(s, r).bots = s.bots
<1>0. /\ DOMAIN s.rows = 1 .. Len(s.rows) /\ Len(s.rows) \in Nat
      /\ \A q \in DOMAIN s.rows : s.rows[q] \in Rows
  BY StateTypes
<1>1. CASE r = 0
  <2>1. {0} \cap DOMAIN s.rows = {} \cap DOMAIN s.rows
    BY <1>0
  <2>2. Halted(s, s, {0}, {})
    BY <2>1, HaltedSame, HaltedSets
  <2> QED BY <1>1, <2>2 DEF End
<1>2. CASE r # 0
  <2> DEFINE v == [s.rows[r] EXCEPT !.ended = TRUE]
  <2>1. /\ v \in Rows /\ v.k = s.rows[r].k /\ v.call = s.rows[r].call /\ v.job = s.rows[r].job
        /\ v.conn = s.rows[r].conn /\ v.start = s.rows[r].start /\ v.ended = TRUE
    BY <1>0, <1>2 DEF Rows
  <2>2. End(s, r) = WithRow(s, r, v)
    BY <1>2 DEF End, WithRow
  <2> HIDE DEF v
  <2>3. /\ End(s, r) \in States /\ Len(End(s, r).rows) = Len(s.rows)
        /\ DOMAIN End(s, r).rows = DOMAIN s.rows
        /\ End(s, r).bots = s.bots /\ End(s, r).told = s.told
        /\ \A q \in DOMAIN s.rows : End(s, r).rows[q] = IF q = r THEN v ELSE s.rows[q]
    BY <1>2, <2>1, <2>2, WithRowState
  <2>4. \A q \in DOMAIN s.rows : s.rows[q].ended \in BOOLEAN
    BY StateTypes
  <2> QED BY <2>1, <2>3, <2>4 DEF Halted
<1> QED BY <1>1, <1>2

LEMMA StopHalts ==
    ASSUME NEW s \in States, NEW b \in {0} \cup DOMAIN s.bots
    PROVE  Halted(StopJob(s, b), s, {}, {b}) /\ StopJob(s, b).told = s.told /\ StopJob(s, b).rows = s.rows
<1>0. /\ DOMAIN s.bots = 1 .. Len(s.bots) /\ Len(s.bots) \in Nat
      /\ \A c \in DOMAIN s.bots : s.bots[c] \in Bots
      /\ \A q \in DOMAIN s.rows : s.rows[q].ended \in BOOLEAN
  BY StateTypes
<1>1. CASE b # 0 /\ s.bots[b].st = "in"
  <2> DEFINE v == [s.bots[b] EXCEPT !.ends = TRUE]
  <2>1. v \in Bots /\ v.st = s.bots[b].st /\ v.id = s.bots[b].id /\ v.ends = TRUE
    BY <1>0, <1>1 DEF Bots
  <2>2. StopJob(s, b) = WithBot(s, b, v)
    BY <1>1 DEF StopJob, WithBot
  <2> HIDE DEF v
  <2>3. /\ StopJob(s, b) \in States /\ Len(StopJob(s, b).bots) = Len(s.bots)
        /\ DOMAIN StopJob(s, b).bots = DOMAIN s.bots
        /\ StopJob(s, b).rows = s.rows /\ StopJob(s, b).told = s.told
        /\ \A c \in DOMAIN s.bots : StopJob(s, b).bots[c] = IF c = b THEN v ELSE s.bots[c]
    BY <1>1, <2>1, <2>2, WithBotState
  <2> QED BY <1>0, <2>1, <2>3 DEF Halted
<1>2. CASE ~(b # 0 /\ s.bots[b].st = "in")
  <2>1. StopJob(s, b) = s
    BY <1>2 DEF StopJob
  <2>2. Halted(s, s, {}, {b})
    BY <1>0, <1>2, HaltedSame DEF Halted
  <2> QED BY <2>1, <2>2
<1> QED BY <1>1, <1>2

LEMMA PublishHalts ==
    ASSUME NEW s, NEW t, NEW R, NEW B, Halted(t, s, R, B), NEW what \in Tolds
    PROVE  /\ Halted(Publish(t, what), s, R, B) /\ Publish(t, what).told = what
           /\ Publish(t, what).rows = t.rows /\ Publish(t, what).bots = t.bots
<1>1. t \in States
  BY DEF Halted
<1>2. /\ Publish(t, what) \in States /\ Publish(t, what).told = what
      /\ Publish(t, what).rows = t.rows /\ Publish(t, what).bots = t.bots
  BY <1>1 DEF Publish, States
<1> QED BY <1>2 DEF Halted

-----------------------------------------------------------------------------
(* Stopping a recording or a transcription *)

One(s) == \A k \in {"rec", "tr"} : \A r, q \in ActiveJobs(s, k) : r = q
Captions(s, l) == l = 0 \/ (l \in DOMAIN s.rows /\ s.rows[l].k = "lc")

LEMMA JobFacts ==
    ASSUME NEW s \in States, NEW k
    PROVE  /\ ActiveJobs(s, k) \subseteq DOMAIN s.rows /\ 0 \notin DOMAIN s.rows
           /\ Job(s, k) = 0 <=> ActiveJobs(s, k) = {}
           /\ Job(s, k) # 0 => Job(s, k) \in ActiveJobs(s, k)
           /\ Job(s, k) \in {0} \cup DOMAIN s.rows
<1>1. ActiveJobs(s, k) \subseteq DOMAIN s.rows /\ 0 \notin DOMAIN s.rows
  BY StateTypes DEF ActiveJobs
<1>2. ActiveJobs(s, k) # {} => Job(s, k) \in ActiveJobs(s, k)
  BY DEF Job
<1>3. ActiveJobs(s, k) = {} => Job(s, k) = 0
  BY DEF Job
<1> QED BY <1>1, <1>2, <1>3

LEMMA OneJob ==
    ASSUME NEW s \in States, One(s), NEW k \in {"rec", "tr"}
    PROVE  /\ \A r \in ActiveJobs(s, k) : r = Job(s, k)
           /\ {Job(s, k)} \cap DOMAIN s.rows = ActiveJobs(s, k)
<1>1. \A r \in ActiveJobs(s, k) : r = Job(s, k)
  BY JobFacts DEF One
<1> QED BY <1>1, JobFacts

LEMMA OneKept ==
    ASSUME NEW s, NEW t, NEW R, NEW B, Halted(t, s, R, B), One(s)
    PROVE  One(t)
  BY ActiveHalted DEF One

LEMMA StopTranscriptionHalts ==
    ASSUME NEW s \in States, DOMAIN s.bots = DOMAIN s.rows, One(s), NEW l, Captions(s, l)
    PROVE  /\ Halted(stopTranscription(s, l), s, ActiveJobs(s, "tr") \cup {l}, ActiveJobs(s, "tr"))
           /\ stopTranscription(s, l).told = s.told
<1> DEFINE j == Job(s, "tr")
           t == End(s, j)
           u == End(t, l)
           v == StopJob(u, j)
<1>1. j \in {0} \cup DOMAIN s.rows /\ {j} \cap DOMAIN s.rows = ActiveJobs(s, "tr") /\ l \in {0} \cup DOMAIN s.rows
  BY JobFacts, OneJob DEF Captions
<1>2. stopTranscription(s, l) = v
  BY DEF stopTranscription
<1> HIDE DEF j
<1>3. Halted(t, s, {j}, {}) /\ t.told = s.told /\ t \in States
  BY <1>1, EndHalts DEF Halted
<1> HIDE DEF t
<1>4. l \in {0} \cup DOMAIN t.rows
  BY <1>1, <1>3 DEF Halted
<1>5. Halted(u, t, {l}, {}) /\ u.told = t.told /\ u \in States
  BY <1>3, <1>4, EndHalts DEF Halted
<1> HIDE DEF u
<1>6. j \in {0} \cup DOMAIN u.bots
  BY <1>1, <1>3, <1>5 DEF Halted
<1>7. Halted(v, u, {}, {j}) /\ v.told = u.told
  BY <1>5, <1>6, StopHalts
<1> HIDE DEF v
<1>8. Halted(u, s, {j} \cup {l}, {} \cup {})
  BY <1>3, <1>5, HaltedTrans
<1>9. Halted(v, s, ({j} \cup {l}) \cup {}, ({} \cup {}) \cup {j})
  BY <1>7, <1>8, HaltedTrans
<1>10. Halted(v, s, ActiveJobs(s, "tr") \cup {l}, ActiveJobs(s, "tr"))
  <2>1. (({j} \cup {l}) \cup {}) \cap DOMAIN s.rows = (ActiveJobs(s, "tr") \cup {l}) \cap DOMAIN s.rows
    BY <1>1
  <2>2. ActiveJobs(s, "tr") \cap DOMAIN s.bots \subseteq ({} \cup {}) \cup {j}
    BY <1>1
  <2> QED BY <1>9, <2>1, <2>2, HaltedSets
<1> QED BY <1>2, <1>3, <1>5, <1>7, <1>10

LEMMA StopRecordingHalts ==
    ASSUME NEW s \in States, DOMAIN s.bots = DOMAIN s.rows, One(s), NEW l, Captions(s, l)
    PROVE  /\ ActiveJobs(s, "rec") = {} => stopRecordingJob(s, l) = s
           /\ ActiveJobs(s, "rec") # {} =>
                 /\ Halted(stopRecordingJob(s, l), s,
                           ActiveJobs(s, "rec") \cup (IF ActiveJobs(s, "tr") = {} THEN {} ELSE ActiveJobs(s, "tr") \cup {l}),
                           ActiveJobs(s, "rec") \cup ActiveJobs(s, "tr"))
                 /\ stopRecordingJob(s, l).told = "off"
<1> DEFINE r == Job(s, "rec")
           t == End(s, r)
           a == ActiveJobs(s, "tr")
           e == IF a = {} THEN {} ELSE a \cup {l}
           u == IF Job(t, "tr") = 0 THEN t ELSE stopTranscription(t, l)
           v == StopJob(u, r)
<1>1. /\ r \in {0} \cup DOMAIN s.rows /\ {r} \cap DOMAIN s.rows = ActiveJobs(s, "rec")
      /\ r = 0 <=> ActiveJobs(s, "rec") = {}
  BY JobFacts, OneJob
<1>2. r = 0 => stopRecordingJob(s, l) = s
  BY DEF stopRecordingJob
<1>3. ASSUME r # 0
      PROVE  /\ Halted(stopRecordingJob(s, l), s, ActiveJobs(s, "rec") \cup e, ActiveJobs(s, "rec") \cup a)
             /\ stopRecordingJob(s, l).told = "off"
  <2>1. stopRecordingJob(s, l) = Publish(v, "off")
    BY <1>3 DEF stopRecordingJob
  <2>2. r \in ActiveJobs(s, "rec")
    BY <1>3, JobFacts
  <2> HIDE DEF r
  <2>3. Halted(t, s, {r}, {}) /\ t.told = s.told /\ t \in States
    BY <1>1, EndHalts DEF Halted
  <2> HIDE DEF t
  <2>4. ActiveJobs(t, "tr") = a /\ One(t) /\ DOMAIN t.bots = DOMAIN t.rows /\ Captions(t, l)
    <3>1. r \notin a
      BY <2>2 DEF ActiveJobs
    <3>2. ActiveJobs(t, "tr") = a \ {r} /\ One(t)
      BY <2>3, ActiveHalted, OneKept
    <3>3. DOMAIN t.bots = DOMAIN t.rows /\ Captions(t, l)
      BY <2>3 DEF Halted, Captions
    <3> QED BY <3>1, <3>2, <3>3
  <2>5. Halted(u, t, e, a)
    <3>1. CASE a = {}
      <4>1. Job(t, "tr") = 0
        BY <2>3, <2>4, <3>1, JobFacts
      <4> QED BY <2>3, <3>1, <4>1, HaltedSame
    <3>2. CASE a # {}
      <4>1. Job(t, "tr") # 0
        BY <2>3, <2>4, <3>2, JobFacts
      <4>2. Halted(stopTranscription(t, l), t, a \cup {l}, a)
        BY <2>3, <2>4, StopTranscriptionHalts
      <4> QED BY <3>2, <4>1, <4>2
    <3> QED BY <3>1, <3>2
  <2> HIDE DEF u
  <2>6. u \in States /\ r \in {0} \cup DOMAIN u.bots
    BY <1>1, <2>3, <2>5 DEF Halted
  <2>7. Halted(v, u, {}, {r})
    BY <2>6, StopHalts
  <2> HIDE DEF v, e, a
  <2>8. Halted(u, s, {r} \cup e, {} \cup a)
    BY <2>3, <2>5, HaltedTrans
  <2>9. Halted(v, s, ({r} \cup e) \cup {}, ({} \cup a) \cup {r})
    BY <2>7, <2>8, HaltedTrans
  <2>10. Halted(v, s, ActiveJobs(s, "rec") \cup e, ActiveJobs(s, "rec") \cup a)
    <3>1. (({r} \cup e) \cup {}) \cap DOMAIN s.rows = (ActiveJobs(s, "rec") \cup e) \cap DOMAIN s.rows
      BY <1>1
    <3>2. (ActiveJobs(s, "rec") \cup a) \cap DOMAIN s.bots \subseteq ({} \cup a) \cup {r}
      BY <1>1
    <3> QED BY <2>9, <3>1, <3>2, HaltedSets
  <2> QED BY <2>1, <2>10, PublishHalts DEF Tolds
<1> QED BY <1>1, <1>2, <1>3

LEMMA StopTranscribingHalts ==
    ASSUME NEW s \in States, DOMAIN s.bots = DOMAIN s.rows, One(s), NEW l, Captions(s, l)
    PROVE  /\ ActiveJobs(s, "tr") = {} => stopTranscribingJob(s, l) = s
           /\ ActiveJobs(s, "tr") # {} =>
                 Halted(stopTranscribingJob(s, l), s,
                        (ActiveJobs(s, "tr") \cup {l}) \cup ActiveJobs(s, "rec"),
                        ActiveJobs(s, "tr") \cup ActiveJobs(s, "rec"))
<1> DEFINE t == stopTranscription(s, l)
           u == stopRecordingJob(t, l)
           a == ActiveJobs(s, "tr")
           c == ActiveJobs(s, "rec")
<1>1. a = {} => stopTranscribingJob(s, l) = s
  BY JobFacts DEF stopTranscribingJob
<1>2. ASSUME a # {} PROVE Halted(stopTranscribingJob(s, l), s, (a \cup {l}) \cup c, a \cup c)
  <2>1. stopTranscribingJob(s, l) = u
    BY <1>2, JobFacts DEF stopTranscribingJob
  <2>2. Halted(t, s, a \cup {l}, a)
    BY StopTranscriptionHalts
  <2> HIDE DEF t
  <2>3. t \in States /\ One(t) /\ DOMAIN t.bots = DOMAIN t.rows /\ Captions(t, l)
    <3>1. One(t)
      BY <2>2, OneKept
    <3> QED BY <2>2, <3>1 DEF Halted, Captions
  <2>4. ActiveJobs(t, "tr") = {} /\ ActiveJobs(t, "rec") = c
    <3>1. \A r \in c : r \notin a /\ r # l
      BY StateTypes DEF ActiveJobs, Captions
    <3>2. ActiveJobs(t, "tr") = a \ (a \cup {l}) /\ ActiveJobs(t, "rec") = c \ (a \cup {l})
      BY <2>2, ActiveHalted
    <3> QED BY <3>1, <3>2
  <2>5. Halted(u, t, c, c)
    <3>1. CASE c = {}
      BY <2>3, <2>4, <3>1, HaltedSame, StopRecordingHalts
    <3>2. CASE c # {}
      <4>1. Halted(u, t, c \cup {}, c \cup {})
        BY <2>3, <2>4, <3>2, StopRecordingHalts
      <4> QED BY <4>1, HaltedSets
    <3> QED BY <3>1, <3>2
  <2> HIDE DEF u
  <2> QED BY <2>1, <2>2, <2>5, HaltedTrans
<1> QED BY <1>1, <1>2

-----------------------------------------------------------------------------
(* Steps that end jobs *)

LEMMA LockedState ==
    ASSUME Typed
    PROVE  /\ Locked \in States /\ Locked.rows = rows /\ Locked.bots = bots /\ Locked.told = told
           /\ DOMAIN rows = 1 .. Len(rows) /\ DOMAIN bots = DOMAIN rows /\ Len(rows) \in Nat
           /\ 0 \notin DOMAIN rows
<1>1. Locked \in States /\ Locked.rows = rows /\ Locked.bots = bots /\ Locked.told = told
  BY DEF Typed, Locked, States
<1>2. DOMAIN rows = 1 .. Len(rows) /\ DOMAIN bots = 1 .. Len(bots) /\ Len(rows) \in Nat
  BY DEF Typed
<1> QED BY <1>1, <1>2 DEF Typed

\* Which jobs are active, in the variables.
LEMMA ActiveMeans ==
    \A k : /\ Active(k) \subseteq DOMAIN rows
           /\ \A r \in DOMAIN rows :
                 r \in Active(k) <=> call.on /\ rows[r].k = k /\ rows[r].call = call.id /\ ~rows[r].ended
  BY DEF Active, ActiveJobs, Locked

LEMMA ActiveMeansNext ==
    (\A k : /\ Active(k) \subseteq DOMAIN rows
            /\ \A r \in DOMAIN rows :
                  r \in Active(k) <=> call.on /\ rows[r].k = k /\ rows[r].call = call.id /\ ~rows[r].ended)'
  BY ActiveMeans, PTL

LEMMA ToldMeans ==
    Typed /\ Single =>
       /\ Active("rec") = {} => StateOf(Locked, Job(Locked, "rec")) = "off"
       /\ \A r \in Active("rec") :
             StateOf(Locked, Job(Locked, "rec")) = IF rows[r].start = 0 THEN "init" ELSE "on"
<1> SUFFICES ASSUME Typed, Single
             PROVE  /\ Active("rec") = {} => StateOf(Locked, Job(Locked, "rec")) = "off"
                    /\ \A r \in Active("rec") :
                          StateOf(Locked, Job(Locked, "rec")) = IF rows[r].start = 0 THEN "init" ELSE "on"
  OBVIOUS
<1>1. Locked \in States /\ Locked.rows = rows
  BY LockedState
<1>2. Active("rec") = {} => Job(Locked, "rec") = 0
  BY <1>1, JobFacts DEF Active
<1>3. ASSUME NEW r \in Active("rec") PROVE Job(Locked, "rec") = r /\ r # 0 /\ ~rows[r].ended
  <2>1. Job(Locked, "rec") \in Active("rec") /\ r # 0
    BY <1>1, JobFacts DEF Active
  <2>2. Job(Locked, "rec") = r
    BY <2>1 DEF Single
  <2> QED BY <2>1, <2>2, ActiveMeans
<1> QED BY <1>1, <1>2, <1>3 DEF StateOf

LEMMA ToldMeansNext ==
    (Typed /\ Single =>
       /\ Active("rec") = {} => StateOf(Locked, Job(Locked, "rec")) = "off"
       /\ \A r \in Active("rec") :
             StateOf(Locked, Job(Locked, "rec")) = IF rows[r].start = 0 THEN "init" ELSE "on")'
  BY ToldMeans, PTL

\* The rows R are ended and bots may leave the call.
HaltStep(R) ==
    /\ cfg' = cfg /\ rows' \in Seq(Rows) /\ bots' \in Seq(Bots) /\ told' \in Tolds
    /\ Len(rows') = Len(rows) /\ DOMAIN rows' = DOMAIN rows
    /\ Len(bots') = Len(bots) /\ DOMAIN bots' = DOMAIN bots
    /\ \A r \in DOMAIN rows :
          /\ rows'[r].k = rows[r].k /\ rows'[r].call = rows[r].call /\ rows'[r].job = rows[r].job
          /\ rows'[r].conn = rows[r].conn /\ rows'[r].start = rows[r].start
          /\ rows'[r].ended <=> (rows[r].ended \/ r \in R)
    /\ \A b \in DOMAIN bots :
          /\ bots'[b].id = bots[b].id /\ (bots[b].ends => bots'[b].ends)
          /\ bots'[b].st = bots[b].st \/ (bots[b].st = "in" /\ bots'[b].st = "gone")
    /\ call' \in [id : Nat, on : BOOLEAN, users : BOOLEAN] /\ (call'.users => call'.on)
    /\ call'.id = call.id /\ (call'.on => call.on)
    /\ reqs' \subseteq reqs /\ past \subseteq past'

\* What such a step does not disturb.
LEMMA HaltedTypes ==
    ASSUME JobInv, NEW R, HaltStep(R)
    PROVE  /\ Typed' /\ Requested' /\ Bare' /\ Single' /\ Joined'
           /\ \A k : Active(k)' = IF call'.on THEN Active(k) \ R ELSE {}
<1>0. DOMAIN bots = DOMAIN rows
  BY LockedState DEF JobInv
<1>1. \A k : Active(k)' = IF call'.on THEN Active(k) \ R ELSE {}
  <2> SUFFICES ASSUME NEW k, NEW r PROVE r \in Active(k)' <=> call'.on /\ r \in Active(k) /\ r \notin R
    OBVIOUS
  <2> QED BY ActiveMeans, ActiveMeansNext DEF HaltStep
<1>2. Typed'
  BY DEF JobInv, Typed, HaltStep
<1>3. /\ cfg' = cfg /\ reqs' \subseteq reqs /\ DOMAIN rows' = DOMAIN rows
      /\ \A r \in DOMAIN rows : rows'[r].k = rows[r].k
      /\ \A r \in DOMAIN rows : bots[r].st = "none" => bots'[r].st = "none"
  BY <1>0 DEF HaltStep
<1>4. Requested'
  <2>1. Requested
    BY DEF JobInv
  <2> QED BY <1>3, <2>1 DEF Requested
<1>5. Bare'
  <2>1. Bare
    BY DEF JobInv
  <2> QED BY <1>3, <2>1 DEF Bare
<1>6. Single'
  <2>1. Single
    BY DEF JobInv
  <2> QED BY <1>1, <2>1 DEF Single
<1>7. Joined'
  <2> SUFFICES ASSUME NEW r \in Active("rec")' \cup Active("tr")'
               PROVE  /\ rows'[r].conn \in {NoConn, <<r, bots'[r].id>>}
                      /\ bots'[r].st = "in" => rows'[r].conn = <<r, bots'[r].id>>
                      /\ "renamed" \notin past' => bots'[r].id = 1
                      /\ rows'[r].start # 0 => bots'[r].st \in {"in", "gone"}
    BY DEF Joined
  <2>1. r \in Active("rec") \cup Active("tr") /\ r \in DOMAIN rows
    BY <1>1, ActiveMeans
  <2>2. /\ rows[r].conn \in {NoConn, <<r, bots[r].id>>}
        /\ bots[r].st = "in" => rows[r].conn = <<r, bots[r].id>>
        /\ "renamed" \notin past => bots[r].id = 1
        /\ rows[r].start # 0 => bots[r].st \in {"in", "gone"}
    BY <2>1 DEF JobInv, Joined
  <2> QED BY <1>0, <2>1, <2>2 DEF HaltStep
<1> QED BY <1>1, <1>2, <1>4, <1>5, <1>6, <1>7

LEMMA HaltKeeps ==
    ASSUME JobInv, NEW R, HaltStep(R), RecordingTold',
           "overlap" \notin past' /\ call'.on => (Active("tr") \ R # {} => Active("rec") \ R # {}),
           "captions" \notin past' /\ call'.on => (Active("lc") \ R # {} => Active("tr") \ R # {}),
           {"unchecked", "renamed"} \cap past' = {} /\ call'.on =>
              \A r \in (Active("rec") \cup Active("tr")) \ R :
                 IF rows[r].start = 0 THEN WatchedBy(r)' ELSE bots'[r].st = "in",
           "overlap" \notin past' /\ call'.on =>
              \A b \in R \cap DOMAIN rows :
                 bots'[b].st = "in" /\ ~rows[b].ended /\ rows[b].start # 0 => bots'[b].ends
    PROVE  JobInv'
<1>0. DOMAIN bots = DOMAIN rows
  BY LockedState DEF JobInv
<1>1. /\ Typed' /\ Requested' /\ Bare' /\ Single' /\ Joined'
      /\ \A k : Active(k)' = IF call'.on THEN Active(k) \ R ELSE {}
  BY HaltedTypes
<1>2. Apart'
  <2> SUFFICES ASSUME "overlap" \notin past'
               PROVE  /\ \A p, q \in reqs' : p = q
                      /\ Active("tr")' # {} => Active("rec")' # {}
                      /\ \A q \in reqs' : q.at = "rec" =>
                            Active("tr")' = {} /\ \A r \in Active("rec")' : r = q.run /\ rows'[r].job = 0
                      /\ \A q \in reqs' : q.at = "tr" => \A r \in Active("tr")' : r = q.run
    BY DEF Apart
  <2>1. /\ \A p, q \in reqs : p = q
        /\ \A q \in reqs : q.at = "rec" =>
              Active("tr") = {} /\ \A r \in Active("rec") : r = q.run /\ rows[r].job = 0
        /\ \A q \in reqs : q.at = "tr" => \A r \in Active("tr") : r = q.run
    BY DEF JobInv, Apart, HaltStep
  <2>2. reqs' \subseteq reqs /\ \A r \in Active("rec")' : rows'[r].job = rows[r].job /\ r \in Active("rec")
    BY <1>1, ActiveMeans DEF HaltStep
  <2> QED BY <1>1, <2>1, <2>2
<1>3. Captioned'
  <2> SUFFICES ASSUME "captions" \notin past', NEW l \in Active("lc")'
               PROVE  /\ Active("tr")' # {}
                      /\ \A m \in Active("lc")' : m = l
                      /\ \A t \in Active("tr")' :
                            rows'[l].conn = rows'[t].conn /\ (rows'[t].start = 0 => rows'[l].start = 0)
    BY DEF Captioned
  <2>1. l \in Active("lc") /\ call'.on
    BY <1>1
  <2>2. /\ \A m \in Active("lc") : m = l
        /\ \A t \in Active("tr") : rows[l].conn = rows[t].conn /\ (rows[t].start = 0 => rows[l].start = 0)
    BY <2>1 DEF JobInv, Captioned, HaltStep
  <2>3. l \in DOMAIN rows /\ \A t \in Active("tr")' : t \in DOMAIN rows /\ t \in Active("tr")
    BY <1>1, <2>1, ActiveMeans
  <2>4. Active("tr")' # {} /\ \A m \in Active("lc")' : m = l
    BY <1>1, <2>1, <2>2
  <2>5. \A t \in Active("tr")' :
            rows'[l].conn = rows'[t].conn /\ (rows'[t].start = 0 => rows'[l].start = 0)
    BY <2>2, <2>3 DEF HaltStep
  <2> QED BY <2>4, <2>5
<1>4. Watching'
  <2> SUFFICES ASSUME {"unchecked", "renamed"} \cap past' = {}, NEW r \in Active("rec")' \cup Active("tr")'
               PROVE  IF rows'[r].start = 0 THEN WatchedBy(r)' ELSE bots'[r].st = "in"
    BY DEF Watching
  <2>1. r \in (Active("rec") \cup Active("tr")) \ R /\ call'.on /\ r \in DOMAIN rows
    BY <1>1, ActiveMeans
  <2> QED BY <2>1 DEF HaltStep
<1>5. Stopping'
  <2> SUFFICES ASSUME "overlap" \notin past', NEW b \in DOMAIN bots', bots'[b].st = "in", call'.on,
                      rows'[b].call = call'.id, rows'[b].ended, rows'[b].start # 0
               PROVE  bots'[b].ends
    BY DEF Stopping, InCall, Locked
  <2>1. b \in DOMAIN rows /\ b \in DOMAIN bots /\ bots[b].st = "in" /\ rows[b].call = call.id /\ call.on
        /\ rows[b].start # 0 /\ (rows[b].ended \/ b \in R)
    BY <1>0 DEF HaltStep
  <2>2. CASE rows[b].ended
    <3>1. bots[b].ends
      BY <2>1, <2>2 DEF JobInv, Stopping, InCall, Locked, HaltStep
    <3> QED BY <2>1, <3>1 DEF HaltStep
  <2>3. CASE ~rows[b].ended
    BY <2>1, <2>3
  <2> QED BY <2>2, <2>3
<1> QED BY <1>1, <1>2, <1>3, <1>4, <1>5 DEF JobInv

\* What remains of the call.
CallStill ==
    /\ call' \in [id : Nat, on : BOOLEAN, users : BOOLEAN] /\ (call'.users => call'.on)
    /\ call'.id = call.id /\ (call'.on => call.on)

LEMMA CallSame ==
    ASSUME Typed, call' = call
    PROVE  CallStill
  BY DEF Typed, CallStill

LEMMA SavedHalts ==
    ASSUME Typed, NEW t, NEW R, NEW B, Halted(t, Locked, R, B), Saved(t), CallStill,
           cfg' = cfg, reqs' \subseteq reqs, past \subseteq past'
    PROVE  /\ HaltStep(R) /\ told' = t.told
           /\ \A b \in DOMAIN bots : /\ bots'[b].st = bots[b].st
                                     /\ b \in B /\ bots[b].st = "in" => bots'[b].ends
<1>1. /\ Locked.rows = rows /\ Locked.bots = bots
      /\ rows' = t.rows /\ bots' = t.bots /\ told' = t.told
  BY LockedState DEF Saved
<1>2. t.rows \in Seq(Rows) /\ t.bots \in Seq(Bots) /\ t.told \in Tolds
  BY DEF Halted, States
<1>3. \A b \in DOMAIN bots : /\ bots'[b].st = bots[b].st
                             /\ b \in B /\ bots[b].st = "in" => bots'[b].ends
  BY <1>1 DEF Halted
<1>4. HaltStep(R)
  BY <1>1, <1>2 DEF Halted, HaltStep, CallStill
<1> QED BY <1>1, <1>3, <1>4

LEMMA ToldOff ==
    ASSUME JobInv, NEW R, HaltStep(R), told' = "off", Active("rec") \subseteq R
    PROVE  RecordingTold'
<1>1. Typed' /\ Single' /\ Active("rec")' = {}
  BY HaltedTypes
<1> QED BY <1>1, ToldMeansNext DEF RecordingTold

LEMMA ToldSame ==
    ASSUME JobInv, NEW R, HaltStep(R), told' = told, call'.users => call.users,
           Active("rec") \cap R = {}
    PROVE  RecordingTold'
<1> SUFFICES ASSUME call'.users, past' \cap {"overlap", "unchecked", "timeout", "stale"} = {}
             PROVE  told' = StateOf(Locked, Job(Locked, "rec"))'
  BY DEF RecordingTold
<1>1. /\ Typed' /\ Single' /\ call'.on /\ Typed /\ Single
      /\ Active("rec")' = Active("rec")
  <2>1. call'.on /\ Typed /\ Single
    BY DEF JobInv, HaltStep
  <2>2. Typed' /\ Single' /\ Active("rec")' = Active("rec") \ R
    BY <2>1, HaltedTypes
  <2> QED BY <2>1, <2>2
<1>2. told = StateOf(Locked, Job(Locked, "rec"))
  BY DEF JobInv, RecordingTold, HaltStep
<1>3. CASE Active("rec") = {}
  BY <1>1, <1>2, <1>3, ToldMeans, ToldMeansNext
<1>4. CASE Active("rec") # {}
  <2>1. PICK r : r \in Active("rec")
    BY <1>4
  <2>2. r \in DOMAIN rows /\ rows'[r].start = rows[r].start
    BY <2>1, ActiveMeans DEF HaltStep
  <2>3. told = IF rows[r].start = 0 THEN "init" ELSE "on"
    BY <1>1, <1>2, <2>1, ToldMeans
  <2>4. StateOf(Locked, Job(Locked, "rec"))' = IF rows'[r].start = 0 THEN "init" ELSE "on"
    BY <1>1, <2>1, ToldMeansNext
  <2> QED BY <2>2, <2>3, <2>4
<1> QED BY <1>3, <1>4

\* Who watched a job still does when requests and timers stay.
LEMMA WatchedSame ==
    ASSUME JobInv, NEW R, HaltStep(R), reqs' = reqs, timers' = timers,
           {"unchecked", "renamed"} \cap past' = {}, NEW r \in Active("rec") \cup Active("tr")
    PROVE  IF rows[r].start = 0 THEN WatchedBy(r)' ELSE bots[r].st = "in"
<1>1. IF rows[r].start = 0 THEN WatchedBy(r) ELSE bots[r].st = "in"
  BY DEF JobInv, Watching, HaltStep
<1>2. r \in DOMAIN rows /\ rows'[r].job = rows[r].job /\ rows'[r].k = rows[r].k
  BY ActiveMeans DEF HaltStep
<1> QED BY <1>1, <1>2 DEF WatchedBy

\* The captions job that a handler finds.
LEMMA LiveMeans ==
    ASSUME JobInv, NEW l \in LiveCaptions(Locked)
    PROVE  /\ Captions(Locked, l)
           /\ l = 0 => Active("lc") = {}
           /\ l # 0 => l \in Active("lc")
           /\ "captions" \notin past => Active("lc") \subseteq {l}
<1>1. /\ l = 0 => Active("lc") = {}
      /\ l # 0 => l \in Active("lc")
  <2>1. CASE Active("lc") = {}
    BY <2>1 DEF LiveCaptions, Active
  <2>2. CASE Active("lc") # {}
    <3>1. l \in Active("lc")
      BY <2>2 DEF LiveCaptions, Active
    <3> QED BY <3>1, ActiveMeans, LockedState DEF JobInv
  <2> QED BY <2>1, <2>2
<1>2. "captions" \notin past => Active("lc") \subseteq {l}
  BY <1>1 DEF JobInv, Captioned
<1>3. Captions(Locked, l)
  BY <1>1, ActiveMeans DEF Captions, Locked
<1> QED BY <1>1, <1>2, <1>3

\* The call, users, and what is lost.
LEMMA CallKept ==
    ASSUME JobInv, \/ UsersLeave \/ UserJoins \/ CallCut
                   \/ \E q \in reqs : RequestLost(q)
                   \/ \E t \in timers : TimerLost(t)
    PROVE  JobInv'
<1>0. /\ Typed /\ Single /\ Locked \in States /\ Halted(Locked, Locked, {}, {}) /\ One(Locked)
      /\ DOMAIN bots = DOMAIN rows
      /\ Locked.rows = rows /\ Locked.bots = bots /\ Locked.told = told
  BY LockedState, HaltedSame DEF JobInv, Single, One, Active
<1>1. ASSUME HaltStep({}), RecordingTold', \A b \in DOMAIN bots : bots'[b].st = bots[b].st,
             \/ reqs' = reqs /\ timers' = timers
             \/ "unchecked" \in past'
      PROVE  JobInv'
  <2>1. "overlap" \notin past' => (Active("tr") \ {} # {} => Active("rec") \ {} # {})
    BY <1>1 DEF JobInv, Apart, HaltStep
  <2>2. "captions" \notin past' => (Active("lc") \ {} # {} => Active("tr") \ {} # {})
    BY <1>1 DEF JobInv, Captioned, HaltStep
  <2>3. ASSUME {"unchecked", "renamed"} \cap past' = {}, NEW r \in (Active("rec") \cup Active("tr")) \ {}
        PROVE  IF rows[r].start = 0 THEN WatchedBy(r)' ELSE bots'[r].st = "in"
    <3>1. r \in DOMAIN bots
      BY <1>0, ActiveMeans
    <3>2. IF rows[r].start = 0 THEN WatchedBy(r)' ELSE bots[r].st = "in"
      BY <1>1, <2>3, WatchedSame
    <3> QED BY <1>1, <3>1, <3>2
  <2> QED BY <1>1, <2>1, <2>2, <2>3, HaltKeeps
<1>2. CASE CallCut
  <2>1. CallStill /\ ~call'.on /\ ~call'.users
    BY <1>0, <1>2 DEF CallCut, CallStill, Typed
  <2>2. /\ Saved(Locked) /\ cfg' = cfg /\ reqs' \subseteq reqs /\ past \subseteq past'
        /\ reqs' = reqs /\ timers' = timers
    BY <1>0, <1>2 DEF CallCut, Saved
  <2>3. HaltStep({}) /\ \A b \in DOMAIN bots : bots'[b].st = bots[b].st
    BY <1>0, <2>1, <2>2, SavedHalts
  <2> QED BY <1>1, <2>1, <2>2, <2>3 DEF RecordingTold
<1>3. CASE UserJoins
  <2>1. CallStill /\ call'.on = call.on
    BY <1>0, <1>3 DEF UserJoins, CallStill, Typed
  <2>2. /\ rows' = rows /\ bots' = bots /\ told' = StateOf(Locked, Job(Locked, "rec"))
        /\ cfg' = cfg /\ reqs' = reqs /\ past' = past /\ timers' = timers /\ call.on
    BY <1>0, <1>3 DEF UserJoins
  <2>3. told' \in Tolds
    BY <2>2 DEF StateOf, Tolds
  <2>4. HaltStep({}) /\ \A b \in DOMAIN bots : bots'[b].st = bots[b].st
    BY <1>0, <2>1, <2>2, <2>3 DEF HaltStep, CallStill, Typed
  <2>5. Typed' /\ Single' /\ Active("rec")' = Active("rec")
    BY <2>1, <2>2, <2>4, HaltedTypes
  <2>6. told' = StateOf(Locked, Job(Locked, "rec"))'
    <3>1. CASE Active("rec") = {}
      BY <1>0, <2>2, <2>5, <3>1, ToldMeans, ToldMeansNext
    <3>2. CASE Active("rec") # {}
      <4>1. PICK r : r \in Active("rec")
        BY <3>2
      <4>2. told' = IF rows[r].start = 0 THEN "init" ELSE "on"
        BY <1>0, <2>2, <4>1, ToldMeans
      <4>3. StateOf(Locked, Job(Locked, "rec"))' = IF rows'[r].start = 0 THEN "init" ELSE "on"
        BY <2>5, <4>1, ToldMeansNext
      <4> QED BY <2>2, <4>2, <4>3
    <3> QED BY <3>1, <3>2
  <2> QED BY <1>1, <2>2, <2>4, <2>6 DEF RecordingTold
<1>4. CASE UsersLeave
  <2>1. CallStill /\ ~call'.users
    BY <1>0, <1>4 DEF UsersLeave, CallStill, Typed
  <2>2. cfg' = cfg /\ reqs' \subseteq reqs /\ past \subseteq past' /\ reqs' = reqs /\ timers' = timers
    BY <1>4 DEF UsersLeave
  <2>3. PICK t : Saved(t) /\ t \in {Locked, StopJob(StopJob(Locked, Job(Locked, "rec")), Job(Locked, "tr"))}
    BY <1>4 DEF UsersLeave
  <2>4. \E B : Halted(t, Locked, {}, B)
    <3> DEFINE i == Job(Locked, "rec")
               j == Job(Locked, "tr")
               u == StopJob(Locked, i)
               v == StopJob(u, j)
    <3>1. i \in {0} \cup DOMAIN Locked.bots /\ j \in {0} \cup DOMAIN Locked.bots
      BY <1>0, JobFacts
    <3>2. t = Locked \/ t = v
      BY <2>3
    <3> HIDE DEF i, j
    <3>3. Halted(u, Locked, {}, {i})
      BY <1>0, <3>1, StopHalts
    <3> HIDE DEF u
    <3>4. u \in States /\ j \in {0} \cup DOMAIN u.bots
      BY <3>1, <3>3 DEF Halted
    <3>5. Halted(v, u, {}, {j})
      BY <3>4, StopHalts
    <3> HIDE DEF v
    <3>6. Halted(v, Locked, {} \cup {}, {i} \cup {j})
      BY <3>3, <3>5, HaltedTrans
    <3>7. Halted(v, Locked, {}, {i} \cup {j})
      BY <3>6, HaltedSets
    <3> QED BY <1>0, <3>2, <3>7
  <2>5. HaltStep({}) /\ \A b \in DOMAIN bots : bots'[b].st = bots[b].st
    BY <1>0, <2>1, <2>2, <2>3, <2>4, SavedHalts
  <2> QED BY <1>1, <2>1, <2>2, <2>5 DEF RecordingTold
<1>5. CASE (\E q \in reqs : RequestLost(q)) \/ (\E t \in timers : TimerLost(t))
  <2>1. /\ cfg' = cfg /\ reqs' \subseteq reqs /\ past' = past \cup {"unchecked"} /\ call' = call
        /\ rows' = rows /\ bots' = bots /\ told' = told
    BY <1>5 DEF RequestLost, TimerLost
  <2>2. Saved(Locked)
    BY <1>0, <2>1 DEF Saved
  <2>3. HaltStep({}) /\ \A b \in DOMAIN bots : bots'[b].st = bots[b].st
    BY <1>0, <2>1, <2>2, CallSame, SavedHalts
  <2>4. RecordingTold'
    BY <2>1 DEF RecordingTold
  <2> QED BY <1>1, <2>1, <2>3, <2>4
<1> QED BY <1>2, <1>3, <1>4, <1>5

-----------------------------------------------------------------------------
(* A request comes back *)

\* A job is still watched when the request q is forgotten, if it was not q that
\* watched it.
LEMMA WatchedForgot ==
    ASSUME JobInv, NEW R, HaltStep(R), NEW q, reqs' = reqs \ {q}, timers' = timers,
           {"unchecked", "renamed"} \cap past' = {}, NEW r \in Active("rec") \cup Active("tr"),
           rows[r].job = 0 => q.run # r,
           rows[r].job # 0 /\ rows[r].k = "rec" => q.at # "tr"
    PROVE  IF rows[r].start = 0 THEN WatchedBy(r)' ELSE bots[r].st = "in"
<1>1. IF rows[r].start = 0 THEN WatchedBy(r) ELSE bots[r].st = "in"
  BY DEF JobInv, Watching, HaltStep
<1>2. r \in DOMAIN rows /\ rows'[r].job = rows[r].job /\ rows'[r].k = rows[r].k
  BY ActiveMeans DEF HaltStep
<1>3. ASSUME WatchedBy(r) PROVE WatchedBy(r)'
  <2>1. CASE rows[r].job = 0
    <3>1. PICK p \in reqs : p.run = r
      BY <1>3, <2>1 DEF WatchedBy
    <3>2. p \in reqs'
      BY <2>1, <3>1
    <3> QED BY <1>2, <2>1, <3>1, <3>2 DEF WatchedBy
  <2>2. CASE rows[r].job # 0
    <3>1. CASE Timer(rows[r].k, rows[r].job) \in timers
      BY <1>2, <2>2, <3>1 DEF WatchedBy
    <3>2. CASE \E p \in reqs : p.at = "tr" /\ rows[r].k = "rec" /\ p.rec = rows[r].job
      <4>1. PICK p \in reqs : p.at = "tr" /\ rows[r].k = "rec" /\ p.rec = rows[r].job
        BY <3>2
      <4>2. p \in reqs'
        BY <2>2, <4>1
      <4> QED BY <1>2, <2>2, <4>1, <4>2 DEF WatchedBy
    <3> QED BY <1>3, <2>2, <3>1, <3>2 DEF WatchedBy
  <2> QED BY <2>1, <2>2
<1> QED BY <1>1, <1>3

LEMMA LockedFacts ==
    ASSUME JobInv
    PROVE  /\ Typed /\ Single /\ Locked \in States /\ Halted(Locked, Locked, {}, {}) /\ One(Locked)
           /\ DOMAIN bots = DOMAIN rows /\ DOMAIN Locked.bots = DOMAIN Locked.rows
           /\ Locked.rows = rows /\ Locked.bots = bots /\ Locked.told = told
           /\ 0 \notin DOMAIN rows
           /\ \A k : Active(k) = ActiveJobs(Locked, k) /\ (Job(Locked, k) = 0 <=> Active(k) = {})
           /\ \A k : Job(Locked, k) # 0 => Job(Locked, k) \in Active(k)
           /\ \A k \in {"rec", "tr"} : \A r \in Active(k) : r = Job(Locked, k)
<1>1. /\ Typed /\ Single /\ Locked \in States /\ Halted(Locked, Locked, {}, {}) /\ One(Locked)
      /\ DOMAIN bots = DOMAIN rows /\ 0 \notin DOMAIN rows
      /\ Locked.rows = rows /\ Locked.bots = bots /\ Locked.told = told
  BY LockedState, HaltedSame DEF JobInv, Single, One, Active
<1>2. \A k : /\ Active(k) = ActiveJobs(Locked, k) /\ (Job(Locked, k) = 0 <=> Active(k) = {})
             /\ Job(Locked, k) # 0 => Job(Locked, k) \in Active(k)
  BY <1>1, JobFacts DEF Active
<1>3. \A k \in {"rec", "tr"} : \A r \in Active(k) : r = Job(Locked, k)
  BY <1>1, OneJob DEF Active
<1> QED BY <1>1, <1>2, <1>3

LEMMA RecordingReturns ==
    ASSUME JobInv, NEW q \in reqs, RecordingGone(q) \/ RecordingFailed(q) \/ RecordingTaken(q)
    PROVE  JobInv'
<1> DEFINE r == Job(Locked, "rec")
<1>0. /\ Typed /\ Single /\ Locked \in States /\ Halted(Locked, Locked, {}, {}) /\ One(Locked)
      /\ DOMAIN bots = DOMAIN rows /\ Locked.rows = rows /\ Locked.bots = bots /\ Locked.told = told
      /\ 0 \notin DOMAIN rows
      /\ \A k : (Job(Locked, k) = 0 <=> Active(k) = {}) /\ (Job(Locked, k) # 0 => Job(Locked, k) \in Active(k))
      /\ \A k \in {"rec", "tr"} : \A i \in Active(k) : i = Job(Locked, k)
  BY LockedFacts
<1>1. /\ q.at = "rec" /\ cfg' = cfg /\ call' = call /\ reqs' = reqs \ {q} /\ timers' = timers /\ past' = past
      /\ reqs' \subseteq reqs /\ past \subseteq past'
  BY DEF RecordingGone, RecordingFailed, RecordingTaken, Returned, Forget
<1>2. /\ q.run \in DOMAIN rows /\ rows[q.run].k = "rec" /\ (q.res # "ok" => bots[q.run].st = "none")
      /\ "overlap" \notin past =>
            Active("tr") = {} /\ \A i \in Active("rec") : i = q.run /\ rows[i].job = 0
  BY <1>1 DEF JobInv, Requested, Apart
<1>3. \A i \in Active("tr") : i # q.run /\ rows[i].k = "tr"
  BY <1>2, ActiveMeans
<1>4. ASSUME NEW R, HaltStep(R), RecordingTold', Active("rec") \subseteq R \/ R = {},
             Active("tr") \cap R = {}, Active("lc") \cap R = {},
             \A i \in Active("rec") \ R : rows[i].job # 0,
             \A b \in DOMAIN bots : bots'[b].st = bots[b].st,
             "overlap" \notin past => \A b \in R \cap DOMAIN rows : bots[b].st # "in"
      PROVE  JobInv'
  <2>1. "overlap" \notin past' => (Active("tr") \ R # {} => Active("rec") \ R # {})
    BY <1>1, <1>2, <1>4
  <2>2. "captions" \notin past' => (Active("lc") \ R # {} => Active("tr") \ R # {})
    BY <1>1, <1>4 DEF JobInv, Captioned
  <2>3. ASSUME {"unchecked", "renamed"} \cap past' = {}, NEW i \in (Active("rec") \cup Active("tr")) \ R
        PROVE  IF rows[i].start = 0 THEN WatchedBy(i)' ELSE bots'[i].st = "in"
    <3>1. i \in DOMAIN bots
      BY <1>0, ActiveMeans
    <3>2. rows[i].job = 0 => q.run # i
      BY <1>3, <1>4
    <3>3. IF rows[i].start = 0 THEN WatchedBy(i)' ELSE bots[i].st = "in"
      BY <1>1, <1>4, <2>3, <3>2, WatchedForgot
    <3> QED BY <1>4, <3>1, <3>3
  <2>4. "overlap" \notin past' => \A b \in R \cap DOMAIN rows :
            bots'[b].st = "in" /\ ~rows[b].ended /\ rows[b].start # 0 => bots'[b].ends
    BY <1>0, <1>1, <1>4
  <2> QED BY <1>4, <2>1, <2>2, <2>3, <2>4, HaltKeeps
<1>5. CASE RecordingGone(q)
  <2>1. Saved(Locked) /\ Active("rec") = {}
    BY <1>0, <1>5 DEF RecordingGone
  <2>2. HaltStep({}) /\ told' = told /\ \A b \in DOMAIN bots : bots'[b].st = bots[b].st
    BY <1>0, <1>1, <2>1, CallSame, SavedHalts
  <2>3. RecordingTold'
    BY <1>1, <2>1, <2>2, ToldSame
  <2> QED BY <1>4, <2>1, <2>2, <2>3
<1>6. CASE RecordingFailed(q)
  <2>1. Saved(Publish(End(Locked, r), "off")) /\ r # 0 /\ q.res = "err"
    BY <1>6 DEF RecordingFailed
  <2>2. r \in Active("rec") /\ r \in DOMAIN rows
    BY <1>0, <2>1, ActiveMeans
  <2>3. Halted(End(Locked, r), Locked, {r}, {})
    BY <1>0, <2>2, EndHalts
  <2>4. Halted(Publish(End(Locked, r), "off"), Locked, {r}, {}) /\ Publish(End(Locked, r), "off").told = "off"
    BY <2>3, PublishHalts DEF Tolds
  <2>5. HaltStep({r}) /\ told' = "off" /\ \A b \in DOMAIN bots : bots'[b].st = bots[b].st
    BY <1>0, <1>1, <2>1, <2>4, CallSame, SavedHalts
  <2>6. Active("rec") \subseteq {r} /\ Active("tr") \cap {r} = {} /\ Active("lc") \cap {r} = {}
    BY <1>0, <2>2, ActiveMeans
  <2>7. RecordingTold'
    BY <2>5, <2>6, ToldOff
  <2>8. "overlap" \notin past => bots[r].st # "in"
    BY <1>2, <2>1, <2>2
  <2> HIDE DEF r
  <2> QED BY <1>4, <2>5, <2>6, <2>7, <2>8
<1>7. CASE RecordingTaken(q)
  <2>1. Saved(Publish(Locked, "off")) /\ r # 0 /\ rows[r].job # 0
    BY <1>7 DEF RecordingTaken
  <2>2. r \in Active("rec") /\ \A i \in Active("rec") : i = r
    BY <1>0, <2>1
  <2>3. Halted(Publish(Locked, "off"), Locked, {}, {})
    BY <1>0, PublishHalts DEF Tolds
  <2>4. HaltStep({}) /\ \A b \in DOMAIN bots : bots'[b].st = bots[b].st
    BY <1>0, <1>1, <2>1, <2>3, CallSame, SavedHalts
  <2>5. RecordingTold'
    BY <1>1, <1>2, <2>1, <2>2 DEF RecordingTold
  <2> QED BY <1>4, <2>1, <2>2, <2>4, <2>5
<1> QED BY <1>5, <1>6, <1>7

LEMMA TranscriptionReturns ==
    ASSUME JobInv, NEW q \in reqs, TranscriptionGone(q) \/ TranscriptionFailed(q)
    PROVE  JobInv'
<1> DEFINE j == Job(Locked, "tr")
<1>0. /\ Typed /\ Single /\ Locked \in States /\ Halted(Locked, Locked, {}, {}) /\ One(Locked)
      /\ DOMAIN bots = DOMAIN rows /\ Locked.rows = rows /\ Locked.bots = bots /\ Locked.told = told
      /\ 0 \notin DOMAIN rows
      /\ \A k : (Job(Locked, k) = 0 <=> Active(k) = {}) /\ (Job(Locked, k) # 0 => Job(Locked, k) \in Active(k))
      /\ \A k \in {"rec", "tr"} : \A i \in Active(k) : i = Job(Locked, k)
  BY LockedFacts
<1>1. /\ q.at = "tr" /\ cfg' = cfg /\ call' = call /\ reqs' = reqs \ {q} /\ timers' = timers
      /\ reqs' \subseteq reqs /\ past \subseteq past' /\ past' \subseteq past \cup {"unchecked"}
      /\ "unchecked" \notin past' => Active("rec") = {}
  BY <1>0 DEF TranscriptionGone, TranscriptionFailed, Returned, RecordingUnchecked, Forget
<1>2. /\ q.run \in DOMAIN rows /\ rows[q.run].k = "tr" /\ (q.res # "ok" => bots[q.run].st = "none")
      /\ "overlap" \notin past => \A i \in Active("tr") : i = q.run
  BY <1>1 DEF JobInv, Requested, Apart
<1>3. ASSUME NEW R, HaltStep(R), told' = "off" PROVE RecordingTold'
  <2>1. CASE "unchecked" \in past'
    BY <2>1 DEF RecordingTold
  <2>2. CASE "unchecked" \notin past'
    BY <1>1, <1>3, <2>2, ToldOff
  <2> QED BY <2>1, <2>2
<1>4. CASE TranscriptionGone(q)
  <2>1. Saved(Publish(Locked, "off")) /\ (j # 0 => rows[j].job # 0)
    BY <1>4 DEF TranscriptionGone
  <2>2. Halted(Publish(Locked, "off"), Locked, {}, {}) /\ Publish(Locked, "off").told = "off"
    BY <1>0, PublishHalts DEF Tolds
  <2>3. HaltStep({}) /\ told' = "off" /\ \A b \in DOMAIN bots : bots'[b].st = bots[b].st
    BY <1>0, <1>1, <2>1, <2>2, CallSame, SavedHalts
  <2>4. "overlap" \notin past' => (Active("tr") \ {} # {} => Active("rec") \ {} # {})
    BY <1>1 DEF JobInv, Apart
  <2>5. "captions" \notin past' => (Active("lc") \ {} # {} => Active("tr") \ {} # {})
    BY <1>1 DEF JobInv, Captioned
  <2>6. ASSUME {"unchecked", "renamed"} \cap past' = {}, NEW i \in (Active("rec") \cup Active("tr")) \ {}
        PROVE  IF rows[i].start = 0 THEN WatchedBy(i)' ELSE bots'[i].st = "in"
    <3>1. i \in Active("tr") /\ i \in DOMAIN bots /\ rows[i].k = "tr" /\ i = j /\ i # 0
      BY <1>0, <1>1, <2>6, ActiveMeans
    <3>2. IF rows[i].start = 0 THEN WatchedBy(i)' ELSE bots[i].st = "in"
      BY <1>1, <2>1, <2>3, <2>6, <3>1, WatchedForgot
    <3> QED BY <2>3, <3>1, <3>2
  <2> QED BY <1>3, <2>3, <2>4, <2>5, <2>6, HaltKeeps
<1>5. CASE TranscriptionFailed(q)
  <2>1. PICK l \in LiveCaptions(Locked) :
           Saved(Publish(End(End(Locked, j), IF cfg = "lc" THEN l ELSE 0), "off"))
    BY <1>5 DEF TranscriptionFailed
  <2> DEFINE k == IF cfg = "lc" THEN l ELSE 0
             t == End(Locked, j)
             u == End(t, k)
             v == Publish(u, "off")
  <2>2. j # 0 /\ q.res = "err" /\ Saved(v)
    BY <1>5, <2>1 DEF TranscriptionFailed
  <2>3. j \in Active("tr") /\ j \in DOMAIN rows /\ Active("tr") \subseteq {j}
    BY <1>0, <2>2, ActiveMeans
  <2>4. k = 0 \/ (k \in DOMAIN rows /\ rows[k].k = "lc")
    BY <1>0, LiveMeans DEF Captions
  <2>5. "captions" \notin past => Active("lc") \subseteq {k}
    <3>1. CASE cfg = "lc"
      BY <3>1, LiveMeans
    <3>2. CASE cfg # "lc"
      BY <3>2, ActiveMeans DEF JobInv, Bare
    <3> QED BY <3>1, <3>2
  <2> HIDE DEF j, k
  <2>6. Halted(t, Locked, {j}, {})
    BY <1>0, <2>3, EndHalts
  <2> HIDE DEF t
  <2>7. t \in States /\ k \in {0} \cup DOMAIN t.rows
    BY <1>0, <2>4, <2>6 DEF Halted
  <2>8. Halted(u, t, {k}, {})
    BY <2>7, EndHalts
  <2> HIDE DEF u
  <2>9. Halted(u, Locked, {j} \cup {k}, {} \cup {})
    BY <2>6, <2>8, HaltedTrans
  <2>10. Halted(v, Locked, {j} \cup {k}, {} \cup {}) /\ v.told = "off"
    BY <2>9, PublishHalts DEF Tolds
  <2> HIDE DEF v
  <2>11. HaltStep({j} \cup {k}) /\ told' = "off" /\ \A b \in DOMAIN bots : bots'[b].st = bots[b].st
    BY <1>0, <1>1, <2>2, <2>10, CallSame, SavedHalts
  <2> DEFINE R == {j} \cup {k}
  <2>12. "overlap" \notin past' => (Active("tr") \ R # {} => Active("rec") \ R # {})
    BY <2>3
  <2>13. "captions" \notin past' => (Active("lc") \ R # {} => Active("tr") \ R # {})
    BY <1>1, <2>5
  <2>14. ASSUME {"unchecked", "renamed"} \cap past' = {}, NEW i \in (Active("rec") \cup Active("tr")) \ R
         PROVE  IF rows[i].start = 0 THEN WatchedBy(i)' ELSE bots'[i].st = "in"
    BY <1>1, <2>3, <2>14
  <2>15. "overlap" \notin past' => \A b \in R \cap DOMAIN rows :
            bots'[b].st = "in" /\ ~rows[b].ended /\ rows[b].start # 0 => bots'[b].ends
    <3>1. k \in DOMAIN rows => bots[k].st = "none"
      BY <1>0, <2>4 DEF JobInv, Bare
    <3>2. "overlap" \notin past' => bots[j].st = "none"
      BY <1>1, <1>2, <2>2, <2>3
    <3> QED BY <1>0, <2>11, <3>1, <3>2
  <2> HIDE DEF R
  <2> QED BY <1>3, <2>11, <2>12, <2>13, <2>14, <2>15, HaltKeeps DEF R
<1> QED BY <1>4, <1>5

-----------------------------------------------------------------------------
(* Recording and transcription stop together *)

\* What ends with a recording whose captions job is l.
Both(s, l) ==
    ActiveJobs(s, "rec") \cup (IF ActiveJobs(s, "tr") = {} THEN {} ELSE ActiveJobs(s, "tr") \cup {l})

\* The recording is ended and what depends on it is stopped.
LEMMA EndRecordingHalts ==
    ASSUME NEW s \in States, DOMAIN s.bots = DOMAIN s.rows, One(s), NEW l, Captions(s, l),
           ActiveJobs(s, "rec") # {}, NEW t, NEW B,
           Halted(t, s, ActiveJobs(s, "rec"), B)
    PROVE  Halted(stopTranscribingJob(t, l), s, Both(s, l), B \cup ActiveJobs(s, "tr"))
<1> DEFINE a == ActiveJobs(s, "tr")
           c == ActiveJobs(s, "rec")
           u == stopTranscribingJob(t, l)
<1>1. t \in States /\ DOMAIN t.bots = DOMAIN t.rows /\ Captions(t, l)
  BY DEF Halted, Captions
<1>2. One(t)
  BY OneKept
<1>3. ActiveJobs(t, "tr") = a /\ ActiveJobs(t, "rec") = {}
  <2>1. \A r \in a : r \notin c
    BY DEF ActiveJobs
  <2> QED BY <2>1, ActiveHalted
<1>4. CASE a = {}
  <2>1. u = t
    BY <1>1, <1>2, <1>3, <1>4, StopTranscribingHalts
  <2>2. Both(s, l) = c
    BY <1>4 DEF Both
  <2>3. Halted(t, s, c, B \cup a)
    BY <1>4, HaltedSets
  <2> QED BY <2>1, <2>2, <2>3
<1>5. CASE a # {}
  <2>1. Halted(u, t, (a \cup {l}) \cup {}, a \cup {})
    BY <1>1, <1>2, <1>3, <1>5, StopTranscribingHalts
  <2> HIDE DEF u
  <2>2. Halted(u, s, c \cup ((a \cup {l}) \cup {}), B \cup (a \cup {}))
    BY <2>1, HaltedTrans
  <2>3. Both(s, l) = c \cup (a \cup {l})
    BY <1>5 DEF Both
  <2>4. Halted(u, s, Both(s, l), B \cup a)
    BY <2>2, <2>3, HaltedSets
  <2> QED BY <2>4 DEF u
<1> QED BY <1>4, <1>5

\* The transcription is ended and its recording is stopped.
LEMMA EndTranscriptionHalts ==
    ASSUME NEW s \in States, DOMAIN s.bots = DOMAIN s.rows, One(s), NEW l, Captions(s, l),
           NEW t, NEW B, Halted(t, s, ActiveJobs(s, "tr"), B)
    PROVE  /\ Halted(stopRecordingJob(t, l), s, ActiveJobs(s, "tr") \cup ActiveJobs(s, "rec"),
                     B \cup ActiveJobs(s, "rec"))
           /\ stopRecordingJob(t, l).told = IF ActiveJobs(s, "rec") = {} THEN t.told ELSE "off"
<1> DEFINE a == ActiveJobs(s, "tr")
           c == ActiveJobs(s, "rec")
           u == stopRecordingJob(t, l)
<1>1. t \in States /\ DOMAIN t.bots = DOMAIN t.rows /\ Captions(t, l)
  BY DEF Halted, Captions
<1>2. One(t)
  BY OneKept
<1>3. ActiveJobs(t, "tr") = {} /\ ActiveJobs(t, "rec") = c
  <2>1. \A r \in c : r \notin a
    BY DEF ActiveJobs
  <2> QED BY <2>1, ActiveHalted
<1>4. CASE c = {}
  <2>1. u = t
    BY <1>1, <1>2, <1>3, <1>4, StopRecordingHalts
  <2>2. Halted(t, s, a \cup c, B \cup c)
    BY <1>4, HaltedSets
  <2> QED BY <1>4, <2>1, <2>2
<1>5. CASE c # {}
  <2>1. Halted(u, t, c \cup {}, c \cup {}) /\ u.told = "off"
    BY <1>1, <1>2, <1>3, <1>5, StopRecordingHalts
  <2> HIDE DEF u
  <2>2. Halted(u, s, a \cup (c \cup {}), B \cup (c \cup {}))
    BY <2>1, HaltedTrans
  <2>3. Halted(u, s, a \cup c, B \cup c)
    BY <2>2, HaltedSets
  <2>4. Halted(u, s, a \cup c, B \cup c) /\ u.told = IF c = {} THEN t.told ELSE "off"
    BY <1>5, <2>1, <2>3
  <2> QED BY <2>4 DEF u
<1> QED BY <1>4, <1>5

\* Nothing that a recording needs goes on without it: a step that ends both
\* leaves nothing to watch.
LEMMA BothKept ==
    ASSUME JobInv, NEW R, HaltStep(R), RecordingTold', NEW B,
           Active("rec") \cup Active("tr") \subseteq R,
           "captions" \notin past' => Active("lc") \subseteq R,
           \A b \in R \cap DOMAIN rows :
              b \in B \/ rows[b].k = "lc" \/ rows[b].start = 0 \/ bots'[b].st # "in",
           \A b \in DOMAIN bots : b \in B /\ bots'[b].st = "in" => bots'[b].ends
    PROVE  JobInv'
<1>1. \A b \in R \cap DOMAIN rows :
         bots'[b].st = "in" /\ ~rows[b].ended /\ rows[b].start # 0 => bots'[b].ends
  <2>1. DOMAIN bots = DOMAIN rows /\ \A b \in DOMAIN rows : rows[b].k = "lc" => bots[b].st = "none"
    BY LockedFacts DEF JobInv, Bare
  <2>2. \A b \in DOMAIN rows : rows[b].k = "lc" => bots'[b].st # "in"
    BY <2>1 DEF HaltStep
  <2> QED BY <2>1, <2>2
<1>2. /\ "overlap" \notin past' => (Active("tr") \ R # {} => Active("rec") \ R # {})
      /\ "captions" \notin past' => (Active("lc") \ R # {} => Active("tr") \ R # {})
      /\ (Active("rec") \cup Active("tr")) \ R = {}
  OBVIOUS
<1> QED BY <1>1, <1>2, HaltKeeps

LEMMA StopKept ==
    ASSUME JobInv, StopRequest
    PROVE  JobInv'
<1>0. /\ Typed /\ Locked \in States /\ One(Locked) /\ DOMAIN Locked.bots = DOMAIN Locked.rows
      /\ DOMAIN bots = DOMAIN rows /\ Locked.rows = rows /\ Locked.bots = bots /\ 0 \notin DOMAIN rows
      /\ \A k : Active(k) = ActiveJobs(Locked, k) /\ (Job(Locked, k) = 0 <=> Active(k) = {})
  BY LockedFacts
<1>1. /\ cfg' = cfg /\ call' = call /\ reqs' = reqs /\ timers' = timers /\ past' = past
      /\ reqs' \subseteq reqs /\ past \subseteq past' /\ Active("rec") # {}
  BY <1>0 DEF StopRequest
<1>2. PICK l \in LiveCaptions(Locked) : Saved(stopRecordingJob(Locked, l))
  BY DEF StopRequest
<1>3. /\ Captions(Locked, l) /\ ("captions" \notin past => Active("lc") \subseteq {l})
      /\ "captions" \notin past => (Active("tr") = {} => Active("lc") = {})
  BY LiveMeans DEF JobInv, Captioned
<1> DEFINE R == Both(Locked, l)
           B == Active("rec") \cup Active("tr")
<1>4. Halted(stopRecordingJob(Locked, l), Locked, R, B) /\ stopRecordingJob(Locked, l).told = "off"
  BY <1>0, <1>1, <1>3, StopRecordingHalts DEF Both
<1>5. R = Active("rec") \cup (IF Active("tr") = {} THEN {} ELSE Active("tr") \cup {l})
  BY <1>0 DEF Both
<1> HIDE DEF R
<1>6. /\ HaltStep(R) /\ told' = "off"
      /\ \A b \in DOMAIN bots : bots'[b].st = bots[b].st /\ (b \in B /\ bots[b].st = "in" => bots'[b].ends)
  BY <1>0, <1>1, <1>2, <1>4, CallSame, SavedHalts
<1>7. RecordingTold'
  BY <1>5, <1>6, ToldOff
<1>8. \A b \in R \cap DOMAIN rows : b \in B \/ rows[b].k = "lc"
  BY <1>0, <1>3, <1>5 DEF Captions
<1>9. Active("rec") \cup Active("tr") \subseteq R /\ ("captions" \notin past' => Active("lc") \subseteq R)
  BY <1>1, <1>3, <1>5
<1> HIDE DEF B
<1> QED BY <1>6, <1>7, <1>8, <1>9, BothKept

LEMMA TimeoutKept ==
    ASSUME JobInv, NEW t \in timers, recJobTimeoutChecker(t) \/ transcriptionJobTimeoutChecker(t)
    PROVE  JobInv'
<1>0. /\ Typed /\ Locked \in States /\ One(Locked) /\ DOMAIN Locked.bots = DOMAIN Locked.rows
      /\ Halted(Locked, Locked, {}, {}) /\ 0 \notin DOMAIN rows
      /\ DOMAIN bots = DOMAIN rows /\ Locked.rows = rows /\ Locked.bots = bots /\ Locked.told = told
      /\ \A k : Active(k) = ActiveJobs(Locked, k) /\ (Job(Locked, k) = 0 <=> Active(k) = {})
      /\ \A k : Job(Locked, k) # 0 => Job(Locked, k) \in Active(k)
      /\ \A k \in {"rec", "tr"} : \A r \in Active(k) : r = Job(Locked, k)
  BY LockedFacts
<1>1. /\ cfg' = cfg /\ call' = call /\ reqs' = reqs /\ timers' = timers \ {t}
      /\ reqs' \subseteq reqs /\ past \subseteq past'
      /\ t.k \in {"rec", "tr"}
  BY DEF recJobTimeoutChecker, transcriptionJobTimeoutChecker, Waited
<1>2. CASE ~Overdue(t)
  <2>1. Saved(Locked) /\ past' = past
    BY <1>2 DEF recJobTimeoutChecker, transcriptionJobTimeoutChecker
  <2>2. HaltStep({}) /\ told' = told /\ \A b \in DOMAIN bots : bots'[b].st = bots[b].st
    BY <1>0, <1>1, <2>1, CallSame, SavedHalts
  <2>3. RecordingTold'
    BY <1>1, <2>2, ToldSame
  <2>4. /\ "overlap" \notin past' => (Active("tr") \ {} # {} => Active("rec") \ {} # {})
        /\ "captions" \notin past' => (Active("lc") \ {} # {} => Active("tr") \ {} # {})
    BY <2>1 DEF JobInv, Apart, Captioned
  <2>5. ASSUME {"unchecked", "renamed"} \cap past' = {}, NEW r \in (Active("rec") \cup Active("tr")) \ {}
        PROVE  IF rows[r].start = 0 THEN WatchedBy(r)' ELSE bots'[r].st = "in"
    <3>1. r \in DOMAIN rows /\ rows'[r].job = rows[r].job /\ rows'[r].k = rows[r].k /\ bots'[r].st = bots[r].st
          /\ r = Job(Locked, rows[r].k) /\ r # 0
      BY <1>0, <2>2, ActiveMeans DEF HaltStep
    <3>2. IF rows[r].start = 0 THEN WatchedBy(r) ELSE bots[r].st = "in"
      BY <2>1, <2>5 DEF JobInv, Watching
    <3>3. ASSUME rows[r].start = 0 PROVE Timer(rows[r].k, rows[r].job) # t
      <4> SUFFICES ASSUME t = [k |-> rows[r].k, job |-> rows[r].job] PROVE FALSE
        BY DEF Timer
      <4>1. t.k = rows[r].k /\ t.job = rows[r].job
        OBVIOUS
      <4> QED BY <1>2, <3>1, <3>3, <4>1 DEF Overdue
    <3> QED BY <1>1, <3>1, <3>2, <3>3 DEF WatchedBy
  <2> QED BY <2>2, <2>3, <2>4, <2>5, HaltKeeps
<1>3. CASE Overdue(t) /\ recJobTimeoutChecker(t)
  <2> DEFINE r == Job(Locked, "rec")
  <2>1. PICK l \in LiveCaptions(Locked) :
           Saved(Publish(stopTranscribingJob(End(Locked, r), l), "off"))
    BY <1>3 DEF recJobTimeoutChecker
  <2>2. past' = past /\ r # 0 /\ rows[r].start = 0
    BY <1>3 DEF recJobTimeoutChecker, Waited, Overdue
  <2>3. /\ Captions(Locked, l) /\ ("captions" \notin past => Active("lc") \subseteq {l})
        /\ "captions" \notin past => (Active("tr") = {} => Active("lc") = {})
    BY LiveMeans DEF JobInv, Captioned
  <2>4. r \in DOMAIN rows /\ Active("rec") = {r}
    BY <1>0, <2>2, ActiveMeans
  <2> DEFINE s == End(Locked, r)
             u == stopTranscribingJob(s, l)
             v == Publish(u, "off")
             R == Both(Locked, l)
             B == {} \cup Active("tr")
  <2> HIDE DEF r
  <2>5. Halted(s, Locked, Active("rec"), {})
    BY <1>0, <2>4, EndHalts
  <2> HIDE DEF s
  <2>6. Halted(u, Locked, R, B)
    BY <1>0, <2>3, <2>4, <2>5, EndRecordingHalts
  <2>7. R = Active("rec") \cup (IF Active("tr") = {} THEN {} ELSE Active("tr") \cup {l})
    BY <1>0 DEF Both
  <2> HIDE DEF u, R, B
  <2>8. Halted(v, Locked, R, B) /\ v.told = "off"
    BY <2>6, PublishHalts DEF Tolds
  <2>9. Saved(v)
    BY <2>1 DEF v, u, s
  <2> HIDE DEF v
  <2>10. /\ HaltStep(R) /\ told' = "off"
         /\ \A b \in DOMAIN bots : bots'[b].st = bots[b].st /\ (b \in B /\ bots[b].st = "in" => bots'[b].ends)
    BY <1>0, <1>1, <2>8, <2>9, CallSame, SavedHalts
  <2>11. RecordingTold'
    BY <2>7, <2>10, ToldOff
  <2>12. \A b \in R \cap DOMAIN rows : b \in B \/ rows[b].k = "lc" \/ rows[b].start = 0
    BY <1>0, <2>2, <2>3, <2>4, <2>7 DEF Captions, B
  <2>13. Active("rec") \cup Active("tr") \subseteq R /\ ("captions" \notin past' => Active("lc") \subseteq R)
    BY <2>2, <2>3, <2>7
  <2> QED BY <2>10, <2>11, <2>12, <2>13, BothKept
<1>4. CASE Overdue(t) /\ transcriptionJobTimeoutChecker(t)
  <2> DEFINE r == Job(Locked, "rec")
             j == Job(Locked, "tr")
             s == End(Locked, j)
             u == stopRecordingJob(s, 0)
             v == IF r = 0 THEN u ELSE Publish(u, StateOf(Locked, r))
             R == Active("tr") \cup Active("rec")
             B == {} \cup Active("rec")
  <2>1. /\ Saved(v) /\ past' = past \cup {"timeout"} \cup (IF cfg = "lc" THEN {"captions"} ELSE {})
        /\ j # 0 /\ rows[j].start = 0
    BY <1>4 DEF transcriptionJobTimeoutChecker, Waited, Overdue
  <2>2. j \in DOMAIN rows /\ Active("tr") = {j}
    BY <1>0, <2>1, ActiveMeans
  <2>3. StateOf(Locked, r) \in Tolds
    BY DEF StateOf, Tolds
  <2> HIDE DEF r, j
  <2>4. Halted(s, Locked, Active("tr"), {})
    BY <1>0, <2>2, EndHalts
  <2> HIDE DEF s
  <2>5. Halted(u, Locked, R, B)
    <3>1. Captions(Locked, 0)
      BY DEF Captions
    <3> QED BY <1>0, <2>4, <3>1, EndTranscriptionHalts
  <2> HIDE DEF u, R, B
  <2>6. Halted(v, Locked, R, B)
    BY <2>3, <2>5, PublishHalts
  <2> HIDE DEF v
  <2>7. /\ HaltStep(R)
        /\ \A b \in DOMAIN bots : bots'[b].st = bots[b].st /\ (b \in B /\ bots[b].st = "in" => bots'[b].ends)
    BY <1>0, <1>1, <2>1, <2>6, CallSame, SavedHalts
  <2>8. RecordingTold'
    BY <2>1 DEF RecordingTold
  <2>9. \A b \in R \cap DOMAIN rows : b \in B \/ rows[b].k = "lc" \/ rows[b].start = 0
    BY <2>1, <2>2 DEF R, B
  <2>10. "captions" \notin past' => Active("lc") \subseteq R
    BY <2>1, ActiveMeans DEF JobInv, Bare
  <2>11. Active("rec") \cup Active("tr") \subseteq R
    BY DEF R
  <2> QED BY <2>7, <2>8, <2>9, <2>10, <2>11, BothKept
<1> QED BY <1>2, <1>3, <1>4

LEMMA FailureKept ==
    ASSUME JobInv, NEW b \in DOMAIN bots, BotFailed(b)
    PROVE  JobInv'
<1>0. /\ Typed /\ Locked \in States /\ One(Locked) /\ DOMAIN Locked.bots = DOMAIN Locked.rows
      /\ 0 \notin DOMAIN rows
      /\ DOMAIN bots = DOMAIN rows /\ Locked.rows = rows /\ Locked.bots = bots /\ Locked.told = told
      /\ \A k : Active(k) = ActiveJobs(Locked, k) /\ (Job(Locked, k) = 0 <=> Active(k) = {})
      /\ \A k : Job(Locked, k) # 0 => Job(Locked, k) \in Active(k)
      /\ \A k \in {"rec", "tr"} : \A r \in Active(k) : r = Job(Locked, k)
  BY LockedFacts
<1>1. /\ cfg' = cfg /\ call' = call /\ reqs' = reqs /\ timers' = timers /\ reqs' \subseteq reqs
      /\ bots[b].st # "none" /\ b = Job(Locked, rows[b].k)
  BY DEF BotFailed, BotStep
<1>2. b \in DOMAIN rows /\ b # 0 /\ rows[b].k \in {"rec", "tr"} /\ bots[b] \in Bots
  <2>1. rows[b].k # "lc"
    BY <1>0, <1>1 DEF JobInv, Bare
  <2>2. rows[b].k \in Kinds /\ bots[b] \in Bots
    BY <1>0, StateTypes
  <2> QED BY <1>0, <2>1, <2>2 DEF Kinds
<1>3. Active(rows[b].k) = {b}
  BY <1>0, <1>1, <1>2
<1> DEFINE s == [End(Locked, b) EXCEPT !.bots[b].ends = TRUE]
<1>4. PICK l \in LiveCaptions(Locked) :
         IF rows[b].k = "rec"
         THEN Saved(Publish(stopTranscribingJob(s, l), "off")) /\ UNCHANGED past
         ELSE Saved(stopRecordingJob(s, l)) /\ past' = IF l = 0 THEN past ELSE past \cup {"captions"}
  BY DEF BotFailed
<1>5. Halted(s, Locked, {b}, {b}) /\ s.told = told
  <2> DEFINE e == End(Locked, b)
             v == [e.bots[b] EXCEPT !.ends = TRUE]
  <2>1. Halted(e, Locked, {b}, {}) /\ e.told = Locked.told /\ e.bots = Locked.bots
    BY <1>0, <1>2, EndHalts
  <2> HIDE DEF e
  <2>2. v \in Bots /\ v.st = e.bots[b].st /\ v.id = e.bots[b].id /\ v.ends = TRUE
    BY <1>0, <1>2, <2>1 DEF Bots
  <2>3. s = WithBot(e, b, v) /\ e \in States /\ b \in DOMAIN e.bots
    BY <1>0, <2>1 DEF WithBot, Halted, e
  <2> HIDE DEF v, s
  <2>4. /\ s \in States /\ Len(s.bots) = Len(e.bots) /\ DOMAIN s.bots = DOMAIN e.bots
        /\ s.rows = e.rows /\ s.told = e.told
        /\ \A c \in DOMAIN e.bots : s.bots[c] = IF c = b THEN v ELSE e.bots[c]
    BY <2>2, <2>3, WithBotState
  <2> QED BY <1>0, <2>1, <2>2, <2>4 DEF Halted
<1> HIDE DEF s
<1>6. /\ Captions(Locked, l) /\ ("captions" \notin past => Active("lc") \subseteq {l})
      /\ "captions" \notin past => (Active("tr") = {} => Active("lc") = {})
      /\ l = 0 => Active("lc") = {}
  BY LiveMeans DEF JobInv, Captioned
<1>7. CASE rows[b].k = "rec"
  <2> DEFINE u == stopTranscribingJob(s, l)
             v == Publish(u, "off")
             R == Both(Locked, l)
             B == {b} \cup Active("tr")
  <2>1. Saved(v) /\ past' = past /\ Active("rec") = {b} /\ past \subseteq past'
    BY <1>3, <1>4, <1>7
  <2>2. Halted(u, Locked, R, B)
    BY <1>0, <1>5, <1>6, <2>1, EndRecordingHalts
  <2>3. R = Active("rec") \cup (IF Active("tr") = {} THEN {} ELSE Active("tr") \cup {l})
    BY <1>0 DEF Both
  <2> HIDE DEF u, R, B
  <2>4. Halted(v, Locked, R, B) /\ v.told = "off"
    BY <2>2, PublishHalts DEF Tolds
  <2> HIDE DEF v
  <2>5. /\ HaltStep(R) /\ told' = "off"
        /\ \A c \in DOMAIN bots : bots'[c].st = bots[c].st /\ (c \in B /\ bots[c].st = "in" => bots'[c].ends)
    BY <1>0, <1>1, <2>1, <2>4, CallSame, SavedHalts
  <2>6. RecordingTold'
    BY <2>3, <2>5, ToldOff
  <2>7. \A c \in R \cap DOMAIN rows : c \in B \/ rows[c].k = "lc"
    BY <1>0, <1>6, <2>1, <2>3 DEF Captions, B
  <2>8. Active("rec") \cup Active("tr") \subseteq R /\ ("captions" \notin past' => Active("lc") \subseteq R)
    BY <1>6, <2>1, <2>3
  <2> QED BY <2>5, <2>6, <2>7, <2>8, BothKept
<1>8. CASE rows[b].k = "tr"
  <2> DEFINE u == stopRecordingJob(s, l)
             R == Active("tr") \cup Active("rec")
             B == {b} \cup Active("rec")
  <2>1. /\ Saved(u) /\ past' = (IF l = 0 THEN past ELSE past \cup {"captions"})
        /\ Active("tr") = {b} /\ past \subseteq past'
    BY <1>3, <1>4, <1>8
  <2>2. Halted(u, Locked, R, B) /\ u.told = IF Active("rec") = {} THEN told ELSE "off"
    <3>1. Halted(s, Locked, ActiveJobs(Locked, "tr"), {b}) /\ Active("rec") = ActiveJobs(Locked, "rec")
      BY <1>0, <1>5, <2>1
    <3>2. /\ Halted(u, Locked, ActiveJobs(Locked, "tr") \cup ActiveJobs(Locked, "rec"),
                    {b} \cup ActiveJobs(Locked, "rec"))
          /\ u.told = IF ActiveJobs(Locked, "rec") = {} THEN s.told ELSE "off"
      BY <1>0, <1>6, <3>1, EndTranscriptionHalts
    <3> HIDE DEF u
    <3> QED BY <1>0, <1>5, <3>1, <3>2
  <2>3. /\ HaltStep(R) /\ told' = u.told
        /\ \A c \in DOMAIN bots : bots'[c].st = bots[c].st /\ (c \in B /\ bots[c].st = "in" => bots'[c].ends)
    BY <1>0, <1>1, <2>1, <2>2, CallSame, SavedHalts
  <2>4. RecordingTold'
    <3>1. CASE Active("rec") = {}
      BY <1>1, <2>2, <2>3, <3>1, ToldSame
    <3>2. CASE Active("rec") # {}
      BY <2>2, <2>3, <3>2, ToldOff
    <3> QED BY <3>1, <3>2
  <2>5. \A c \in R \cap DOMAIN rows : c \in B
    BY <2>1
  <2>6. "captions" \notin past' => Active("lc") \subseteq R
    BY <1>6, <2>1
  <2> QED BY <2>3, <2>4, <2>5, <2>6, BothKept, ZenonT(40)
<1> QED BY <1>2, <1>7, <1>8

-----------------------------------------------------------------------------
(* A bot leaves *)

Gone(b) == [Locked EXCEPT !.bots[b].st = "gone"]

LEMMA GoneState ==
    ASSUME JobInv, NEW b \in DOMAIN bots
    PROVE  /\ Gone(b) \in States /\ Gone(b).rows = rows /\ Gone(b).told = told
           /\ DOMAIN Gone(b).bots = DOMAIN bots /\ Len(Gone(b).bots) = Len(bots)
           /\ \A c \in DOMAIN bots : /\ Gone(b).bots[c].st = IF c = b THEN "gone" ELSE bots[c].st
                                     /\ Gone(b).bots[c].id = bots[c].id
                                     /\ Gone(b).bots[c].ends = bots[c].ends
           /\ \A k : ActiveJobs(Gone(b), k) = Active(k)
           /\ One(Gone(b))
<1> DEFINE v == [bots[b] EXCEPT !.st = "gone"]
<1>0. /\ Locked \in States /\ Locked.rows = rows /\ Locked.bots = bots /\ Locked.told = told /\ One(Locked)
  BY LockedFacts
<1>1. bots[b] \in Bots
  BY <1>0, StateTypes
<1>2. v \in Bots /\ v.st = "gone" /\ v.id = bots[b].id /\ v.ends = bots[b].ends
  BY <1>1 DEF Bots
<1>3. Gone(b) = WithBot(Locked, b, v)
  BY <1>0 DEF Gone, WithBot
<1> HIDE DEF v
<1>4. /\ Gone(b) \in States /\ Len(Gone(b).bots) = Len(bots) /\ DOMAIN Gone(b).bots = DOMAIN bots
      /\ Gone(b).rows = rows /\ Gone(b).told = told
      /\ \A c \in DOMAIN bots : Gone(b).bots[c] = IF c = b THEN v ELSE bots[c]
  BY <1>0, <1>2, <1>3, WithBotState
<1>5. \A k : ActiveJobs(Gone(b), k) = Active(k)
  BY <1>0, <1>4 DEF Active, ActiveJobs
<1>6. One(Gone(b))
  BY <1>0, <1>5 DEF One, Active
<1> QED BY <1>2, <1>4, <1>5, <1>6

LEMMA GoneHalts ==
    ASSUME JobInv, NEW b \in DOMAIN bots, bots[b].st = "in", NEW t, NEW R, NEW B,
           Halted(t, Gone(b), R, B), Saved(t), CallStill,
           cfg' = cfg, reqs' = reqs, timers' = timers, past' = past
    PROVE  /\ HaltStep(R) /\ told' = t.told
           /\ \A c \in DOMAIN bots : /\ bots'[c].st = IF c = b THEN "gone" ELSE bots[c].st
                                     /\ c \in B /\ bots'[c].st = "in" => bots'[c].ends
<1>1. /\ Gone(b) \in States /\ Gone(b).rows = rows
      /\ DOMAIN Gone(b).bots = DOMAIN bots /\ Len(Gone(b).bots) = Len(bots)
      /\ \A c \in DOMAIN bots : /\ Gone(b).bots[c].st = IF c = b THEN "gone" ELSE bots[c].st
                                /\ Gone(b).bots[c].id = bots[c].id
                                /\ Gone(b).bots[c].ends = bots[c].ends
  BY GoneState
<1>2. rows' = t.rows /\ bots' = t.bots /\ told' = t.told
  BY DEF Saved
<1>3. t.rows \in Seq(Rows) /\ t.bots \in Seq(Bots) /\ t.told \in Tolds
  BY DEF Halted, States
<1>4. \A c \in DOMAIN bots : /\ bots'[c].st = IF c = b THEN "gone" ELSE bots[c].st
                             /\ c \in B /\ bots'[c].st = "in" => bots'[c].ends
                             /\ bots'[c].id = bots[c].id /\ (bots[c].ends => bots'[c].ends)
  BY <1>1, <1>2 DEF Halted
<1>5. HaltStep(R)
  BY <1>1, <1>2, <1>3, <1>4 DEF Halted, HaltStep, CallStill
<1> QED BY <1>2, <1>4, <1>5

\* What a bot that leaves takes with it: with the recording's bot everything
\* ends, with the transcription's the captions too, as long as they follow it.
LEMMA LeavesHalts ==
    ASSUME NEW s \in States, DOMAIN s.bots = DOMAIN s.rows, One(s), NEW b, NEW l, Captions(s, l)
    PROVE  \/ /\ ActiveJobs(s, "rec") # {} /\ \A r \in ActiveJobs(s, "rec") : s.rows[r].conn = <<b, 1>>
              /\ LeavesCall(b, s, l).told = "off"
              /\ \E R : /\ Both(s, l) \subseteq R /\ R \subseteq Both(s, l) \cup {l}
                        /\ Halted(LeavesCall(b, s, l), s, R, ActiveJobs(s, "tr"))
           \/ /\ ActiveJobs(s, "tr") # {} /\ \A r \in ActiveJobs(s, "tr") : s.rows[r].conn = <<b, 1>>
              /\ LeavesCall(b, s, l).told = IF ActiveJobs(s, "rec") = {} THEN s.told ELSE "off"
              /\ \E R : /\ ActiveJobs(s, "tr") \cup ActiveJobs(s, "rec") \subseteq R
                        /\ R \subseteq ActiveJobs(s, "tr") \cup ActiveJobs(s, "rec") \cup {l}
                        /\ (l # 0 /\ s.rows[l].conn = Conn(b)) => l \in R
                        /\ Halted(LeavesCall(b, s, l), s, R, ActiveJobs(s, "rec"))
           \/ /\ \A r \in ActiveJobs(s, "rec") \cup ActiveJobs(s, "tr") : s.rows[r].conn # <<b, 1>>
              /\ LeavesCall(b, s, l).told = s.told
              /\ \E R : R \subseteq {l} /\ Halted(LeavesCall(b, s, l), s, R, {})
<1> DEFINE a == ActiveJobs(s, "tr")
           c == ActiveJobs(s, "rec")
           rec == Job(s, "rec")
           hit == rec # 0 /\ s.rows[rec].conn = <<b, 1>>
           t == IF hit THEN Publish(stopTranscribingJob(End(s, rec), l), "off") ELSE s
           j == Job(t, "tr")
           hit2 == j # 0 /\ t.rows[j].conn = <<b, 1>>
           u == IF hit2 THEN stopRecordingJob(End(t, j), l) ELSE t
           w == IF l # 0 /\ u.rows[l].conn = Conn(b) THEN End(u, l) ELSE u
<1>1. LeavesCall(b, s, l) = w
  BY DEF LeavesCall
<1>2. /\ rec = 0 <=> c = {}
      /\ rec # 0 => rec \in c
      /\ \A r \in c : r = rec
      /\ c \subseteq DOMAIN s.rows /\ a \subseteq DOMAIN s.rows /\ 0 \notin DOMAIN s.rows
      /\ l \in {0} \cup DOMAIN s.rows
  BY JobFacts, OneJob DEF Captions
<1>3. ASSUME NEW R, NEW B, Halted(u, s, R, B)
      PROVE  /\ w.told = u.told
             /\ \E Q : /\ R \subseteq Q /\ Q \subseteq R \cup {l} /\ Halted(w, s, Q, B)
                       /\ (l # 0 /\ s.rows[l].conn = Conn(b)) => l \in Q
  <2> HIDE DEF u
  <2>1. u \in States /\ l \in {0} \cup DOMAIN u.rows /\ (l # 0 => u.rows[l].conn = s.rows[l].conn)
    BY <1>2, <1>3 DEF Halted
  <2>2. CASE l # 0 /\ u.rows[l].conn = Conn(b)
    <3>1. w = End(u, l)
      BY <2>2
    <3>2. Halted(End(u, l), u, {l}, {}) /\ End(u, l).told = u.told
      BY <2>1, EndHalts
    <3>3. Halted(End(u, l), s, R \cup {l}, B \cup {})
      BY <1>3, <3>2, HaltedTrans
    <3>4. Halted(End(u, l), s, R \cup {l}, B)
      BY <3>3, HaltedSets
    <3> QED BY <3>1, <3>2, <3>4
  <2>3. CASE ~(l # 0 /\ u.rows[l].conn = Conn(b))
    <3>1. w = u
      BY <2>3
    <3>2. ~(l # 0 /\ s.rows[l].conn = Conn(b))
      BY <2>1, <2>3
    <3> QED BY <1>3, <3>1, <3>2
  <2> QED BY <2>2, <2>3
<1>4. CASE hit
  <2>1. c # {} /\ \A r \in c : s.rows[r].conn = <<b, 1>>
    BY <1>2, <1>4
  <2> DEFINE e == End(s, rec)
             f == stopTranscribingJob(e, l)
             R == Both(s, l)
  <2>2. Halted(e, s, c, {})
    <3>1. {rec} = c
      BY <1>2, <1>4
    <3>2. Halted(e, s, {rec}, {})
      BY <1>2, EndHalts
    <3> QED BY <3>1, <3>2
  <2> HIDE DEF e
  <2>3. Halted(f, s, R, {} \cup a)
    BY <2>1, <2>2, EndRecordingHalts
  <2> HIDE DEF f
  <2>4. t = Publish(f, "off")
    BY <1>4 DEF f, e
  <2>5. Halted(t, s, R, {} \cup a) /\ t.told = "off"
    BY <2>3, <2>4, PublishHalts DEF Tolds
  <2>6. t \in States /\ ActiveJobs(t, "tr") = {}
    <3>1. a \subseteq R
      BY DEF Both
    <3>2. ActiveJobs(t, "tr") = a \ R
      BY <2>5, ActiveHalted
    <3> QED BY <2>5, <3>1, <3>2 DEF Halted
  <2> HIDE DEF t, R
  <2>7. j = 0
    BY <2>6, JobFacts
  <2>8. u = t
    BY <2>7
  <2> HIDE DEF u, j
  <2>9. Halted(u, s, R, a)
    BY <2>5, <2>8, HaltedSets
  <2> HIDE DEF w
  <2>10. /\ w.told = "off"
         /\ \E Q : R \subseteq Q /\ Q \subseteq R \cup {l} /\ Halted(w, s, Q, a)
    BY <1>3, <2>5, <2>8, <2>9
  <2> QED BY <1>1, <2>1, <2>10 DEF R
<1>5. CASE ~hit
  <2>1. t = s /\ \A r \in c : s.rows[r].conn # <<b, 1>>
    BY <1>2, <1>5
  <2>2. /\ j = 0 <=> a = {}
        /\ j # 0 => j \in a
        /\ \A r \in a : r = j
    BY <2>1, JobFacts, OneJob
  <2>3. CASE hit2
    <3>1. a # {} /\ {j} = a /\ \A r \in a : s.rows[r].conn = <<b, 1>>
      BY <2>1, <2>2, <2>3
    <3> DEFINE e == End(s, j)
               f == stopRecordingJob(e, l)
    <3>2. u = f
      BY <2>1, <2>3
    <3> HIDE DEF u, j
    <3>3. Halted(e, s, a, {}) /\ e.told = s.told
      <4>1. j \in {0} \cup DOMAIN s.rows
        BY <1>2, <3>1
      <4>2. Halted(e, s, {j}, {}) /\ e.told = s.told
        BY <4>1, EndHalts
      <4> QED BY <3>1, <4>2
    <3> HIDE DEF e
    <3>4. Halted(f, s, a \cup c, {} \cup c) /\ f.told = IF c = {} THEN e.told ELSE "off"
      BY <3>3, EndTranscriptionHalts
    <3>5. Halted(u, s, a \cup c, c)
      BY <3>2, <3>4, HaltedSets
    <3> HIDE DEF w
    <3>6. /\ w.told = u.told
          /\ \E Q : /\ a \cup c \subseteq Q /\ Q \subseteq a \cup c \cup {l} /\ Halted(w, s, Q, c)
                    /\ (l # 0 /\ s.rows[l].conn = Conn(b)) => l \in Q
      BY <1>3, <3>5
    <3> QED BY <1>1, <3>1, <3>2, <3>3, <3>4, <3>6
  <2>4. CASE ~hit2
    <3>1. u = s /\ \A r \in a : s.rows[r].conn # <<b, 1>>
      BY <2>1, <2>2, <2>4
    <3>2. Halted(u, s, {}, {})
      BY <3>1, HaltedSame
    <3> HIDE DEF u, w
    <3>3. w.told = u.told /\ \E Q : Q \subseteq {} \cup {l} /\ Halted(w, s, Q, {})
      BY <1>3, <3>2
    <3> QED BY <1>1, <2>1, <3>1, <3>3
  <2> QED BY <2>3, <2>4
<1> QED BY <1>4, <1>5

LEMMA LeaveKept ==
    ASSUME JobInv, NEW b \in DOMAIN bots, removeUserSession(b)
    PROVE  JobInv'
<1>0. /\ Typed /\ DOMAIN bots = DOMAIN rows /\ 0 \notin DOMAIN rows
      /\ Locked.rows = rows /\ Locked.bots = bots /\ Locked.told = told
      /\ \A k : Active(k) = ActiveJobs(Locked, k)
  BY LockedFacts
<1>1. /\ bots[b].st = "in" /\ cfg' = cfg /\ reqs' = reqs /\ timers' = timers /\ past' = past
      /\ b \in DOMAIN rows /\ b # 0
  BY <1>0 DEF removeUserSession
<1> DEFINE s == Gone(b)
<1>2. /\ s \in States /\ s.rows = rows /\ s.told = told /\ DOMAIN s.bots = DOMAIN bots
      /\ \A k : ActiveJobs(s, k) = Active(k)
      /\ One(s)
  BY GoneState
<1>3. CASE ~InCall(Locked, b)
  <2>1. Saved(s) /\ call' = call
    BY <1>3 DEF removeUserSession, Gone
  <2> HIDE DEF s
  <2>2. Halted(s, s, {}, {})
    BY <1>2, HaltedSame
  <2>3. HaltStep({}) /\ told' = told /\ \A c \in DOMAIN bots : bots'[c].st = IF c = b THEN "gone" ELSE bots[c].st
    BY <1>0, <1>1, <1>2, <2>1, <2>2, CallSame, GoneHalts DEF s
  <2>4. RecordingTold'
    BY <2>1, <2>3, ToldSame
  <2>5. /\ "overlap" \notin past' => (Active("tr") \ {} # {} => Active("rec") \ {} # {})
        /\ "captions" \notin past' => (Active("lc") \ {} # {} => Active("tr") \ {} # {})
    BY <1>1 DEF JobInv, Apart, Captioned
  <2>6. ASSUME {"unchecked", "renamed"} \cap past' = {}, NEW r \in (Active("rec") \cup Active("tr")) \ {}
        PROVE  IF rows[r].start = 0 THEN WatchedBy(r)' ELSE bots'[r].st = "in"
    <3>1. r \in DOMAIN bots /\ call.on /\ rows[r].call = call.id
      BY <1>0, ActiveMeans
    <3>2. r # b
      BY <1>0, <1>1, <1>3, <3>1 DEF InCall
    <3>3. IF rows[r].start = 0 THEN WatchedBy(r)' ELSE bots[r].st = "in"
      BY <1>1, <2>3, <2>6, WatchedSame
    <3> QED BY <2>3, <3>1, <3>2, <3>3
  <2> QED BY <2>3, <2>4, <2>5, <2>6, HaltKeeps
<1>4. CASE InCall(Locked, b)
  <2> DEFINE others == {o \in DOMAIN bots : InCall(s, o)}
             i == Job(s, "rec")
             j == Job(s, "tr")
             v == StopJob(s, i)
             x == StopJob(v, j)
             alone == IF call.users \/ others = {} THEN s ELSE x
  <2>1. PICK l \in LiveCaptions(s) : Saved(LeavesCall(b, alone, l))
    BY <1>4 DEF removeUserSession, Gone
  <2>2. CallStill /\ (call'.users => call.users)
    <3>1. call' = [call EXCEPT !.on = call.users \/ others # {}] /\ call.on
      BY <1>4 DEF removeUserSession, Gone, InCall
    <3> HIDE DEF others
    <3> QED BY <1>0, <3>1 DEF CallStill, Typed
  <2>3. l \in LiveCaptions(Locked)
    BY <1>0, <1>2, <2>1 DEF LiveCaptions
  <2>4. /\ Captions(Locked, l) /\ ("captions" \notin past => Active("lc") \subseteq {l})
        /\ "captions" \notin past => (Active("tr") = {} => Active("lc") = {})
        /\ l = 0 \/ (l \in DOMAIN rows /\ rows[l].k = "lc")
    <3>1. Captions(Locked, l) /\ ("captions" \notin past => Active("lc") \subseteq {l})
      BY <2>3, LiveMeans
    <3> QED BY <1>0, <3>1 DEF JobInv, Captioned, Captions
  <2>5. \E B : Halted(alone, s, {}, B) /\ alone.told = told
    <3>1. i \in {0} \cup DOMAIN s.bots /\ j \in {0} \cup DOMAIN s.bots
      BY <1>0, <1>2, JobFacts
    <3> HIDE DEF i, j, s
    <3>2. Halted(v, s, {}, {i}) /\ v.told = s.told
      BY <1>2, <3>1, StopHalts
    <3> HIDE DEF v
    <3>3. v \in States /\ j \in {0} \cup DOMAIN v.bots
      BY <3>1, <3>2 DEF Halted
    <3>4. Halted(x, v, {}, {j}) /\ x.told = v.told
      BY <3>3, StopHalts
    <3> HIDE DEF x
    <3>5. Halted(x, s, {} \cup {}, {i} \cup {j})
      BY <3>2, <3>4, HaltedTrans
    <3>6. Halted(x, s, {}, {i} \cup {j})
      BY <3>5, HaltedSets
    <3>7. Halted(s, s, {}, {})
      BY <1>2, HaltedSame
    <3> QED BY <1>2, <3>2, <3>4, <3>6, <3>7
  <2>6. PICK B0 : Halted(alone, s, {}, B0) /\ alone.told = told
    BY <2>5
  <2> DEFINE w == LeavesCall(b, alone, l)
             a == Active("tr")
             c == Active("rec")
  <2> HIDE DEF alone, s
  <2>7. /\ alone \in States /\ DOMAIN alone.bots = DOMAIN alone.rows /\ Captions(alone, l)
        /\ \A r \in DOMAIN rows : alone.rows[r].conn = rows[r].conn
    BY <1>0, <1>2, <2>4, <2>6 DEF Halted, Captions
  <2>8. One(alone) /\ ActiveJobs(alone, "tr") = a /\ ActiveJobs(alone, "rec") = c
    <3>1. One(alone)
      BY <1>2, <2>6, OneKept
    <3>2. \A k : ActiveJobs(alone, k) = Active(k) \ {}
      BY <1>2, <2>6, ActiveHalted
    <3> QED BY <3>1, <3>2
  <2>9. ASSUME NEW R, NEW B, Halted(w, alone, R, B)
        PROVE  /\ HaltStep(R) /\ told' = w.told
               /\ \A o \in DOMAIN bots : /\ bots'[o].st = IF o = b THEN "gone" ELSE bots[o].st
                                         /\ o \in B /\ bots'[o].st = "in" => bots'[o].ends
    <3> HIDE DEF w
    <3>1. Halted(w, s, {} \cup R, B0 \cup B)
      BY <2>6, <2>9, HaltedTrans
    <3>2. Halted(w, s, R, B)
      BY <3>1, HaltedSets
    <3>3. Saved(w)
      BY <2>1 DEF w
    <3> QED BY <1>1, <2>2, <3>2, <3>3, GoneHalts DEF s
  <2>10. \A r \in a \cup c : /\ r \in DOMAIN rows /\ rows[r].k # "lc" /\ (rows[r].conn = <<b, 1>> => r = b)
                             /\ bots[r].st = "in" => rows[r].conn = <<r, bots[r].id>>
                             /\ "renamed" \notin past => bots[r].id = 1
    <3> SUFFICES ASSUME NEW r \in a \cup c
                 PROVE  /\ r \in DOMAIN rows /\ rows[r].k # "lc" /\ (rows[r].conn = <<b, 1>> => r = b)
                        /\ bots[r].st = "in" => rows[r].conn = <<r, bots[r].id>>
                        /\ "renamed" \notin past => bots[r].id = 1
      OBVIOUS
    <3>1. r \in DOMAIN rows /\ rows[r].k # "lc"
      BY ActiveMeans
    <3>2. /\ rows[r].conn \in {NoConn, <<r, bots[r].id>>}
          /\ bots[r].st = "in" => rows[r].conn = <<r, bots[r].id>>
          /\ "renamed" \notin past => bots[r].id = 1
      BY DEF JobInv, Joined
    <3> QED BY <1>1, <3>1, <3>2 DEF NoConn
  <2> HIDE DEF w, a, c
  <2>11. \/ /\ c # {} /\ \A r \in c : alone.rows[r].conn = <<b, 1>>
            /\ w.told = "off"
            /\ \E R : Both(alone, l) \subseteq R /\ R \subseteq Both(alone, l) \cup {l} /\ Halted(w, alone, R, a)
         \/ /\ a # {} /\ \A r \in a : alone.rows[r].conn = <<b, 1>>
            /\ w.told = IF c = {} THEN alone.told ELSE "off"
            /\ \E R : /\ a \cup c \subseteq R /\ R \subseteq a \cup c \cup {l}
                      /\ (l # 0 /\ alone.rows[l].conn = Conn(b)) => l \in R
                      /\ Halted(w, alone, R, c)
         \/ /\ \A r \in c \cup a : alone.rows[r].conn # <<b, 1>>
            /\ w.told = alone.told
            /\ \E R : R \subseteq {l} /\ Halted(w, alone, R, {})
    <3> DEFINE m == ActiveJobs(alone, "rec")
               n == ActiveJobs(alone, "tr")
    <3>1. \/ /\ m # {} /\ \A r \in m : alone.rows[r].conn = <<b, 1>>
             /\ LeavesCall(b, alone, l).told = "off"
             /\ \E R : /\ Both(alone, l) \subseteq R /\ R \subseteq Both(alone, l) \cup {l}
                       /\ Halted(LeavesCall(b, alone, l), alone, R, n)
          \/ /\ n # {} /\ \A r \in n : alone.rows[r].conn = <<b, 1>>
             /\ LeavesCall(b, alone, l).told = IF m = {} THEN alone.told ELSE "off"
             /\ \E R : /\ n \cup m \subseteq R
                       /\ R \subseteq n \cup m \cup {l}
                       /\ (l # 0 /\ alone.rows[l].conn = Conn(b)) => l \in R
                       /\ Halted(LeavesCall(b, alone, l), alone, R, m)
          \/ /\ \A r \in m \cup n : alone.rows[r].conn # <<b, 1>>
             /\ LeavesCall(b, alone, l).told = alone.told
             /\ \E R : R \subseteq {l} /\ Halted(LeavesCall(b, alone, l), alone, R, {})
      BY <2>7, <2>8, LeavesHalts, Zenon
    <3>2. m = c /\ n = a
      BY <2>8
    <3> HIDE DEF m, n
    <3> QED BY <3>1, <3>2, Zenon DEF w
  <2>12. CASE /\ c # {} /\ \A r \in c : alone.rows[r].conn = <<b, 1>>
              /\ w.told = "off"
              /\ \E R : Both(alone, l) \subseteq R /\ R \subseteq Both(alone, l) \cup {l} /\ Halted(w, alone, R, a)
    <3>1. PICK R : Both(alone, l) \subseteq R /\ R \subseteq Both(alone, l) \cup {l} /\ Halted(w, alone, R, a)
      BY <2>12
    <3>2. Both(alone, l) = c \cup (IF a = {} THEN {} ELSE a \cup {l})
      BY <2>8 DEF Both
    <3>3. /\ HaltStep(R) /\ told' = "off"
          /\ \A o \in DOMAIN bots : /\ bots'[o].st = IF o = b THEN "gone" ELSE bots[o].st
                                    /\ o \in a /\ bots'[o].st = "in" => bots'[o].ends
      BY <2>9, <2>12, <3>1
    <3>4. c \cup a \subseteq R
      BY <3>1, <3>2
    <3>5. RecordingTold'
      BY <3>3, <3>4, ToldOff DEF c
    <3>6. "captions" \notin past' => Active("lc") \subseteq R
      BY <1>1, <2>4, <3>1, <3>2 DEF a
    <3>7. \A o \in R \cap DOMAIN rows :
             o \in a \/ rows[o].k = "lc" \/ rows[o].start = 0 \/ bots'[o].st # "in"
      <4>1. \A r \in c : r = b
        BY <2>7, <2>10, <2>12
      <4> QED BY <1>0, <1>1, <2>4, <3>1, <3>2, <3>3, <4>1
    <3> QED BY <3>3, <3>4, <3>5, <3>6, <3>7, BothKept DEF a, c
  <2>13. CASE /\ a # {} /\ \A r \in a : alone.rows[r].conn = <<b, 1>>
              /\ w.told = IF c = {} THEN alone.told ELSE "off"
              /\ \E R : /\ a \cup c \subseteq R /\ R \subseteq a \cup c \cup {l}
                        /\ (l # 0 /\ alone.rows[l].conn = Conn(b)) => l \in R
                        /\ Halted(w, alone, R, c)
    <3>1. PICK R : /\ a \cup c \subseteq R /\ R \subseteq a \cup c \cup {l}
                   /\ (l # 0 /\ alone.rows[l].conn = Conn(b)) => l \in R
                   /\ Halted(w, alone, R, c)
      BY <2>13
    <3>2. a = {b} /\ rows[b].conn = Conn(b)
      BY <1>1, <2>7, <2>10, <2>13 DEF Conn
    <3>3. /\ HaltStep(R) /\ told' = (IF c = {} THEN told ELSE "off")
          /\ \A o \in DOMAIN bots : /\ bots'[o].st = IF o = b THEN "gone" ELSE bots[o].st
                                    /\ o \in c /\ bots'[o].st = "in" => bots'[o].ends
      BY <2>6, <2>9, <2>13, <3>1
    <3>4. RecordingTold'
      <4>1. CASE c = {}
        BY <2>2, <3>3, <4>1, ToldSame DEF c
      <4>2. CASE c # {}
        BY <3>1, <3>3, <4>2, ToldOff DEF c
      <4> QED BY <4>1, <4>2
    <3>5. "captions" \notin past' => Active("lc") \subseteq R
      <4> SUFFICES ASSUME "captions" \notin past, NEW m \in Active("lc") PROVE m \in R
        BY <1>1
      <4>1. m = l /\ m \in DOMAIN rows /\ l # 0
        BY <1>0, <2>4, ActiveMeans
      <4>2. rows[m].conn = rows[b].conn
        BY <3>2 DEF JobInv, Captioned, a
      <4> QED BY <2>7, <3>1, <3>2, <4>1, <4>2
    <3>6. \A o \in R \cap DOMAIN rows :
             o \in c \/ rows[o].k = "lc" \/ rows[o].start = 0 \/ bots'[o].st # "in"
      BY <1>0, <1>1, <2>4, <3>1, <3>2, <3>3
    <3> QED BY <3>1, <3>3, <3>4, <3>5, <3>6, BothKept DEF a, c
  <2>14. CASE /\ \A r \in c \cup a : alone.rows[r].conn # <<b, 1>>
              /\ w.told = alone.told
              /\ \E R : R \subseteq {l} /\ Halted(w, alone, R, {})
    <3>1. PICK R : R \subseteq {l} /\ Halted(w, alone, R, {})
      BY <2>14
    <3>2. /\ HaltStep(R) /\ told' = told
          /\ \A o \in DOMAIN bots : bots'[o].st = IF o = b THEN "gone" ELSE bots[o].st
      BY <2>6, <2>9, <2>14, <3>1
    <3>3. a \cap R = {} /\ c \cap R = {}
      BY <1>0, <2>4, <2>10, <3>1
    <3>4. RecordingTold'
      BY <2>2, <3>2, <3>3, ToldSame DEF c
    <3>5. /\ "overlap" \notin past' => (Active("tr") \ R # {} => Active("rec") \ R # {})
          /\ "captions" \notin past' => (Active("lc") \ R # {} => Active("tr") \ R # {})
      BY <1>1, <3>3 DEF JobInv, Apart, Captioned, a, c
    <3>6. ASSUME {"unchecked", "renamed"} \cap past' = {}, NEW r \in (Active("rec") \cup Active("tr")) \ R
          PROVE  IF rows[r].start = 0 THEN WatchedBy(r)' ELSE bots'[r].st = "in"
      <4>1. r \in DOMAIN bots /\ r \in c \cup a
        BY <1>0, ActiveMeans DEF a, c
      <4>2. IF rows[r].start = 0 THEN WatchedBy(r)' ELSE bots[r].st = "in"
        BY <1>1, <3>2, <3>6, WatchedSame
      <4>3. r # b
        BY <1>1, <2>7, <2>10, <2>14, <3>6, <4>1
      <4> QED BY <3>2, <4>1, <4>2, <4>3
    <3>7. \A o \in R \cap DOMAIN rows : bots'[o].st # "in"
      <4>1. \A o \in R \cap DOMAIN rows : bots[o].st = "none"
        BY <1>0, <2>4, <3>1 DEF JobInv, Bare
      <4> QED BY <1>0, <3>2, <4>1
    <3> QED BY <3>2, <3>4, <3>5, <3>6, <3>7, HaltKeeps
  <2> QED BY <2>11, <2>12, <2>13, <2>14
<1> QED BY <1>3, <1>4

-----------------------------------------------------------------------------
(* Steps that end no job *)

\* One field of one row is written.
LEMMA JobSet ==
    ASSUME NEW s \in States, NEW r \in DOMAIN s.rows, NEW j \in Nat, NEW t,
           t = [s EXCEPT !.rows[r].job = j]
    PROVE  /\ t \in States /\ Len(t.rows) = Len(s.rows) /\ DOMAIN t.rows = DOMAIN s.rows
           /\ t.bots = s.bots /\ t.told = s.told
           /\ \A q \in DOMAIN s.rows :
                 /\ t.rows[q].k = s.rows[q].k /\ t.rows[q].call = s.rows[q].call
                 /\ t.rows[q].ended = s.rows[q].ended /\ t.rows[q].start = s.rows[q].start
                 /\ t.rows[q].conn = s.rows[q].conn
                 /\ t.rows[q].job = IF q = r THEN j ELSE s.rows[q].job
<1> DEFINE v == [s.rows[r] EXCEPT !.job = j]
<1>1. s.rows[r] \in Rows
  BY StateTypes
<1>2. /\ v \in Rows /\ v.k = s.rows[r].k /\ v.call = s.rows[r].call /\ v.ended = s.rows[r].ended
      /\ v.start = s.rows[r].start /\ v.conn = s.rows[r].conn /\ v.job = j
  BY <1>1 DEF Rows
<1> DEFINE w == WithRow(s, r, v)
<1>3. t = w
  BY DEF WithRow
<1> HIDE DEF v, w
<1>4. ASSUME NEW u, u = w
      PROVE  /\ u \in States /\ Len(u.rows) = Len(s.rows) /\ DOMAIN u.rows = DOMAIN s.rows
             /\ u.bots = s.bots /\ u.told = s.told
             /\ \A q \in DOMAIN s.rows : u.rows[q] = IF q = r THEN v ELSE s.rows[q]
  BY <1>2, <1>4, WithRowState DEF w
<1>5. /\ w \in States /\ Len(w.rows) = Len(s.rows) /\ DOMAIN w.rows = DOMAIN s.rows
      /\ w.bots = s.bots /\ w.told = s.told
      /\ \A q \in DOMAIN s.rows : w.rows[q] = IF q = r THEN v ELSE s.rows[q]
  BY <1>4
<1> QED BY <1>2, <1>3, <1>5

LEMMA ConnSet ==
    ASSUME NEW s \in States, NEW r \in DOMAIN s.rows, NEW c \in Nat \X Nat, NEW t,
           t = [s EXCEPT !.rows[r].conn = c]
    PROVE  /\ t \in States /\ Len(t.rows) = Len(s.rows) /\ DOMAIN t.rows = DOMAIN s.rows
           /\ t.bots = s.bots /\ t.told = s.told
           /\ \A q \in DOMAIN s.rows :
                 /\ t.rows[q].k = s.rows[q].k /\ t.rows[q].call = s.rows[q].call
                 /\ t.rows[q].ended = s.rows[q].ended /\ t.rows[q].start = s.rows[q].start
                 /\ t.rows[q].job = s.rows[q].job
                 /\ t.rows[q].conn = IF q = r THEN c ELSE s.rows[q].conn
           /\ \A q \in DOMAIN s.rows \ {r} : t.rows[q] = s.rows[q]
<1> DEFINE v == [s.rows[r] EXCEPT !.conn = c]
<1>1. s.rows[r] \in Rows
  BY StateTypes
<1>2. /\ v \in Rows /\ v.k = s.rows[r].k /\ v.call = s.rows[r].call /\ v.ended = s.rows[r].ended
      /\ v.start = s.rows[r].start /\ v.job = s.rows[r].job /\ v.conn = c
  BY <1>1 DEF Rows
<1> DEFINE w == WithRow(s, r, v)
<1>3. t = w
  BY DEF WithRow
<1> HIDE DEF v, w
<1>4. ASSUME NEW u, u = w
      PROVE  /\ u \in States /\ Len(u.rows) = Len(s.rows) /\ DOMAIN u.rows = DOMAIN s.rows
             /\ u.bots = s.bots /\ u.told = s.told
             /\ \A q \in DOMAIN s.rows : u.rows[q] = IF q = r THEN v ELSE s.rows[q]
  BY <1>2, <1>4, WithRowState DEF w
<1>5. /\ w \in States /\ Len(w.rows) = Len(s.rows) /\ DOMAIN w.rows = DOMAIN s.rows
      /\ w.bots = s.bots /\ w.told = s.told
      /\ \A q \in DOMAIN s.rows : w.rows[q] = IF q = r THEN v ELSE s.rows[q]
  BY <1>4
<1> QED BY <1>2, <1>3, <1>5

LEMMA StartSet ==
    ASSUME NEW s \in States, NEW r \in DOMAIN s.rows, NEW n \in Nat, NEW t,
           t = [s EXCEPT !.rows[r].start = n]
    PROVE  /\ t \in States /\ Len(t.rows) = Len(s.rows) /\ DOMAIN t.rows = DOMAIN s.rows
           /\ t.bots = s.bots /\ t.told = s.told
           /\ \A q \in DOMAIN s.rows :
                 /\ t.rows[q].k = s.rows[q].k /\ t.rows[q].call = s.rows[q].call
                 /\ t.rows[q].ended = s.rows[q].ended /\ t.rows[q].job = s.rows[q].job
                 /\ t.rows[q].conn = s.rows[q].conn
                 /\ t.rows[q].start = IF q = r THEN n ELSE s.rows[q].start
<1> DEFINE v == [s.rows[r] EXCEPT !.start = n]
<1>1. s.rows[r] \in Rows
  BY StateTypes
<1>2. /\ v \in Rows /\ v.k = s.rows[r].k /\ v.call = s.rows[r].call /\ v.ended = s.rows[r].ended
      /\ v.start = n /\ v.job = s.rows[r].job /\ v.conn = s.rows[r].conn
  BY <1>1 DEF Rows
<1> DEFINE w == WithRow(s, r, v)
<1>3. t = w
  BY DEF WithRow
<1> HIDE DEF v, w
<1>4. ASSUME NEW u, u = w
      PROVE  /\ u \in States /\ Len(u.rows) = Len(s.rows) /\ DOMAIN u.rows = DOMAIN s.rows
             /\ u.bots = s.bots /\ u.told = s.told
             /\ \A q \in DOMAIN s.rows : u.rows[q] = IF q = r THEN v ELSE s.rows[q]
  BY <1>2, <1>4, WithRowState DEF w
<1>5. /\ w \in States /\ Len(w.rows) = Len(s.rows) /\ DOMAIN w.rows = DOMAIN s.rows
      /\ w.bots = s.bots /\ w.told = s.told
      /\ \A q \in DOMAIN s.rows : w.rows[q] = IF q = r THEN v ELSE s.rows[q]
  BY <1>4
<1> QED BY <1>2, <1>3, <1>5

\* The same jobs are active afterwards.
Steady ==
    /\ cfg' = cfg /\ call' = call /\ past \subseteq past'
    /\ rows' \in Seq(Rows) /\ bots' \in Seq(Bots) /\ told' \in Tolds
    /\ Len(rows') = Len(rows) /\ DOMAIN rows' = DOMAIN rows
    /\ Len(bots') = Len(bots) /\ DOMAIN bots' = DOMAIN bots
    /\ \A r \in DOMAIN rows : /\ rows'[r].k = rows[r].k /\ rows'[r].call = rows[r].call
                              /\ rows'[r].ended = rows[r].ended
    /\ \A b \in DOMAIN bots : bots'[b].ends = bots[b].ends

LEMMA SteadyTypes ==
    ASSUME JobInv, Steady, reqs' \subseteq Requests
    PROVE  Typed' /\ Single' /\ \A k : Active(k)' = Active(k)
<1>1. \A k : Active(k)' = Active(k)
  <2> SUFFICES ASSUME NEW k, NEW r PROVE r \in Active(k)' <=> r \in Active(k)
    OBVIOUS
  <2> QED BY ActiveMeans, ActiveMeansNext DEF Steady
<1>2. Typed'
  BY DEF JobInv, Typed, Steady
<1>3. Single'
  BY <1>1 DEF JobInv, Single
<1> QED BY <1>1, <1>2, <1>3

LEMMA SteadyTold ==
    ASSUME JobInv, Steady, reqs' \subseteq Requests, told' = told,
           \A r \in Active("rec") : rows'[r].start = rows[r].start
    PROVE  RecordingTold'
<1> SUFFICES ASSUME call'.users, past' \cap {"overlap", "unchecked", "timeout", "stale"} = {}
             PROVE  told' = StateOf(Locked, Job(Locked, "rec"))'
  BY DEF RecordingTold
<1>1. Typed' /\ Single' /\ Typed /\ Single /\ Active("rec")' = Active("rec")
  BY SteadyTypes DEF JobInv
<1>2. told = StateOf(Locked, Job(Locked, "rec"))
  BY DEF JobInv, RecordingTold, Steady
<1>3. CASE Active("rec") = {}
  BY <1>1, <1>2, <1>3, ToldMeans, ToldMeansNext
<1>4. CASE Active("rec") # {}
  <2>1. PICK r : r \in Active("rec")
    BY <1>4
  <2>2. told = IF rows[r].start = 0 THEN "init" ELSE "on"
    BY <1>1, <1>2, <2>1, ToldMeans
  <2>3. StateOf(Locked, Job(Locked, "rec"))' = IF rows'[r].start = 0 THEN "init" ELSE "on"
    BY <1>1, <2>1, ToldMeansNext
  <2> QED BY <2>1, <2>2, <2>3
<1> QED BY <1>3, <1>4

LEMMA SteadyStops ==
    ASSUME JobInv, Steady,
           \A b \in DOMAIN bots : bots'[b].st = "in" /\ rows[b].ended =>
              bots[b].st = "in" /\ rows'[b].start = rows[b].start
    PROVE  Stopping'
<1> SUFFICES ASSUME "overlap" \notin past', NEW b \in DOMAIN bots', bots'[b].st = "in", call'.on,
                    rows'[b].call = call'.id, rows'[b].ended, rows'[b].start # 0
             PROVE  bots'[b].ends
  BY DEF Stopping, InCall, Locked
<1>1. b \in DOMAIN bots /\ b \in DOMAIN rows /\ "overlap" \notin past
  BY LockedFacts DEF Steady
<1>2. bots[b].st = "in" /\ call.on /\ rows[b].call = call.id /\ rows[b].ended /\ rows[b].start # 0
  BY <1>1 DEF Steady
<1>3. bots[b].ends
  BY <1>1, <1>2 DEF JobInv, Stopping, InCall, Locked
<1> QED BY <1>1, <1>3 DEF Steady

LEMMA SteadyKept ==
    ASSUME JobInv, Steady, reqs' \subseteq reqs,
           \A b \in DOMAIN bots : bots'[b].st = "none" <=> bots[b].st = "none",
           "overlap" \notin past' =>
              reqs' = {} \/ \A r \in Active("rec") : rows'[r].job = rows[r].job,
           \A b \in DOMAIN bots : bots'[b].st = "in" /\ rows[b].ended =>
              bots[b].st = "in" /\ rows'[b].start = rows[b].start,
           Captioned', Joined', Watching', RecordingTold'
    PROVE  JobInv'
<1>0. DOMAIN bots = DOMAIN rows /\ reqs' \subseteq Requests
  BY LockedFacts DEF JobInv, Typed
<1>1. Typed' /\ Single' /\ \A k : Active(k)' = Active(k)
  BY <1>0, SteadyTypes
<1>2. Requested'
  BY <1>0 DEF JobInv, Requested, Steady
<1>3. Bare'
  BY <1>0 DEF JobInv, Bare, Steady
<1>4. Apart'
  <2> SUFFICES ASSUME "overlap" \notin past'
               PROVE  /\ \A p, q \in reqs' : p = q
                      /\ Active("tr")' # {} => Active("rec")' # {}
                      /\ \A q \in reqs' : q.at = "rec" =>
                            Active("tr")' = {} /\ \A r \in Active("rec")' : r = q.run /\ rows'[r].job = 0
                      /\ \A q \in reqs' : q.at = "tr" => \A r \in Active("tr")' : r = q.run
    BY DEF Apart
  <2>1. /\ \A p, q \in reqs : p = q
        /\ Active("tr") # {} => Active("rec") # {}
        /\ \A q \in reqs : q.at = "rec" =>
              Active("tr") = {} /\ \A r \in Active("rec") : r = q.run /\ rows[r].job = 0
        /\ \A q \in reqs : q.at = "tr" => \A r \in Active("tr") : r = q.run
    BY DEF JobInv, Apart, Steady
  <2> QED BY <1>1, <2>1
<1>5. Stopping'
  BY SteadyStops
<1> QED BY <1>1, <1>2, <1>3, <1>4, <1>5 DEF JobInv

LEMMA SavedSteady ==
    ASSUME Typed, NEW t \in States, Saved(t), Len(t.rows) = Len(rows), Len(t.bots) = Len(bots),
           DOMAIN t.rows = DOMAIN rows, DOMAIN t.bots = DOMAIN bots,
           \A r \in DOMAIN rows : /\ t.rows[r].k = rows[r].k /\ t.rows[r].call = rows[r].call
                                  /\ t.rows[r].ended = rows[r].ended,
           \A b \in DOMAIN bots : t.bots[b].ends = bots[b].ends,
           cfg' = cfg, call' = call, past \subseteq past'
    PROVE  Steady /\ rows' = t.rows /\ bots' = t.bots /\ told' = t.told
  BY DEF Steady, Saved, States

\* A new call has no jobs yet.
LEMMA BeginKept ==
    ASSUME JobInv, CallBegins
    PROVE  JobInv'
<1>0. Typed /\ DOMAIN bots = DOMAIN rows
  BY LockedFacts
<1>1. /\ call' = [id |-> call.id + 1, on |-> TRUE, users |-> TRUE] /\ told' = "off" /\ cfg' = cfg /\ rows' = rows
      /\ bots' = bots /\ reqs' = reqs /\ timers' = timers /\ past' = past
  BY DEF CallBegins
<1>2. \A r \in DOMAIN rows' : rows'[r].call # call'.id
  BY <1>0, <1>1, StateTypes, LockedState DEF Typed
<1>3. \A k : Active(k)' = {}
  BY <1>2, ActiveMeansNext
<1>4. Typed'
  <2>1. \A r \in DOMAIN rows : rows[r].call \in Nat
    BY <1>0, StateTypes, LockedState
  <2>2. call.id \in Nat /\ call'.id = call.id + 1 /\ call'.on /\ call' \in [id : Nat, on : BOOLEAN, users : BOOLEAN]
    BY <1>0, <1>1 DEF Typed
  <2> QED BY <1>0, <1>1, <2>1, <2>2 DEF Typed, Tolds
<1>5. Requested' /\ Bare'
  BY <1>1 DEF JobInv, Requested, Bare
<1>6. Single' /\ Captioned' /\ Joined' /\ Watching'
  BY <1>3 DEF Single, Captioned, Joined, Watching
<1>7. Apart'
  BY <1>1, <1>3 DEF JobInv, Apart
<1>8. Stopping'
  BY <1>0, <1>1, <1>2 DEF Stopping, InCall, Locked
<1>9. RecordingTold'
  BY <1>1, <1>3, <1>4, <1>6, ToldMeansNext DEF RecordingTold
<1> QED BY <1>4, <1>5, <1>6, <1>7, <1>8, <1>9 DEF JobInv

\* RunJob runs the bot of the request's own row, which nobody else runs.
LEMMA RunKept ==
    ASSUME JobInv, NEW q \in reqs, NEW ok \in BOOLEAN, RunJob(q, ok)
    PROVE  JobInv'
<1> DEFINE p == [q EXCEPT !.res = IF ok THEN "ok" ELSE "err"]
<1>0. /\ Typed /\ DOMAIN bots = DOMAIN rows /\ Locked \in States /\ Locked.bots = bots /\ Locked.rows = rows
      /\ q \in Requests /\ reqs \subseteq Requests
  BY LockedFacts DEF JobInv, Typed
<1>1. /\ q.res = "wait" /\ reqs' = (reqs \ {q}) \cup {p}
      /\ bots' = (IF ok THEN [bots EXCEPT ![q.run].st = "way"] ELSE bots)
      /\ cfg' = cfg /\ call' = call /\ rows' = rows /\ timers' = timers /\ told' = told /\ past' = past
  BY DEF RunJob
<1>2. /\ p \in Requests /\ p.at = q.at /\ p.run = q.run /\ p.rec = q.rec
      /\ p.res = (IF ok THEN "ok" ELSE "err") /\ q.at \in {"rec", "tr"}
  BY <1>0 DEF Requests
<1>3. /\ q.run \in DOMAIN rows /\ rows[q.run].k = q.at /\ bots[q.run].st = "none"
      /\ \A o \in reqs : o.run = q.run => o = q
  BY <1>1 DEF JobInv, Requested
<1>4. /\ bots' \in Seq(Bots) /\ Len(bots') = Len(bots) /\ DOMAIN bots' = DOMAIN bots
      /\ \A b \in DOMAIN bots : /\ bots'[b].id = bots[b].id /\ bots'[b].ends = bots[b].ends
                                /\ bots'[b].st = bots[b].st \/ (b = q.run /\ ok /\ bots'[b].st = "way")
  <2>1. CASE ~ok
    BY <1>0, <1>1, <2>1 DEF Typed
  <2>2. CASE ok
    <3> DEFINE v == [bots[q.run] EXCEPT !.st = "way"]
    <3>1. bots[q.run] \in Bots /\ q.run \in DOMAIN bots /\ bots \in Seq(Bots)
      BY <1>0, <1>3, StateTypes
    <3>2. v \in Bots /\ v.st = "way" /\ v.id = bots[q.run].id /\ v.ends = bots[q.run].ends
      BY <3>1 DEF Bots
    <3>3. bots' = [bots EXCEPT ![q.run] = v]
      BY <1>1, <2>2
    <3> HIDE DEF v
    <3>4. /\ bots' \in Seq(Bots) /\ Len(bots') = Len(bots) /\ DOMAIN bots' = DOMAIN bots
          /\ \A b \in DOMAIN bots : bots'[b] = IF b = q.run THEN v ELSE bots[b]
      BY <3>1, <3>2, <3>3, ReplacedIn
    <3> QED BY <2>2, <3>2, <3>4
  <2> QED BY <2>1, <2>2
<1> HIDE DEF p
<1>5. Steady /\ reqs' \subseteq Requests
  BY <1>0, <1>1, <1>2, <1>4 DEF Steady, Typed
<1>6. Typed' /\ Single' /\ \A k : Active(k)' = Active(k)
  BY <1>5, SteadyTypes
<1>7. Requested'
  <2> SUFFICES ASSUME NEW o \in reqs'
               PROVE  /\ o.run \in DOMAIN rows' /\ rows'[o.run].k = o.at
                      /\ o.res # "ok" => bots'[o.run].st = "none"
                      /\ \A n \in reqs' : n.run = o.run => n = o
    BY DEF Requested
  <2>1. CASE o = p
    <3>1. /\ o.run \in DOMAIN rows' /\ rows'[o.run].k = o.at /\ (o.res # "ok" => bots'[o.run].st = "none")
      BY <1>0, <1>1, <1>2, <1>3, <1>4, <2>1
    <3>2. \A n \in reqs' : n.run = o.run => n = o
      BY <1>1, <1>2, <1>3, <2>1
    <3> QED BY <3>1, <3>2
  <2>2. CASE o # p
    <3>1. o \in reqs /\ o # q
      BY <1>1, <2>2
    <3>2. /\ o.run \in DOMAIN rows /\ rows[o.run].k = o.at /\ (o.res # "ok" => bots[o.run].st = "none")
          /\ \A n \in reqs : n.run = o.run => n = o
      BY <3>1 DEF JobInv, Requested
    <3>3. o.run # q.run
      BY <1>3, <3>1
    <3> QED BY <1>0, <1>1, <1>2, <1>4, <3>1, <3>2, <3>3
  <2> QED BY <2>1, <2>2
<1>8. Bare'
  BY <1>0, <1>1, <1>2, <1>3, <1>4 DEF JobInv, Bare
<1>9. Apart'
  BY <1>1, <1>2, <1>6 DEF JobInv, Apart
<1>10. Captioned'
  BY <1>1, <1>6 DEF JobInv, Captioned
<1>11. \A r \in Active("rec") \cup Active("tr") :
          /\ r \in DOMAIN bots /\ (r = q.run => rows[r].start = 0)
          /\ bots'[r].st = "in" => bots[r].st = "in"
          /\ rows[r].start # 0 => bots'[r].st = bots[r].st
  <2>1. \A r \in Active("rec") \cup Active("tr") : r \in DOMAIN bots /\ (r = q.run => rows[r].start = 0)
    BY <1>0, <1>3, ActiveMeans DEF JobInv, Joined
  <2> QED BY <1>4, <2>1
<1>12. Joined'
  <2> SUFFICES ASSUME NEW r \in Active("rec") \cup Active("tr")
               PROVE  /\ rows'[r].conn \in {NoConn, <<r, bots'[r].id>>}
                      /\ bots'[r].st = "in" => rows'[r].conn = <<r, bots'[r].id>>
                      /\ "renamed" \notin past' => bots'[r].id = 1
                      /\ rows'[r].start # 0 => bots'[r].st \in {"in", "gone"}
    BY <1>6 DEF Joined
  <2>1. /\ rows[r].conn \in {NoConn, <<r, bots[r].id>>}
        /\ bots[r].st = "in" => rows[r].conn = <<r, bots[r].id>>
        /\ "renamed" \notin past => bots[r].id = 1
        /\ rows[r].start # 0 => bots[r].st \in {"in", "gone"}
    BY DEF JobInv, Joined
  <2>2. bots'[r].id = bots[r].id
    BY <1>4, <1>11
  <2> QED BY <1>1, <1>11, <2>1, <2>2
<1>13. Watching'
  <2> SUFFICES ASSUME {"unchecked", "renamed"} \cap past = {}, NEW r \in Active("rec") \cup Active("tr")
               PROVE  IF rows'[r].start = 0 THEN WatchedBy(r)' ELSE bots'[r].st = "in"
    BY <1>1, <1>6 DEF Watching
  <2>1. IF rows[r].start = 0 THEN WatchedBy(r) ELSE bots[r].st = "in"
    BY DEF JobInv, Watching
  <2>2. WatchedBy(r) => WatchedBy(r)'
    <3>1. CASE rows[r].job = 0
      BY <1>1, <1>2, <3>1 DEF WatchedBy
    <3>2. CASE rows[r].job # 0
      BY <1>1, <1>2, <3>2 DEF WatchedBy
    <3> QED BY <3>1, <3>2
  <2> QED BY <1>1, <1>11, <2>1, <2>2
<1>14. Stopping'
  BY <1>1, <1>4, <1>5, SteadyStops
<1>15. RecordingTold'
  BY <1>1, <1>5, SteadyTold
<1> QED BY <1>6, <1>7, <1>8, <1>9, <1>10, <1>12, <1>13, <1>14, <1>15 DEF JobInv

\* The recording's request ends once both bots run: the timers take over.
LEMMA TranscriptionRunsKept ==
    ASSUME JobInv, NEW q \in reqs, TranscriptionRuns(q)
    PROVE  JobInv'
<1>0. /\ Typed /\ Single /\ Locked \in States /\ DOMAIN bots = DOMAIN rows /\ 0 \notin DOMAIN rows
      /\ Locked.rows = rows /\ Locked.bots = bots /\ Locked.told = told
      /\ \A k : Job(Locked, k) # 0 => Job(Locked, k) \in Active(k)
      /\ \A k \in {"rec", "tr"} : \A r \in Active(k) : r = Job(Locked, k)
      /\ q \in Requests
  BY LockedFacts DEF JobInv, Typed
<1>1. /\ q.at = "tr" /\ cfg' = cfg /\ call' = call /\ reqs' = reqs \ {q}
      /\ past' = (IF q.shown = StateOf(Locked, Job(Locked, "rec")) THEN past ELSE past \cup {"stale"})
      /\ timers' = timers \cup {Timer("tr", q.run), Timer("rec", q.rec)}
  BY DEF TranscriptionRuns, Returned, Forget
<1>2. q.run \in DOMAIN rows /\ rows[q.run].k = "tr" /\ q.run # 0 /\ q.run \in Nat /\ q.shown \in Tolds
  BY <1>0, <1>1 DEF JobInv, Requested, Requests
<1> DEFINE t == Job(Locked, "tr")
           s == [Locked EXCEPT !.rows[t].job = q.run]
<1>3. PICK l \in LiveCaptions(Locked) :
         /\ t # 0 /\ rows[t].job = 0
         /\ Saved(Publish(IF cfg = "lc" /\ l # 0 THEN [s EXCEPT !.rows[l].job = q.run] ELSE s, q.shown))
  BY DEF TranscriptionRuns
<1> DEFINE u == IF cfg = "lc" /\ l # 0 THEN [s EXCEPT !.rows[l].job = q.run] ELSE s
           w == Publish(u, q.shown)
<1>4. l = 0 \/ (l \in DOMAIN rows /\ rows[l].k = "lc")
  BY <1>0, LiveMeans DEF Captions
<1>5. t \in DOMAIN rows /\ rows[t].k = "tr" /\ t \in Active("tr")
  BY <1>0, <1>3, ActiveMeans
<1>6. Saved(w) /\ rows[t].job = 0
  BY <1>3
<1> HIDE DEF t
<1>7. /\ s \in States /\ Len(s.rows) = Len(rows) /\ DOMAIN s.rows = DOMAIN rows /\ s.bots = bots
      /\ \A r \in DOMAIN rows :
            /\ s.rows[r].k = rows[r].k /\ s.rows[r].call = rows[r].call /\ s.rows[r].ended = rows[r].ended
            /\ s.rows[r].start = rows[r].start /\ s.rows[r].conn = rows[r].conn
            /\ s.rows[r].job = IF r = t THEN q.run ELSE rows[r].job
  BY <1>0, <1>2, <1>5, JobSet
<1> HIDE DEF s
<1>8. /\ u \in States /\ Len(u.rows) = Len(rows) /\ DOMAIN u.rows = DOMAIN rows /\ u.bots = bots
      /\ \A r \in DOMAIN rows :
            /\ u.rows[r].k = rows[r].k /\ u.rows[r].call = rows[r].call /\ u.rows[r].ended = rows[r].ended
            /\ u.rows[r].start = rows[r].start /\ u.rows[r].conn = rows[r].conn
            /\ rows[r].k # "lc" => u.rows[r].job = IF r = t THEN q.run ELSE rows[r].job
  <2>1. CASE cfg = "lc" /\ l # 0
    <3> DEFINE v == [s EXCEPT !.rows[l].job = q.run]
    <3>1. l \in DOMAIN s.rows /\ s \in States /\ q.run \in Nat /\ v = [s EXCEPT !.rows[l].job = q.run] /\ u = v
      BY <1>2, <1>4, <1>7, <2>1
    <3> HIDE DEF u, v
    <3>2. /\ v \in States /\ Len(v.rows) = Len(s.rows) /\ DOMAIN v.rows = DOMAIN s.rows /\ v.bots = s.bots
          /\ \A r \in DOMAIN s.rows :
                /\ v.rows[r].k = s.rows[r].k /\ v.rows[r].call = s.rows[r].call /\ v.rows[r].ended = s.rows[r].ended
                /\ v.rows[r].start = s.rows[r].start /\ v.rows[r].conn = s.rows[r].conn
                /\ v.rows[r].job = IF r = l THEN q.run ELSE s.rows[r].job
      BY <3>1, JobSet, SMTT(30)
    <3> QED BY <1>4, <1>7, <2>1, <3>1, <3>2
  <2>2. CASE ~(cfg = "lc" /\ l # 0)
    <3>1. u = s
      BY <2>2
    <3> HIDE DEF u
    <3> QED BY <1>7, <3>1
  <2> QED BY <2>1, <2>2
<1> HIDE DEF u
<1>9. w \in States /\ w.rows = u.rows /\ w.bots = u.bots /\ w.told = q.shown
  BY <1>2, <1>8 DEF Publish, States
<1> HIDE DEF w
<1>10. Steady /\ rows' = u.rows /\ bots' = bots /\ told' = q.shown /\ past \subseteq past'
  <2>1. past \subseteq past'
    BY <1>1
  <2>2. Steady /\ rows' = w.rows /\ bots' = w.bots /\ told' = w.told
    BY <1>0, <1>1, <1>6, <1>8, <1>9, <2>1, SavedSteady
  <2> QED BY <1>8, <1>9, <2>1, <2>2
<1>11. reqs' \subseteq reqs /\ reqs' \subseteq Requests
  BY <1>0, <1>1 DEF Typed
<1>12. Typed' /\ Single' /\ \A k : Active(k)' = Active(k)
  BY <1>10, <1>11, SteadyTypes
<1>13. \A r \in Active("rec") \cup Active("tr") : /\ r \in DOMAIN rows /\ rows[r].k # "lc"
                                                  /\ r = t => r \in Active("tr")
                                                  /\ r \in Active("tr") => r = t
  BY <1>0, <1>5, ActiveMeans DEF t
<1>14. Joined'
  <2> SUFFICES ASSUME NEW r \in Active("rec") \cup Active("tr")
               PROVE  /\ rows'[r].conn \in {NoConn, <<r, bots'[r].id>>}
                      /\ bots'[r].st = "in" => rows'[r].conn = <<r, bots'[r].id>>
                      /\ "renamed" \notin past' => bots'[r].id = 1
                      /\ rows'[r].start # 0 => bots'[r].st \in {"in", "gone"}
    BY <1>12 DEF Joined
  <2>1. /\ rows[r].conn \in {NoConn, <<r, bots[r].id>>}
        /\ bots[r].st = "in" => rows[r].conn = <<r, bots[r].id>>
        /\ "renamed" \notin past => bots[r].id = 1
        /\ rows[r].start # 0 => bots[r].st \in {"in", "gone"}
    BY DEF JobInv, Joined
  <2> QED BY <1>8, <1>10, <1>13, <2>1
<1>15. Captioned'
  <2> SUFFICES ASSUME "captions" \notin past, NEW m \in Active("lc")
               PROVE  /\ Active("tr") # {}
                      /\ \A n \in Active("lc") : n = m
                      /\ \A i \in Active("tr") :
                            rows'[m].conn = rows'[i].conn /\ (rows'[i].start = 0 => rows'[m].start = 0)
    BY <1>10, <1>12 DEF Captioned
  <2>1. /\ Active("tr") # {}
        /\ \A n \in Active("lc") : n = m
        /\ \A i \in Active("tr") : rows[m].conn = rows[i].conn /\ (rows[i].start = 0 => rows[m].start = 0)
    BY DEF JobInv, Captioned
  <2>2. m \in DOMAIN rows /\ \A i \in Active("tr") : i \in DOMAIN rows
    BY ActiveMeans
  <2> QED BY <1>8, <1>10, <2>1, <2>2
<1>16. Watching'
  <2> SUFFICES ASSUME {"unchecked", "renamed"} \cap past = {}, NEW r \in Active("rec") \cup Active("tr")
               PROVE  IF rows'[r].start = 0 THEN WatchedBy(r)' ELSE bots'[r].st = "in"
    BY <1>10, <1>12 DEF Watching
  <2>1. IF rows[r].start = 0 THEN WatchedBy(r) ELSE bots[r].st = "in"
    BY DEF JobInv, Watching
  <2>2. /\ r \in DOMAIN rows /\ rows'[r].start = rows[r].start /\ rows'[r].k = rows[r].k
        /\ rows'[r].job = IF r = t THEN q.run ELSE rows[r].job
    BY <1>8, <1>10, <1>13
  <2>3. WatchedBy(r) => WatchedBy(r)'
    <3>1. CASE r = t
      BY <1>1, <1>2, <1>5, <2>2, <3>1 DEF WatchedBy
    <3>2. CASE r # t
      <4>1. rows[r].k = "rec" /\ rows'[r].job = rows[r].job
        BY <1>13, <2>2, <3>2, ActiveMeans
      <4>2. CASE rows[r].job = 0
        BY <1>1, <1>2, <4>1, <4>2 DEF WatchedBy
      <4>3. CASE rows[r].job # 0
        BY <1>1, <2>2, <4>1, <4>3 DEF WatchedBy
      <4> QED BY <4>2, <4>3
    <3> QED BY <3>1, <3>2
  <2> QED BY <1>10, <2>1, <2>2, <2>3
<1>17. RecordingTold'
  <2> SUFFICES ASSUME past' \cap {"overlap", "unchecked", "timeout", "stale"} = {}
               PROVE  told' = StateOf(Locked, Job(Locked, "rec"))'
    BY DEF RecordingTold
  <2>1. told' = StateOf(Locked, Job(Locked, "rec"))
    BY <1>1, <1>10
  <2>2. CASE Active("rec") = {}
    BY <1>0, <1>12, <2>1, <2>2, ToldMeans, ToldMeansNext
  <2>3. CASE Active("rec") # {}
    <3>1. PICK r : r \in Active("rec")
      BY <2>3
    <3>2. told' = IF rows[r].start = 0 THEN "init" ELSE "on"
      BY <1>0, <2>1, <3>1, ToldMeans
    <3>3. StateOf(Locked, Job(Locked, "rec"))' = IF rows'[r].start = 0 THEN "init" ELSE "on"
      BY <1>12, <3>1, ToldMeansNext
    <3> QED BY <1>8, <1>10, <1>13, <3>1, <3>2, <3>3
  <2> QED BY <2>2, <2>3
<1>18. "overlap" \notin past' => reqs' = {}
  BY <1>1, <1>10 DEF JobInv, Apart
<1>19. \A b \in DOMAIN bots : rows'[b].start = rows[b].start
  BY <1>0, <1>8, <1>10
<1> QED BY <1>10, <1>11, <1>14, <1>15, <1>16, <1>17, <1>18, <1>19, SteadyKept

-----------------------------------------------------------------------------
(* What bots do *)

\* One bot changes.
LEMMA BotSet ==
    ASSUME NEW s \in States, NEW b \in DOMAIN s.bots, NEW v \in Bots, NEW t, t = WithBot(s, b, v),
           v.ends = s.bots[b].ends
    PROVE  /\ t \in States /\ Len(t.bots) = Len(s.bots) /\ DOMAIN t.bots = DOMAIN s.bots
           /\ t.rows = s.rows /\ t.told = s.told
           /\ \A c \in DOMAIN s.bots : /\ t.bots[c].ends = s.bots[c].ends
                                       /\ t.bots[c].st = IF c = b THEN v.st ELSE s.bots[c].st
                                       /\ t.bots[c].id = IF c = b THEN v.id ELSE s.bots[c].id
<1>1. /\ t \in States /\ Len(t.bots) = Len(s.bots) /\ DOMAIN t.bots = DOMAIN s.bots
      /\ t.rows = s.rows /\ t.told = s.told
      /\ \A c \in DOMAIN s.bots : t.bots[c] = IF c = b THEN v ELSE s.bots[c]
  BY WithBotState
<1> QED BY <1>1

\* The bot of a job that has ended, or has started already, is turned away.
LEMMA TurnedAway ==
    ASSUME JobInv, NEW b \in DOMAIN bots, BotJoins(b), ~(b = Job(Locked, rows[b].k) /\ rows[b].start = 0)
    PROVE  JobInv'
<1>0. /\ Typed /\ Locked \in States /\ DOMAIN bots = DOMAIN rows
      /\ Locked.rows = rows /\ Locked.bots = bots /\ Locked.told = told
      /\ \A k \in {"rec", "tr"} : \A r \in Active(k) : r = Job(Locked, k)
  BY LockedFacts
<1>1. /\ Saved([Locked EXCEPT !.bots[b].st = "gone"]) /\ bots[b].st = "way"
      /\ cfg' = cfg /\ call' = call /\ reqs' = reqs /\ timers' = timers /\ past' = past
  BY DEF BotJoins, BotStep
<1> DEFINE v == [bots[b] EXCEPT !.st = "gone"]
           t == WithBot(Locked, b, v)
<1>2. bots[b] \in Bots
  BY <1>0, StateTypes
<1>3. v \in Bots /\ v.st = "gone" /\ v.id = bots[b].id /\ v.ends = bots[b].ends
  BY <1>2 DEF Bots
<1>4. Saved(t)
  BY <1>0, <1>1 DEF WithBot
<1> HIDE DEF v
<1>5. /\ t \in States /\ Len(t.bots) = Len(bots) /\ DOMAIN t.bots = DOMAIN bots
      /\ t.rows = rows /\ t.told = told
      /\ \A c \in DOMAIN bots : /\ t.bots[c].ends = bots[c].ends
                                /\ t.bots[c].st = IF c = b THEN "gone" ELSE bots[c].st
                                /\ t.bots[c].id = bots[c].id
  BY <1>0, <1>3, BotSet
<1> HIDE DEF t
<1>6. Steady /\ rows' = rows /\ bots' = t.bots /\ told' = told
  <2>1. Steady /\ rows' = t.rows /\ bots' = t.bots /\ told' = t.told
    BY <1>0, <1>1, <1>4, <1>5, SavedSteady
  <2> QED BY <1>5, <2>1
<1>7. Typed' /\ Single' /\ (\A k : Active(k)' = Active(k)) /\ reqs' \subseteq Requests
  BY <1>0, <1>1, <1>6, SteadyTypes DEF Typed
<1>8. \A r \in Active("rec") \cup Active("tr") : r \in DOMAIN bots /\ r # b
  <2> SUFFICES ASSUME NEW r \in Active("rec") \cup Active("tr"), r = b PROVE FALSE
    BY <1>0, ActiveMeans
  <2>1. b = Job(Locked, rows[b].k)
    BY <1>0, ActiveMeans
  <2>2. rows[b].start # 0 => bots[b].st \in {"in", "gone"}
    BY DEF JobInv, Joined
  <2> QED BY <1>1, <2>1, <2>2
<1>9. Captioned'
  BY <1>1, <1>6, <1>7 DEF JobInv, Captioned
<1>10. Joined'
  <2> SUFFICES ASSUME NEW r \in Active("rec") \cup Active("tr")
               PROVE  /\ rows'[r].conn \in {NoConn, <<r, bots'[r].id>>}
                      /\ bots'[r].st = "in" => rows'[r].conn = <<r, bots'[r].id>>
                      /\ "renamed" \notin past' => bots'[r].id = 1
                      /\ rows'[r].start # 0 => bots'[r].st \in {"in", "gone"}
    BY <1>7 DEF Joined
  <2>1. /\ rows[r].conn \in {NoConn, <<r, bots[r].id>>}
        /\ bots[r].st = "in" => rows[r].conn = <<r, bots[r].id>>
        /\ "renamed" \notin past => bots[r].id = 1
        /\ rows[r].start # 0 => bots[r].st \in {"in", "gone"}
    BY DEF JobInv, Joined
  <2> QED BY <1>1, <1>5, <1>6, <1>8, <2>1
<1>11. Watching'
  <2> SUFFICES ASSUME {"unchecked", "renamed"} \cap past = {}, NEW r \in Active("rec") \cup Active("tr")
               PROVE  IF rows'[r].start = 0 THEN WatchedBy(r)' ELSE bots'[r].st = "in"
    BY <1>1, <1>7 DEF Watching
  <2>1. IF rows[r].start = 0 THEN WatchedBy(r) ELSE bots[r].st = "in"
    BY DEF JobInv, Watching
  <2>2. WatchedBy(r) => WatchedBy(r)'
    BY <1>1, <1>6 DEF WatchedBy
  <2> QED BY <1>5, <1>6, <1>8, <2>1, <2>2
<1>12. RecordingTold'
  BY <1>6, <1>7, SteadyTold
<1>13. \A c \in DOMAIN bots : /\ bots'[c].st = "none" <=> bots[c].st = "none"
                              /\ bots'[c].st = "in" => bots[c].st = "in"
  BY <1>1, <1>5, <1>6
<1> QED BY <1>1, <1>6, <1>9, <1>10, <1>11, <1>12, <1>13, SteadyKept

\* A bot whose job still waits for it joins the call.
LEMMA JoinKept ==
    ASSUME JobInv, NEW b \in DOMAIN bots, BotJoins(b), b = Job(Locked, rows[b].k), rows[b].start = 0
    PROVE  JobInv'
<1>0. /\ Typed /\ Single /\ Locked \in States /\ DOMAIN bots = DOMAIN rows /\ 0 \notin DOMAIN rows
      /\ Locked.rows = rows /\ Locked.bots = bots /\ Locked.told = told
      /\ \A k : Job(Locked, k) # 0 => Job(Locked, k) \in Active(k)
      /\ \A k \in {"rec", "tr"} : \A r \in Active(k) : r = Job(Locked, k)
  BY LockedFacts
<1>1. /\ bots[b].st = "way"
      /\ cfg' = cfg /\ call' = call /\ reqs' = reqs /\ timers' = timers /\ past' = past
  BY DEF BotJoins, BotStep
<1> DEFINE s == [Locked EXCEPT !.bots[b].st = "in", !.rows[b].conn = Conn(b)]
<1>2. PICK l \in LiveCaptions(Locked) :
         LET t == IF rows[b].k = "tr" /\ l # 0 /\ rows[l].start = 0
                  THEN [s EXCEPT !.rows[l].conn = Conn(b)] ELSE s
             r == Job(t, "rec")
         IN  Saved(IF r = 0 THEN t ELSE Publish(t, StateOf(t, r)))
  BY DEF BotJoins
<1> DEFINE follows == rows[b].k = "tr" /\ l # 0 /\ rows[l].start = 0
           u == [s EXCEPT !.rows[l].conn = Conn(b)]
           t == IF follows THEN u ELSE s
           r == Job(t, "rec")
           w == IF r = 0 THEN t ELSE Publish(t, StateOf(t, r))
<1>3. Saved(w)
  BY <1>2
<1>4. /\ l = 0 \/ (l \in DOMAIN rows /\ rows[l].k = "lc")
      /\ l = 0 => Active("lc") = {}
      /\ "captions" \notin past => Active("lc") \subseteq {l}
  BY <1>0, LiveMeans DEF Captions
<1>5. /\ b \in DOMAIN rows /\ b # 0 /\ b \in Nat /\ bots[b] \in Bots /\ rows[b].k \in {"rec", "tr"}
      /\ b \in Active(rows[b].k) /\ Conn(b) = <<b, bots[b].id>> /\ Conn(b) \in Nat \X Nat
  <2>1. b \in Nat /\ bots[b] \in Bots /\ bots[b].id \in {1, 2} /\ rows[b].k \in Kinds
    BY <1>0, StateTypes
  <2>2. rows[b].k # "lc"
    BY <1>0, <1>1 DEF JobInv, Bare
  <2> QED BY <1>0, <2>1, <2>2 DEF Conn, Kinds
<1> DEFINE v == [bots[b] EXCEPT !.st = "in"]
           e == WithBot(Locked, b, v)
<1>6. v \in Bots /\ v.st = "in" /\ v.id = bots[b].id /\ v.ends = bots[b].ends
  BY <1>5 DEF Bots
<1>7. s = [e EXCEPT !.rows[b].conn = Conn(b)]
  BY <1>0 DEF WithBot
<1> HIDE DEF v
<1>8. /\ e \in States /\ Len(e.bots) = Len(bots) /\ DOMAIN e.bots = DOMAIN bots
      /\ e.rows = rows /\ e.told = told
      /\ \A c \in DOMAIN bots : /\ e.bots[c].ends = bots[c].ends
                                /\ e.bots[c].st = IF c = b THEN "in" ELSE bots[c].st
                                /\ e.bots[c].id = bots[c].id
  BY <1>0, <1>6, BotSet
<1> HIDE DEF e, s
<1>9. /\ s \in States /\ Len(s.rows) = Len(rows) /\ DOMAIN s.rows = DOMAIN rows /\ s.bots = e.bots /\ s.told = told
      /\ \A q \in DOMAIN rows :
            /\ s.rows[q].k = rows[q].k /\ s.rows[q].call = rows[q].call /\ s.rows[q].ended = rows[q].ended
            /\ s.rows[q].start = rows[q].start /\ s.rows[q].job = rows[q].job
            /\ s.rows[q].conn = IF q = b THEN Conn(b) ELSE rows[q].conn
  <2>1. e \in States /\ b \in DOMAIN e.rows /\ Conn(b) \in Nat \X Nat /\ s = [e EXCEPT !.rows[b].conn = Conn(b)]
    BY <1>5, <1>7, <1>8
  <2>2. /\ s \in States /\ Len(s.rows) = Len(e.rows) /\ DOMAIN s.rows = DOMAIN e.rows
        /\ s.bots = e.bots /\ s.told = e.told
        /\ \A q \in DOMAIN e.rows :
              /\ s.rows[q].k = e.rows[q].k /\ s.rows[q].call = e.rows[q].call
              /\ s.rows[q].ended = e.rows[q].ended /\ s.rows[q].start = e.rows[q].start
              /\ s.rows[q].job = e.rows[q].job
              /\ s.rows[q].conn = IF q = b THEN Conn(b) ELSE e.rows[q].conn
    BY <2>1, ConnSet
  <2> QED BY <1>8, <2>2
<1>10. /\ t \in States /\ Len(t.rows) = Len(rows) /\ DOMAIN t.rows = DOMAIN rows /\ t.bots = e.bots /\ t.told = told
       /\ \A q \in DOMAIN rows :
             /\ t.rows[q].k = rows[q].k /\ t.rows[q].call = rows[q].call /\ t.rows[q].ended = rows[q].ended
             /\ t.rows[q].start = rows[q].start /\ t.rows[q].job = rows[q].job
             /\ t.rows[q].conn = IF q = b \/ (follows /\ q = l) THEN Conn(b) ELSE rows[q].conn
  <2>1. CASE follows
    <3>1. u = [s EXCEPT !.rows[l].conn = Conn(b)] /\ t = u /\ l \in DOMAIN s.rows /\ s \in States
      BY <1>4, <1>9, <2>1
    <3> HIDE DEF u, t
    <3>2. /\ u \in States /\ Len(u.rows) = Len(s.rows) /\ DOMAIN u.rows = DOMAIN s.rows
          /\ u.bots = s.bots /\ u.told = s.told
          /\ \A q \in DOMAIN s.rows :
                /\ u.rows[q].k = s.rows[q].k /\ u.rows[q].call = s.rows[q].call
                /\ u.rows[q].ended = s.rows[q].ended /\ u.rows[q].start = s.rows[q].start
                /\ u.rows[q].job = s.rows[q].job
                /\ u.rows[q].conn = IF q = l THEN Conn(b) ELSE s.rows[q].conn
      BY <1>5, <3>1, ConnSet
    <3> QED BY <1>9, <2>1, <3>1, <3>2
  <2>2. CASE ~follows
    <3>1. t = s
      BY <2>2
    <3> HIDE DEF t
    <3> QED BY <1>9, <2>2, <3>1
  <2> QED BY <2>1, <2>2
<1> HIDE DEF t
<1>11. /\ w \in States /\ w.rows = t.rows /\ w.bots = t.bots
       /\ w.told = IF r = 0 THEN told ELSE StateOf(t, r)
  <2>1. StateOf(t, r) \in Tolds
    BY DEF StateOf, Tolds
  <2> HIDE DEF r
  <2> QED BY <1>10, <2>1 DEF Publish, States
<1> HIDE DEF w
<1>12. Steady /\ rows' = t.rows /\ bots' = e.bots /\ told' = (IF r = 0 THEN told ELSE StateOf(t, r))
  <2> HIDE DEF r
  <2>1. Steady /\ rows' = w.rows /\ bots' = w.bots /\ told' = w.told
    BY <1>0, <1>1, <1>3, <1>8, <1>10, <1>11, SavedSteady
  <2> QED BY <1>10, <1>11, <2>1
<1>13. Typed' /\ Single' /\ (\A k : Active(k)' = Active(k)) /\ reqs' \subseteq Requests
  BY <1>0, <1>1, <1>12, SteadyTypes DEF Typed
<1>14. \A i \in Active("rec") \cup Active("tr") :
          i \in DOMAIN rows /\ rows[i].k # "lc" /\ (rows[i].k = rows[b].k => i = b)
  BY <1>0, ActiveMeans
<1>15. Joined'
  <2> SUFFICES ASSUME NEW i \in Active("rec") \cup Active("tr")
               PROVE  /\ rows'[i].conn \in {NoConn, <<i, bots'[i].id>>}
                      /\ bots'[i].st = "in" => rows'[i].conn = <<i, bots'[i].id>>
                      /\ "renamed" \notin past' => bots'[i].id = 1
                      /\ rows'[i].start # 0 => bots'[i].st \in {"in", "gone"}
    BY <1>13 DEF Joined
  <2>1. /\ rows[i].conn \in {NoConn, <<i, bots[i].id>>}
        /\ bots[i].st = "in" => rows[i].conn = <<i, bots[i].id>>
        /\ "renamed" \notin past => bots[i].id = 1
        /\ rows[i].start # 0 => bots[i].st \in {"in", "gone"}
    BY DEF JobInv, Joined
  <2>2. i \in DOMAIN rows /\ i \in DOMAIN bots /\ (follows => i # l)
    BY <1>0, <1>4, <1>14
  <2>3. /\ rows'[i].start = rows[i].start /\ bots'[i].id = bots[i].id
        /\ bots'[i].st = (IF i = b THEN "in" ELSE bots[i].st)
        /\ rows'[i].conn = IF i = b THEN Conn(b) ELSE rows[i].conn
    BY <1>8, <1>10, <1>12, <2>2
  <2> QED BY <1>1, <1>5, <2>1, <2>3
<1>16. Captioned'
  <2> SUFFICES ASSUME "captions" \notin past, NEW m \in Active("lc")
               PROVE  /\ Active("tr") # {}
                      /\ \A n \in Active("lc") : n = m
                      /\ \A i \in Active("tr") :
                            rows'[m].conn = rows'[i].conn /\ (rows'[i].start = 0 => rows'[m].start = 0)
    BY <1>1, <1>13 DEF Captioned
  <2>1. /\ Active("tr") # {}
        /\ \A n \in Active("lc") : n = m
        /\ \A i \in Active("tr") : rows[m].conn = rows[i].conn /\ (rows[i].start = 0 => rows[m].start = 0)
    BY DEF JobInv, Captioned
  <2>2. m = l /\ m # 0 /\ m \in DOMAIN rows /\ rows[m].k = "lc" /\ m # b
    BY <1>0, <1>4, <1>5, ActiveMeans
  <2>3. ASSUME NEW i \in Active("tr")
        PROVE  rows'[m].conn = rows'[i].conn /\ (rows'[i].start = 0 => rows'[m].start = 0)
    <3>1. i \in DOMAIN rows /\ rows[i].k = "tr" /\ i # l
      BY <2>2, ActiveMeans
    <3>2. CASE rows[b].k = "tr"
      <4>1. i = b
        BY <1>14, <3>1, <3>2
      <4>2. follows
        BY <2>1, <2>2, <2>3, <3>2, <4>1
      <4> QED BY <1>10, <1>12, <2>1, <2>2, <2>3, <3>1, <4>1, <4>2
    <3>3. CASE rows[b].k # "tr"
      <4>1. ~follows /\ i # b
        BY <3>1, <3>3
      <4> HIDE DEF follows
      <4> QED BY <1>10, <1>12, <2>1, <2>2, <2>3, <3>1, <4>1
    <3> QED BY <3>2, <3>3
  <2> QED BY <2>1, <2>3
<1>17. Watching'
  <2> SUFFICES ASSUME {"unchecked", "renamed"} \cap past = {}, NEW i \in Active("rec") \cup Active("tr")
               PROVE  IF rows'[i].start = 0 THEN WatchedBy(i)' ELSE bots'[i].st = "in"
    BY <1>1, <1>13 DEF Watching
  <2>1. IF rows[i].start = 0 THEN WatchedBy(i) ELSE bots[i].st = "in"
    BY DEF JobInv, Watching
  <2>2. /\ i \in DOMAIN bots /\ rows'[i].job = rows[i].job /\ rows'[i].k = rows[i].k
        /\ rows'[i].start = rows[i].start
    BY <1>0, <1>10, <1>12, <1>14
  <2>3. WatchedBy(i) => WatchedBy(i)'
    BY <1>1, <2>2 DEF WatchedBy
  <2> QED BY <1>8, <1>12, <2>1, <2>2, <2>3
<1>18. RecordingTold'
  <2>1. ActiveJobs(t, "rec") = Active("rec") /\ (r = 0 <=> Active("rec") = {}) /\ (r # 0 => r \in Active("rec"))
    <3>1. \A i : i \in ActiveJobs(t, "rec") <=> i \in Active("rec")
      BY <1>10, ActiveMeans DEF ActiveJobs
    <3>2. ActiveJobs(t, "rec") = Active("rec")
      BY <3>1
    <3> QED BY <1>10, <3>2, JobFacts
  <2>2. CASE r = 0
    <3>1. told' = told /\ \A i \in Active("rec") : rows'[i].start = rows[i].start
      BY <1>12, <2>1, <2>2
    <3> QED BY <1>12, <1>13, <3>1, SteadyTold
  <2>3. CASE r # 0
    <3>1. r \in Active("rec") /\ r \in DOMAIN rows /\ ~rows[r].ended
      BY <2>1, <2>3, ActiveMeans
    <3> HIDE DEF r
    <3>2. told' = IF rows'[r].start = 0 THEN "init" ELSE "on"
      BY <1>10, <1>12, <2>3, <3>1 DEF StateOf
    <3>3. StateOf(Locked, Job(Locked, "rec"))' = IF rows'[r].start = 0 THEN "init" ELSE "on"
      BY <1>13, <3>1, ToldMeansNext
    <3> QED BY <3>2, <3>3 DEF RecordingTold
  <2> QED BY <2>2, <2>3
<1>19. \A c \in DOMAIN bots : /\ bots'[c].st = "none" <=> bots[c].st = "none"
                              /\ bots'[c].st = "in" /\ rows[c].ended => bots[c].st = "in"
                              /\ rows'[c].start = rows[c].start
  <2>1. ~rows[b].ended
    BY <1>5, ActiveMeans
  <2> QED BY <1>0, <1>1, <1>8, <1>10, <1>12, <2>1
<1>20. \A i \in Active("rec") : rows'[i].job = rows[i].job
  BY <1>10, <1>12, <1>14
<1> HIDE DEF r
<1> QED BY <1>1, <1>12, <1>15, <1>16, <1>17, <1>18, <1>19, <1>20, SteadyKept

LEMMA NowPositive ==
    ASSUME Typed
    PROVE  Now(Locked) \in Nat /\ Now(Locked) # 0
<1> DEFINE S == {r \in DOMAIN rows : rows[r].start # 0}
<1>1. IsFiniteSet(DOMAIN rows)
  BY LockedState, FS_Interval
<1>2. IsFiniteSet(S)
  BY <1>1, FS_Subset
<1>3. Cardinality(S) \in Nat
  BY <1>2, FS_CardinalityType
<1>4. Now(Locked) = Cardinality(S) + 1
  BY LockedState DEF Now
<1> HIDE DEF S
<1> QED BY <1>3, <1>4

\* The bot reports that it has started.
LEMMA StartedKept ==
    ASSUME JobInv, NEW b \in DOMAIN bots, BotStarted(b)
    PROVE  JobInv'
<1> DEFINE now == Now(Locked)
           s == [Locked EXCEPT !.rows[b].start = now]
<1>0. /\ Typed /\ Single /\ Locked \in States /\ DOMAIN bots = DOMAIN rows /\ 0 \notin DOMAIN rows
      /\ Locked.rows = rows /\ Locked.bots = bots /\ Locked.told = told
      /\ \A k : Job(Locked, k) # 0 => Job(Locked, k) \in Active(k)
      /\ \A k \in {"rec", "tr"} : \A r \in Active(k) : r = Job(Locked, k)
      /\ now \in Nat /\ now # 0
  BY LockedFacts, NowPositive
<1>1. /\ bots[b].st = "in" /\ b = Job(Locked, rows[b].k) /\ rows[b].start = 0
      /\ cfg' = cfg /\ call' = call /\ reqs' = reqs /\ timers' = timers /\ past' = past
  BY DEF BotStarted, BotStep
<1>2. PICK l \in LiveCaptions(Locked) :
         Saved(IF rows[b].k = "rec" THEN Publish(s, "on")
               ELSE IF cfg = "lc" /\ l # 0 THEN [s EXCEPT !.rows[l].start = now] ELSE s)
  BY DEF BotStarted
<1> DEFINE follows == rows[b].k # "rec" /\ cfg = "lc" /\ l # 0
           u == [s EXCEPT !.rows[l].start = now]
           w == IF rows[b].k = "rec" THEN Publish(s, "on") ELSE IF cfg = "lc" /\ l # 0 THEN u ELSE s
<1>3. Saved(w)
  BY <1>2
<1>4. l = 0 \/ (l \in DOMAIN rows /\ rows[l].k = "lc")
  BY <1>0, LiveMeans DEF Captions
<1>5. /\ b \in DOMAIN rows /\ b # 0 /\ rows[b].k \in {"rec", "tr"} /\ b \in Active(rows[b].k) /\ ~rows[b].ended
  <2>1. rows[b].k \in Kinds /\ rows[b].k # "lc"
    BY <1>0, <1>1, StateTypes DEF JobInv, Bare
  <2> QED BY <1>0, <1>1, <2>1, ActiveMeans DEF Kinds
<1>6. s = [Locked EXCEPT !.rows[b].start = now] /\ b \in DOMAIN Locked.rows
  BY <1>0, <1>5
<1> HIDE DEF now, s
<1>7. /\ s \in States /\ Len(s.rows) = Len(rows) /\ DOMAIN s.rows = DOMAIN rows /\ s.bots = bots /\ s.told = told
      /\ \A q \in DOMAIN rows :
            /\ s.rows[q].k = rows[q].k /\ s.rows[q].call = rows[q].call /\ s.rows[q].ended = rows[q].ended
            /\ s.rows[q].job = rows[q].job /\ s.rows[q].conn = rows[q].conn
            /\ s.rows[q].start = IF q = b THEN now ELSE rows[q].start
  BY <1>0, <1>6, StartSet
<1>8. /\ w \in States /\ Len(w.rows) = Len(rows) /\ DOMAIN w.rows = DOMAIN rows /\ w.bots = bots
      /\ w.told = (IF rows[b].k = "rec" THEN "on" ELSE told)
      /\ \A q \in DOMAIN rows :
            /\ w.rows[q].k = rows[q].k /\ w.rows[q].call = rows[q].call /\ w.rows[q].ended = rows[q].ended
            /\ w.rows[q].job = rows[q].job /\ w.rows[q].conn = rows[q].conn
            /\ w.rows[q].start = IF q = b \/ (follows /\ q = l) THEN now ELSE rows[q].start
  <2>1. CASE rows[b].k = "rec"
    <3>1. w = Publish(s, "on") /\ ~follows
      BY <2>1
    <3> HIDE DEF w
    <3>2. w \in States /\ w.rows = s.rows /\ w.bots = s.bots /\ w.told = "on"
      BY <1>7, <3>1 DEF Publish, States, Tolds
    <3> HIDE DEF follows
    <3> QED BY <1>7, <2>1, <3>1, <3>2
  <2>2. CASE follows
    <3>1. w = u /\ u = [s EXCEPT !.rows[l].start = now] /\ l \in DOMAIN s.rows /\ s \in States
          /\ rows[b].k # "rec" /\ now \in Nat
      BY <1>0, <1>4, <1>7, <2>2
    <3> HIDE DEF w, u, follows
    <3>2. /\ u \in States /\ Len(u.rows) = Len(s.rows) /\ DOMAIN u.rows = DOMAIN s.rows
          /\ u.bots = s.bots /\ u.told = s.told
          /\ \A q \in DOMAIN s.rows :
                /\ u.rows[q].k = s.rows[q].k /\ u.rows[q].call = s.rows[q].call
                /\ u.rows[q].ended = s.rows[q].ended /\ u.rows[q].job = s.rows[q].job
                /\ u.rows[q].conn = s.rows[q].conn
                /\ u.rows[q].start = IF q = l THEN now ELSE s.rows[q].start
      BY <3>1, StartSet
    <3> QED BY <1>7, <2>2, <3>1, <3>2
  <2>3. CASE rows[b].k # "rec" /\ ~follows
    <3>1. w = s
      BY <2>3
    <3> HIDE DEF w, follows
    <3> QED BY <1>7, <2>3, <3>1
  <2> QED BY <2>1, <2>2, <2>3
<1> HIDE DEF w
<1>9. Steady /\ rows' = w.rows /\ bots' = bots /\ told' = (IF rows[b].k = "rec" THEN "on" ELSE told)
  <2>1. Steady /\ rows' = w.rows /\ bots' = w.bots /\ told' = w.told
    BY <1>0, <1>1, <1>3, <1>8, SavedSteady
  <2> QED BY <1>8, <2>1
<1>10. Typed' /\ Single' /\ (\A k : Active(k)' = Active(k)) /\ reqs' \subseteq Requests
  BY <1>0, <1>1, <1>9, SteadyTypes DEF Typed
<1>11. \A i \in Active("rec") \cup Active("tr") :
          /\ i \in DOMAIN rows /\ i \in DOMAIN bots /\ rows[i].k # "lc" /\ i # l
          /\ rows[i].k = rows[b].k => i = b
          /\ rows'[i].start = IF i = b THEN now ELSE rows[i].start
  <2>1. \A i \in Active("rec") \cup Active("tr") :
          /\ i \in DOMAIN rows /\ i \in DOMAIN bots /\ rows[i].k # "lc" /\ i # l
          /\ rows[i].k = rows[b].k => i = b
    BY <1>0, <1>1, <1>4, ActiveMeans
  <2> HIDE DEF follows
  <2> QED BY <1>8, <1>9, <2>1
<1>12. Joined'
  <2> SUFFICES ASSUME NEW i \in Active("rec") \cup Active("tr")
               PROVE  /\ rows'[i].conn \in {NoConn, <<i, bots'[i].id>>}
                      /\ bots'[i].st = "in" => rows'[i].conn = <<i, bots'[i].id>>
                      /\ "renamed" \notin past' => bots'[i].id = 1
                      /\ rows'[i].start # 0 => bots'[i].st \in {"in", "gone"}
    BY <1>10 DEF Joined
  <2>1. /\ rows[i].conn \in {NoConn, <<i, bots[i].id>>}
        /\ bots[i].st = "in" => rows[i].conn = <<i, bots[i].id>>
        /\ "renamed" \notin past => bots[i].id = 1
        /\ rows[i].start # 0 => bots[i].st \in {"in", "gone"}
    BY DEF JobInv, Joined
  <2>2. rows'[i].conn = rows[i].conn
    BY <1>8, <1>9, <1>11
  <2> QED BY <1>1, <1>9, <1>11, <2>1, <2>2
<1>13. Captioned'
  <2> SUFFICES ASSUME "captions" \notin past, NEW m \in Active("lc")
               PROVE  /\ Active("tr") # {}
                      /\ \A n \in Active("lc") : n = m
                      /\ \A i \in Active("tr") :
                            rows'[m].conn = rows'[i].conn /\ (rows'[i].start = 0 => rows'[m].start = 0)
    BY <1>1, <1>10 DEF Captioned
  <2>1. /\ Active("tr") # {}
        /\ \A n \in Active("lc") : n = m
        /\ \A i \in Active("tr") : rows[m].conn = rows[i].conn /\ (rows[i].start = 0 => rows[m].start = 0)
    BY DEF JobInv, Captioned
  <2>2. m \in DOMAIN rows /\ rows[m].k = "lc" /\ m # b
    BY <1>5, ActiveMeans
  <2>3. ASSUME NEW i \in Active("tr")
        PROVE  rows'[m].conn = rows'[i].conn /\ (rows'[i].start = 0 => rows'[m].start = 0)
    <3>1. i \in DOMAIN rows /\ rows[i].k = "tr" /\ rows'[i].start = IF i = b THEN now ELSE rows[i].start
      BY <1>11, ActiveMeans
    <3>2. rows'[m].conn = rows[m].conn /\ rows'[i].conn = rows[i].conn
      BY <1>8, <1>9, <2>2, <3>1
    <3>3. CASE i = b
      BY <1>0, <2>1, <3>1, <3>2, <3>3
    <3>4. CASE i # b
      <4>1. rows[b].k = "rec"
        BY <1>5, <1>11, <3>1, <3>4
      <4>2. rows'[m].start = rows[m].start
        BY <1>8, <1>9, <2>2, <4>1
      <4> QED BY <2>1, <3>1, <3>2, <3>4, <4>2
    <3> QED BY <3>3, <3>4
  <2> QED BY <2>1, <2>3
<1>14. Watching'
  <2> SUFFICES ASSUME {"unchecked", "renamed"} \cap past = {}, NEW i \in Active("rec") \cup Active("tr")
               PROVE  IF rows'[i].start = 0 THEN WatchedBy(i)' ELSE bots'[i].st = "in"
    BY <1>1, <1>10 DEF Watching
  <2>1. IF rows[i].start = 0 THEN WatchedBy(i) ELSE bots[i].st = "in"
    BY DEF JobInv, Watching
  <2>2. rows'[i].job = rows[i].job /\ rows'[i].k = rows[i].k
    BY <1>8, <1>9, <1>11
  <2>3. WatchedBy(i) => WatchedBy(i)'
    BY <1>1, <2>2 DEF WatchedBy
  <2> QED BY <1>0, <1>1, <1>9, <1>11, <2>1, <2>3
<1>15. RecordingTold'
  <2>1. CASE rows[b].k = "rec"
    <3>1. told' = "on" /\ b \in Active("rec") /\ rows'[b].start # 0
      BY <1>0, <1>5, <1>9, <1>11, <2>1
    <3>2. StateOf(Locked, Job(Locked, "rec"))' = IF rows'[b].start = 0 THEN "init" ELSE "on"
      BY <1>10, <3>1, ToldMeansNext
    <3> QED BY <3>1, <3>2 DEF RecordingTold
  <2>2. CASE rows[b].k # "rec"
    <3>1. told' = told /\ \A i \in Active("rec") : rows'[i].start = rows[i].start
      BY <1>9, <1>11, <2>2, ActiveMeans
    <3> QED BY <1>9, <1>10, <3>1, SteadyTold
  <2> QED BY <2>1, <2>2
<1>16. \A c \in DOMAIN bots : bots'[c].st = "in" /\ rows[c].ended => rows'[c].start = rows[c].start
  <2>1. \A c \in DOMAIN bots : bots[c].st = "in" => rows[c].k # "lc"
    BY <1>0 DEF JobInv, Bare
  <2> HIDE DEF follows
  <2> QED BY <1>0, <1>4, <1>5, <1>8, <1>9, <2>1
<1>17. \A i \in Active("rec") : rows'[i].job = rows[i].job
  BY <1>8, <1>9, <1>11
<1> QED BY <1>1, <1>9, <1>12, <1>13, <1>14, <1>15, <1>16, <1>17, SteadyKept

LEMMA RenamedState ==
    ASSUME NEW s \in States, NEW r \in {0} \cup DOMAIN s.rows, NEW b \in Nat
    PROVE  /\ Renamed(s, r, b) \in States /\ Len(Renamed(s, r, b).rows) = Len(s.rows)
           /\ DOMAIN Renamed(s, r, b).rows = DOMAIN s.rows
           /\ Renamed(s, r, b).bots = s.bots /\ Renamed(s, r, b).told = s.told
           /\ \A q \in DOMAIN s.rows :
                 LET row == Renamed(s, r, b).rows[q]
                 IN  /\ row.k = s.rows[q].k /\ row.call = s.rows[q].call /\ row.ended = s.rows[q].ended
                     /\ row.start = s.rows[q].start /\ row.job = s.rows[q].job
                     /\ row.conn = IF q = r /\ s.rows[q].conn = Conn(b) THEN <<b, 2>> ELSE s.rows[q].conn
                     /\ q # r => row = s.rows[q]
<1>0. 0 \notin DOMAIN s.rows
  BY StateTypes
<1>1. CASE r # 0 /\ s.rows[r].conn = Conn(b)
  <2> DEFINE c == <<b, 2>>
             t == Renamed(s, r, b)
  <2>1. r \in DOMAIN s.rows /\ c \in Nat \X Nat /\ t = [s EXCEPT !.rows[r].conn = c]
    BY <1>1 DEF Renamed
  <2> HIDE DEF c, t
  <2>2. /\ t \in States /\ Len(t.rows) = Len(s.rows) /\ DOMAIN t.rows = DOMAIN s.rows
        /\ t.bots = s.bots /\ t.told = s.told
        /\ \A q \in DOMAIN s.rows :
              /\ t.rows[q].k = s.rows[q].k /\ t.rows[q].call = s.rows[q].call
              /\ t.rows[q].ended = s.rows[q].ended /\ t.rows[q].start = s.rows[q].start
              /\ t.rows[q].job = s.rows[q].job
              /\ t.rows[q].conn = IF q = r THEN c ELSE s.rows[q].conn
        /\ \A q \in DOMAIN s.rows \ {r} : t.rows[q] = s.rows[q]
    BY <2>1, ConnSet
  <2>3. \A q \in DOMAIN s.rows :
           /\ t.rows[q].conn = IF q = r /\ s.rows[q].conn = Conn(b) THEN <<b, 2>> ELSE s.rows[q].conn
           /\ q # r => t.rows[q] = s.rows[q]
    BY <1>1, <2>2 DEF c
  <2> QED BY <2>2, <2>3 DEF t
<1>2. CASE ~(r # 0 /\ s.rows[r].conn = Conn(b))
  <2>1. Renamed(s, r, b) = s
    BY <1>2 DEF Renamed
  <2> QED BY <1>0, <1>2, <2>1
<1> QED BY <1>1, <1>2

\* A bot reconnects under another id: its job follows, and the captions follow
\* the transcription.
LEMMA ReconnectKept ==
    ASSUME JobInv, NEW b \in DOMAIN bots, BotReconnects(b)
    PROVE  JobInv'
<1> DEFINE i == Job(Locked, "rec")
           j == Job(Locked, "tr")
           s == Renamed(Locked, i, b)
           t == Renamed(s, j, b)
<1>0. /\ Typed /\ Single /\ Locked \in States /\ DOMAIN bots = DOMAIN rows /\ 0 \notin DOMAIN rows
      /\ Locked.rows = rows /\ Locked.bots = bots /\ Locked.told = told
      /\ \A k : Job(Locked, k) # 0 => Job(Locked, k) \in Active(k)
      /\ \A k \in {"rec", "tr"} : \A r \in Active(k) : r = Job(Locked, k)
  BY LockedFacts
<1>1. /\ bots[b].st = "in" /\ bots[b].id = 1 /\ Conn(b) = <<b, 1>>
      /\ cfg' = cfg /\ call' = call /\ reqs' = reqs /\ timers' = timers /\ past' = past \cup {"renamed"}
  BY <1>0 DEF BotReconnects, BotStep, InCall, Conn
<1>2. PICK l \in LiveCaptions(Locked) :
         Saved([IF j # 0 /\ t.rows[j] # rows[j] THEN Renamed(t, l, b) ELSE t EXCEPT !.bots[b].id = 2])
  BY DEF BotReconnects
<1> DEFINE moved == j # 0 /\ t.rows[j] # rows[j]
           m == IF moved THEN l ELSE 0
           u == Renamed(t, m, b)
           w == [u EXCEPT !.bots[b].id = 2]
<1>3. Saved(w)
  <2> HIDE DEF t
  <2>1. u = IF moved THEN Renamed(t, l, b) ELSE t
    <3>1. CASE moved
      BY <3>1
    <3>2. CASE ~moved
      <4>1. m = 0
        BY <3>2
      <4> QED BY <3>2, <4>1 DEF Renamed
    <3> QED BY <3>1, <3>2
  <2> HIDE DEF u
  <2> QED BY <1>2, <2>1
<1>4. /\ l = 0 \/ (l \in DOMAIN rows /\ rows[l].k = "lc")
      /\ "captions" \notin past => Active("lc") \subseteq {l}
  BY <1>0, LiveMeans DEF Captions
<1>5. /\ i = 0 \/ (i \in DOMAIN rows /\ rows[i].k = "rec" /\ i \in Active("rec"))
      /\ j = 0 \/ (j \in DOMAIN rows /\ rows[j].k = "tr" /\ j \in Active("tr"))
      /\ b \in DOMAIN rows /\ b \in Nat /\ bots[b] \in Bots
  BY <1>0, ActiveMeans, StateTypes
<1>6. \A r \in Active("rec") \cup Active("tr") : r \in DOMAIN rows /\ rows[r].k # "lc" /\ r \in {i, j} /\ r # 0
  BY <1>0, ActiveMeans
<1> HIDE DEF i, j
<1>7. /\ s \in States /\ Len(s.rows) = Len(rows) /\ DOMAIN s.rows = DOMAIN rows /\ s.bots = bots /\ s.told = told
      /\ \A q \in DOMAIN rows :
            /\ s.rows[q].k = rows[q].k /\ s.rows[q].call = rows[q].call /\ s.rows[q].ended = rows[q].ended
            /\ s.rows[q].start = rows[q].start /\ s.rows[q].job = rows[q].job
            /\ s.rows[q].conn = IF q = i /\ rows[q].conn = Conn(b) THEN <<b, 2>> ELSE rows[q].conn
            /\ q # i => s.rows[q] = rows[q]
  <2>1. i \in {0} \cup DOMAIN Locked.rows /\ Locked \in States /\ b \in Nat
    BY <1>0, <1>5
  <2>2. /\ s \in States /\ Len(s.rows) = Len(Locked.rows) /\ DOMAIN s.rows = DOMAIN Locked.rows
        /\ s.bots = Locked.bots /\ s.told = Locked.told
        /\ \A q \in DOMAIN Locked.rows :
              /\ s.rows[q].k = Locked.rows[q].k /\ s.rows[q].call = Locked.rows[q].call
              /\ s.rows[q].ended = Locked.rows[q].ended
              /\ s.rows[q].start = Locked.rows[q].start /\ s.rows[q].job = Locked.rows[q].job
              /\ s.rows[q].conn = IF q = i /\ Locked.rows[q].conn = Conn(b) THEN <<b, 2>> ELSE Locked.rows[q].conn
              /\ q # i => s.rows[q] = Locked.rows[q]
    BY <2>1, RenamedState, ZenonT(40)
  <2> HIDE DEF s
  <2> QED BY <1>0, <2>2
<1> HIDE DEF s
<1>8. /\ t \in States /\ Len(t.rows) = Len(rows) /\ DOMAIN t.rows = DOMAIN rows /\ t.bots = bots /\ t.told = told
      /\ \A q \in DOMAIN rows :
            /\ t.rows[q].k = rows[q].k /\ t.rows[q].call = rows[q].call /\ t.rows[q].ended = rows[q].ended
            /\ t.rows[q].start = rows[q].start /\ t.rows[q].job = rows[q].job
            /\ t.rows[q].conn = IF q \in {i, j} /\ rows[q].conn = Conn(b) THEN <<b, 2>> ELSE rows[q].conn
            /\ q \notin {i, j} => t.rows[q] = rows[q]
  <2>1. j \in {0} \cup DOMAIN s.rows
    BY <1>5, <1>7
  <2>2. /\ t \in States /\ Len(t.rows) = Len(s.rows) /\ DOMAIN t.rows = DOMAIN s.rows
        /\ t.bots = s.bots /\ t.told = s.told
        /\ \A q \in DOMAIN s.rows :
              /\ t.rows[q].k = s.rows[q].k /\ t.rows[q].call = s.rows[q].call /\ t.rows[q].ended = s.rows[q].ended
              /\ t.rows[q].start = s.rows[q].start /\ t.rows[q].job = s.rows[q].job
              /\ t.rows[q].conn = IF q = j /\ s.rows[q].conn = Conn(b) THEN <<b, 2>> ELSE s.rows[q].conn
              /\ q # j => t.rows[q] = s.rows[q]
    BY <1>5, <1>7, <2>1, RenamedState, ZenonT(40)
  <2> HIDE DEF t
  <2> QED BY <1>7, <2>2
<1> HIDE DEF t
<1>9. /\ u \in States /\ Len(u.rows) = Len(rows) /\ DOMAIN u.rows = DOMAIN rows /\ u.bots = bots /\ u.told = told
      /\ \A q \in DOMAIN rows :
            /\ u.rows[q].k = rows[q].k /\ u.rows[q].call = rows[q].call /\ u.rows[q].ended = rows[q].ended
            /\ u.rows[q].start = rows[q].start /\ u.rows[q].job = rows[q].job
            /\ u.rows[q].conn = IF q \in {i, j, m} /\ rows[q].conn = Conn(b) THEN <<b, 2>> ELSE rows[q].conn
  <2>1. m = 0 \/ (m \in DOMAIN rows /\ rows[m].k = "lc")
    BY <1>4
  <2>2. m \in {0} \cup DOMAIN t.rows /\ t \in States /\ b \in Nat
    BY <1>5, <1>8, <2>1
  <2> HIDE DEF m
  <2>3. /\ u \in States /\ Len(u.rows) = Len(t.rows) /\ DOMAIN u.rows = DOMAIN t.rows
        /\ u.bots = t.bots /\ u.told = t.told
        /\ \A q \in DOMAIN t.rows :
              /\ u.rows[q].k = t.rows[q].k /\ u.rows[q].call = t.rows[q].call /\ u.rows[q].ended = t.rows[q].ended
              /\ u.rows[q].start = t.rows[q].start /\ u.rows[q].job = t.rows[q].job
              /\ u.rows[q].conn = IF q = m /\ t.rows[q].conn = Conn(b) THEN <<b, 2>> ELSE t.rows[q].conn
    BY <2>2, RenamedState, ZenonT(40)
  <2> HIDE DEF u
  <2> QED BY <1>8, <2>3
<1> HIDE DEF m, u
<1>10. /\ w \in States /\ Len(w.bots) = Len(bots) /\ DOMAIN w.bots = DOMAIN bots /\ w.rows = u.rows /\ w.told = told
       /\ \A c \in DOMAIN bots : /\ w.bots[c].ends = bots[c].ends /\ w.bots[c].st = bots[c].st
                                 /\ w.bots[c].id = IF c = b THEN 2 ELSE bots[c].id
  <2> DEFINE v == [bots[b] EXCEPT !.id = 2]
  <2>1. v \in Bots /\ v.id = 2 /\ v.st = bots[b].st /\ v.ends = bots[b].ends
    BY <1>5 DEF Bots
  <2>2. w = WithBot(u, b, v) /\ u \in States /\ b \in DOMAIN u.bots /\ v.ends = u.bots[b].ends
    BY <1>9, <2>1 DEF WithBot
  <2> HIDE DEF v, w
  <2>3. /\ w \in States /\ Len(w.bots) = Len(u.bots) /\ DOMAIN w.bots = DOMAIN u.bots
        /\ w.rows = u.rows /\ w.told = u.told
        /\ \A c \in DOMAIN u.bots : /\ w.bots[c].ends = u.bots[c].ends
                                    /\ w.bots[c].st = IF c = b THEN v.st ELSE u.bots[c].st
                                    /\ w.bots[c].id = IF c = b THEN v.id ELSE u.bots[c].id
    BY <2>1, <2>2, BotSet
  <2> QED BY <1>9, <2>1, <2>3
<1> HIDE DEF w
<1>11. Steady /\ rows' = u.rows /\ bots' = w.bots /\ told' = told
  <2>1. past \subseteq past' /\ cfg' = cfg /\ call' = call
    BY <1>1
  <2>2. /\ Len(w.rows) = Len(rows) /\ DOMAIN w.rows = DOMAIN rows
        /\ \A r \in DOMAIN rows : /\ w.rows[r].k = rows[r].k /\ w.rows[r].call = rows[r].call
                                  /\ w.rows[r].ended = rows[r].ended
    BY <1>9, <1>10
  <2>3. Steady /\ rows' = w.rows /\ bots' = w.bots /\ told' = w.told
    BY <1>0, <1>3, <1>10, <2>1, <2>2, SavedSteady
  <2> QED BY <1>10, <2>3
<1>12. Typed' /\ Single' /\ (\A k : Active(k)' = Active(k)) /\ reqs' \subseteq Requests
  BY <1>0, <1>1, <1>11, SteadyTypes DEF Typed
<1>13. \A r \in Active("rec") \cup Active("tr") :
          /\ r = b => rows[r].conn = Conn(b) /\ rows'[r].conn = <<b, 2>>
          /\ r # b => rows[r].conn # Conn(b) /\ rows'[r].conn = rows[r].conn
  <2> SUFFICES ASSUME NEW r \in Active("rec") \cup Active("tr")
               PROVE  /\ r = b => rows[r].conn = Conn(b) /\ rows'[r].conn = <<b, 2>>
                      /\ r # b => rows[r].conn # Conn(b) /\ rows'[r].conn = rows[r].conn
    OBVIOUS
  <2>1. /\ rows[r].conn \in {NoConn, <<r, bots[r].id>>}
        /\ bots[r].st = "in" => rows[r].conn = <<r, bots[r].id>>
    BY DEF JobInv, Joined
  <2>2. r \in DOMAIN rows /\ r \in {i, j}
    BY <1>6
  <2>3. r = b => rows[r].conn = Conn(b)
    BY <1>1, <2>1
  <2>4. r # b => rows[r].conn # Conn(b)
    BY <1>0, <1>1, <1>5, <2>1 DEF NoConn
  <2> QED BY <1>9, <1>11, <2>2, <2>3, <2>4
<1>14. Joined'
  <2> SUFFICES ASSUME NEW r \in Active("rec") \cup Active("tr")
               PROVE  /\ rows'[r].conn \in {NoConn, <<r, bots'[r].id>>}
                      /\ bots'[r].st = "in" => rows'[r].conn = <<r, bots'[r].id>>
                      /\ "renamed" \notin past' => bots'[r].id = 1
                      /\ rows'[r].start # 0 => bots'[r].st \in {"in", "gone"}
    BY <1>12 DEF Joined
  <2>1. /\ rows[r].conn \in {NoConn, <<r, bots[r].id>>}
        /\ bots[r].st = "in" => rows[r].conn = <<r, bots[r].id>>
        /\ rows[r].start # 0 => bots[r].st \in {"in", "gone"}
    BY DEF JobInv, Joined
  <2>2. /\ rows'[r].start = rows[r].start /\ bots'[r].st = bots[r].st
        /\ bots'[r].id = IF r = b THEN 2 ELSE bots[r].id
    BY <1>0, <1>6, <1>9, <1>10, <1>11
  <2> QED BY <1>1, <1>13, <2>1, <2>2
<1>15. Captioned'
  <2> SUFFICES ASSUME "captions" \notin past, NEW n \in Active("lc")
               PROVE  /\ Active("tr") # {}
                      /\ \A o \in Active("lc") : o = n
                      /\ \A r \in Active("tr") :
                            rows'[n].conn = rows'[r].conn /\ (rows'[r].start = 0 => rows'[n].start = 0)
    BY <1>1, <1>12 DEF Captioned
  <2>1. /\ Active("tr") # {}
        /\ \A o \in Active("lc") : o = n
        /\ \A r \in Active("tr") : rows[n].conn = rows[r].conn /\ (rows[r].start = 0 => rows[n].start = 0)
    BY DEF JobInv, Captioned
  <2>2. n = l /\ n \in DOMAIN rows /\ n # 0 /\ n \notin {i, j}
    BY <1>0, <1>4, <1>5, ActiveMeans
  <2>3. ASSUME NEW r \in Active("tr")
        PROVE  rows'[n].conn = rows'[r].conn /\ (rows'[r].start = 0 => rows'[n].start = 0)
    <3>1. r = j /\ r # 0 /\ r \in DOMAIN rows
      BY <1>0, <1>6, ActiveMeans DEF j
    <3>2. rows'[r].start = rows[r].start /\ rows'[n].start = rows[n].start
      BY <1>9, <1>11, <2>2, <3>1
    <3>3. CASE r = b
      <4>1. rows[r].conn = Conn(b) /\ rows'[r].conn = <<b, 2>> /\ rows[n].conn = Conn(b)
        BY <1>13, <2>1, <3>3
      <4>2. moved
        <5>1. t.rows[r].conn = <<b, 2>>
          BY <1>8, <3>1, <4>1
        <5> QED BY <1>1, <3>1, <4>1, <5>1
      <4>3. m = n
        BY <2>2, <4>2 DEF m
      <4>4. rows'[n].conn = <<b, 2>>
        BY <1>9, <1>11, <2>2, <4>1, <4>3
      <4> QED BY <2>1, <2>3, <3>2, <4>1, <4>4
    <3>4. CASE r # b
      <4>1. rows[r].conn # Conn(b) /\ rows'[r].conn = rows[r].conn /\ rows[n].conn = rows[r].conn
        BY <1>13, <2>1, <2>3, <3>4
      <4>2. rows'[n].conn = rows[n].conn
        BY <1>9, <1>11, <2>2, <4>1
      <4> QED BY <2>1, <2>3, <3>2, <4>1, <4>2
    <3> QED BY <3>3, <3>4
  <2> QED BY <2>1, <2>3
<1>16. Watching'
  BY <1>1 DEF Watching
<1>17. RecordingTold'
  <2>1. \A r \in Active("rec") : rows'[r].start = rows[r].start
    BY <1>6, <1>9, <1>11
  <2> QED BY <1>11, <1>12, <2>1, SteadyTold
<1>18. \A c \in DOMAIN bots : bots'[c].st = bots[c].st /\ rows'[c].start = rows[c].start
  BY <1>0, <1>9, <1>10, <1>11
<1>19. \A r \in Active("rec") : rows'[r].job = rows[r].job
  BY <1>6, <1>9, <1>11
<1> QED BY <1>1, <1>11, <1>14, <1>15, <1>16, <1>17, <1>18, <1>19, SteadyKept

-----------------------------------------------------------------------------
(* Starting jobs *)

\* CreateCallJob adds a row that nothing refers to yet.
LEMMA CreateState ==
    ASSUME Typed, NEW s \in States, Len(s.bots) = Len(s.rows), NEW k \in Kinds, NEW t, t = Create(s, k)
    PROVE  LET n == Len(s.rows) + 1
           IN  /\ t \in States /\ Len(t.rows) = n /\ Len(t.bots) = n /\ t.told = s.told
               /\ DOMAIN t.rows = DOMAIN s.rows \cup {n} /\ DOMAIN t.bots = DOMAIN s.rows \cup {n}
               /\ n \notin DOMAIN s.rows /\ n \in Nat
               /\ \A r \in DOMAIN s.rows : t.rows[r] = s.rows[r] /\ t.bots[r] = s.bots[r]
               /\ t.rows[n].k = k /\ t.rows[n].call = call.id /\ t.rows[n].job = 0 /\ t.rows[n].conn = NoConn
               /\ t.rows[n].start = 0 /\ ~t.rows[n].ended
               /\ t.bots[n].st = "none" /\ t.bots[n].id = 1
<1> DEFINE n == Len(s.rows) + 1
           v == NewJob(k)
<1>1. /\ s.rows \in Seq(Rows) /\ s.bots \in Seq(Bots) /\ s.told \in Tolds
      /\ DOMAIN s.rows = 1 .. Len(s.rows) /\ DOMAIN s.bots = 1 .. Len(s.bots)
      /\ Len(s.rows) \in Nat /\ Len(s.bots) \in Nat
  BY StateTypes
<1>2. /\ v \in Rows /\ v.k = k /\ v.call = call.id /\ v.job = 0 /\ v.conn = NoConn
      /\ v.start = 0 /\ v.ended = FALSE
  BY DEF NewJob, Rows, NoConn, Typed
<1>3. NoBot \in Bots /\ NoBot.st = "none" /\ NoBot.id = 1
  BY DEF NoBot, Bots
<1> HIDE DEF v
<1> DEFINE f == Append(s.rows, v)
           g == Append(s.bots, NoBot)
<1>4. /\ f \in Seq(Rows) /\ Len(f) = n /\ f[n] = v /\ \A r \in 1 .. Len(s.rows) : f[r] = s.rows[r]
  BY <1>1, <1>2
<1>5. /\ g \in Seq(Bots) /\ Len(g) = n /\ g[n] = NoBot /\ \A r \in 1 .. Len(s.rows) : g[r] = s.bots[r]
  BY <1>1, <1>3
<1>6. t = [s EXCEPT !.rows = f, !.bots = g]
  BY DEF Create, v
<1> HIDE DEF f, g
<1>7. t \in States /\ t.rows = f /\ t.bots = g /\ t.told = s.told
  BY <1>4, <1>5, <1>6 DEF States
<1>8. DOMAIN f = DOMAIN s.rows \cup {n} /\ DOMAIN g = DOMAIN s.rows \cup {n} /\ n \notin DOMAIN s.rows
  <2>1. DOMAIN f = 1 .. n /\ DOMAIN g = 1 .. n
    BY <1>4, <1>5
  <2>2. 1 .. n = (1 .. Len(s.rows)) \cup {n} /\ n \notin 1 .. Len(s.rows)
    BY <1>1
  <2> QED BY <1>1, <2>1, <2>2
<1> QED BY <1>1, <1>2, <1>3, <1>4, <1>5, <1>7, <1>8

\* A recording is asked for.  Only without another request, and with nothing
\* left over from earlier ones, is what happened before of no importance.
LEMMA AskKept ==
    ASSUME JobInv, startRecordingJob
    PROVE  JobInv'
<1> DEFINE n == Len(rows) + 1
           p == [at |-> "rec", run |-> n, rec |-> n, res |-> "wait", shown |-> "init"]
           t == Create(Locked, "rec")
<1>0. /\ Typed /\ Single /\ Locked \in States /\ DOMAIN bots = DOMAIN rows /\ 0 \notin DOMAIN rows
      /\ Locked.rows = rows /\ Locked.bots = bots /\ Locked.told = told /\ Len(bots) = Len(rows)
      /\ \A k : Job(Locked, k) = 0 <=> Active(k) = {}
      /\ reqs \subseteq Requests
  BY LockedFacts DEF Typed
<1>1. /\ cfg' = cfg /\ call' = call /\ reqs' = reqs \cup {p} /\ timers' = timers
      /\ call.on /\ Active("rec") = {} /\ Saved(Publish(t, "init"))
      /\ past' = (IF reqs # {} THEN past \cup {"overlap"}
                  ELSE IF LeftOver THEN past ELSE past \cap {"captions"})
  BY <1>0 DEF startRecordingJob
<1>2. /\ t \in States /\ Len(t.rows) = n /\ Len(t.bots) = n
      /\ DOMAIN t.rows = DOMAIN rows \cup {n} /\ DOMAIN t.bots = DOMAIN rows \cup {n}
      /\ n \notin DOMAIN rows /\ n \in Nat
      /\ \A r \in DOMAIN rows : t.rows[r] = rows[r] /\ t.bots[r] = bots[r]
      /\ t.rows[n].k = "rec" /\ t.rows[n].call = call.id /\ t.rows[n].job = 0 /\ t.rows[n].conn = NoConn
      /\ t.rows[n].start = 0 /\ ~t.rows[n].ended
      /\ t.bots[n].st = "none" /\ t.bots[n].id = 1
  <2>1. /\ Typed /\ Locked \in States /\ "rec" \in Kinds /\ Len(Locked.bots) = Len(Locked.rows)
        /\ t = Create(Locked, "rec")
    BY <1>0 DEF Kinds
  <2> HIDE DEF t
  <2>2. LET h == Len(Locked.rows) + 1
        IN  /\ t \in States /\ Len(t.rows) = h /\ Len(t.bots) = h
            /\ DOMAIN t.rows = DOMAIN Locked.rows \cup {h} /\ DOMAIN t.bots = DOMAIN Locked.rows \cup {h}
            /\ h \notin DOMAIN Locked.rows /\ h \in Nat
            /\ \A r \in DOMAIN Locked.rows : t.rows[r] = Locked.rows[r] /\ t.bots[r] = Locked.bots[r]
            /\ t.rows[h].k = "rec" /\ t.rows[h].call = call.id /\ t.rows[h].job = 0 /\ t.rows[h].conn = NoConn
            /\ t.rows[h].start = 0 /\ ~t.rows[h].ended
            /\ t.bots[h].st = "none" /\ t.bots[h].id = 1
    BY <2>1, CreateState
  <2>3. n = Len(Locked.rows) + 1 /\ Locked.rows = rows /\ Locked.bots = bots
    BY <1>0
  <2> HIDE DEF n
  <2> QED BY <2>2, <2>3
<1>3. rows' = t.rows /\ bots' = t.bots /\ told' = "init"
  BY <1>1 DEF Saved, Publish, Create, Locked
<1> HIDE DEF t
<1>4. /\ p \in Requests /\ p.at = "rec" /\ p.run = n /\ p.res = "wait"
  BY <1>2 DEF Requests, Tolds
<1> HIDE DEF n, p
<1>5. Active("rec")' = {n} /\ Active("tr")' = Active("tr") /\ Active("lc")' = Active("lc")
  <2>1. \A k : \A r : r \in Active(k)' <=> r \in Active(k) \/ (k = "rec" /\ r = n)
    BY <1>1, <1>2, <1>3, ActiveMeans, ActiveMeansNext
  <2>2. /\ \A r : r \in Active("rec")' <=> r = n
        /\ \A r : r \in Active("tr")' <=> r \in Active("tr")
        /\ \A r : r \in Active("lc")' <=> r \in Active("lc")
    BY <1>1, <2>1
  <2> QED BY <2>2, Zenon
<1>6. \A k : \A r \in Active(k) : r \in DOMAIN rows /\ r # n /\ rows'[r] = rows[r] /\ bots'[r] = bots[r]
  BY <1>2, <1>3, ActiveMeans
<1>7. Typed'
  <2>1. \A r \in DOMAIN rows' : rows'[r].call <= call'.id
    BY <1>0, <1>1, <1>2, <1>3 DEF Typed
  <2>2. rows' \in Seq(Rows) /\ bots' \in Seq(Bots) /\ told' \in Tolds
    BY <1>2, <1>3 DEF States, Tolds
  <2> QED BY <1>0, <1>1, <1>2, <1>3, <1>4, <2>1, <2>2 DEF Typed
<1>8. Requested'
  <2> SUFFICES ASSUME NEW q \in reqs'
               PROVE  /\ q.run \in DOMAIN rows' /\ rows'[q.run].k = q.at
                      /\ q.res # "ok" => bots'[q.run].st = "none"
                      /\ \A o \in reqs' : o.run = q.run => o = q
    BY DEF Requested
  <2>1. \A o \in reqs : /\ o.run \in DOMAIN rows /\ rows[o.run].k = o.at /\ (o.res # "ok" => bots[o.run].st = "none")
                        /\ o.run # n
    BY <1>2 DEF JobInv, Requested
  <2>2. CASE q = p
    BY <1>1, <1>2, <1>3, <1>4, <2>1, <2>2
  <2>3. CASE q # p
    <3>1. q \in reqs /\ \A o \in reqs : o.run = q.run => o = q
      BY <1>1, <2>3 DEF JobInv, Requested
    <3> QED BY <1>1, <1>2, <1>3, <1>4, <2>1, <3>1
  <2> QED BY <2>2, <2>3
<1>9. Bare'
  BY <1>0, <1>1, <1>2, <1>3 DEF JobInv, Bare
<1>10. Single'
  BY <1>5 DEF JobInv, Single
<1>11. reqs = {} /\ ~LeftOver =>
          /\ Active("tr") = {}
          /\ \A b \in DOMAIN bots : InCall(Locked, b) => bots[b].ends
  BY <1>0 DEF LeftOver
<1>12. \/ past \subseteq past'
       \/ Active("tr") = {} /\ \A b \in DOMAIN bots : InCall(Locked, b) => bots[b].ends
  BY <1>1, <1>11
<1>13. "overlap" \notin past' => reqs = {} /\ Active("tr") = {}
  <2> SUFFICES ASSUME "overlap" \notin past' PROVE reqs = {} /\ Active("tr") = {}
    OBVIOUS
  <2>1. reqs = {}
    BY <1>1
  <2>2. CASE LeftOver
    BY <1>1, <2>1, <2>2 DEF JobInv, Apart
  <2>3. CASE ~LeftOver
    BY <1>11, <2>1, <2>3
  <2> QED BY <2>1, <2>2, <2>3
<1>14. Apart'
  BY <1>1, <1>2, <1>3, <1>4, <1>5, <1>13 DEF Apart
<1>15. Captioned'
  <2>1. "captions" \notin past' => "captions" \notin past
    BY <1>1
  <2> QED BY <1>5, <1>6, <2>1 DEF JobInv, Captioned
<1>16. Joined'
  <2> SUFFICES ASSUME NEW r \in {n} \cup Active("tr")
               PROVE  /\ rows'[r].conn \in {NoConn, <<r, bots'[r].id>>}
                      /\ bots'[r].st = "in" => rows'[r].conn = <<r, bots'[r].id>>
                      /\ "renamed" \notin past' => bots'[r].id = 1
                      /\ rows'[r].start # 0 => bots'[r].st \in {"in", "gone"}
    BY <1>5 DEF Joined
  <2>1. CASE r = n
    BY <1>2, <1>3, <2>1
  <2>2. CASE r # n
    <3>1. r \in Active("tr") /\ past \subseteq past'
      BY <1>12, <2>2
    <3>2. /\ rows[r].conn \in {NoConn, <<r, bots[r].id>>}
          /\ bots[r].st = "in" => rows[r].conn = <<r, bots[r].id>>
          /\ "renamed" \notin past => bots[r].id = 1
          /\ rows[r].start # 0 => bots[r].st \in {"in", "gone"}
      BY <3>1 DEF JobInv, Joined
    <3> QED BY <1>6, <3>1, <3>2
  <2> QED BY <2>1, <2>2
<1>17. Watching'
  <2> SUFFICES ASSUME {"unchecked", "renamed"} \cap past' = {}, NEW r \in {n} \cup Active("tr")
               PROVE  IF rows'[r].start = 0 THEN WatchedBy(r)' ELSE bots'[r].st = "in"
    BY <1>5 DEF Watching
  <2>1. CASE r = n
    BY <1>1, <1>2, <1>3, <1>4, <2>1 DEF WatchedBy
  <2>2. CASE r # n
    <3>1. r \in Active("tr") /\ past \subseteq past' /\ rows'[r] = rows[r] /\ bots'[r] = bots[r]
      BY <1>6, <1>12, <2>2
    <3>2. IF rows[r].start = 0 THEN WatchedBy(r) ELSE bots[r].st = "in"
      BY <3>1 DEF JobInv, Watching
    <3>3. WatchedBy(r) => WatchedBy(r)'
      <4>1. reqs \subseteq reqs' /\ timers' = timers
        BY <1>1
      <4> QED BY <3>1, <4>1 DEF WatchedBy
    <3> QED BY <3>1, <3>2, <3>3
  <2> QED BY <2>1, <2>2
<1>18. Stopping'
  <2> SUFFICES ASSUME "overlap" \notin past', NEW b \in DOMAIN bots', bots'[b].st = "in", call'.on,
                      rows'[b].call = call'.id, rows'[b].ended, rows'[b].start # 0
               PROVE  bots'[b].ends
    BY DEF Stopping, InCall, Locked
  <2>1. b \in DOMAIN rows /\ rows'[b] = rows[b] /\ bots'[b] = bots[b]
    BY <1>2, <1>3
  <2>2. InCall(Locked, b) /\ b \in DOMAIN bots
    BY <1>0, <1>1, <2>1 DEF InCall
  <2>3. CASE past \subseteq past'
    <3>1. bots[b].ends
      BY <2>1, <2>2, <2>3 DEF JobInv, Stopping
    <3> QED BY <2>1, <3>1
  <2>4. CASE ~(past \subseteq past')
    BY <1>12, <2>1, <2>2, <2>4
  <2> QED BY <2>3, <2>4
<1>19. RecordingTold'
  <2>1. StateOf(Locked, Job(Locked, "rec"))' = IF rows'[n].start = 0 THEN "init" ELSE "on"
    BY <1>5, <1>7, <1>10, ToldMeansNext
  <2> QED BY <1>2, <1>3, <2>1 DEF RecordingTold
<1> QED BY <1>7, <1>8, <1>9, <1>10, <1>14, <1>15, <1>16, <1>17, <1>18, <1>19 DEF JobInv

\* The recording gets the id of the job that was run for q.
Ran(q) == [Locked EXCEPT !.rows[Job(Locked, "rec")].job = q.run]

\* RunJob returns to a recording that has no job yet.
LEMMA RunsState ==
    ASSUME JobInv, NEW q \in reqs, RecordingRuns(q), NEW r, r = Job(Locked, "rec"), NEW s, s = Ran(q)
    PROVE  /\ q.at = "rec" /\ q.res = "ok" /\ q.run \in DOMAIN rows /\ rows[q.run].k = "rec" /\ q.run # 0
           /\ r \in Active("rec") /\ r \in DOMAIN rows /\ r # 0 /\ rows[r].job = 0 /\ Active("rec") = {r}
           /\ s \in States /\ Len(s.rows) = Len(rows) /\ DOMAIN s.rows = DOMAIN rows
           /\ s.bots = bots /\ s.told = told
           /\ \A i \in DOMAIN rows :
                 /\ s.rows[i].k = rows[i].k /\ s.rows[i].call = rows[i].call /\ s.rows[i].ended = rows[i].ended
                 /\ s.rows[i].start = rows[i].start /\ s.rows[i].conn = rows[i].conn
                 /\ s.rows[i].job = IF i = r THEN q.run ELSE rows[i].job
           /\ \A k : ActiveJobs(s, k) = Active(k)
           /\ StateOf(s, r) = IF rows[r].start = 0 THEN "init" ELSE "on"
           /\ RunRecording(q, s, r) /\ cfg' = cfg /\ call' = call
<1>0. /\ Typed /\ Locked \in States /\ 0 \notin DOMAIN rows
      /\ Locked.rows = rows /\ Locked.bots = bots /\ Locked.told = told
      /\ \A k : Job(Locked, k) # 0 => Job(Locked, k) \in Active(k)
      /\ \A k \in {"rec", "tr"} : \A i \in Active(k) : i = Job(Locked, k)
      /\ q \in Requests
  BY LockedFacts DEF JobInv, Typed
<1>1. /\ q.at = "rec" /\ q.res = "ok" /\ cfg' = cfg /\ call' = call /\ r # 0 /\ rows[r].job = 0
      /\ RunRecording(q, s, r)
  BY DEF RecordingRuns, Returned, Ran
<1>2. q.run \in DOMAIN rows /\ rows[q.run].k = "rec" /\ q.run # 0 /\ q.run \in Nat
  BY <1>0, <1>1 DEF JobInv, Requested, Requests
<1>3. r \in Active("rec") /\ r \in DOMAIN rows /\ Active("rec") = {r} /\ ~rows[r].ended
  BY <1>0, <1>1, ActiveMeans
<1>4. s = [Locked EXCEPT !.rows[r].job = q.run] /\ r \in DOMAIN Locked.rows
  BY <1>0, <1>3 DEF Ran
<1>5. /\ s \in States /\ Len(s.rows) = Len(rows) /\ DOMAIN s.rows = DOMAIN rows
      /\ s.bots = bots /\ s.told = told
      /\ \A i \in DOMAIN rows :
            /\ s.rows[i].k = rows[i].k /\ s.rows[i].call = rows[i].call /\ s.rows[i].ended = rows[i].ended
            /\ s.rows[i].start = rows[i].start /\ s.rows[i].conn = rows[i].conn
            /\ s.rows[i].job = IF i = r THEN q.run ELSE rows[i].job
  <2>1. /\ s \in States /\ Len(s.rows) = Len(Locked.rows) /\ DOMAIN s.rows = DOMAIN Locked.rows
        /\ s.bots = Locked.bots /\ s.told = Locked.told
        /\ \A i \in DOMAIN Locked.rows :
              /\ s.rows[i].k = Locked.rows[i].k /\ s.rows[i].call = Locked.rows[i].call
              /\ s.rows[i].ended = Locked.rows[i].ended /\ s.rows[i].start = Locked.rows[i].start
              /\ s.rows[i].conn = Locked.rows[i].conn
              /\ s.rows[i].job = IF i = r THEN q.run ELSE Locked.rows[i].job
    BY <1>0, <1>2, <1>4, JobSet
  <2> QED BY <1>0, <2>1
<1>6. \A k : ActiveJobs(s, k) = Active(k)
  <2> SUFFICES ASSUME NEW k PROVE ActiveJobs(s, k) = Active(k)
    OBVIOUS
  <2>1. \A i : i \in ActiveJobs(s, k) <=> i \in Active(k)
    BY <1>5, ActiveMeans DEF ActiveJobs
  <2> QED BY <2>1, Zenon
<1>7. StateOf(s, r) = IF rows[r].start = 0 THEN "init" ELSE "on"
  BY <1>1, <1>3, <1>5 DEF StateOf
<1> QED BY <1>1, <1>2, <1>3, <1>5, <1>6, <1>7

\* There is no transcription to start, or there is one already.
LEMMA RunsAloneKept ==
    ASSUME JobInv, NEW q \in reqs, RecordingRuns(q), cfg = "rec" \/ Active("tr") # {}
    PROVE  JobInv'
<1> DEFINE r == Job(Locked, "rec")
           s == Ran(q)
<1>0. /\ Typed /\ Single /\ DOMAIN bots = DOMAIN rows /\ reqs \subseteq Requests
  BY LockedFacts DEF Typed
<1>1. /\ q.at = "rec" /\ q.run \in DOMAIN rows /\ rows[q.run].k = "rec" /\ q.run # 0
      /\ r \in Active("rec") /\ r \in DOMAIN rows /\ rows[r].job = 0 /\ Active("rec") = {r}
      /\ s \in States /\ Len(s.rows) = Len(rows) /\ DOMAIN s.rows = DOMAIN rows /\ s.bots = bots /\ s.told = told
      /\ \A i \in DOMAIN rows :
            /\ s.rows[i].k = rows[i].k /\ s.rows[i].call = rows[i].call /\ s.rows[i].ended = rows[i].ended
            /\ s.rows[i].start = rows[i].start /\ s.rows[i].conn = rows[i].conn
            /\ s.rows[i].job = IF i = r THEN q.run ELSE rows[i].job
      /\ \A k : ActiveJobs(s, k) = Active(k)
      /\ StateOf(s, r) = (IF rows[r].start = 0 THEN "init" ELSE "on")
      /\ RunRecording(q, s, r) /\ cfg' = cfg /\ call' = call
  BY RunsState
<1> HIDE DEF r, s
<1>2. /\ reqs' = reqs \ {q} /\ past \subseteq past'
      /\ \/ /\ past' = past /\ Saved(Publish(s, StateOf(s, r))) /\ timers' = timers \cup {Timer("rec", q.run)}
         \/ /\ "unchecked" \in past' /\ Saved(Publish(s, "off")) /\ timers' = timers
  <2>1. CASE cfg = "rec"
    BY <1>1, <2>1 DEF RunRecording, Forget
  <2>2. CASE cfg # "rec"
    <3>1. Job(s, "tr") # 0
      BY <1>1, <2>2, JobFacts
    <3> QED BY <1>1, <2>2, <3>1 DEF RunRecording, startTranscribingJob, Forget
  <2> QED BY <2>1, <2>2
<1>3. PICK what \in Tolds : /\ Saved(Publish(s, what))
                            /\ "unchecked" \notin past' => what = StateOf(s, r)
  <2>1. StateOf(s, r) \in Tolds /\ "off" \in Tolds
    BY DEF StateOf, Tolds
  <2> QED BY <1>2, <2>1
<1> DEFINE w == Publish(s, what)
<1>4. w \in States /\ w.rows = s.rows /\ w.bots = s.bots /\ w.told = what
  BY <1>1 DEF Publish, States
<1> HIDE DEF w
<1>5. Steady /\ rows' = s.rows /\ bots' = bots /\ told' = what
  <2>1. Steady /\ rows' = w.rows /\ bots' = w.bots /\ told' = w.told
    BY <1>0, <1>1, <1>2, <1>3, <1>4, SavedSteady DEF w
  <2> QED BY <1>1, <1>4, <2>1
<1>6. Typed' /\ Single' /\ (\A k : Active(k)' = Active(k)) /\ reqs' \subseteq reqs
  BY <1>0, <1>2, <1>5, SteadyTypes
<1>7. \A i \in Active("rec") \cup Active("tr") :
         /\ i \in DOMAIN rows /\ (i # r => i \in Active("tr") /\ rows[i].k = "tr")
         /\ rows'[i].k = rows[i].k /\ rows'[i].start = rows[i].start /\ rows'[i].conn = rows[i].conn
         /\ rows'[i].job = IF i = r THEN q.run ELSE rows[i].job
  BY <1>1, <1>5, ActiveMeans
<1>8. Joined'
  <2> SUFFICES ASSUME NEW i \in Active("rec") \cup Active("tr")
               PROVE  /\ rows'[i].conn \in {NoConn, <<i, bots'[i].id>>}
                      /\ bots'[i].st = "in" => rows'[i].conn = <<i, bots'[i].id>>
                      /\ "renamed" \notin past' => bots'[i].id = 1
                      /\ rows'[i].start # 0 => bots'[i].st \in {"in", "gone"}
    BY <1>6 DEF Joined
  <2>1. /\ rows[i].conn \in {NoConn, <<i, bots[i].id>>}
        /\ bots[i].st = "in" => rows[i].conn = <<i, bots[i].id>>
        /\ "renamed" \notin past => bots[i].id = 1
        /\ rows[i].start # 0 => bots[i].st \in {"in", "gone"}
    BY DEF JobInv, Joined
  <2> QED BY <1>2, <1>5, <1>7, <2>1
<1>9. Captioned'
  <2> SUFFICES ASSUME "captions" \notin past, NEW m \in Active("lc")
               PROVE  /\ Active("tr") # {}
                      /\ \A n \in Active("lc") : n = m
                      /\ \A i \in Active("tr") :
                            rows'[m].conn = rows'[i].conn /\ (rows'[i].start = 0 => rows'[m].start = 0)
    BY <1>2, <1>6 DEF Captioned
  <2>1. /\ Active("tr") # {}
        /\ \A n \in Active("lc") : n = m
        /\ \A i \in Active("tr") : rows[m].conn = rows[i].conn /\ (rows[i].start = 0 => rows[m].start = 0)
    BY DEF JobInv, Captioned
  <2>2. rows'[m].conn = rows[m].conn /\ rows'[m].start = rows[m].start
    BY <1>1, <1>5, ActiveMeans
  <2> QED BY <1>7, <2>1, <2>2
<1>10. Watching'
  <2> SUFFICES ASSUME {"unchecked", "renamed"} \cap past' = {}, NEW i \in Active("rec") \cup Active("tr")
               PROVE  IF rows'[i].start = 0 THEN WatchedBy(i)' ELSE bots'[i].st = "in"
    BY <1>6 DEF Watching
  <2>1. IF rows[i].start = 0 THEN WatchedBy(i) ELSE bots[i].st = "in"
    BY <1>2 DEF JobInv, Watching
  <2>2. WatchedBy(i) => WatchedBy(i)'
    <3>1. timers' = timers \cup {Timer("rec", q.run)}
      BY <1>2
    <3>2. CASE i = r
      <4>1. rows'[i].job = q.run /\ rows'[i].k = "rec"
        BY <1>1, <1>7, <3>2, ActiveMeans
      <4> QED BY <1>1, <3>1, <4>1 DEF WatchedBy
    <3>3. CASE i # r
      <4>1. rows'[i].job = rows[i].job /\ rows'[i].k = rows[i].k /\ rows[i].k = "tr"
        BY <1>7, <3>3
      <4> QED BY <1>1, <1>2, <3>1, <4>1 DEF WatchedBy
    <3> QED BY <3>2, <3>3
  <2> QED BY <1>5, <1>7, <2>1, <2>2
<1>11. RecordingTold'
  <2> SUFFICES ASSUME "unchecked" \notin past' PROVE told' = StateOf(Locked, Job(Locked, "rec"))'
    BY DEF RecordingTold
  <2>1. told' = IF rows'[r].start = 0 THEN "init" ELSE "on"
    BY <1>1, <1>3, <1>5, <1>7
  <2>2. StateOf(Locked, Job(Locked, "rec"))' = IF rows'[r].start = 0 THEN "init" ELSE "on"
    BY <1>1, <1>6, ToldMeansNext
  <2> QED BY <2>1, <2>2
<1>12. "overlap" \notin past' => reqs' = {}
  BY <1>2 DEF JobInv, Apart
<1>13. \A b \in DOMAIN bots : rows'[b].start = rows[b].start
  BY <1>0, <1>1, <1>5
<1> QED BY <1>5, <1>6, <1>8, <1>9, <1>10, <1>11, <1>12, <1>13, SteadyKept

\* A transcription is created for the recording, with captions if they are on.
LEMMA RunsBothKept ==
    ASSUME JobInv, NEW q \in reqs, RecordingRuns(q), cfg # "rec", Active("tr") = {}
    PROVE  JobInv'
<1> DEFINE r == Job(Locked, "rec")
           s == Ran(q)
           t == Create(s, "tr")
           n == Len(rows) + 1
           m == n + 1
           w == IF cfg = "lc" THEN Create(t, "lc") ELSE t
           p == [at |-> "tr", run |-> n, rec |-> q.run, res |-> "wait", shown |-> StateOf(s, r)]
<1>0. /\ Typed /\ Single /\ DOMAIN bots = DOMAIN rows /\ Len(bots) = Len(rows) /\ reqs \subseteq Requests
      /\ Len(rows) \in Nat /\ DOMAIN rows = 1 .. Len(rows)
  BY LockedFacts, LockedState DEF Typed
<1>1. /\ q.at = "rec" /\ q.run \in DOMAIN rows /\ rows[q.run].k = "rec" /\ q.run # 0
      /\ r \in Active("rec") /\ r \in DOMAIN rows /\ rows[r].job = 0 /\ Active("rec") = {r}
      /\ s \in States /\ Len(s.rows) = Len(rows) /\ DOMAIN s.rows = DOMAIN rows /\ s.bots = bots /\ s.told = told
      /\ \A i \in DOMAIN rows :
            /\ s.rows[i].k = rows[i].k /\ s.rows[i].call = rows[i].call /\ s.rows[i].ended = rows[i].ended
            /\ s.rows[i].start = rows[i].start /\ s.rows[i].conn = rows[i].conn
            /\ s.rows[i].job = IF i = r THEN q.run ELSE rows[i].job
      /\ \A k : ActiveJobs(s, k) = Active(k)
      /\ StateOf(s, r) = (IF rows[r].start = 0 THEN "init" ELSE "on")
      /\ RunRecording(q, s, r) /\ cfg' = cfg /\ call' = call
  BY RunsState
<1>2. call.on
  BY <1>1, ActiveMeans
<1> HIDE DEF r, s
<1>3. /\ t \in States /\ Len(t.rows) = n /\ Len(t.bots) = n /\ t.told = told
      /\ DOMAIN t.rows = DOMAIN rows \cup {n} /\ DOMAIN t.bots = DOMAIN rows \cup {n}
      /\ n \notin DOMAIN rows /\ n \in Nat
      /\ \A i \in DOMAIN rows : t.rows[i] = s.rows[i] /\ t.bots[i] = bots[i]
      /\ t.rows[n].k = "tr" /\ t.rows[n].call = call.id /\ t.rows[n].job = 0 /\ t.rows[n].conn = NoConn
      /\ t.rows[n].start = 0 /\ ~t.rows[n].ended
      /\ t.bots[n].st = "none" /\ t.bots[n].id = 1
  <2>1. Typed /\ s \in States /\ "tr" \in Kinds /\ Len(s.bots) = Len(s.rows) /\ t = Create(s, "tr")
    BY <1>0, <1>1 DEF Kinds
  <2> HIDE DEF t
  <2>2. LET h == Len(s.rows) + 1
        IN  /\ t \in States /\ Len(t.rows) = h /\ Len(t.bots) = h /\ t.told = s.told
            /\ DOMAIN t.rows = DOMAIN s.rows \cup {h} /\ DOMAIN t.bots = DOMAIN s.rows \cup {h}
            /\ h \notin DOMAIN s.rows /\ h \in Nat
            /\ \A i \in DOMAIN s.rows : t.rows[i] = s.rows[i] /\ t.bots[i] = s.bots[i]
            /\ t.rows[h].k = "tr" /\ t.rows[h].call = call.id /\ t.rows[h].job = 0 /\ t.rows[h].conn = NoConn
            /\ t.rows[h].start = 0 /\ ~t.rows[h].ended
            /\ t.bots[h].st = "none" /\ t.bots[h].id = 1
    BY <2>1, CreateState
  <2>3. n = Len(s.rows) + 1
    BY <1>1
  <2> HIDE DEF n
  <2> QED BY <1>1, <2>2, <2>3
<1>4. /\ reqs' = (reqs \ {q}) \cup {p} /\ Saved(w) /\ timers' = timers /\ past' = past
  <2>1. Job(s, "tr") = 0
    BY <1>1, JobFacts
  <2>2. startTranscribingJob(s, q, r)
    BY <1>1 DEF RunRecording
  <2> QED BY <1>3, <2>1, <2>2 DEF startTranscribingJob
<1> HIDE DEF t
<1>5. /\ w \in States /\ Len(w.rows) = Len(w.bots) /\ w.told = told
      /\ DOMAIN w.rows = (DOMAIN rows \cup {n}) \cup (IF cfg = "lc" THEN {m} ELSE {})
      /\ DOMAIN w.bots = DOMAIN w.rows /\ m \notin DOMAIN rows /\ m # n
      /\ \A i \in DOMAIN rows : w.rows[i] = s.rows[i] /\ w.bots[i] = bots[i]
      /\ w.rows[n].k = "tr" /\ w.rows[n].call = call.id /\ w.rows[n].job = 0 /\ w.rows[n].conn = NoConn
      /\ w.rows[n].start = 0 /\ ~w.rows[n].ended
      /\ w.bots[n].st = "none" /\ w.bots[n].id = 1
      /\ cfg = "lc" => /\ w.rows[m].k = "lc" /\ w.rows[m].call = call.id /\ w.rows[m].conn = NoConn
                       /\ w.rows[m].start = 0 /\ ~w.rows[m].ended /\ w.bots[m].st = "none"
  <2>1. m \notin DOMAIN rows /\ m # n
    BY <1>0
  <2>2. CASE cfg = "lc"
    <3> DEFINE x == Create(t, "lc")
    <3>1. /\ Typed /\ t \in States /\ "lc" \in Kinds /\ Len(t.bots) = Len(t.rows) /\ x = Create(t, "lc")
          /\ w = x
      BY <1>0, <1>3, <2>2 DEF Kinds
    <3> HIDE DEF x, w
    <3>2. LET h == Len(t.rows) + 1
          IN  /\ x \in States /\ Len(x.rows) = h /\ Len(x.bots) = h /\ x.told = t.told
              /\ DOMAIN x.rows = DOMAIN t.rows \cup {h} /\ DOMAIN x.bots = DOMAIN t.rows \cup {h}
              /\ \A i \in DOMAIN t.rows : x.rows[i] = t.rows[i] /\ x.bots[i] = t.bots[i]
              /\ x.rows[h].k = "lc" /\ x.rows[h].call = call.id /\ x.rows[h].conn = NoConn
              /\ x.rows[h].start = 0 /\ ~x.rows[h].ended
              /\ x.bots[h].st = "none"
      BY <3>1, CreateState
    <3>3. Len(t.rows) + 1 = m
      BY <1>3
    <3> HIDE DEF n, m
    <3> QED BY <1>3, <2>1, <2>2, <3>1, <3>2, <3>3
  <2>3. CASE cfg # "lc"
    <3>1. w = t
      BY <2>3
    <3> HIDE DEF w, n, m
    <3> QED BY <1>3, <2>1, <2>3, <3>1
  <2> QED BY <2>2, <2>3
<1>6. rows' = w.rows /\ bots' = w.bots /\ told' = told
  BY <1>4, <1>5 DEF Saved
<1>7. p \in Requests /\ p.at = "tr" /\ p.run = n /\ p.rec = q.run /\ p.res = "wait"
  <2>1. StateOf(s, r) \in Tolds /\ q.run \in Nat
    BY <1>0, <1>1 DEF StateOf, Tolds
  <2> QED BY <1>3, <2>1 DEF Requests
<1> HIDE DEF w, n, m, p
<1>8. /\ \A i \in DOMAIN rows :
             /\ rows'[i].k = rows[i].k /\ rows'[i].call = rows[i].call /\ rows'[i].ended = rows[i].ended
             /\ rows'[i].start = rows[i].start /\ rows'[i].conn = rows[i].conn
             /\ bots'[i] = bots[i] /\ i \in DOMAIN rows' /\ i \in DOMAIN bots'
      /\ \A i \in DOMAIN rows' : i \in DOMAIN rows \/ i = n \/ (cfg = "lc" /\ i = m)
  BY <1>1, <1>5, <1>6, SMTT(30)
<1>9. /\ \A i : i \in Active("rec")' <=> i = r
      /\ \A i : i \in Active("tr")' <=> i = n
      /\ \A i : i \in Active("lc")' <=> i \in Active("lc") \/ (cfg = "lc" /\ i = m)
  <2>1. call' = call /\ \A i \in DOMAIN rows : /\ rows'[i].k = rows[i].k /\ rows'[i].call = rows[i].call
                                               /\ rows'[i].ended = rows[i].ended /\ i \in DOMAIN rows'
    BY <1>1, <1>8
  <2>2. \A k : \A i \in DOMAIN rows : i \in Active(k)' <=> i \in Active(k)
    BY <2>1, ActiveMeans, ActiveMeansNext
  <2>3. \A k : n \in Active(k)' <=> k = "tr"
    BY <1>1, <1>2, <1>5, <1>6, ActiveMeansNext
  <2>4. \A k : cfg = "lc" => (m \in Active(k)' <=> k = "lc")
    BY <1>1, <1>2, <1>5, <1>6, ActiveMeansNext
  <2>5. \A k : \A i : i \in Active(k)' => i \in DOMAIN rows \/ i = n \/ (cfg = "lc" /\ i = m)
    BY <1>5, <1>6, ActiveMeansNext
  <2>6. \A k : Active(k) \subseteq DOMAIN rows
    BY ActiveMeans
  <2>7. \A i : i \in Active("rec")' <=> i = r
    BY <1>1, <2>2, <2>3, <2>4, <2>5, <2>6
  <2>8. \A i : i \in Active("tr")' <=> i = n
    BY <1>1, <1>3, <2>2, <2>3, <2>4, <2>5, <2>6
  <2>9. \A i : i \in Active("lc")' <=> i \in Active("lc") \/ (cfg = "lc" /\ i = m)
    BY <1>1, <1>3, <2>2, <2>3, <2>4, <2>5, <2>6
  <2> QED BY <2>7, <2>8, <2>9
<1>10. Typed'
  <2>1. \A i \in DOMAIN rows' : rows'[i].call <= call'.id
    <3> SUFFICES ASSUME NEW i \in DOMAIN rows' PROVE rows'[i].call <= call'.id
      OBVIOUS
    <3>1. call.id \in Nat /\ call' = call /\ \A h \in DOMAIN rows : rows[h].call <= call.id
      BY <1>0, <1>1 DEF Typed
    <3>2. CASE i \in DOMAIN rows
      BY <1>8, <3>1, <3>2
    <3>3. CASE i \notin DOMAIN rows
      <4>1. rows'[i].call = call.id
        BY <1>5, <1>6, <1>8, <3>3
      <4> QED BY <3>1, <4>1
    <3> QED BY <3>2, <3>3
  <2>2. rows' \in Seq(Rows) /\ bots' \in Seq(Bots) /\ told' \in Tolds /\ Len(bots') = Len(rows')
    BY <1>5, <1>6 DEF States
  <2>3. reqs' \subseteq Requests
    BY <1>0, <1>4, <1>7
  <2> QED BY <1>0, <1>1, <2>1, <2>2, <2>3 DEF Typed
<1>11. Requested'
  <2> SUFFICES ASSUME NEW o \in reqs'
               PROVE  /\ o.run \in DOMAIN rows' /\ rows'[o.run].k = o.at
                      /\ o.res # "ok" => bots'[o.run].st = "none"
                      /\ \A a \in reqs' : a.run = o.run => a = o
    BY DEF Requested
  <2>1. \A a \in reqs : /\ a.run \in DOMAIN rows /\ rows[a.run].k = a.at /\ (a.res # "ok" => bots[a.run].st = "none")
                        /\ a.run # n
    BY <1>3 DEF JobInv, Requested
  <2>2. CASE o = p
    BY <1>4, <1>5, <1>6, <1>7, <2>1, <2>2
  <2>3. CASE o # p
    <3>1. o \in reqs /\ \A a \in reqs : a.run = o.run => a = o
      BY <1>4, <2>3 DEF JobInv, Requested
    <3>2. \A a \in reqs' : a.run = o.run => a = o
      BY <1>4, <1>7, <2>1, <3>1
    <3> QED BY <1>8, <2>1, <3>1, <3>2
  <2> QED BY <2>2, <2>3
<1>12. Bare'
  <2> SUFFICES ASSUME NEW i \in DOMAIN rows', rows'[i].k = "lc" PROVE cfg = "lc" /\ bots'[i].st = "none"
    BY <1>1 DEF Bare
  <2>1. CASE i \in DOMAIN rows
    BY <1>1, <1>5, <1>6, <2>1, SMTT(30) DEF JobInv, Bare
  <2>2. CASE i \notin DOMAIN rows
    BY <1>5, <1>6, <2>2
  <2> QED BY <2>1, <2>2
<1>13. Single'
  BY <1>9 DEF Single
<1>14. Apart'
  <2>1. "overlap" \notin past' => reqs' = {p}
    BY <1>4 DEF JobInv, Apart
  <2> QED BY <1>7, <1>9, <2>1 DEF Apart
<1>15. Captioned'
  <2>1. "captions" \notin past' => Active("lc") = {}
    BY <1>4 DEF JobInv, Captioned
  <2> SUFFICES ASSUME "captions" \notin past', NEW l \in Active("lc")'
               PROVE  /\ Active("tr")' # {}
                      /\ \A o \in Active("lc")' : o = l
                      /\ \A i \in Active("tr")' :
                            rows'[l].conn = rows'[i].conn /\ (rows'[i].start = 0 => rows'[l].start = 0)
    BY DEF Captioned
  <2>2. l = m /\ cfg = "lc" /\ \A o \in Active("lc")' : o = m
    BY <1>9, <2>1
  <2>3. rows'[m].conn = NoConn /\ rows'[m].start = 0 /\ rows'[n].conn = NoConn
    BY <1>5, <1>6, <2>2
  <2>4. n \in Active("tr")' /\ \A i \in Active("tr")' : i = n
    BY <1>9
  <2> QED BY <2>2, <2>3, <2>4
<1>16. Joined'
  <2> SUFFICES ASSUME NEW i \in {r, n}
               PROVE  /\ rows'[i].conn \in {NoConn, <<i, bots'[i].id>>}
                      /\ bots'[i].st = "in" => rows'[i].conn = <<i, bots'[i].id>>
                      /\ "renamed" \notin past' => bots'[i].id = 1
                      /\ rows'[i].start # 0 => bots'[i].st \in {"in", "gone"}
    BY <1>9 DEF Joined
  <2>1. CASE i = n
    BY <1>5, <1>6, <2>1
  <2>2. CASE i = r
    <3>1. /\ rows[i].conn \in {NoConn, <<i, bots[i].id>>}
          /\ bots[i].st = "in" => rows[i].conn = <<i, bots[i].id>>
          /\ "renamed" \notin past => bots[i].id = 1
          /\ rows[i].start # 0 => bots[i].st \in {"in", "gone"}
      BY <1>1, <2>2 DEF JobInv, Joined
    <3> QED BY <1>1, <1>4, <1>8, <2>2, <3>1
  <2> QED BY <2>1, <2>2
<1>17. Watching'
  <2> SUFFICES ASSUME {"unchecked", "renamed"} \cap past = {}, NEW i \in {r, n}
               PROVE  IF rows'[i].start = 0 THEN WatchedBy(i)' ELSE bots'[i].st = "in"
    BY <1>4, <1>9 DEF Watching
  <2>1. CASE i = n
    BY <1>4, <1>5, <1>6, <1>7, <2>1 DEF WatchedBy
  <2>2. CASE i = r
    <3>1. rows[i].start # 0 => bots[i].st = "in"
      BY <1>1, <2>2 DEF JobInv, Watching
    <3>2. rows'[i].job = q.run /\ rows'[i].k = "rec" /\ rows'[i].start = rows[i].start /\ bots'[i].st = bots[i].st
      BY <1>1, <1>5, <1>6, <2>2, ActiveMeans
    <3>3. WatchedBy(i)'
      BY <1>1, <1>4, <1>7, <3>2 DEF WatchedBy
    <3> QED BY <3>1, <3>2, <3>3
  <2> QED BY <2>1, <2>2
<1>18. Stopping'
  <2> SUFFICES ASSUME "overlap" \notin past, NEW b \in DOMAIN bots', bots'[b].st = "in", call.on,
                      rows'[b].call = call.id, rows'[b].ended, rows'[b].start # 0
               PROVE  bots'[b].ends
    BY <1>1, <1>4 DEF Stopping, InCall, Locked
  <2>1. b \in DOMAIN rows /\ bots'[b] = bots[b]
    BY <1>5, <1>6
  <2>2. bots[b].st = "in" /\ rows[b].call = call.id /\ rows[b].ended /\ rows[b].start # 0
    BY <1>1, <1>5, <1>6, <2>1
  <2>3. bots[b].ends
    BY <1>0, <2>1, <2>2 DEF JobInv, Stopping, InCall, Locked
  <2> QED BY <2>1, <2>3
<1>19. RecordingTold'
  <2> SUFFICES ASSUME call.users, past \cap {"overlap", "unchecked", "timeout", "stale"} = {}
               PROVE  told' = StateOf(Locked, Job(Locked, "rec"))'
    BY <1>1, <1>4 DEF RecordingTold
  <2>1. told = StateOf(Locked, Job(Locked, "rec"))
    BY DEF JobInv, RecordingTold
  <2>2. told = IF rows[r].start = 0 THEN "init" ELSE "on"
    BY <1>0, <1>1, <2>1, ToldMeans
  <2>3. StateOf(Locked, Job(Locked, "rec"))' = IF rows'[r].start = 0 THEN "init" ELSE "on"
    BY <1>9, <1>10, <1>13, ToldMeansNext
  <2> QED BY <1>1, <1>5, <1>6, <2>2, <2>3
<1> QED BY <1>10, <1>11, <1>12, <1>13, <1>14, <1>15, <1>16, <1>17, <1>18, <1>19 DEF JobInv

-----------------------------------------------------------------------------
(* The theorems *)

LEMMA JobInvInit == JobsInit => JobInv
<1> SUFFICES ASSUME NEW c \in JobConfigs, JobsStart(c) PROVE JobInv
  BY DEF JobsInit
<1>1. /\ call = [id |-> 0, on |-> FALSE, users |-> FALSE] /\ ~call.on /\ ~call.users
      /\ rows = <<>> /\ bots = <<>> /\ reqs = {} /\ told = "off" /\ past = {}
  BY DEF JobsStart
<1>2. DOMAIN rows = {} /\ DOMAIN bots = {} /\ \A k : Active(k) = {}
  BY <1>1 DEF Active, ActiveJobs, Locked
<1>3. Typed
  BY <1>1, <1>2 DEF Typed, Tolds
<1> QED BY <1>1, <1>2, <1>3 DEF JobInv, Requested, Bare, Single, Apart, Captioned, Joined,
                               Watching, Stopping, RecordingTold

LEMMA JobInvNext == JobInv /\ [JobsNext]_jobVars => JobInv'
<1> SUFFICES ASSUME JobInv, [JobsNext]_jobVars PROVE JobInv'
  OBVIOUS
<1>1. CASE CallStep
  BY <1>1, BeginKept, CallKept DEF CallStep
<1>2. CASE startRecordingJob
  BY <1>2, AskKept
<1>3. CASE StopRequest
  BY <1>3, StopKept
<1>4. ASSUME NEW q \in reqs,
             \/ RunJob(q, TRUE) \/ RunJob(q, FALSE) \/ RequestLost(q)
             \/ RecordingGone(q) \/ RecordingFailed(q) \/ RecordingTaken(q) \/ RecordingRuns(q)
             \/ TranscriptionGone(q) \/ TranscriptionFailed(q) \/ TranscriptionRuns(q)
      PROVE  JobInv'
  <2>1. CASE RunJob(q, TRUE) \/ RunJob(q, FALSE)
    BY <2>1, RunKept
  <2>2. CASE RequestLost(q)
    BY <2>2, CallKept
  <2>3. CASE RecordingGone(q) \/ RecordingFailed(q) \/ RecordingTaken(q)
    BY <2>3, RecordingReturns
  <2>4. CASE RecordingRuns(q)
    BY <2>4, RunsAloneKept, RunsBothKept
  <2>5. CASE TranscriptionGone(q) \/ TranscriptionFailed(q)
    BY <2>5, TranscriptionReturns
  <2>6. CASE TranscriptionRuns(q)
    BY <2>6, TranscriptionRunsKept
  <2> QED BY <1>4, <2>1, <2>2, <2>3, <2>4, <2>5, <2>6
<1>5. CASE TimerStep
  BY <1>5, TimeoutKept, CallKept DEF TimerStep
<1>6. CASE BotsStep
  BY <1>6, TurnedAway, JoinKept, StartedKept, FailureKept, ReconnectKept, LeaveKept DEF BotsStep
<1>7. CASE UNCHANGED jobVars
  <2>1. /\ cfg' = cfg /\ call' = call /\ rows' = rows /\ bots' = bots /\ reqs' = reqs
        /\ timers' = timers /\ told' = told /\ past' = past
    BY <1>7 DEF jobVars
  <2>2. Locked' = Locked
    BY <2>1 DEF Locked
  <2>3. \A k : Active(k)' = Active(k) /\ Job(Locked, k)' = Job(Locked, k)
    BY <2>1, <2>2 DEF Active, ActiveJobs, Job
  <2>4. Typed' /\ Requested' /\ Bare' /\ Single'
    BY <2>1, <2>3 DEF JobInv, Typed, Requested, Bare, Single
  <2>5. Apart' /\ Captioned' /\ Joined'
    BY <2>1, <2>3 DEF JobInv, Apart, Captioned, Joined
  <2>6. Watching' /\ Stopping'
    BY <2>1, <2>2, <2>3 DEF JobInv, Watching, WatchedBy, Stopping, InCall
  <2>7. RecordingTold'
    BY <2>1, <2>2, <2>3 DEF JobInv, RecordingTold, StateOf
  <2> QED BY <2>4, <2>5, <2>6, <2>7 DEF JobInv
<1> QED BY <1>1, <1>2, <1>3, <1>4, <1>5, <1>6, <1>7 DEF JobsNext, RequestStep

LEMMA JobInvHolds == JobsSpec => []JobInv
  BY JobInvInit, JobInvNext, PTL DEF JobsSpec

\* A transcription never outlives its recording, nor the captions their
\* transcription, but for overlapping requests and a transcription that timed
\* out or failed: whatever order stopRecordingJob, the timeout checkers, the
\* bots' reports and removeUserSession come in (recording_api.go,
\* transcription_api.go, bot_api.go, session.go).
THEOREM JobsStayCoupled == JobsSpec => []JobsCoupled
<1>1. JobInv => JobsCoupled
  <2> SUFFICES ASSUME JobInv PROVE JobsCoupled
    OBVIOUS
  <2>1. /\ Active("lc") = ActiveJobs(Locked, "lc")
        /\ Job(Locked, "tr") = 0 <=> Active("tr") = {}
        /\ Job(Locked, "rec") = 0 <=> Active("rec") = {}
    BY LockedFacts
  <2>2. "overlap" \notin past => (Active("tr") # {} => Active("rec") # {})
    BY DEF JobInv, Apart
  <2>3. "captions" \notin past => (Active("lc") # {} => Active("tr") # {})
    BY DEF JobInv, Captioned
  <2> QED BY <2>1, <2>2, <2>3 DEF JobsCoupled
<1> QED BY <1>1, JobInvHolds, PTL

\* The clients are told the state of the recording that the table holds, for
\* every interleaving of requests, bots and timers but the ones that JobInv's
\* history names (publishWebSocketEvent of call_job_state).
THEOREM ClientsKnowRecording == JobsSpec => []RecordingTold
<1>1. JobInv => RecordingTold
  BY DEF JobInv
<1> QED BY <1>1, JobInvHolds, PTL

\* A recording or a transcription that has not started is watched by its request
\* or its timer, one that has started has its bot in the call, and the bot of
\* one that is over has been told to leave (recJobTimeoutChecker,
\* stopRecordingJob, removeUserSession).
THEOREM JobsAreWatched == JobsSpec => []JobWatched
<1>1. JobInv => JobWatched
  <2> SUFFICES ASSUME JobInv PROVE JobWatched
    OBVIOUS
  <2>1. ASSUME NEW k \in {"rec", "tr"}, Job(Locked, k) # 0, {"unchecked", "renamed"} \cap past = {}
        PROVE  IF rows[Job(Locked, k)].start = 0 THEN Watched(Job(Locked, k)) ELSE InCall(Locked, Job(Locked, k))
    <3> DEFINE r == Job(Locked, k)
    <3>1. r \in Active(k) /\ Locked.bots = bots /\ Locked.rows = rows
      BY <2>1, LockedFacts
    <3> HIDE DEF r
    <3>2. r \in DOMAIN rows /\ call.on /\ rows[r].call = call.id
      BY <3>1, ActiveMeans
    <3>3. IF rows[r].start = 0 THEN WatchedBy(r) ELSE bots[r].st = "in"
      BY <2>1, <3>1 DEF JobInv, Watching
    <3>4. WatchedBy(r) => Watched(r)
      BY DEF WatchedBy, Watched
    <3>5. bots[r].st = "in" => InCall(Locked, r)
      BY <3>1, <3>2 DEF InCall
    <3>6. IF rows[r].start = 0 THEN Watched(r) ELSE InCall(Locked, r)
      BY <3>3, <3>4, <3>5
    <3> QED BY <3>6 DEF r
  <2>2. \A b \in DOMAIN bots :
           InCall(Locked, b) /\ rows[b].ended /\ rows[b].start # 0 /\ "overlap" \notin past => bots[b].ends
    BY DEF JobInv, Stopping
  <2> QED BY <2>1, <2>2 DEF JobWatched
<1> QED BY <1>1, JobInvHolds, PTL
=============================================================================

------------------------------ MODULE CallJobs ------------------------------
(***************************************************************************)
(* The recording, transcription and captions jobs of one channel           *)
(* (server/recording_api.go, transcription_api.go, bot_api.go, and what    *)
(* session.go and websocket.go do when a bot joins, reconnects or leaves). *)
(*                                                                         *)
(* Everything done between lockCall and unlockCall is one step.  A request *)
(* to start a recording gives the lock up twice, around its two calls of   *)
(* RunJob, and is a member of reqs while it waits; what it finds when it   *)
(* has the lock again may be another recording, or none.                   *)
(*                                                                         *)
(* Rows of calls_jobs are numbered in the order they are created.  The job *)
(* service runs one bot for a row, and the id it returns is the row's      *)
(* number.  A bot's connection is the pair of its row and 1, or 2 once it  *)
(* reconnected under a new id.                                             *)
(***************************************************************************)
EXTENDS Naturals, Sequences, FiniteSets

CONSTANTS
    JobConfigs,   \* what is enabled: "rec", "tr" (and rec), "lc" (and both)
    MaxStarts,    \* bound: recordings started
    MaxJobCalls,  \* bound: calls of the channel
    MaxDeeds      \* bound: what users and bots do, and what fails

VARIABLES
    cfg,     \* what the configuration enables
    call,    \* the active call: its number, whether it is on and has users
    rows,    \* calls_jobs
    bots,    \* the bot of a row: st, the id of its connection, whether it is to leave
    reqs,    \* requests to start a recording that wait for RunJob
    timers,  \* the goroutines that wait for a job to start
    told,    \* the state of the recording that the clients were last sent
    past,    \* what happened, for the properties
    deeds    \* for MaxDeeds

jobVars == <<cfg, call, rows, bots, reqs, timers, told, past, deeds>>
Deed == deeds < MaxDeeds /\ deeds' = deeds + 1

-----------------------------------------------------------------------------
(* The state a handler reads under the lock, as a record                   *)

NoConn == <<0, 0>>
NewJob(k) == [k |-> k, call |-> call.id, job |-> 0, conn |-> NoConn, start |-> 0, ended |-> FALSE]
NoBot == [st |-> "none", id |-> 1, ends |-> FALSE]

\* CreateCallJob.
Create(s, k) == [s EXCEPT !.rows = Append(@, NewJob(k)), !.bots = Append(@, NoBot)]

\* GetActiveCallJobs: the jobs of the active call, one of each kind; of
\* several captions jobs the one that started last, then any.
ActiveJobs(s, k) ==
    {r \in DOMAIN s.rows : call.on /\ s.rows[r].k = k /\ s.rows[r].call = call.id /\ ~s.rows[r].ended}
Job(s, k) == IF ActiveJobs(s, k) = {} THEN 0 ELSE CHOOSE r \in ActiveJobs(s, k) : TRUE
LiveCaptions(s) ==
    IF ActiveJobs(s, "lc") = {} THEN {0}
    ELSE {r \in ActiveJobs(s, "lc") : \A q \in ActiveJobs(s, "lc") : s.rows[q].start <= s.rows[r].start}

\* lockCallReturnState.
Locked == [rows |-> rows, bots |-> bots, told |-> told]
Saved(s) == rows' = s.rows /\ bots' = s.bots /\ told' = s.told

End(s, r) == IF r = 0 THEN s ELSE [s EXCEPT !.rows[r].ended = TRUE]
Now(s) == Cardinality({r \in DOMAIN s.rows : s.rows[r].start # 0}) + 1
StateOf(s, r) == IF r = 0 \/ s.rows[r].ended THEN "off" ELSE IF s.rows[r].start = 0 THEN "init" ELSE "on"

\* publishWebSocketEvent of call_job_state, for a recording.
Publish(s, what) == [s EXCEPT !.told = what]

InCall(s, b) == s.bots[b].st = "in" /\ call.on /\ s.rows[b].call = call.id

\* StopJob: only a bot that is connected gets the event.
StopJob(s, b) == IF b # 0 /\ s.bots[b].st = "in" THEN [s EXCEPT !.bots[b].ends = TRUE] ELSE s

\* stopTranscribingJob and stopRecordingJob call each other; each has ended
\* its own job by then.
stopTranscription(s, l) == StopJob(End(End(s, Job(s, "tr")), l), Job(s, "tr"))

stopRecordingJob(s, l) ==
    LET r == Job(s, "rec")
        t == End(s, r)
    IN  IF r = 0 THEN s
        ELSE Publish(StopJob(IF Job(t, "tr") = 0 THEN t ELSE stopTranscription(t, l), r), "off")

stopTranscribingJob(s, l) ==
    IF Job(s, "tr") = 0 THEN s ELSE stopRecordingJob(stopTranscription(s, l), l)

-----------------------------------------------------------------------------
(* The call, as far as jobs depend on it                                   *)

CallBegins ==
    /\ Deed /\ ~call.on /\ call.id < MaxJobCalls
    /\ call' = [id |-> call.id + 1, on |-> TRUE, users |-> TRUE]
    /\ told' = "off"
    /\ UNCHANGED <<cfg, rows, bots, reqs, timers, past>>

\* removeUserSession of the last user: bots that are left alone are stopped,
\* and a call without a session ends, its jobs as they are.
UsersLeave ==
    /\ Deed /\ call.on /\ call.users
    /\ IF \E b \in DOMAIN bots : InCall(Locked, b)
       THEN /\ call' = [call EXCEPT !.users = FALSE]
            /\ Saved(StopJob(StopJob(Locked, Job(Locked, "rec")), Job(Locked, "tr")))
       ELSE call' = [call EXCEPT !.users = FALSE, !.on = FALSE] /\ Saved(Locked)
    /\ UNCHANGED <<cfg, reqs, timers, past>>

\* Someone joins a call that has only bots.
UserJoins ==
    /\ Deed /\ call.on /\ ~call.users
    /\ call' = [call EXCEPT !.users = TRUE]
    /\ told' = StateOf(Locked, Job(Locked, "rec"))
    /\ UNCHANGED <<cfg, rows, bots, reqs, timers, past>>

\* hostEnd and cleanUpState end a call with everyone in it.
CallCut ==
    /\ Deed /\ call.on
    /\ call' = [call EXCEPT !.on = FALSE, !.users = FALSE]
    /\ UNCHANGED <<cfg, rows, bots, reqs, timers, told, past>>

-----------------------------------------------------------------------------
(* Starting and stopping a recording                                       *)

Starts == {r \in DOMAIN rows : rows[r].k = "rec"}

\* What requests that were mixed up have left over: a transcription, or a bot
\* that nobody has told to stop.
LeftOver == Job(Locked, "tr") # 0 \/ \E b \in DOMAIN bots : InCall(Locked, b) /\ ~bots[b].ends

\* startRecordingJob, up to RunJob.  While another request is under way the
\* answers can be mixed up, which "overlap" records; without one, and with
\* nothing left over, the past does not matter any more.
startRecordingJob ==
    /\ Deed /\ call.on /\ call.users /\ Job(Locked, "rec") = 0
    /\ Cardinality(Starts) < MaxStarts
    /\ Saved(Publish(Create(Locked, "rec"), "init"))
    /\ reqs' = reqs \cup {[at |-> "rec", run |-> Len(rows) + 1, rec |-> Len(rows) + 1, res |-> "wait", shown |-> "init"]}
    /\ past' = IF reqs # {} THEN past \cup {"overlap"}
               ELSE IF LeftOver THEN past ELSE past \cap {"captions"}
    /\ UNCHANGED <<cfg, call, timers>>

\* RunJob answers; the bot is on its way from then on.
RunJob(q, ok) ==
    /\ q.res = "wait" /\ (IF ok THEN UNCHANGED deeds ELSE Deed)
    /\ reqs' = (reqs \ {q}) \cup {[q EXCEPT !.res = IF ok THEN "ok" ELSE "err"]}
    /\ bots' = IF ok THEN [bots EXCEPT ![q.run].st = "way"] ELSE bots
    /\ UNCHANGED <<cfg, call, rows, timers, told, past>>

\* The lock is not obtained again, or the node dies: nothing is written.
RequestLost(q) ==
    /\ q.res # "wait" /\ Deed
    /\ reqs' = reqs \ {q} /\ past' = past \cup {"unchecked"}
    /\ UNCHANGED <<cfg, call, rows, bots, timers, told>>

Returned(q, at) ==
    /\ q.at = at /\ q.res # "wait"
    /\ UNCHANGED <<cfg, deeds, call>>
Forget(q) == reqs' = reqs \ {q}
Timer(k, job) == [k |-> k, job |-> job]

\* The recording is over: an error that nobody is told.
RecordingGone(q) ==
    /\ Returned(q, "rec") /\ Job(Locked, "rec") = 0
    /\ Forget(q) /\ Saved(Locked) /\ UNCHANGED <<timers, past>>

\* Mutant of RecordingFailed: the table is written, the clients are not told.
RecordingFailed_Quiet(q) ==
    /\ Returned(q, "rec") /\ Job(Locked, "rec") # 0 /\ q.res = "err"
    /\ Forget(q) /\ UNCHANGED <<timers, past>>
    /\ Saved(End(Locked, Job(Locked, "rec")))

\* RunJob failed: the recording that is there is ended.
RecordingFailed(q) ==
    /\ Returned(q, "rec") /\ Job(Locked, "rec") # 0 /\ q.res = "err"
    /\ Forget(q) /\ UNCHANGED <<timers, past>>
    /\ Saved(Publish(End(Locked, Job(Locked, "rec")), "off"))

\* The recording that is there has a job already.
RecordingTaken(q) ==
    /\ Returned(q, "rec") /\ q.res = "ok"
    /\ LET r == Job(Locked, "rec") IN r # 0 /\ rows[r].job # 0
    /\ Forget(q) /\ Saved(Publish(Locked, "off")) /\ UNCHANGED <<timers, past>>

\* startTranscribingJob, up to RunJob.
startTranscribingJob(s, q, r) ==
    IF Job(s, "tr") # 0
    THEN Forget(q) /\ Saved(Publish(s, "off")) /\ past' = past \cup {"unchecked"} /\ UNCHANGED timers
    ELSE LET t == Create(s, "tr")
         IN  /\ Saved(IF cfg = "lc" THEN Create(t, "lc") ELSE t)
             /\ reqs' = (reqs \ {q}) \cup
                   {[at |-> "tr", run |-> Len(t.rows), rec |-> q.run, res |-> "wait", shown |-> StateOf(s, r)]}
             /\ UNCHANGED <<timers, past>>

\* Mutant of RunRecording: nobody waits for the bot.
RunRecording_Unwatched(q, s, r) ==
    IF cfg = "rec" THEN Forget(q) /\ Saved(Publish(s, StateOf(s, r))) /\ UNCHANGED <<timers, past>>
    ELSE startTranscribingJob(s, q, r)

RunRecording(q, s, r) ==
    IF cfg = "rec"
    THEN /\ Forget(q) /\ Saved(Publish(s, StateOf(s, r)))
         /\ timers' = timers \cup {Timer("rec", q.run)} /\ UNCHANGED past
    ELSE startTranscribingJob(s, q, r)

\* The job runs: the id is kept and the transcription starts, or the timer.
RecordingRuns(q) ==
    /\ Returned(q, "rec") /\ q.res = "ok"
    /\ LET r == Job(Locked, "rec")
       IN  /\ r # 0 /\ rows[r].job = 0
           /\ RunRecording(q, [Locked EXCEPT !.rows[r].job = q.run], r)

\* The transcription did not start: the request fails and the recording, if
\* it is still there, goes on without a timer.
RecordingUnchecked(q) ==
    /\ past' = IF Job(Locked, "rec") = 0 THEN past ELSE past \cup {"unchecked"}
    /\ Forget(q) /\ UNCHANGED timers

\* The transcription is over, or has a job already.
TranscriptionGone(q) ==
    /\ Returned(q, "tr")
    /\ LET t == Job(Locked, "tr") IN t # 0 => (q.res = "ok" /\ rows[t].job # 0)
    /\ Saved(Publish(Locked, "off")) /\ RecordingUnchecked(q)

\* RunJob failed.
TranscriptionFailed(q) ==
    /\ Returned(q, "tr") /\ Job(Locked, "tr") # 0 /\ q.res = "err"
    /\ \E l \in LiveCaptions(Locked) :
          Saved(Publish(End(End(Locked, Job(Locked, "tr")), IF cfg = "lc" THEN l ELSE 0), "off"))
    /\ RecordingUnchecked(q)

\* Both run.  The clients are sent the recording as it was before the second
\* RunJob, which "stale" records if it has changed since.
TranscriptionRuns(q) ==
    /\ Returned(q, "tr") /\ q.res = "ok"
    /\ \E l \in LiveCaptions(Locked) :
          LET t == Job(Locked, "tr")
              s == [Locked EXCEPT !.rows[t].job = q.run]
          IN  /\ t # 0 /\ rows[t].job = 0
              /\ Saved(Publish(IF cfg = "lc" /\ l # 0 THEN [s EXCEPT !.rows[l].job = q.run] ELSE s, q.shown))
    /\ past' = IF q.shown = StateOf(Locked, Job(Locked, "rec")) THEN past ELSE past \cup {"stale"}
    /\ timers' = timers \cup {Timer("tr", q.run), Timer("rec", q.rec)}
    /\ Forget(q)

\* The host stops the recording.
StopRequest ==
    /\ Deed /\ call.on /\ call.users /\ Job(Locked, "rec") # 0
    /\ \E l \in LiveCaptions(Locked) : Saved(stopRecordingJob(Locked, l))
    /\ UNCHANGED <<cfg, call, reqs, timers, past>>

-----------------------------------------------------------------------------
(* Timeouts                                                                *)

Waited(t, k) ==
    /\ t.k = k
    /\ timers' = timers \ {t}
    /\ UNCHANGED <<cfg, deeds, call, reqs>>

\* Does the timer find its job, and is it still to start?
Overdue(t) == LET r == Job(Locked, t.k) IN r # 0 /\ rows[r].start = 0 /\ rows[r].job = t.job

\* Mutant of recJobTimeoutChecker: the transcription goes on.
recJobTimeoutChecker_Alone(t) ==
    /\ Waited(t, "rec")
    /\ Saved(IF Overdue(t) THEN Publish(End(Locked, Job(Locked, "rec")), "off") ELSE Locked)
    /\ UNCHANGED past

recJobTimeoutChecker(t) ==
    /\ Waited(t, "rec")
    /\ \E l \in LiveCaptions(Locked) :
          Saved(IF Overdue(t)
                THEN Publish(stopTranscribingJob(End(Locked, Job(Locked, "rec")), l), "off")
                ELSE Locked)
    /\ UNCHANGED past

\* The captions job is ended in memory only, and the clients are sent the
\* recording as it was before it was stopped.
transcriptionJobTimeoutChecker(t) ==
    /\ Waited(t, "tr")
    /\ IF Overdue(t)
       THEN LET r == Job(Locked, "rec")
                s == stopRecordingJob(End(Locked, Job(Locked, "tr")), 0)
            IN  /\ Saved(IF r = 0 THEN s ELSE Publish(s, StateOf(Locked, r)))
                /\ past' = past \cup {"timeout"} \cup (IF cfg = "lc" THEN {"captions"} ELSE {})
       ELSE Saved(Locked) /\ UNCHANGED past

\* The lock is not obtained, or the node dies.
TimerLost(t) ==
    /\ Deed
    /\ timers' = timers \ {t} /\ past' = past \cup {"unchecked"}
    /\ UNCHANGED <<cfg, call, rows, bots, reqs, told>>

-----------------------------------------------------------------------------
(* Bots                                                                    *)

BotStep == UNCHANGED <<cfg, call, reqs, timers>>
Conn(b) == <<b, bots[b].id>>

\* addUserSession of a bot: only for the current job, before it started.  The
\* clients are sent the recording, whichever bot it is.
BotJoins(b) ==
    /\ Deed /\ bots[b].st = "way"
    /\ IF b = Job(Locked, rows[b].k) /\ rows[b].start = 0
       THEN \E l \in LiveCaptions(Locked) :
              LET s == [Locked EXCEPT !.bots[b].st = "in", !.rows[b].conn = Conn(b)]
                  t == IF rows[b].k = "tr" /\ l # 0 /\ rows[l].start = 0
                       THEN [s EXCEPT !.rows[l].conn = Conn(b)] ELSE s
                  r == Job(t, "rec")
              IN  Saved(IF r = 0 THEN t ELSE Publish(t, StateOf(t, r)))
       ELSE Saved([Locked EXCEPT !.bots[b].st = "gone"])
    /\ BotStep /\ UNCHANGED past

\* handleBotPostJobsStatus, status started.
BotStarted(b) ==
    /\ Deed /\ bots[b].st = "in" /\ b = Job(Locked, rows[b].k) /\ rows[b].start = 0
    /\ \E l \in LiveCaptions(Locked) :
          LET s == [Locked EXCEPT !.rows[b].start = Now(Locked)]
          IN  Saved(IF rows[b].k = "rec" THEN Publish(s, "on")
                    ELSE IF cfg = "lc" /\ l # 0 THEN [s EXCEPT !.rows[l].start = Now(Locked)] ELSE s)
    /\ BotStep /\ UNCHANGED past

\* handleBotPostJobsStatus, status failed: of a bot in the call or not, which
\* then exits.  The captions of a failed transcription stay.
BotFailed(b) ==
    /\ Deed /\ bots[b].st # "none" /\ b = Job(Locked, rows[b].k)
    /\ \E l \in LiveCaptions(Locked) :
          LET s == [End(Locked, b) EXCEPT !.bots[b].ends = TRUE]
          IN  IF rows[b].k = "rec"
              THEN /\ Saved(Publish(stopTranscribingJob(s, l), "off"))
                   /\ UNCHANGED past
              ELSE /\ Saved(stopRecordingJob(s, l))
                   /\ past' = IF l = 0 THEN past ELSE past \cup {"captions"}
    /\ BotStep

\* handleBotWSReconnect, with a new connection id: the captions follow the
\* transcription.
Renamed(s, r, b) ==
    IF r # 0 /\ s.rows[r].conn = Conn(b) THEN [s EXCEPT !.rows[r].conn = <<b, 2>>] ELSE s
BotReconnects(b) ==
    /\ Deed /\ InCall(Locked, b) /\ bots[b].id = 1
    /\ \E l \in LiveCaptions(Locked) :
          LET t == Job(Locked, "tr")
              s == Renamed(Renamed(Locked, Job(Locked, "rec"), b), t, b)
          IN  Saved([IF t # 0 /\ s.rows[t] # rows[t] THEN Renamed(s, l, b) ELSE s EXCEPT !.bots[b].id = 2])
    /\ past' = past \cup {"renamed"}
    /\ BotStep

\* removeUserSession of a bot.  The jobs of a bot are found by its first
\* connection, the captions by the last one.
LeavesCall(b, s, l) ==
    LET t == IF Job(s, "rec") # 0 /\ s.rows[Job(s, "rec")].conn = <<b, 1>>
             THEN Publish(stopTranscribingJob(End(s, Job(s, "rec")), l), "off") ELSE s
        u == IF Job(t, "tr") # 0 /\ t.rows[Job(t, "tr")].conn = <<b, 1>>
             THEN stopRecordingJob(End(t, Job(t, "tr")), l) ELSE t
    IN  IF l # 0 /\ u.rows[l].conn = Conn(b) THEN End(u, l) ELSE u

removeUserSession(b) ==
    /\ Deed /\ bots[b].st = "in"
    /\ IF InCall(Locked, b)
       THEN LET s == [Locked EXCEPT !.bots[b].st = "gone"]
                others == {o \in DOMAIN bots : InCall(s, o)}
                alone == IF call.users \/ others = {} THEN s
                         ELSE StopJob(StopJob(s, Job(s, "rec")), Job(s, "tr"))
            IN  /\ \E l \in LiveCaptions(s) : Saved(LeavesCall(b, alone, l))
                /\ call' = [call EXCEPT !.on = call.users \/ others # {}]
       ELSE Saved([Locked EXCEPT !.bots[b].st = "gone"]) /\ UNCHANGED call
    /\ UNCHANGED <<cfg, reqs, timers, past>>

-----------------------------------------------------------------------------
JobsStart(c) ==
    /\ cfg = c /\ call = [id |-> 0, on |-> FALSE, users |-> FALSE]
    /\ rows = <<>> /\ bots = <<>> /\ reqs = {} /\ timers = {} /\ told = "off" /\ past = {}
    /\ deeds = 0
JobsInit == \E c \in JobConfigs : JobsStart(c)

CallStep == CallBegins \/ UsersLeave \/ UserJoins \/ CallCut
RequestStep ==
    \/ startRecordingJob \/ StopRequest
    \/ \E q \in reqs :
          \/ RunJob(q, TRUE) \/ RunJob(q, FALSE) \/ RequestLost(q)
          \/ RecordingGone(q) \/ RecordingFailed(q) \/ RecordingTaken(q) \/ RecordingRuns(q)
          \/ TranscriptionGone(q) \/ TranscriptionFailed(q) \/ TranscriptionRuns(q)
TimerStep ==
    \E t \in timers :
       recJobTimeoutChecker(t) \/ transcriptionJobTimeoutChecker(t) \/ TimerLost(t)
BotsStep ==
    \E b \in DOMAIN bots :
       BotJoins(b) \/ BotStarted(b) \/ BotFailed(b) \/ BotReconnects(b) \/ removeUserSession(b)

JobsNext == CallStep \/ RequestStep \/ TimerStep \/ BotsStep

JobsSpec == JobsInit /\ [][JobsNext]_jobVars

-----------------------------------------------------------------------------
\* The types of the tables and of what waits; at most one recording and one
\* transcription are active (GetActiveCallJobs).
JobsTypeOK ==
    /\ cfg \in {"rec", "tr", "lc"} /\ told \in {"off", "init", "on"}
    /\ call.id \in 0 .. MaxJobCalls /\ deeds \in 0 .. MaxDeeds /\ (call.users => call.on)
    /\ DOMAIN bots = DOMAIN rows
    /\ \A r \in DOMAIN rows : rows[r].k \in {"rec", "tr", "lc"} /\ bots[r].st \in {"none", "way", "in", "gone"}
    /\ \A k \in {"rec", "tr"} : Cardinality(ActiveJobs(Locked, k)) <= 1

\* A transcription does not outlive its recording, unless two requests to start
\* one overlapped, nor the captions the transcription, unless that timed out or
\* failed (stopRecordingJob, recJobTimeoutChecker, removeUserSession).
JobsCoupled ==
    /\ "overlap" \notin past => (Job(Locked, "tr") # 0 => Job(Locked, "rec") # 0)
    /\ "captions" \notin past => (ActiveJobs(Locked, "lc") # {} => Job(Locked, "tr") # 0)

\* The clients know the state of the recording, but for overlapping requests,
\* a recording without its transcription, a transcription that timed out and a
\* recording that started before RunJob returned (publishWebSocketEvent of
\* call_job_state).
RecordingTold ==
    call.users /\ past \cap {"overlap", "unchecked", "timeout", "stale"} = {} =>
        told = StateOf(Locked, Job(Locked, "rec"))

\* The timer of a job, or the request that will start one.
Watched(r) ==
    \/ Timer(rows[r].k, rows[r].job) \in timers
    \/ \E q \in reqs : q.run = r \/ (q.at = "tr" /\ rows[r].k = "rec" /\ q.rec = rows[r].job)

\* Jobs and bots keep to each other.  A job that has not started is watched, and
\* the bot of one that has is in the call, unless a timer was lost or the bot
\* reconnected under another id; a bot that has started does not stay in the
\* call after its job without being told to stop, unless requests overlapped
\* (recJobTimeoutChecker, stopRecordingJob, removeUserSession).
JobWatched ==
    /\ \A k \in {"rec", "tr"} :
          LET r == Job(Locked, k)
          IN  r # 0 /\ {"unchecked", "renamed"} \cap past = {} =>
                 IF rows[r].start = 0 THEN Watched(r) ELSE InCall(Locked, r)
    /\ \A b \in DOMAIN bots :
          InCall(Locked, b) /\ rows[b].ended /\ rows[b].start # 0 /\ "overlap" \notin past => bots[b].ends
=============================================================================

# Formal model of the Calls plugin

TLA+ modules, TLC configurations and TLAPS proofs for the Mattermost Calls
plugin: the server and the web app. `PROJECT.json` lists the runs, the theorems,
the hazards they answer to and, for every definition that models code, its lines.

Contents: [the system](#the-system), [the modules](#the-modules),
[the runs](#the-runs), [fairness](#fairness), [the proofs](#the-proofs),
[what disagrees](#where-code-and-comments-disagree),
[what is left out](#abstractions-and-what-is-not-modelled), [plan](#plan).

## The system

The plugin runs inside every Mattermost node of a cluster. A client joins the
call of a channel over a WebSocket of its own; the node that received the join
records the session in the database, and media goes to an RTC server that is
either embedded in one node or the external RTCD service. Nodes share the
database and the plugin key-value store, and send each other cluster messages.
In the browser the plugin keeps the state of the calls in a Redux store that the
events of the main WebSocket write, and one `CallsClient` for the call the user
is in; the widget and a pop-out window show and control it.

| Component | State it keeps | Operations | What makes it correct |
|---|---|---|---|
| Cluster mutex (`server/cluster/mutex.go`, `sync.go`) | one key per channel in the key-value store, with an expiry; one `sync.Mutex` and one refresh goroutine per node and channel | `Lock`, `Unlock`, `tryLock`, `refreshLock`, `lockCall`, `unlockCall` | one holder in the cluster; the holder keeps a live key; every `lockCall` returns; a dead node's key expires |
| Call state (`session.go`, `state.go`, `websocket.go`, `host_controls.go`, `api.go`, `db/calls_store.go`, `db/calls_sessions_store.go`) | tables `calls` and `calls_sessions`; a copy in the memory of the handler that holds the lock | join, leave, mute, hand, video, screen, change host, dismiss, end for everyone, clean-up at activation | one active call per channel; a host who is present; the participant limit; a complete list of participants; a call that ends when it is empty and stays ended |
| Jobs (`recording_api.go`, `transcription_api.go`, `bot_api.go`, `db/calls_jobs_store.go`) | table `calls_jobs`, goroutines that wait for a bot | start, stop, bot joins, reports, reconnects, leaves, timeout | the transcription goes with its recording; the clients know whether they are recorded; no job waits or records unattended |
| Session lifecycle (`websocket.go`, `session.go`, `plugin.go`, `cluster_message.go`) | `p.sessions` of each node, the channels of a session, cluster events | connect, disconnect, reconnect, leave, RTC close | a session whose client is gone is removed; a reconnection keeps it; no deadlock between `p.mut` and the call lock |
| Batching (`server/batching/batcher.go`) | a queue per channel for joins and one for leaves | `Push`, `Start`, `Stop` | no item lost, items in order, a stop that flushes |
| RTCD manager (`rtcd.go`), job service (`job_service.go`) | hosts, clients, versions | discovery, registration, `hasCallEnded`, `RunJob` | a call stays on its host while the host is up |
| Activation and configuration, HTTP API, slash commands, push notifications, metrics, migrations | configuration, licence | set-up, routing, permissions, formatting | sequential or thin |
| Web app: connection (`websocket.ts`, `client.ts`) | the socket, its id and its retries; the peer | open, hello, ping, close, reconnect, join, leave | a join completes or fails; a closed client leaves; a removed one closes |
| Web app: media (`client.ts`) | tracks, senders, devices | mute, unmute, switch devices, camera, blur, screen | what is sent is what the buttons show; devices are released |
| Web app: state (`reducers.ts`, `websocket_handlers.ts`, `index.tsx`) | the slices of the store | events, snapshots over HTTP, the user's buttons | agrees with the server when nothing is in flight |
| Web app: incoming calls (`actions.ts`, `components/incoming_calls`) | announced, ringing, dismissed calls; the tone | announce, ring, dismiss, join, notify | a ring ends and happens once; what is announced is on |
| Web app: joining (`index.tsx` and the buttons) | `window.callsClient`, the modals | start, join, switch, leave | one client |
| Web app: disclaimers and alerts | what was dismissed and when; the alerts of two windows | recording, host change, error, dismissal | the user is told what is new, and only that |
| Web app: widget and pop-out (`call_widget`, `expanded_view`) | what each window believes and has open | every control, the host's requests, the life of the pop-out | both windows show what the client does; nothing outlives its window |
| Web app: System Console (`admin_console_settings`) | the form, the copy of the configuration in the store | edit, save, discard, open, licence change | settings are shown exactly when the switches they depend on are on |
| Rendering, user settings, stand-alone pages, build, load test, end-to-end tests | | | not modelled |

**How the parts interact.** A join or leave arrives at a node, perhaps through a
cluster message, goes to a batcher when the call is large or directly to
`addUserSession` / `removeUserSession`; these run between `lockCall` and
`unlockCall` of the channel, change the copy of the state read under the lock,
and write it back row by row. Every other message handler and API request does
the same on its own. Recordings release the lock while the job service works
and take it again. Two operations step outside the protocol: the goroutine of
`hostEnd` ends the call without the lock, and `cleanUpState` reads the calls
before it takes any lock. What a handler publishes reaches the browser over its
main WebSocket, which may be down; at every reconnection the web app asks for a
snapshot over HTTP that mixes with the events. The client's own WebSocket carries
what the user does. A pop-out has a main WebSocket and a store of its own, and
uses the client of the window that opened it.

**What is hard.** The lock spans nodes and rests on expiry times; its key has no
owner; handlers share a copy of the state within a batch although writes may
fail half way; operations outside the lock interleave with those inside;
messages of a session are handled after it is gone; a request works with what it
finds after it had given the lock up, and timeouts of jobs race with bots that
answer late. In the browser every `await` is an interleaving: devices, sockets,
snapshots and credentials arrive after the user, the host or the network has
changed their mind. `PROJECT.json` lists these under `hazards`, each at the
line where it bites, with the properties that cover it; those without a
property say why.

## The modules

| Module | What it is |
|---|---|
| `AbstractLock` | the promise: a lock with a single holder |
| `ClusterMutex` | the mutex of `mutex.go` as `sync.go` uses it, for one channel |
| `MCClusterMutex` | its instance for TLC: two nodes, three handlers |
| `ClusterMutexProofs` | theorems about `ClusterMutex` |
| `CallState` | the calls of one channel and the handlers that change them |
| `MCCallState` | its instance for TLC: two people, one with two connections, and the bot |
| `CallStateProofs` | theorems about `CallState`: those that hold whatever fails, and those that hold when the store answers and every writer holds the lock |
| `CallSocket` | a client, its sockets and its session on the server, composed |
| `CallSocketProofs` | a theorem about `CallSocket` |
| `CallJobs` | the recording, transcription and captions jobs of a channel |
| `CallJobsProofs` | theorems about `CallJobs` |
| `MCServer` | both for TLC, one in each behaviour |
| `ClientStore` | the store of the web app, fed by the server it mirrors |
| `MCClientStore` | its instance for TLC: the user and another participant |
| `ClientStoreProofs` | theorems about `ClientStore` |
| `IncomingCalls`, `CallEntry`, `CallMedia`, `CallPrompts`, `CallWindows`, `AdminConsole` | the parts of the web app that keep state of their own |
| `IncomingCallsProofs` | theorems about `IncomingCalls` |
| `CallMediaProofs` | theorems about `CallMedia` |
| `MCWebApp` | the six parts for TLC, one in each behaviour |
| `WebAppProofs` | theorems about `CallEntry`, `CallPrompts`, `CallWindows` and `AdminConsole`, as `MCWebApp` composes them |

A definition named `X_Something` next to a definition `X` is a deliberately
wrong version of `X`; no specification uses it. It documents the mistake that
the properties are able to notice.

`MCServer` and `MCWebApp` check several modules in one run. The variable `part`
is chosen at the start and never changes; the variables of the other parts keep
their initial value. The parts share no variable, so this checks each as if it
were alone. Both extend the modules of their parts, so that a run checks the very
definitions the theorems are about; only `CallEntry`, `CallPrompts` and
`CallWindows`, which use names of the others, are instantiated.

### ClusterMutex

`kv` is the time left on the key (0: no key). `mut[n]` is the goroutine that
locked node `n`'s `sync.Mutex`; `refr[n]` its refresh goroutine, `"nil"` exactly
when `m.stopCh` is nil; `age[n]` the time since the key was last written for the
holder on `n`. `pc[p]` says where a
goroutine is in `lockCall ... unlockCall`. `stage[p]` tells the first lock of
`handleRecordingAction` from the one taken again by `startRecordingJob`, and from
the deferred unlock that runs when that second lock failed. `breach` is a
history variable: a refresh goroutine gave up, or a goroutine unlocked a mutex
it does not hold.

| Action | Code |
|---|---|
| `LockCall`, `LocalLock` | the call of `lockCall`; `m.mut.Lock()` |
| `TryLock`, `LockTimeout` | the polling loop of `Lock`: the atomic set of the key and the start of the refresh goroutine; the 10 s context of `sync.go` |
| `UnlockUnlocked`, `UnlockBegin`, `UnlockPanic`, `UnlockFinish` | the paths of `Unlock`: a mutex that is not locked; the stop of the refresh goroutine; closing a nil channel; deletion and `m.mut.Unlock()` |
| `RefreshLock`, `RefreshGivesUp` | `refreshLock` and the return at its first error |
| `Crash`, `Tick` | a node dies; time passes |

### CallState

`calls` and `sess` are the two tables. `mem` is the copy of the state in the
memory of the handler that holds the lock `lk`, which runs one operation
(`Handler`), a batch of joins or a batch of leaves. `conn` is where a connection
is in its life: not yet joined, in, leaving (marked removed, its removal
pending), gone. `cleaner` is the goroutine of `hostEnd` or `cleanUpState`, with
the row it read. `joined` is a history variable.

| Action | Code |
|---|---|
| `LockCall`, `UnlockCall` | `lockCallReturnState`; `unlockCall`, an early return or the death of the holder |
| `addUserSession` | `addUserSession` and the rest of `addSessionToCall` |
| `Disconnect`, `removeUserSession` | a session is marked removed; `removeUserSession` with its host election, its clean-up of screen and video and the end of an empty call |
| `ToggleFlag`, `ToggleVideo`, `ScreenOn`, `ScreenOff` | the cases of `handleClientMsg` |
| `changeHost`, `DismissNotification`, `hostEnd` | the API requests |
| `HostEndReads`, `HostEndDeletes`, `HostEndUpdates` | the goroutine of `hostEnd`, one store operation at a time, without the lock |
| `CleanUpReads`, `CleanUpEndsCall` | `cleanUpState` |

Every write may fail when `StoreMayFail`; what the handler does then (return
early, carry on with its copy, lose the second write of two) is a disjunct of
the action. Operations under the lock are single steps because no other
operation reads what they have half written, except those that ignore the lock,
whose steps are separate.

### CallJobs

`rows` is `calls_jobs`; `bots` the bot the job service runs for a row; `reqs` the
requests that have given up the lock around `RunJob`; `timers` the goroutines
that wait a minute for a bot; `told` the state of the recording the clients were
last sent; `call` as much of the call as jobs depend on. `past` records what the
properties except: requests that overlapped, a start that nobody watches, an
answer that was out of date, a timeout, captions that were left, a bot that
changed its id.

| Action | Code |
|---|---|
| `startRecordingJob`, `RunJob`, `RequestLost` | up to `unlockCall` and `RunJob`; its answer; a lock that is not obtained again |
| `RecordingGone`, `RecordingFailed`, `RecordingTaken`, `RecordingRuns` | what the request finds when it has the lock again; the last starts the transcription, which gives the lock up once more |
| `TranscriptionGone`, `TranscriptionFailed`, `TranscriptionRuns` | the same for `startTranscribingJob`, and the rest of the request |
| `StopRequest` | `handleRecordingAction`, stop; `stopRecordingJob` and `stopTranscribingJob`, which call each other |
| `recJobTimeoutChecker`, `transcriptionJobTimeoutChecker`, `TimerLost` | the timeouts |
| `BotJoins`, `BotStarted`, `BotFailed`, `BotReconnects`, `removeUserSession` | `addUserSession` and `handleJoin` of a bot; `handleBotPostJobsStatus`; `handleBotWSReconnect`; the part of `removeUserSession` about bots |
| `CallBegins`, `UserJoins`, `UsersLeave`, `CallCut` | the call around the jobs |

### CallSocket

`cl` is the client, `sk` its `WebSocketClient`, `up` and `down` what is on the
way, `us` the session objects of the server and `reg` the map `p.sessions`, `row`
the row of the session, `tasks` the goroutines of the server that wait, `rtc` the
RTC session. `rtcd`, chosen at the start, tells the rtcd service from the embedded
RTC server; `faults` counts the calls of the server that have failed, and `missed`
is a history variable, the sockets whose loss was told to no object of theirs.

| Action | Code |
|---|---|
| `init`, `onopen`, `Hello`, `Joined`, `JoinError` | the client asks for devices, opens its socket, gets its id, joins or is refused |
| `Drop`, `PingTimeout`, `ConnectFails`, `RetryTimer` | the socket breaks or cannot be opened; the next attempt. A ping may go unanswered at any time |
| `Hangup`, `PeerClosed` | the client leaves; its peer reports the end of the session |
| `Receive` | the messages and the loss of a socket: `join` and `reconnect` start goroutines, `OnWebSocketDisconnect` tells the object registered or starts the second look |
| `handleJoin` | refuses with an error, or registers and acknowledges, or registers and fails to have the RTC session made: then the client hears nothing and only `handleLeave` starts |
| `ReconnectCheck`, `handleReconnect` | the check of the call and, later, the new object; it has no goroutine when rtcd cannot be told |
| `SecondLook` | ten seconds after a disconnect that found no object; a `handleJoin` that waits for the lock or a batch may register one later still |
| `handleLeave` | a reconnection ends the object, which stays in `p.sessions` when this node handles its RTC; a leave, a loss or a failed join ends the session. The embedded RTC server calls back the object that joined; rtcd gets a message, or cannot be reached |
| `RTCClosed` | the RTC session ends by itself |

`removeSession` marks the object first: if the lock or the deletion fails, the
object is `lost` and nothing tries again.

### ClientStore

`srv` is the server's call and `wire` what it published and the browser has not
handled; the main WebSocket goes down and loses it. `store` is what the reducers
keep for the channel. `act` are the runs of `onActivate`, each of which asks for the
configuration and then for a snapshot that it dispatches later. `client` and `req`
are the user's own client and its messages. Each reducer is an operator from the
store to the store under the name of its action.

### The parts of the web app

- `AdminConsole`: the 35 settings and 7 sections of the page, each with its
  condition, value and disabled state; `handleChange` of a setting, the effects of
  the five that write the store, save, discard, reopening, and a licence or a
  configuration that changes.
- `IncomingCalls`: calls in direct and group messages that start, are announced
  after two awaits, ring with a timer, are joined, dismissed here or elsewhere and
  end, with events lost and calls announced again by `GET /channels`.
- `CallMedia`: tracks and senders of a client. An operation that waits for the
  browser is two steps, and two of them may overlap.
- `CallEntry`: every way to start, join, switch and leave, `connectCall` with its
  wait for TURN credentials and its catch, the handlers of a client that fails or
  closes, and the reset of the store when the main WebSocket is back (`Reconnected`),
  which stops the spinner. `win.unguarded` and `win.race` are history: a
  `connectCall` waits that the guard of `connectToCall` did not keep out of the way
  of another, and such a pair has made two clients.
- `CallPrompts`: the recording disclaimer and the alerts in the widget and the
  pop-out, with the clocks of the server and of the client.
- `CallWindows`: the controls of both windows over one client, what each learns
  from its own WebSocket, the host's requests, push to talk, the menus, and a
  pop-out that loads, opens, closes or is left behind.

## The runs

| Run | Shows | Bounds |
|---|---|---|
| `mutex_faults` | With crashes, failing deletions, late and failing refreshes and double unlocks: the mutex implements `AbstractLock` until a refresh goroutine gives up or a goroutine unlocks what it does not hold; the holder keeps its key; the invariant of the proofs holds | 2 nodes, 3 handlers, two of them on one node, so that both the local mutex and the key are contended; TTL 4 |
| `mutex_liveness` | `lockCall` returns and the key becomes free infinitely often | the same, without recorders and with refreshes that succeed |
| `mutex_lockout` | finding 1 | one recorder |
| `call_handlers` | One active call; a present host; every active call has a session; video start times match the rows; an ended call lists all who joined | 3 connections of 2 people (one leaves with another connection still in), 2 calls, video, an administrator |
| `call_faults` | Under failing writes, `hostEnd` and `cleanUpState`: limit, list of participants, and the copy covering the table | 3 connections with the bot, limit 2, 1 call |
| `call_liveness` | When everyone has left, the call ends | 3 connections with the bot, 1 call, hands and dismissals interleaved |
| `call_unjoinable`, `call_resurrected`, `call_stale_sharer` | findings 2 to 4 | 3 connections, 2 calls |
| `sessions_and_jobs` | The session of a closed client leaves the call, a join completes or fails, one that fails half way is undone, and `p.sessions` keeps no object that ended but those `handleLeave` leaves there, with rtcd and with the embedded RTC server; a transcription does not outlive its recording, the clients know the state of the recording, jobs are watched and their bots with them | 3 sockets, or 2 and 3 failing calls of the server; 2 recordings in 2 calls, 6 deeds of users, bots and faults, with recordings only, with transcriptions and with captions |
| `client_store` | A user who is in the call sees the server's call, sessions, host, sharer and recording once nothing is in flight | 2 sessions, 2 calls, 2 activations, 3 events in flight, one change by others and one press |
| `web_app` | The fourteen properties of the web app's parts | 3 edits of six settings; 2 calls and 3 moves of the user; 2 microphones and 3 operations, 2 at once; 2 channels, 2 clients, 3 clicks; 5 events and 3 deeds, clocks that agree and clocks three ticks apart; 2 other participants and 4 acts |

**Bounds.** The time unit of the mutex is the refresh interval of `sync.go` and
the key lives for four of them, the ratio used there; `MaxDelay` 1 lets a
refresh or a deletion be as late as a full interval. Three
connections are enough for a host that leaves with and without another
connection, for an election among equals and for a limit that is reached; two
calls are enough for a second call to start while the sessions of the first are
still being removed. Join times are only compared, so each join takes the
latest time so far or the next one. The proofs have none of these bounds except
`MaxCalls` and the single cleaner, which are parameters or shape of the model.

Three sockets are the first join, a reconnection that resumes or is refused, and
one more that meets what the second left, such as an object that stays in
`p.sessions` after a second reconnection. Failures multiply the states, so that a
behaviour with one has two sockets (`FaultyConns`): a join that fails half way, a
reconnection that takes it over or cannot be told to rtcd, and a removal that
fails are all there, and three failures let each of them meet the two others. Six
deeds are a call, two requests, a stop between them, a failure and a bot; the same
properties hold with two recordings and 7 deeds (842,504 states) and, without
captions, with three and 7 (1,342,755 states). The bounds of the web app's parts
let every action happen and two operations overlap at each await; larger ones were
checked for each part alone: 5 acts in `CallWindows`, 4 operations in `CallMedia`,
any lag in `CallPrompts`, every combination of notification preferences in
`IncomingCalls`. The type invariants of `ClientStore` and of the parts of the web
app and the jobs (`TypeOK`, `WebTypeOK`, `JobsTypeOK`) were checked with the same
bounds and are not in the configurations.

Deadlock is checked in the runs of `ClusterMutex` and `CallState`. The others may
stop: a client that left, a page that used up its bounds.

## Fairness

`ClusterMutex!Fairness`: a handler ends, so its deferred unlock runs; a
`sync.Mutex` does not starve a waiter (Go hands the mutex over after 1 ms, hence
strong fairness of `LocalLock`); the polling loop ends by success or by the
10 s context that `sync.go` always passes; the refresh ticker fires; time
passes. No fairness on `TryLock` alone: the code does not promise that a waiter
ever gets the key, only that `lockCall` returns. No fairness on crashes or
failures.

`CallState!Fairness`: a batch starts and ends; the removal of a session that
keeps finding the lock free gets it (strong fairness of `removeUserSession`,
which the batcher's ticker and the retry of the poll justify while the lock is
available). It assumes that the removal gets the lock within the 10 s of `sync.go`,
since one that does not is given up, and that the node that owns the session
lives: what either leaves behind is a hazard of the session lifecycle.

`CallSocket!SocketFairness`: weak fairness of the steps that the code takes by
itself: the promises of `init` settle, a socket that connects opens or fails, what
the server sent is read, the timer of a retry fires, the peer notices that the RTC
session is over, and the server handles what it received, its second look
included. A user need not hang up, sockets need not break and pings need not time
out, and an RTC session need not end before its client has closed. Fairness of the
server is that of all its steps together: no handler waits for ever for the lock
or a batch, but any one may be later than everything that has a timeout, since
`ServerStep` has no order. It includes the end of the RTC session of a client that
has closed, which the RTC side notices by itself. The other modules of the web app
and `CallJobs` state no fairness: their properties are invariants, and "will be
ended" is said as a timer or a request that exists (`RingEnds`, `JobWatched`).

## The proofs

All theorems hold for every value of the constants that satisfies the named
assumptions.

**ClusterMutexProofs.** From `ProcAssumption` (each goroutine has a node) and
`TimeAssumption` (`MutexConfig.IsValid`, and delays that leave a refresh inside
the TTL): `TypeCorrect`, `OwnersKeepTheLock`, `Exclusion`, `KeyKept` and
`MutexImplementsLock`. Exclusion is not inductive: a goroutine that is deleting
its key is no longer in its critical section, yet another must not get the key
before the deletion. `OwnerInvariant` therefore counts a goroutine as owner
until the deletion, ties it to the local mutex and the refresh goroutine of its
node, and says `kv + age >= TTL`: since `age` stays at most
`RefreshInterval + MaxDelay < TTL`, an owner's key is alive. The refinement
follows: at most one goroutine maps to the holder, and each step acquires,
releases or stutters. All of it is conditional on `~breach`, and the two
ways to breach it are actions of the model, not assumptions.

**CallStateProofs.** From `IDAssumption` and `ConfigAssumption`: `TypeCorrect`,
`CopyIsCurrent`, `LimitHolds` and `ParticipantsComplete`, all through one
inductive invariant, `TypeOK /\ CopyCoversTable /\ LimitRespected /\
ParticipantsRecorded`. The limit and the list of participants are checked and
extended on the copy `mem`, so they hold in the table only because the copy
covers it. `CopyCoversTable` says so: every session the table has for the call
is in the copy, the copy is within the limit, and everyone the table shows is on
the copy's list. It survives the operations outside the lock because those only
delete sessions and only write back a call that has ended; it survives failing
writes because a failed join leaves the original copy in place and a failed
removal has deleted the row first.

Its second part adds the assumption `NoFaults` (no write fails,
and neither `hostEnd`'s goroutine nor `cleanUpState` runs): `OneCallAtATime`,
`HostPresent`, `JoinableCall`, `VideosMatch`, `EndedComplete` and `EndIsFinal`. The
hypothesis is needed: `call_unjoinable` and `call_resurrected` are counterexamples
without it. It is a hypothesis of these theorems and not of the model, whose other
theorems are about every fault; `call_handlers` is its instance. The invariant is
`Sound`. That the copy covers the table is not enough here: a handler elects a host,
counts sessions and writes rows from its copy, so `CopyExact` says that the holder of
the lock has exactly the rows of the only call that may be active, and `NilState` only
if there is none; `Coherent` then relates each row of `calls` to its sessions and to
all who ever joined. An action is shown to keep one row coherent, and `RowWritten`
does the rest for all of them.

**CallJobsProofs.** Without assumptions on the constants, for any number of calls,
recordings and overlapping requests: `JobsStayCoupled`, `ClientsKnowRecording` and
`JobsAreWatched`. None of the three is inductive, because a request works with rows
that others changed while it had given up the lock. `JobInv` adds what a waiting
request may rely on: it runs the bot of its own row, which nobody ran before
(`Requested`); at most one recording and one transcription are active (`Single`);
unless requests overlapped, it finds its own jobs (`Apart`); an active job knows
the connection of its bot, so that `removeUserSession` recognises it (`Joined`); and
captions share the connection of their transcription (`Captioned`). Each part is
conditional on the one member of `past` that breaks it. The search for it corrected
the model: `startRecordingJob` had forgotten the history of requests that were mixed
up at every new recording, although a transcription or a bot of theirs could still be
there (`LeftOver` now keeps it).

**IncomingCallsProofs.** From `RingAssumption`, for any number of calls:
`RingToneEnds`, `RingsOnce` and `AnnouncedCallIsOn`. `RingInv` separates the two
sources of notifications: with ringing enabled a call that was notified of is in
`didNotify`, which is looked up before; without it, nothing is announced and the
one notification is that of the post, so the event of a start must exist at most
once and not have been handled (`StartOnce`). `NewsInv` adds that a call which is
announced, or which an event on the way, an answer or a profile can still
announce, was not dismissed, and that its end is on the way if it is over, the
excepted calls aside.

**CallMediaProofs.** From `MediaAssumption` (0 is no device), for any set of
microphones and any number of operations that wait: `SentIsShown`,
`UsesSelectedMic`, `CamerasAreReleased`, `BlurIsKept` and `CapturesAreReleased`.
`MediaInv` has two halves. The unconditional one holds through every overlap:
fields name tracks of the right kind (`Named`), and a track that is live is known
to `cleanup` or is stray, while answers that arrive after the close are late
(`Released`); that is all `CapturesAreReleased` needs. The other half holds while
operations on the microphone, or on the camera, did not overlap: then at most one
of them waits, and it may rely on what it read before (`MicWaits`, `CamWaits`: the
track it will replace is still the one in use, and enabled as it was). With it the
track in use is on only while the button shows it, and is the only one sent
(`MicTrack`); the only cameras open are the one shown and the one its canvas draws
(`CamTrack`); a video has a canvas exactly when there is a segmenter
(`CamBlurred`); and the microphone fits the devices, or a change of them is being
handled (`MicChosen`). The microphone, the camera and the screen do not disturb
each other (`MicStill`, `CamStill`), so that each action is examined for one of
them. The search for the invariant corrected none of the actions; it showed that
`startVideo` needs the peer throughout, which `CamWaits` and `CamTrack` now say.

**CallSocketProofs.** From `ConnsAssumption`, for any number of sockets and
failures, with rtcd or the embedded RTC server: `SessionsWellFormed`. `p.sessions`
holds an object only under its own id, and one without a goroutine only for one of
three reasons (`Tracked`): its removal failed, rtcd could not be told of its
reconnection, or it was reconnected while this node handled its RTC. That needs
`SocketInv`: an object keeps the id of its socket for good (`Named`), only rtcd
leaves an object stuck and only the embedded server keeps an ended one (`Placed`),
and the server has no object, message or goroutine of a socket that has not opened
(`Fresh`), so that registering one overwrites nothing.

**ClientStoreProofs.** From `StoreAssumption`, for any number of sessions, calls and
activations, and any events lost on the way: `StoreInSync` and `StoreShowsRecording`.
Both properties speak of the moment when nothing is in flight, so `StoreInv` says what
is: handling the events on the wire, in their order, brings the store to the state of
the server (`Chain` names the stores on that way). The last `call_state` on the wire
makes everything before it irrelevant, which is why a store that a lost event left
behind recovers. A button changes the store before the server knows of it: the flags of
the user's own session that are on their way, as a message or as an event, are `Owed`,
and the store may be ahead in those and no others. While the main WebSocket is down, or
an activation after a reconnection has still to ask for the state of the call
(`Pending`; the one at page load does not ask), nothing is claimed. TLC
checked the invariant on the instance of `client_store` before it was proved.

**WebAppProofs.** For every value of the bounds; the page also uses
`AdminAssumption`. Each part of `MCWebApp` has an invariant of its own, which the
steps of the others leave alone.

- `OneClientAtATime`. `EntryInv`: a client is closed exactly when it has left or given up
  (`Over`), and until the race the window knows the one that is not. The guard is in
  `Alone`: as long as every join went through `connectToCall`, at most one waits for
  credentials, the spinner spins while it does, and the window has no client, so that
  its answer adds none. `connectToCall` without its look at the spinner breaks it, as
  the mutant shows in the run.
- `AlertsStayCurrent`. `AlertInv`: one fact, the last answer of the browser, is what both
  windows show of the screen.
- `PopoutEndsWithCall`. `WindowInv`: the pop-out has picks only while it is open, and a
  screen shared from it is the track the widget remembers.
- `DisclaimerFollowsNews`. `NewsInv` is about what a window's store will know once the
  events on their way are handled: each time stamp in it is later than the last
  dismissal exactly when the user has not dismissed that news. A dismissal is at an
  odd time and what happens at an even one, which is how `serverDismissedAt` is modelled,
  so a dismissal lies strictly between two of them. TLC checked it with six events and
  two on their way (3.59 million states).
- `PageAgreesWithItself`. `PageInv`: the settings that write the store are mounted exactly
  when the store asks for them, and the store agrees with the form about those.
  Mounting one may ask for another: recordings, then transcriptions, then captions, so
  the fourth of the commits that follow an edit has nothing more to do.
- `WindowsShowTheClient`. `AgreeInv`: for each control the last message about it makes the
  server equal to the client, and the last event about it makes a window equal to the
  server (`EndsIn`). The widget is `Ahead` while a message of its own is on its way, and a
  pop-out knows nothing until it has asked for the state. For the screen counting is
  needed: messages that start and stop it, and tracks that are still being removed,
  make up the difference between client and server (`Balanced`) until a request is
  refused. A window shows the own stream while there is one (`Streaming`): an own screen
  the server has not heard of is one that is being announced. TLC checked the invariant
  with 4 acts and 3 messages on their way (351,501 states). The proof did without one of
  the exceptions of `WindowsAgree`, a second pick while the first is shared, which is
  therefore no longer one.

**Model-checked only.** Liveness (`LockReturns`, `KeyIsReleased`, `CallEnds`,
`ClosedClientLeaves`, `FailedJoinUndone`, `JoinCompletes`), which is out of the
prover's reach, and the counterexamples of the findings. Every invariant and action
property that a passing run checks is the subject of a theorem.

## Where code and comments disagree

1. `mutex_lockout`: unlocking twice is said to be safe (`mutex.go:235`). When
   `startRecordingJob` cannot lock again, the deferred unlock of
   `handleRecordingAction` can hit a mutex that another handler of the node holds or
   waits with; that handler's refresh goroutine is then never stopped and keeps the
   key alive for good.
2. `call_unjoinable`: after a failed write a call may be active without a
   session. The next join is then the first session of the call, and `CreateCall`
   inserts a row that exists: nobody can join until `cleanUpState` runs.
3. `call_resurrected`: `cleanCallState` "is meant to be called under lock"
   (`state.go:355`); the goroutine of `hostEnd` calls it without, and a handler that
   read the call before writes it back as active.
4. `call_stale_sharer`: `screen_on` does not look whether its session is still
   in the call; handled late, it leaves a sharer who is gone and blocks the screen
   for the others.

Observed while modelling, without a run of their own. An exception that a
property names is reachable in its run.

*Call state and mutex.* Mutual exclusion is lost
after one failed refresh, which is why the mutex theorems speak of a breach; with
failing writes a batch of joins can create two active calls; `EndedCallComplete`
does not hold when `cleanUpState` writes back the row it read before the lock;
the call post of a call that ends normally gets `Props.Participants` after
`setCallEnded` emptied it (`session.go:478`); `OnDeactivate` closes the store before
it calls `cleanUpState` (`activate.go:241` and `257`); the screen-sharing duration is
assigned, not added up (`websocket.go:198`).

*Jobs.* The answers of overlapping start requests are mixed up: a late failure of
the first ends the second's recording and leaves its transcription. When the
transcription cannot start, the recording stays active without a timer although
the clients are told it ended. `transcriptionJobTimeoutChecker` writes `trState`
where it means the captions (`transcription_api.go:62`), and then sends the
clients the recording as it was before the stop. A failed transcription leaves
its captions active. After both calls of `RunJob` the clients are sent the
recording as read before the second, which hides a start in between. A bot that
joined and has not reported its start when `recJobTimeoutChecker` fires is not
told to stop. A bot that reconnected under a new id is not recognised when it
leaves (`session.go:366` compares `originalConnID`, line 429 `connID`). If the lock is
not obtained again the deferred relay of `startRecordingJob` dereferences a nil
state.

*Connection.* If the first socket is lost before hello or the acknowledgement, the
client never joins: later sockets send reconnect. `init` opens a socket for a
client that was closed while it waited for the microphone (`client.ts:484`). A
session object can be left when a resumed id had lost its connection before and
there is no RTC session. A join that waits for the lock longer than the ten seconds
of the second look registers a session whose loss nobody will notice, unless the RTC
side does. A join that fails once the session is registered (`websocket.go:857`) tells
the client nothing: it learns of it by `user_left` only if it is the last one
(`actions.ts:401`), so with others in the call it stays connecting. A removal that
cannot take the lock or delete the row is not tried again (`session.go:516`), and a
reconnection that rtcd is not told of (`websocket.go:1136`) leaves an object without a
goroutine in `p.sessions`. `handleReconnect` clears the original id "to avoid
potentially tracking it twice" (`websocket.go:1111`), but with the embedded RTC
server, after a second reconnection under another new id, the ended object of the
first stays in `p.sessions` beside its successor, and `getSessionByOriginalID` may
find either: `SocketTypeOK` excepts such an object (`Tracked`).

*State in the browser.* `CALL_END` does not clear `screenSharingIDs`; a late voice
event creates a session without a user; `USER_VIDEO_OFF` for an unknown channel
creates a session that is unmuted (`reducers.ts:435`); a snapshot can create a call
that is over; after a reconnection an ended recording stays shown;
`callDismissedNotification` looks up by channel a map keyed by call
(`selectors.ts:290`).

*Media and joining.* A mute during a switch of the microphone leaves it on;
switching a blurred camera sends it raw; overlapping operations leave a camera
open. The message `connectCall` bypasses the guard of `connectToCall`
(`index.tsx:427`), so two joins that wait for credentials make two clients. The guard
is the spinner, which others stop: the reset of the store when the main WebSocket is
back (`reducers.ts:1019`) and the late failure of a client that was left
(`index.tsx:858`), so a join that waits may be doubled then too. When making a
client throws, nothing stops the spinner and the buttons stay disabled
(`index.tsx:867`).

*Prompts and windows.* `error_at` and `hostChangeAt` are the client's clock
(`websocket_handlers.ts:388`, `426`), which `clock_skew.ts` rules out;
`CurrentCallDataDefault` is one object for all calls (`types.ts:160`). A refused
`screen_on` leaves the client capturing; sharing again before the old track is
removed sends `screen_on` before `screen_off`; a second pick overwrites the id of
the first track, so closing the pop-out does not unshare; a pop-out that is still
loading when the client closes stays open; a key held for push to talk when the
pop-out closes leaves the microphone on.

*System Console.* Switches write the form's value into the app's configuration
when they are mounted, so that unsaved changes leak into the app; `EnableVideo`
ignores the environment; fetching the configuration with the page open hides
settings whose switch is on; a cleared number becomes null.

## Abstractions and what is not modelled

- One channel (two in `CallEntry`): channels share nothing but the batcher maps and
  the connections.
- In `CallState` and `CallJobs` the lock is exclusive. `MutexImplementsLock` justifies
  this as long as nothing breached the mutex; the modules are not composed with it.
- Statistics, posts, thread IDs and durations are left out: no property tells
  them apart. So is the permission to start or join a call, which changes no
  state. In `CallState` jobs appear only as the right of the bot to join.
- `CallState` has no in-memory sessions: a session is in, leaving or gone.
  `CallSocket` has them for one client on one node. Cluster messages and the node of
  an RTC session elsewhere, the death of a node with sessions, the order of `p.mut`
  and the call lock, the reconnection of a bot that fails and the ticker that checks
  the user's session are not modelled. Nor is the queue of a batcher: a batch whose
  `PreRunCb` fails stays queued for the next tick, so its joins and leaves only wait.
- RTCD is not modelled: in `CallState` `cleanUpState` may end a call or leave it,
  whichever sessions it has, which covers every answer of `hasCallEnded`.
- `CallJobs` has no failing writes of `calls_jobs`, no posts or metadata of finished
  recordings. `CallMedia` has no incoming tracks and no output devices; `initAudio` and
  `initVideo` also look for devices within their awaits, which the model leaves to
  `DeviceChange`.
- `IncomingCalls` mounts the component of the first call afresh when the first call
  changes, where React keeps it: more mounts than the code has.
- In `CallPrompts` what happens and what is dismissed are never at the same tick, so
  equal times are not compared.
- The reads of `hostEnd`'s goroutine go to the primary database in the model; the
  lag of a replica is not modelled.
- The failing second write of `ToggleVideo` is covered by the proofs; the runs
  enable video only together with a store that works.
- `ClusterMutex` has the one release and retake of `startRecordingJob`; the second
  one, of `startTranscribingJob`, is in `CallJobs`.
- In the web app: reactions, live captions, host notices, the list of recently
  joined users, the desktop app and its global widget, the choice of a screen to
  share, user settings, statistics panels, rendering and styling, stand-alone pages.
- Components with status `not_modelled` in `PROJECT.json`, with the reason.

## Plan

The core of the server, the jobs, the session of a client and the web app are
modelled, and their safety is proved. What is left, in order of importance:

1. `SessionLifecycle`: `p.sessions` of two nodes, cluster messages that are dropped
   or late, the death of a node, and the order of `p.mut` and the call lock.
   Properties: every session of a living node is removed once; no deadlock.
2. `Batching`: the queue of `batcher.go`, its capacity, `PreRunCb` failing, `Stop`
   racing with `Push`. Abstract specification: a FIFO queue that loses nothing it
   accepted.

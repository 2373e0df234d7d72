# AkiSpace: a verification project in TLA+

AkiSpace is a Windows program, written in Rust with a Tauri frontend, that opens
a child RDP session on the local machine and forwards input to an agent process
in that session. This directory holds TLA+ models of its concurrent parts, the
TLC configurations that check them on small instances, and proofs about them
for TLAPS. Line numbers refer to the sources as they are in `src/`.

- [The system](#the-system): components, state, operations, interactions
- [Modules](#modules): what models what
- [Runs](#runs): what TLC checks, with which bounds and fairness
- [Proofs](#proofs): what holds for every value of the constants
- [Disagreements with the comments](#disagreements-with-the-comments)
- [Not modelled](#not-modelled) and the [plan](#plan)

## The system

| component | state | operations | hard because |
|---|---|---|---|
| Pipe server, `modules/ipc/server.rs` | expected nonce (a mutex), one pipe instance, the frame being read | `set_nonce`; `run`: create an instance with a fixed DACL, wait two seconds for a client, check its SID, read its handshake within five seconds, send a verdict within one, serve requests until the client leaves | every await is a place where the client, the clock or `set_nonce` moves first; one instance for all clients |
| Pipe client, `modules/ipc/client.rs` | nonce, attempt counter, connection | `connect` (up to five attempts), `handshake`, `send_batch`, `send_json` | retries with a verdict under way, answers that come after the timeout |
| Frames, `modules/ipc/frame.rs` | none | encode, decode, read and write a frame | a malformed body keeps the frame boundary, an oversized header loses it; reads are not safe to cancel |
| Nonce files, `modules/ipc/nonce.rs` | files `nonce_*.bin` in one directory | sweep, exclusive write, find the latest, read and delete | several processes, no lock but the share mode, crashes |
| Application core, `modules/app.rs`, `modules/ipc.rs` | event channel of 128, connection state, `is_connecting`, host pointer and parameters, handle snapshot, tray, ticker | the handlers of the event loop; commands, window procedure, ticker and callbacks post to it | posts that find the channel full are dropped; state is spread over several mutexes; the close sequence is eight events |
| RDP host, `modules/rdp/host.rs` | COM control or fallback window | new, connect, disconnect, event callbacks, drop | callbacks come whenever the control likes |
| Replay runner, `modules/input/replay.rs` | running flag, channel of 1024, worker's queue | `enqueue`, worker loop, `stop`, `Drop` | stopping races producers |
| Agent, `modules/bin/agent.rs` | one stream, one runner, which it owns | handshake, frame loop, drop of the runner | polls a frame read under a timeout; blocks in the runner's channel |
| Mouse forwarder and raw input, `modules/input/forwarder.rs`, `raw_input.rs` | batch, Alt and focus flags | accumulate, poll, flush | three threads |
| Cursor capture, `modules/input/cursor_capture.rs` | clip rectangle, hide count | capture, release, release temporarily | calls in unusual orders |
| Settings, `modules/settings.rs` | settings in memory (an `RwLock`) and in `settings.json` | current, update, save, start | update and save are separate, and commands run at once; the process may die in a save |
| Environment, `modules/environment.rs`, `fix_env.rs` | registry, firewall, service | checks, fixes | a fix can fail half way; two runs of the fixes at once; a service that takes its time |
| Launcher, `modules/launcher.rs` | a scheduled task, the COM apartment of the event-loop thread | register, run, poll, delete | errors leave the task and the apartment behind; the hosts are created on the same thread |
| Logging, `modules/logging.rs` | a buffer per log | write, flush, prune | the flusher works on a clone |
| Sessions, protection, ACLs, frontend, entry points | none that matters | | |

How they interact. The frontend invokes commands (`ipc.rs`), which post events
to the core; the core's single event-loop thread creates and drives an RDP host,
whose callbacks post events back; the core emits its state to the frontend. One
process generates a nonce, gives it to the pipe server (`set_nonce`) and writes
it to a file; another reads and deletes the file and presents the nonce in the
handshake. The agent feeds the batches it receives to a replay runner, which it
drops when its connection ends. The core launches programs on the thread that
creates the hosts; the settings, the fixes of the environment and the cursor have
no part in each other's state. In the
code at hand several of these parts are offered by the library and not called
from the program (`PipeServer::new`, `PipeClient`, `write_nonce_file`,
`sweep_stale_nonces`, `MouseForwarder::new`, `CursorCapture::new`): they are
modelled as their own callers would meet them, each with an environment that may
call every public operation at any time.

What makes each component correct:

- *Handshake.* Only a client that presented the nonce the server asked for is
  served or believes that it has a session, whatever is lost, late, retried or
  rotated; no request is answered before; `connect` returns; the accept loop
  comes back.
- *Nonce files.* A receiver gets a whole nonce, the file of a session under way
  is nobody else's, and what was consumed is gone.
- *Application core.* No freed host is used and no control connected twice; the
  core believes what the control does unless an event was lost; a connection
  attempt is decided, and a disconnect that found an active control comes to its
  end; an exit completes in order.
- *Requests.* Whatever bad frames come between, the server answers what it can
  answer, once and in order; a call gets its own answer, or it is known what a
  timeout may have done to it; every call returns.
- *Replay runner.* What `enqueue` accepted is replayed once and in order, also
  at a stop; nobody hangs.
- *Agent.* The runner gets the events of the batches as they were sent, an
  answer names the last event of its batch, an answered batch is replayed, and
  the process ends with its peer.
- *Mouse forwarder.* Motion is neither lost nor made up between its threads, and
  after a stop all of them end.
- *Cursor capture.* Every hide is undone, and a released cursor is free.
- *Settings.* What a command was told is saved is on disk, whatever runs beside
  it and whenever the process dies; what is in memory gets there.
- *Environment.* What a run of the fixes reports as done is in force (it is not
  for the hook step), and a service it took down is reported.
- *Launcher.* No task is left behind unaccounted for, and a launch does not
  change how hosts are created.
- *Logging.* A logged line reaches its file (it does not).

`PROJECT.json` lists the hazards behind these properties line by line.

## Modules

| module | models | composed with |
|---|---|---|
| `PipeSession` | what a handshake promises, without frames, timeouts or retries | abstract specification of `PipeHandshake` |
| `PipeHandshake` | `PipeServer::run`, `verify_handshake`, `handle_connection`, `PipeClient::connect` and the connection it yields, foreign clients | `Session == INSTANCE PipeSession WITH ...` |
| `AppConnection` | event loop, handlers, ticker, close sequence, requests from other threads, the control behind each host | core and host in one module |
| `ReplayQueue` | what the runner promises | abstract specification of `AgentRunner` |
| `AgentRunner` | producers, channel, worker, stop | `Queue == INSTANCE ReplayQueue WITH ...` |
| `NonceFile` | sessions that sweep and write, receivers that read and delete, the file system | |
| `RequestService` | what a connection promises its callers, without frames, pipes or readers | abstract specification of `RequestExchange` |
| `FrameStream` | a byte stream of frames, in headers and payloads | extended by `RequestExchange` and `AgentLoop` |
| `RequestExchange` | calls of `send_batch` and `send_json`, `handle_connection` of the server, the pipe between them | `Service == INSTANCE RequestService WITH ...` |
| `AgentLoop` | `handle_connection` of the agent with its poll, any peer | |
| `AgentProcess` | the agent's two threads: its loop and the runner it owns | extends `AgentLoop`; `Runner == INSTANCE AgentRunner WITH Producers <- {Agent}, ...` |
| `MouseForwarder` | `MouseForwarder::new`, `stop`, its two threads, and the `RawInputMonitor` they live on | |
| `CursorCapture` | capture, release, `update_rect`, other programs that move the clip rectangle and the display counter | |
| `Settings` | start, `update`, `save`, the two commands that change settings, death of the process | |
| `EnvironmentFix` | `run_all_fixes`, the checks, the service manager | |
| `Launcher` | `launch_in_session`, the COM apartment, creation of hosts, the scheduler | |
| `LogWriter` | the writer, its clone and the flusher | |
| `MCAppConnection`, `MCNonceFile`, `MCDesktop` | the instances for TLC that need symmetry or functions, or hold several modules | |
| `PipeHandshakeProofs`, `AgentRunnerProofs`, `NonceFileProofs`, `MouseForwarderProofs`, `AppConnectionProofs`, `RequestExchangeProofs`, `AgentLoopProofs` | theorems about the module of that name; `AgentLoopProofs` also about `AgentProcess` | |
| `DesktopProofs` | theorems about `CursorCapture`, `Settings`, `EnvironmentFix`, `Launcher` and `LogWriter` | |

Definitions whose comment begins with *Mutant* are wrong versions of the
definition that follows them. They are used nowhere in the specifications; each
shows that a property notices the mistake it stands for.

**PipeHandshake.** `spc` is where the task of `run` stands: each state lies
between two awaits. `peer` is the client attached to the instance, `snap[c]` the
copy of the nonce taken for `c`'s connection (server.rs:95), `cpc` and `tries`
the position and attempt of `connect`, `up` and `down` the two directions of the
byte stream. A timeout is a step that is possible whenever the awaited input is
not there. A frame that arrives while the timer fires may go either way in the
code; the outcome of the timer is then the one in which the frame had not
arrived yet. The bytes of a nonce, the DACL and the SID comparison are
abstracted: the SID check passes or refuses. Foreign clients send any frame of
any kind in any order; they cannot send a nonce they do not hold. An `EndBatch`
is a batch whose numbers end past the word, so that `first_seq + count - 1`
(server.rs:224) leaves it: the release build has no overflow checks, wraps and
answers (`ServeRequest`), a build with them panics and takes the task of `run`
with it (`ServePanics`), after which nobody listens.

**AppConnection.** `queue` is the event channel and `cur` the event being
handled; taking an event and handling it are two steps, so that other threads
can fill the slot in between and a handler's own post can fail. `kind[h]` says
how `RdpHost::new` came out, `session[h]` what the control does. The control is
external: it may report a connection, an end or a fatal error when its state
allows it. `lost` and `overlap` are history variables that say whether an event
was dropped or a host replaced too early; they appear in properties only.
Events that do not touch this state are one event, `Other`. `App::new` starts its
threads through `clone_inner`, which needs `APP_INSTANCE` to be set already
(app.rs:328); the model describes the application as constructed.

**AgentRunner.** `wpc` follows `worker_loop`. The eight milliseconds of
`last_flush` are a choice at each turn, so that every timing is covered. `log`
and `taken` are histories of what was accepted and what `SendInput` was given.
An event is a producer with the number of its call, so that the events are
distinct and order can be told.

**NonceFile.** `file` is the directory. A file's content is named by its writer
and by whether all 32 bytes are there; `time` is the modification time on a
coarse clock, so that two files can be equally recent. Listing a directory is one
step and each entry's removal another. Opening, deleting and reading respect the
share mode of a file that is being written (`Locked`); two readers do not exclude
each other. Any system call may fail, and a process may die between any two.

**RequestExchange.** This is the data loop again, with what `PipeHandshake` leaves
out: a frame goes through the pipe in two pieces, its header and its payload, a
write blocks while the direction is full, and a call gives up after
`RESPONSE_TIMEOUT` and leaves its connection usable. `up` and `down` are the two
directions. Requests are numbered by the order of the calls, and an answer bears
the number of its request. Of the code's own numbers the client compares none,
and the server computes the last of each batch: what the module keeps of them is
whether they leave the word (a batch of kind `edge`), in which case a build with
overflow checks panics and drops the connection (`ServerPanics`) and any other
answers. Their arithmetic is in `AgentLoop`, whose loop computes the same. `late` says that some call timed out, `cut` that one timed out between a
header and its payload: after that the reader may take any frame for announced
(`Announced`). Oversized frames and stray verdicts, which `PipeClient` never
writes after its handshake, come from another program.

**AgentLoop.** The agent reads each frame under a timeout of 100 ms. `stream` is
what arrived, `rest` what the peer still has to write of a frame; the peer may
leave in the middle. The runner may refuse any event (`HandEvent`). Sequence
numbers are words modulo `Word`; where one overflows, the code wraps around or
panics as the build has overflow checks or not, and the model may do either.

**AgentProcess.** The loop and its runner, a thread each. `AgentLoop` leaves open
whether the runner takes an event; here the runner decides. The n-th event of
the batches is the n-th call of `enqueue`: `CallRunner` enters it, `CallReturns`
leaves it when the channel took the event or the worker is gone, and until then
the loop blocks. The runner is a local of `handle_connection`, so that it is
dropped, and thereby stopped and joined, when that returns. A panic drops it too:
only a build with overflow checks can panic there, and that is a debug build,
which unwinds; the release profile (Cargo.toml:55) aborts on a panic but wraps
around instead of panicking.

**MouseForwarder.** One axis of motion stands for both. The threads are the
monitor's message thread, the poll of Alt and focus, the flush and the owner.
`flush_loop` holds the lock on the batch from `take_batch` through `SendInput`,
because the guard is a temporary of the `if let` (forwarder.rs:174), so that
`Accumulate` waits (`BatchLocked`), and the message thread with it. The 10 ms of
the sleep are also the 10 ms that make a flush due: `should_flush` is never
decided by the change of direction. `RawInputMonitor::new` sleeps 100 ms and looks
whether its thread has set the window; either outcome is possible
(`MonitorReady`, `MonitorMissing`). `RawInputMonitor::stop` lowers its flag and
then posts WM_QUIT without a look at the outcome (raw_input.rs:254-258); `quit`
says whether it was posted or refused. `moved`, `clipped`, `sent`, `discarded` and
`stragglers` are histories.

**CursorCapture.** Each operation holds the mutex throughout and is one step. The
environment moves the clip rectangle and the display counter of Windows at any
time. `hide_count` counts calls of `ShowCursor(false)` that left the counter
negative; the one call that meets a positive counter ends the loop uncounted
and is not undone, which `drift` remembers.

**Settings.** A command is `changed` between its `update` and its `save`; it
serialises under the read lock (`SaveBegins`), fills a temporary file
(`TempWritten`) and moves it over `settings.json` (`Persisted`). The read lock is
held throughout, so that no `update` can come between (`CanWrite`), but two saves
can. `change` numbers the changes and stands for all fields the model does not
name. The file before the first start may be absent, unreadable, or of an
earlier version with a password in plain text, which a start protects and saves.

**EnvironmentFix.** `at[f]` is the step of a run of the fixes, `failed[f]` what it
reported as failed. Two runs may go on at once, because `--fix-env` takes no
instance mutex. `registry` holds what the fixes write, `loaded` what the service
read when it last started, `port` the configured port, which one function takes
modulo 2^16 (`ConfiguredPort`) and another checks (`ListenerPort`). The conditions
of `run_all_checks` are operators of the same names. The service manager moves the
service between two polls, or not in time. A call that fails spends the bound on
failures; a restart given up because of the state of the service
(`GivesUpRestart`) does not. The three values of `fix_set_security_layer` are
written in one step: every run writes the same three, so that between them there
is nothing another step could tell apart but a failure, and a failure writes any
part of them.

**Launcher.** `stage[l]` is how far a call of `launch_in_session` came or how it
ended, `tasks` what is registered. Since the event-loop thread handles one event
at a time, two launches never overlap (`Free`). `cleanup_orphaned_tasks` is left
out: nothing calls it, and it asks for the tasks that are not hidden
(launcher.rs:151) while these are registered as hidden (launcher.rs:76).
`apartment` and `refs` are the COM apartment of that thread
and the references a launch took on it: only success gives its reference back.

**LogWriter.** `buffers` and `flag` exist twice, for the writer of `WRITER_HANDLE`
and for the clone the flusher works on. Pruning and rotation are left out.

## Runs

All runs use the CONSTANTS of their `.cfg`; no definition is replaced.

| run | instance | states | checks |
|---|---|---|---|
| `handshake` | 1 pipe client, 1 foreign, 2 nonces, 3 attempts, 1 frame per direction | 231 thousand | `FailClosed`, `NoFalseSession`, `NoAnswerBeforeAdmission`, `ImplementsSession`, `AlwaysListensAgain`, `ConnectReturns` |
| `app` | 2 hosts, channel of 2, 1 exit | 1.55 million | `OwnsHost`, `BelievesTruth` |
| `app_live` | 1 host, channel of 2, 2 exits | 317 thousand | `CloseInOrder`, `ConnectSettles`, `DisconnectSettles`, `ExitCompletes` |
| `replay` | 2 producers with 3 calls, channel of 2, groups of 2 | 17 thousand | `Conserved`, `ImplementsQueue`, `AcceptedIsReplayed`, `CallsReturn` |
| `nonce` | 3 sessions on 2 paths, a receiver of a file and one of the directory, 2 ticks | 413 thousand | `OwnWhileWriting`, `NoTornNonce`, `ConsumedIsGone`, `NeverRewritten` |
| `requests` | 4 frames of any kind, 2 pieces per direction | 1.66 million | `AnsweredExactly`, `AnswersMatch`, `BlockedOnlyLate`, `CallsReturn` |
| `agent` | 2 frames of any kind, batches of up to 2 events, words modulo 2, channel of 1, groups of 2 | 537 thousand | `HandledIsReplayed`, `AnsweredInOrder`, `ProcessEnds` |
| `forwarder` | 3 samples of up to 1, clamp at 1 | 439 thousand | `MotionConserved`, `OneAfterStop`, `MotionLeaves`, `StopEndsThreads` |
| `desktop` | 3 commands with 3 changes and 1 death; 3 launches; 2 rectangles of the program and 1 of others; 2 runs of the fixes, 3 values of the port, 2 failures | 967 thousand | `AckedIsDurable`, `MemoryIsSaved`, `TasksAccounted`, `HostsInSta`, `CursorBalanced`, `FreeWhenReleased`, `ReportedIsEffective`, `DownIsReported`, `StaysDown` |
| `agent_cut`, `log_lines`, `hook_disabled` | small | | one comment or promise each, refuted; see below |

What the properties say is stated at each of them. In short:

- `FailClosed`, `NoFalseSession` and `NoAnswerBeforeAdmission` relate what the
  server does and what the client believes to the nonce asked for when the
  connection was taken up, across rotation, retry and loss. `ImplementsSession`
  says the same of whole behaviours: each step of the handshake is a step of the
  abstract session or none.
- `AlwaysListensAgain` says what a client can do to the accept loop: nothing,
  unless it was admitted and stays connected, because `handle_connection` reads
  without a timeout, or was admitted and sends a batch past the word to a build
  that checks.
- `BelievesTruth` relates the core's state to the control's when no event is on
  its way, and is claimed only while no event was lost and no host replaced;
  `OwnsHost` holds without such a proviso. `CloseInOrder` must hold even with two
  close sequences in the channel at once. `DisconnectSettles` says that a
  disconnect which found an active control does not end in Disconnecting for
  good, unless an event was lost or the program exits; without an active control
  it may (app.rs:831, below).
- `Conserved` and `ImplementsQueue` say that accepted events are replayed once
  and in order; the exception, an event accepted after the runner was told to
  stop, is the `late` of the abstract queue.
- `NoTornNonce`, `OwnWhileWriting`, `ConsumedIsGone` and `NeverRewritten` are
  about what the share mode and CREATE_NEW buy without any other lock.
- `AnsweredExactly` says what malformed and foreign frames can do to the server:
  nothing, but for an oversized one, which ends the connection, and a batch past
  the word, which ends it in a build that checks. `AnswersMatch`
  says what a timeout can do to later calls: until one timed out each gets its
  own answer; after that it may get an earlier call's, and no worse unless a read
  was cut. `BlockedOnlyLate` says when both ends can block in a write for ever,
  for writes have no timeout: only with late answers left in the pipe. That
  state is reachable, and `CallsReturn` excepts it.
- `HandledIsReplayed` follows a batch from the pipe to `SendInput`: while no poll
  cut a frame, an answered batch was accepted to its last event, because the
  runner is stopped only after the loop; and what was accepted is replayed
  by the time the process ends, even by a panic. `agent_cut` shows what
  a cut does. A build with overflow checks may panic on an empty batch whose
  first number is 0 or on a last number past the word (`ProcessEnds` covers it).
- `MotionConserved` accounts for every count of motion over three threads and a
  clamp; `OneAfterStop` and `StopEndsThreads` are about stopping: the flag is
  read once a round, so one batch can still be sent, and the message thread ends
  only by the WM_QUIT that the monitor's own flag decides about, and not at
  all when the system refuses that one, for the flag is down by then.
- `AckedIsDurable` is what the locks of the settings buy: two commands may save
  each other's change, and neither save is older than what is on disk.
  `MemoryIsSaved` is the converse for a process at rest, with the exception the
  code has: a save that failed.
- `TasksAccounted` says exactly which tasks are registered: those of launches
  under way, of launches given up on an error, and of deletions that failed;
  `HostsInSta` the ones after which a host is created in the wrong apartment.
- `CursorBalanced` and `FreeWhenReleased` hold over every sequence of calls,
  captures after a temporary release and failing calls included.
- `ReportedIsEffective` is about the reports: each FixResult with success is true
  afterwards of the registry, the firewall and the running service, although
  another run writes, stops and starts at the same time. The hook step is the
  exception: its report is refuted by `hook_disabled`. `DownIsReported` and
  `StaysDown` are about the restart: a service nobody restarts is reported, and a
  stopped service is never started by the fixes, since the step begins with a
  stop that fails.

**Bounds.** One pipe client meets a foreign one, its own earlier attempts and a
rotation; what it would meet in an equal it meets in the foreign one, which may
do anything but present the nonce, and the safety properties are proved for
any number. Three attempts are a first, a middle and a last one; two nonces a
rotation and a stale one; one frame per direction fills the pipe. A channel of
two events is full after two posts, so that every handler's post meets a full
channel; 128 only makes that rarer. Groups of two with three calls per producer
show the boundary of a group, which 64 has as well. The clock's two ticks give
older, newer and equally recent files. Four frames are two late answers, a frame
that fills the pipe behind them and a call that meets them; a direction of two
pieces is filled by one frame. Two frames let the agent lose the boundary in one
and misread the other; words modulo 2 put a batch at both ends of the word, and
a channel of one event lets any call of `enqueue` but the first block. Three samples
of up to the clamp overflow it in both directions and arrive before, while and
after a flush. `MCDesktop` is a sum of four parts: they share no state and do
not call each other, so a behaviour moves one of them. Three commands are a save
under way, one that waits for its lock and one between update and save; one
death is one restart on what is left. Three launches are one that failed, one
that is polled and one that has not begun. Ports 3389 and
65535, or none, are the default, the largest and its absence. Two failures break
two steps of a run, or one step in each of two. `MaxRetries`, `MaxBuffered`,
`QueueCap`, `MaxExits`, `MaxCalls`, `Capacity`, `GroupMax`, `MaxTime`,
`MaxFrames`, `MaxCount`, `Word`, `Limit`, `Step`, `MaxSamples`, `MaxChanges`,
`MaxDeaths`, `MaxHide`, `MaxShown`, `MaxDrift`, `MaxFailures`, `MaxBufferLines`
and `MaxLines` name all the bounds. Symmetry is used in `app` only, which has no
temporal property.

**Deadlock** is checked for the handshake and the application, which never
stop (after WM_QUIT the application stutters, `Ended`). The replay runner stops
when stopped, the sessions and receivers of nonce files are finite calls, a
connection ends when its caller drops it, the agent's process with its peer, the
forwarder's threads after `stop`, and launches, commands and fixes are finite;
their runs say CHECK_DEADLOCK FALSE. Where two ends could wait on each other a
property says so instead (`BlockedOnlyLate`, `CallsReturn` of both modules that
have one, `ProcessEnds`).

**Fairness.** Handshake: the runtime polls both tasks and timers fire (weak
fairness of the server and of each connecting client); the system refuses a new
instance only for a while (strong fairness of `CreateInstance`). Nothing is
assumed of foreign clients, of `set_nonce`, or of a client that holds a session.
Application: the event loop and the ticker are threads that get scheduled, and a
control told to connect or disconnect answers in the end. Nobody is obliged to
use the program. Runner: the worker runs; when it keeps coming to the point of
flushing, the eight milliseconds are over at some such point (strong fairness of
`Flush`); a blocked sender is queued by the channel and gets its turn (strong
fairness of `Send`). Requests: both tasks are polled and the timer of the call
fires; nobody is made to call. Agent: its two threads run, its poll times out and
the runner's flush is as above; nothing is assumed of the peer. Forwarder: each
thread is scheduled and a WM_QUIT that was posted is delivered (one that was
refused is not); nobody is made to move the
mouse or to call `stop`. Log: the flusher runs. The desktop's parts assume none.

## Proofs

TLAPS checks the following for every value of the constants that satisfies the
named ASSUMEs of the modules: disjoint, arbitrary sets of clients and nonces,
positive bounds, any assignment of paths to sessions and of targets to receivers,
any clamp and any samples, any finite set of launches, any rectangles.

| module | theorem | states |
|---|---|---|
| `PipeHandshakeProofs` | `TypeCorrect` | `Spec => []TypeOK` |
| | `FailClosedHolds`, `NoFalseSessionHolds`, `NoAnswerBeforeAdmissionHolds` | the three safety properties of the handshake |
| | `Refinement` | `Spec => ImplementsSession` |
| `AppConnectionProofs` | `TypeCorrect`, `OwnsHostHolds`, `BelievesTruthHolds`, `CloseInOrderHolds` | all safety properties of the two runs |
| | `ExitGoesOnHolds` | an exit once begun goes on: the safety part of `ExitCompletes` |
| | `AttemptGoesOnHolds` | a connection attempt goes on: the safety part of `ConnectSettles` |
| `AgentRunnerProofs` | `TypeCorrect`, `ConservedHolds`, `PendingBoundedHolds` | `Conserved`, and that a group bounds the worker's queue |
| | `Refinement` | `Spec => ImplementsQueue` |
| `AgentLoopProofs` | `TypeCorrect`, `ReplayedAsSentHolds`, `AnsweredInOrderHolds` | of the loop alone, with a runner that may refuse |
| | `HandledIsReplayedHolds` | `ProcessSpec => []HandledIsReplayed` |
| | `ProcessImplementsLoop`, `ProcessImplementsRunner` | the process is a loop and a runner: `ProcessSpec => Spec`, `ProcessSpec => Runner!Spec` |
| | `ProcessImplementsQueue` | the process keeps the promise of `ReplayQueue` |
| `RequestExchangeProofs` | `TypeCorrect`, `AnsweredExactlyHolds`, `AnswersMatchHolds`, `BlockedOnlyLateHolds` | all safety properties of the run |
| | `ImplementsServiceHolds` | `Spec => ImplementsService` |
| `NonceFileProofs` | `TypeCorrect`, `OwnWhileWritingHolds`, `NoTornNonceHolds`, `ConsumedIsGoneHolds`, `NeverRewrittenHolds` | all properties of the run |
| `MouseForwarderProofs` | `TypeCorrect`, `MotionConservedHolds`, `OneAfterStopHolds` | its safety properties |
| | `StopReachesAllHolds`, `RoundsRunOutHolds` | stop reaches every thread, and no loop begins a round it does not end: the safety part of `StopEndsThreads` |
| `DesktopProofs` | `CaptureTypeCorrect`, `CursorBalancedHolds`, `FreeWhenReleasedHolds` | of `CaptureSpec` |
| | `SettingsTypeCorrect`, `AckedIsDurableHolds`, `MemoryIsSavedHolds` | of `SettingsSpec` |
| | `LauncherTypeCorrect`, `TasksAccountedHolds`, `HostsInStaHolds`, `HostBarsLaunchHolds` | of `LauncherSpec` |
| | `FixTypeCorrect`, `ReportedIsEffectiveHolds`, `DownIsReportedHolds`, `StaysDownHolds` | of `FixSpec` |
| | `FilesStayEmpty` | of `LogSpec`: no line reaches a file, ever |

*Handshake.* None of the properties is inductive. `IInv` adds where the server
stands relative to its client (`Attachment`), that only the client itself speaks
on its connection (`OwnNonce`), what the server has concluded on its way to the
data loop (`Judgement`), what can be on its way back (`Replies`) and that a
client has left no trace before it calls `connect` (`Silent`). The last two are
what a retry needs: an acceptance read by the client belongs to the connection
it has now. `IInv` is proved inductive and implies the three properties. The
refinement proof maps each action to a step of `PipeSession` or to a stutter
under `IInv`.

*Application.* `AppInv` is the conjunction of `OwnsHost` and `CloseInOrder` with the
types, which say more than domains: a host the core holds was born, only a native host
has a session, and only born hosts were freed. `OwnsHost` is inductive because
every handler that takes parameters clears them; `CloseInOrder` is proved from
what a step leaves in the channel (`ClosingStep`).

`BelievesTruth` speaks of the moments when no RdpEvent is on its way, so it says
nothing that a step could carry on. `TruthInv` says what is on its way at the
others, while no event was lost and no host replaced early: every host but the one
in use is idle or has ended (so only one control can tell anything); as long as
that one has told nothing, nothing is to be told (`Untold`); once it went live or
ended, the core believes it or the last RdpEvent in the channel says it
(`TellsLive`, `TellsEnd`, `LastRdp`); and a connection attempt has its DoConnect
in the channel. What a post, a take and a handler do to the last RdpEvent are
lemmas (`TellsNews`, `TakesNext`, `HandlesOther`, `IsTold`); `LostStays` and
`StaysDisturbed` say that the proviso, once broken, stays so.

`ExitGoesOn` says that once the tray, the ticker or a host was taken down a later
step of the close sequence is pending until the last one was taken, unless an
event was lost. With the fairness of the run that is why an exit completes, and
TLC checks that it does. The proof needs that only the handler of an event takes
it away (`NothingVanishes`) and that nothing but the close sequence
takes the tray or the ticker down or frees a host (`ClosingStep`, `OnlyCloseFrees`).
`AttemptGoesOn` says the same of an attempt: while `is_connecting` is up the
DoConnect, an RdpEvent or an answer of the host's control is outstanding. Unlike
`BelievesTruth` it holds also when hosts are replaced early; a lost event or an
exit can leave an attempt without any of them.

*Runner.* `Conserved` and `PendingBounded` are inductive with the type
invariant. The content is in lemmas about sequences: moving the head of the
channel, splitting the queue at a group (`MoveHead`, `SplitAt`, `Group`,
`SendGroupMoves`). The refinement uses that before the drain loop the worker's
queue followed by the channel is the abstract buffer.

*Agent.* Until a frame is cut, the loop stands in step with what was sent
(`InPlace`): the frame it reads is the next one after those it has answered or
skipped, what it handed over are the events of the batches before it and of the
part of this one behind it, and answers are increasing and of the numbers their
batches end with. In the process, `RunnerInv` adds where the events are: what was
handed over is what `SendInput` got, followed by the worker's queue, followed by
the channel, numbered without a gap, and the worker has not ended while the loop
runs (`NothingRefused`). `Complete` concludes that an answered batch is all there.
`ProcessImplementsLoop` and `ProcessImplementsRunner` carry to the process what is
proved of its halves: each of its steps is a step of the loop or leaves the loop
alone, and the same of the runner, for which the loop is the one producer and
its return the call of `stop`. The proof of `ProcessImplementsQueue` takes the
refinement of the runner for that producer and as many calls as the frames can
hold events (`RunnerProofs`, an instance of `AgentRunnerProofs`).

*Requests.* Both directions of the pipe are read as one stream each: what is in
it followed by what its writer has left to write. `InPlace` says that a stream
holds the encodings of frames from some one on, with the header of the first gone
while its reader is between header and payload (`Encodes`); that the server has
answered the requests it owes an answer among those it read (`AnsweredTo`,
`ServerAt`); that the answers to come are later than those returned (`ClientAt`,
given up once a read is cut); and that as long as no call timed out the only
answer to come is that of the call under way (`Prompt`). Lemmas say what reading
a piece and writing a frame do to an encoding (`ReadHeaderOf`, `ReadPayloadOf`,
`WriteFrame`, `MoveHead`). `BlockedOnlyLate` follows because without a timeout a
client that writes has read every answer, so nothing can fill the way back.

The refinement of `RequestService` forgets the pipe: a request is its place in
`sent`, and the abstract call is under way from its first piece to its return.
The server's step that decodes a payload is the step that gives the answer
(`GiveStep`); that it is the oldest one owed follows from `AnsweredTo`. What the
client reads while no read was cut is the next of the answers given
(`AnswerAtHand`), later than all it returned, its own while no call timed out; the
guard on its kind is what makes it of the form the call takes (`ReturnStep`).
The run of this module has no property for it: its safety properties are the
invariants the proof rests on. TLC finds `ImplementsService` true of the same
instance when it is given as one more PROPERTY.

*Nonce files.* `IInv` of `NonceFileProofs` adds that a nonce is found only at its
session's path and only once the session began to write (`Provenance`), that what
a receiver read came from a session that had let go of its file
(`ReadFromClosed`), and that a result is what was read (`ReturnedWhole`). The
argument rests on the two guards the system gives: CREATE_NEW never replaces a
file, and nothing opens or deletes a file that is being written. Since a session
that let go of its file never writes again, what was read and deleted cannot
return.

*Forwarder.* `IInv` of `MouseForwarderProofs` adds that the threads exist only
once the owner started them and the flag is up only while it works (`Lifecycle`),
that `flush_loop` holds motion only between taking and sending it
(`HeldMotion`, without which a second take would overwrite it), and that who sends
after stop comes back to a flag that is down (`LastStraggler`). How the threads end
is the rest: `StopReachesAll` (the flag of both loops is down, and the message
thread has ended, was sent a WM_QUIT or had it refused) needs that the monitor
runs until it was stopped or its thread ended (`Reached`), and `RoundsRunOut` counts the places a loop still
has to pass. The fairness of the loops, with TLC, makes an end of them.

*Settings.* `SettingsInv` adds that what a save has serialised is what is in memory
as long as it holds its lock (`SavesMemory`), that memory holds the newest change
while a command is under way (`NewestInMemory`), and that no command is while the
process is down (`Quiet`). *Launcher.* `LauncherInv` adds that the thread's
references are those of the launches under way or failed (`RefsHeld`), which
makes the cardinality of that set part of the proof, that a single-threaded
apartment is kept (`StaKept`), and that only a launch that is over has a task
whose deletion failed (`UndeletedEnded`). *Fixes.* `FixInv` says the same as
`ReportedIsEffective` at every step of a run (`Stored`, `Loaded`, `Blocked`,
`ChildEnabled`), which needs that whoever writes a value writes the same one.
*Cursor.* `CaptureInv` adds that a released capture has nothing hidden
(`ShownWhenReleased`). *Log.* `LogInv` says that the buffers of the clone are
empty, and so are the files; it assumes only that the sizes are positive
numbers (`Sizes`).

Only model-checked: the liveness properties, because the prover handles neither
fairness nor ENABLED.

## Disagreements with the comments

Three runs expect a violation. Each states what a comment or the README of the
program says, and TLC shows the behaviour of the code that does otherwise.

- `agent_cut`: frame.rs:268 says that who gave up a read must give up the whole
  stream. The agent polls under a timeout and reads on from the same stream
  (agent.rs:51, :87), so that a frame whose payload is 100 ms behind its header
  leaves it reading payload for headers.
- `log_lines`: README.md:81 of the program says that the log is kept in files.
  The flusher is given a clone of the writer (logging.rs:209), and
  `LogWriter::clone` (logging.rs:228) makes new buffers, so that no line gets there;
  `FilesStayEmpty` proves it for any number of logs and lines.
- `hook_disabled`: the comment at environment.rs:422 says that the fix reads
  ServiceDll first and rewrites it when it names a wrapper. The handle was opened
  with KEY_WRITE (environment.rs:420) and cannot be read; the error counts as
  "nothing to do", and the step reports success.

More is worth a reader's doubt; the models show why, although no run is about it.

- client.rs:106 takes a rejection as final. The server also rejects when no nonce
  was set yet (server.rs:42) or the handshake came late (server.rs:56), so that the
  client gives up with a nonce that is, or is about to be, the right one.
- app.rs:831 says the state Disconnecting is corrected by a later
  `RdpEvent::Disconnected`. With no host, a fallback host or a control that is not
  connected there is none (host.rs:834), and the state stays.
- nonce.rs:132 says a nonce is consumed once, but reading and deleting are two
  steps and a file that is already gone counts as deleted (nonce.rs:136-139), so
  that two receivers can both return it; `ConsumedIsGone` says what is left of the
  claim. nonce.rs:119 says the sweep is for what dead sessions left, but it removes
  every nonce file that is not being written (`OwnWhileWriting`).
- A capture after `release_temporarily` saves the rectangle that the temporary
  release set, so that the clip rectangle of another program, saved at
  first, is not restored (cursor_capture.rs:59).
- A failed save leaves the change in memory while the command reports an error,
  and the next save of any command writes it (`MemoryIsSaved` excepts it).
  The fields have no serde defaults: a file of a version with fewer fields is
  taken for unreadable, and the defaults replace it with the next save. A program
  that reads the stored password back gets it with the trailing NUL it was
  stored with.
- Once a host was created in the single-threaded apartment, no launch runs a
  program, since CoInitializeEx fails (`HostBarsLaunch`, proved); `on_launch_program` discards the result and
  shows its toast all the same. A launch that failed makes later hosts be
  created in the multithreaded apartment.
- A `RawInputMonitor` whose WM_QUIT was refused cannot be stopped any more: its
  flag is down, so that a second `stop` does nothing (raw_input.rs:254-258). One
  whose window came after the constructor's 100 ms was reported as failed and
  its thread is never told to stop (raw_input.rs:68).
- A batch whose numbers end past the word ends `PipeServer::run` for good in a
  build with overflow checks (server.rs:224), although the accept loop is written
  to survive every error of a connection.
- A stopped TermService is never started by the fixes (`StaysDown`, proved).
- The log is opened for writing without append, so that a restart would overwrite
  it from the beginning, and `logging::shutdown` is called by nobody.

## Not modelled

- *Session queries and data protection* are stateless calls into Windows; what
  their callers make of the outcomes is in the modules of the callers
  (`ListenerPort`, `Protect`).
- *Security descriptors*: the DACL of the pipe is constant, and the check of the
  client's SID passes or refuses.
- *Entry points, self-test, frontend*: glue and presentation; they keep no state
  the core depends on. Of the commands only those that change state are actions.
- *Application core*: `emit_connection_state`. What the frontend shows is the last
  state emitted or what it set itself before and after its own commands
  (useConnection.ts:29-48); nothing in the core reads it back. Further toasts, tooltips, wording and layout. The property settings
  that `RdpHost::connect` makes before it calls Connect are one outcome: they all
  succeed or the call fails.
- *Environment*: the checks are conditions on the modelled state, without their
  texts and times; the child sessions' own checks are calls into Windows.
- *Launcher*: the text of a task, and `cleanup_orphaned_tasks`, which nothing
  calls.
- *Replay runner*: the lock on `worker_handle`, which `stop` holds while it joins
  (replay.rs:260); the model has one call of `stop`, and `CallsReturn` covers its
  join, not a second call that waits for that lock.
- *Logging*: rotation and pruning, which would begin once a file has content.
- *Frames*: `FrameReader`, the synchronous reader that looks for the next header
  byte by byte after an oversized one, is used by tests only.
- `cmd_report_viewer_rect` uses `handle_snapshot` after its host may be gone
  (ipc.rs:106); nothing in the code promises that it is current, and no property
  does. That Alt and focus are looked at up to five milliseconds before the motion
  is sent is in `MouseForwarder`, and not excluded by any property.

## Plan

The modules came in the order of what matters most in the program: the
handshake, its abstract session and their proofs; the application core and its
proofs; the replay runner, its abstract queue and their proofs; the nonce files;
frames, requests and the agent's loop, then the agent's whole process; the mouse
forwarder; the parts of the desktop and the log; the account of the RdpEvents on
their way behind `BelievesTruth`; the abstract request and answer.

The safety parts of `ExitCompletes`, `ConnectSettles` and `StopEndsThreads` (that
what must happen next stays possible) came last. What remains is the liveness
itself, which is model-checked.

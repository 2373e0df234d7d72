--------------------------- MODULE MouseForwarder ---------------------------
(***************************************************************************)
(* MouseForwarder (modules/input/forwarder.rs) on a RawInputMonitor        *)
(* (modules/input/raw_input.rs): the monitor's message thread accumulates  *)
(* motion, a second thread polls Alt and the focus, a third flushes what   *)
(* was accumulated, and the owner creates and stops them.                  *)
(*                                                                         *)
(* Motion has one axis here: the code treats the other one alike, and a    *)
(* batch is empty when both are zero.  The owner's wait of 100 ms for the  *)
(* monitor's window is a step that may find the window there or not.       *)
(***************************************************************************)
EXTENDS Integers

CONSTANTS
  Limit,       \* CLAMP_LIMIT
  Step,        \* bound: the largest motion of a sample
  MaxSamples   \* bound: samples

ASSUME LimitAssumption == Limit \in Nat
ASSUME StepAssumption == Step \in Nat
ASSUME MaxSamplesAssumption == MaxSamples \in Nat

VARIABLES
  opc,         \* where the owner stands: new, then stop
  running,     \* ForwarderInner.running
  batch,       \* BatchState: dx, last_dx_sign, and whether last_flush is
               \* FLUSH_INTERVAL_MS old
  alt, lost,   \* alt_pressed, focus_lost
  ppc,         \* where poll_loop stands
  fpc,         \* where flush_loop stands
  taken,       \* the motion flush_loop took from the batch
  mpc,         \* where the monitor's message thread stands
  mrunning,    \* Inner.running
  hwnd,        \* Inner.hwnd is set
  subscribed,  \* Inner.callbacks holds the forwarder's closure
  quit,        \* WM_QUIT: none, posted to the message thread, or refused by
               \* PostThreadMessageW
  sample,      \* the motion wnd_proc read
  samples,     \* samples so far
  moved,       \* history: all the motion the forwarder was told of
  clipped,     \* history: motion lost to the clamp
  sent,        \* history: motion sent by SendInput
  discarded,   \* history: motion taken and not sent
  stragglers   \* history: calls of SendInput after stop

owner == <<opc, running>>
poller == <<alt, lost, ppc>>
flusher == <<fpc, taken, sent, discarded, stragglers>>
monitor == <<mpc, mrunning, hwnd, subscribed, quit, sample, samples>>
vars == <<opc, running, batch, alt, lost, ppc, fpc, taken, mpc, mrunning, hwnd,
          subscribed, quit, sample, samples, moved, clipped, sent, discarded, stragglers>>

TypeOK ==
  /\ opc \in {"creating", "subscribing", "starting", "working", "stopping", "stopped",
              "failed"}
  /\ running \in BOOLEAN
  /\ batch \in [d : -Limit..Limit, sign : -1..1, aged : BOOLEAN]
  /\ alt \in BOOLEAN /\ lost \in BOOLEAN
  /\ ppc \in {"none", "top", "focus", "sleeping", "ended"}
  /\ fpc \in {"none", "top", "sleeping", "awake", "due", "alt", "focus", "sending",
              "ended"}
  /\ taken \in -Limit..Limit
  /\ mpc \in {"starting", "pumping", "calling", "leaving", "ended"}
  /\ mrunning \in BOOLEAN /\ hwnd \in BOOLEAN /\ subscribed \in BOOLEAN
  /\ quit \in {"none", "posted", "refused"}
  /\ sample \in -Step..Step
  /\ samples \in 0..MaxSamples
  /\ moved \in Int /\ clipped \in Int /\ sent \in Int /\ discarded \in Int
  /\ stragglers \in Nat

EmptyBatch == [d |-> 0, sign |-> 0, aged |-> FALSE]

Init ==
  /\ opc = "creating" /\ running = FALSE
  /\ batch = EmptyBatch
  /\ alt = FALSE /\ lost = FALSE /\ ppc = "none"
  /\ fpc = "none" /\ taken = 0
  /\ mpc = "starting" /\ mrunning = FALSE /\ hwnd = FALSE /\ subscribed = FALSE
  /\ quit = "none" /\ sample = 0 /\ samples = 0
  /\ moved = 0 /\ clipped = 0 /\ sent = 0 /\ discarded = 0 /\ stragglers = 0

-----------------------------------------------------------------------------
(* RawInputMonitor: the message thread.                                    *)

CreateWindow ==
  /\ mpc = "starting"
  /\ hwnd' = TRUE
  /\ mpc' = "pumping"
  /\ UNCHANGED <<owner, batch, poller, flusher, mrunning, subscribed, quit, sample, samples,
                 moved, clipped>>

CreateWindowFails ==
  /\ mpc = "starting"
  /\ mpc' = "ended"
  /\ UNCHANGED <<owner, batch, poller, flusher, mrunning, hwnd, subscribed, quit, sample,
                 samples, moved, clipped>>

\* WM_INPUT: the callbacks are copied under the lock, and called without it.
RawInput(d) ==
  /\ mpc = "pumping" /\ samples < MaxSamples
  /\ samples' = samples + 1
  /\ sample' = d
  /\ mpc' = IF subscribed THEN "calling" ELSE "pumping"
  /\ UNCHANGED <<owner, batch, poller, flusher, mrunning, hwnd, subscribed, quit, moved,
                 clipped>>

Sign(v) == IF v > 0 THEN 1 ELSE IF v < 0 THEN -1 ELSE 0

Clamp(v) == IF v > Limit THEN Limit ELSE IF v < -Limit THEN -Limit ELSE v

\* flush_loop keeps the lock it took the batch under until it has sent it.
BatchLocked == fpc \in {"alt", "focus", "sending"}

\* The forwarder's closure: BatchState::accumulate under the lock on the batch.
Accumulate ==
  /\ mpc = "calling" /\ ~BatchLocked
  /\ batch' = [batch EXCEPT !.d = Clamp(@ + sample),
                            !.sign = IF sample # 0 THEN Sign(sample) ELSE @]
  /\ moved' = moved + sample
  /\ clipped' = clipped + (batch.d + sample) - Clamp(batch.d + sample)
  /\ mpc' = "pumping"
  /\ UNCHANGED <<owner, poller, flusher, mrunning, hwnd, subscribed, quit, sample, samples>>

\* GetMessageW returned WM_QUIT, or failed.
PumpEnds ==
  /\ mpc = "pumping"
  /\ mpc' = "leaving"
  /\ UNCHANGED <<owner, batch, poller, flusher, mrunning, hwnd, subscribed, quit, sample,
                 samples, moved, clipped>>

Leave ==
  /\ mpc = "leaving"
  /\ mrunning' = FALSE
  /\ mpc' = "ended"
  /\ UNCHANGED <<owner, batch, poller, flusher, hwnd, subscribed, quit, sample, samples,
                 moved, clipped>>

-----------------------------------------------------------------------------
(* The owner: MouseForwarder::new and stop.                                *)

\* RawInputMonitor::new after its 100 ms: a window that is not there yet is
\* taken for one that could not be created.
MonitorReady ==
  /\ opc = "creating" /\ hwnd
  /\ mrunning' = TRUE
  /\ opc' = "subscribing"
  /\ UNCHANGED <<running, batch, poller, flusher, mpc, hwnd, subscribed, quit, sample,
                 samples, moved, clipped>>

MonitorMissing ==
  /\ opc = "creating" /\ ~hwnd
  /\ opc' = "failed"
  /\ UNCHANGED <<running, batch, poller, flusher, monitor, moved, clipped>>

Subscribe ==
  /\ opc = "subscribing"
  /\ subscribed' = TRUE
  /\ opc' = "starting"
  /\ UNCHANGED <<running, batch, poller, flusher, mpc, mrunning, hwnd, quit, sample,
                 samples, moved, clipped>>

StartThreads ==
  /\ opc = "starting"
  /\ running' = TRUE
  /\ ppc' = "top" /\ fpc' = "top"
  /\ opc' = "working"
  /\ UNCHANGED <<batch, alt, lost, taken, sent, discarded, stragglers, monitor, moved,
                 clipped>>

Stop ==
  /\ opc = "working"
  /\ running' = FALSE
  /\ opc' = "stopping"
  /\ UNCHANGED <<batch, poller, flusher, monitor, moved, clipped>>

\* Mutant: the monitor is dropped with its flag already down, which posts
\* nothing.
StopMonitorQuietly ==
  /\ opc = "stopping"
  /\ mrunning' = FALSE
  /\ opc' = "stopped"
  /\ UNCHANGED <<running, batch, poller, flusher, mpc, hwnd, subscribed, quit, sample,
                 samples, moved, clipped>>

\* RawInputMonitor::stop: if the monitor is still running its flag goes down and
\* WM_QUIT is posted.  PostThreadMessageW may fail, which is ignored.
StopMonitor ==
  /\ opc = "stopping"
  /\ quit' \in IF mrunning THEN {"posted", "refused"} ELSE {quit}
  /\ mrunning' = FALSE
  /\ opc' = "stopped"
  /\ UNCHANGED <<running, batch, poller, flusher, mpc, hwnd, subscribed, sample, samples,
                 moved, clipped>>

-----------------------------------------------------------------------------
(* poll_loop.                                                              *)

PollTop ==
  /\ ppc = "top"
  /\ IF running
     THEN ppc' = "focus" /\ alt' \in BOOLEAN
     ELSE ppc' = "ended" /\ UNCHANGED alt
  /\ UNCHANGED <<owner, batch, lost, flusher, monitor, moved, clipped>>

PollFocus ==
  /\ ppc = "focus"
  /\ lost' \in BOOLEAN
  /\ ppc' = "sleeping"
  /\ UNCHANGED <<owner, batch, alt, flusher, monitor, moved, clipped>>

PollSleep ==
  /\ ppc = "sleeping"
  /\ ppc' = "top"
  /\ UNCHANGED <<owner, batch, alt, lost, flusher, monitor, moved, clipped>>

-----------------------------------------------------------------------------
(* flush_loop.                                                             *)

\* Mutant: the flag is not looked at while there is motion left.
FlushTopWhileMotion ==
  /\ fpc = "top"
  /\ fpc' = IF running \/ batch.d # 0 THEN "sleeping" ELSE "ended"
  /\ UNCHANGED <<owner, batch, poller, taken, sent, discarded, stragglers, monitor, moved,
                 clipped>>

FlushTop ==
  /\ fpc = "top"
  /\ fpc' = IF running THEN "sleeping" ELSE "ended"
  /\ UNCHANGED <<owner, batch, poller, taken, sent, discarded, stragglers, monitor, moved,
                 clipped>>

\* FLUSH_INTERVAL_MS passed, and so it has since the last flush.
FlushWakes ==
  /\ fpc = "sleeping"
  /\ batch' = [batch EXCEPT !.aged = TRUE]
  /\ fpc' = "awake"
  /\ UNCHANGED <<owner, poller, taken, sent, discarded, stragglers, monitor, moved, clipped>>

\* Mutant: only a change of direction makes a flush due.
OnlyReversed(b) == Sign(b.d) # 0 /\ Sign(b.d) # b.sign

\* should_flush of the batch's own motion.
ShouldFlush(b) == b.aged \/ (Sign(b.d) # 0 /\ Sign(b.d) # b.sign)

\* The first of the two locks on the batch.
FlushDecides ==
  /\ fpc = "awake"
  /\ fpc' = IF ShouldFlush(batch) THEN "due" ELSE "top"
  /\ UNCHANGED <<owner, batch, poller, taken, sent, discarded, stragglers, monitor, moved,
                 clipped>>

\* Mutant: the motion stays in the batch that was taken.
LeaveMotion(b) == [b EXCEPT !.sign = 0, !.aged = FALSE]

\* What take_batch leaves behind.
Emptied(b) == EmptyBatch

\* The second lock: take_batch, which leaves a batch without motion as it is.
\* With motion, the lock is held on.
FlushTakes ==
  /\ fpc = "due"
  /\ taken' = batch.d
  /\ batch' = IF batch.d = 0 THEN batch ELSE Emptied(batch)
  /\ fpc' = IF batch.d = 0 THEN "top" ELSE "alt"
  /\ UNCHANGED <<owner, poller, sent, discarded, stragglers, monitor, moved, clipped>>

\* alt_pressed is looked at first, then focus_lost.
FlushChecks ==
  /\ \/ fpc = "alt" /\ ~alt /\ fpc' = "focus"
     \/ fpc = "focus" /\ ~lost /\ fpc' = "sending"
  /\ UNCHANGED <<owner, batch, poller, taken, sent, discarded, stragglers, monitor, moved,
                 clipped>>

\* Alt is held or the focus is elsewhere: what was taken is not sent.
FlushDiscards ==
  /\ (fpc = "alt" /\ alt) \/ (fpc = "focus" /\ lost)
  /\ discarded' = discarded + taken
  /\ taken' = 0
  /\ fpc' = "top"
  /\ UNCHANGED <<owner, batch, poller, sent, stragglers, monitor, moved, clipped>>

\* SendInput, whatever the flags are by now.
FlushSends ==
  /\ fpc = "sending"
  /\ sent' = sent + taken
  /\ taken' = 0
  /\ stragglers' = IF running THEN stragglers ELSE stragglers + 1
  /\ fpc' = "top"
  /\ UNCHANGED <<owner, batch, poller, discarded, monitor, moved, clipped>>

-----------------------------------------------------------------------------
MessageThread ==
  \/ CreateWindow \/ CreateWindowFails
  \/ \E d \in -Step..Step : RawInput(d)
  \/ Accumulate \/ PumpEnds \/ Leave

Owner ==
  \/ MonitorReady \/ MonitorMissing \/ Subscribe \/ StartThreads
  \/ Stop \/ StopMonitor

PollLoop == PollTop \/ PollFocus \/ PollSleep

FlushLoop ==
  \/ FlushTop \/ FlushWakes \/ FlushDecides \/ FlushTakes
  \/ FlushChecks \/ FlushDiscards \/ FlushSends

Next == MessageThread \/ Owner \/ PollLoop \/ FlushLoop

Spec == Init /\ [][Next]_vars

\* Every thread is scheduled, and the system delivers a posted WM_QUIT.  Nobody
\* is made to move the mouse or to call stop.
Fairness ==
  /\ WF_vars(PollLoop)
  /\ WF_vars(FlushLoop)
  /\ WF_vars(CreateWindow \/ CreateWindowFails \/ Accumulate \/ Leave \/ (quit = "posted" /\ PumpEnds))
  /\ WF_vars(MonitorReady \/ MonitorMissing \/ Subscribe \/ StartThreads \/ StopMonitor)

FairSpec == Spec /\ Fairness

-----------------------------------------------------------------------------
(* Safety.                                                                  *)

\* Motion is neither lost nor made up between the threads: all that was
\* reported was sent, discarded or clipped, or is still in the batch or in the
\* hands of flush_loop.
MotionConserved == moved = sent + discarded + clipped + batch.d + taken

\* After stop at most one batch is still sent, the one flush_loop was about to
\* take.
OneAfterStop == stragglers <= 1

-----------------------------------------------------------------------------
(* Liveness.                                                                *)

\* While the forwarder runs, accumulated motion leaves the batch.
MotionLeaves == (running /\ batch.d # 0) ~> (batch.d = 0 \/ ~running)

\* A forwarder that was stopped leaves no thread behind, but the message thread
\* if the system refused its WM_QUIT: the flag is down by then, and no later stop
\* posts another.
StopEndsThreads ==
  opc = "stopping" ~> ppc = "ended" /\ fpc = "ended" /\ (mpc = "ended" \/ quit = "refused")
=============================================================================

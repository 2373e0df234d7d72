------------------------ MODULE MouseForwarderProofs ------------------------
(***************************************************************************)
(* Proofs about MouseForwarder for any clamp, any samples and any number   *)
(* of them.                                                                *)
(***************************************************************************)
EXTENDS MouseForwarder, TLAPS

\* The threads exist only once the owner started them, and the flag is up until
\* it stops them.
Lifecycle ==
  /\ running <=> opc = "working"
  /\ opc \notin {"working", "stopping", "stopped"} => fpc = "none"

\* Who sends after stop comes back to a flag that is down.
LastStraggler ==
  stragglers # 0 => /\ stragglers = 1
                    /\ opc \in {"stopping", "stopped"}
                    /\ fpc \in {"top", "ended"}

\* flush_loop holds motion only between taking and sending it.
HeldMotion == fpc \notin {"alt", "focus", "sending"} => taken = 0

IInv ==
  /\ TypeOK
  /\ MotionConserved
  /\ Lifecycle
  /\ LastStraggler
  /\ HeldMotion

\* The type invariant in two parts, one for each of the provers.
Flags ==
  /\ running \in BOOLEAN /\ alt \in BOOLEAN /\ lost \in BOOLEAN
  /\ mrunning \in BOOLEAN /\ hwnd \in BOOLEAN /\ subscribed \in BOOLEAN

Rest ==
  /\ quit \in {"none", "posted", "refused"}
  /\ opc \in {"creating", "subscribing", "starting", "working", "stopping", "stopped",
              "failed"}
  /\ batch \in [d : -Limit..Limit, sign : -1..1, aged : BOOLEAN]
  /\ ppc \in {"none", "top", "focus", "sleeping", "ended"}
  /\ fpc \in {"none", "top", "sleeping", "awake", "due", "alt", "focus", "sending",
              "ended"}
  /\ taken \in -Limit..Limit
  /\ mpc \in {"starting", "pumping", "calling", "leaving", "ended"}
  /\ sample \in -Step..Step
  /\ samples \in 0..MaxSamples
  /\ moved \in Int /\ clipped \in Int /\ sent \in Int /\ discarded \in Int
  /\ stragglers \in Nat

\* Clamping stays within the limit, and does not move what is within it.
LEMMA ClampBounds ==
  ASSUME NEW v \in Int
  PROVE  /\ Clamp(v) \in -Limit..Limit
         /\ v \in -Limit..Limit => Clamp(v) = v
BY LimitAssumption DEF Clamp

LEMMA TypeParts == TypeOK => Flags /\ Rest
BY Zenon DEF TypeOK, Flags, Rest

LEMMA InitIInv == Init => IInv
<1> SUFFICES ASSUME Init PROVE IInv
  OBVIOUS
<1>1. EmptyBatch \in [d : -Limit..Limit, sign : -1..1, aged : BOOLEAN]
  BY LimitAssumption DEF EmptyBatch
<1>2. TypeOK
  <2>1. /\ taken \in -Limit..Limit /\ sample \in -Step..Step /\ samples \in 0..MaxSamples
        /\ moved \in Int /\ clipped \in Int /\ sent \in Int /\ discarded \in Int
        /\ stragglers \in Nat
    BY LimitAssumption, StepAssumption, MaxSamplesAssumption DEF Init
  <2>2. batch \in [d : -Limit..Limit, sign : -1..1, aged : BOOLEAN]
    BY <1>1 DEF Init
  <2> QED
    BY <2>1, <2>2, Zenon DEF Init, TypeOK
<1>3. MotionConserved
  BY DEF Init, MotionConserved, EmptyBatch
<1>4. Lifecycle
  BY DEF Init, Lifecycle
<1>5. LastStraggler /\ HeldMotion
  BY DEF Init, LastStraggler, HeldMotion
<1> QED
  BY <1>2, <1>3, <1>4, <1>5 DEF IInv

-----------------------------------------------------------------------------
(* Steps.                                                                  *)

\* The message thread touches the batch only to add a sample to it.
LEMMA MessageThreadPreserves == IInv /\ MessageThread => IInv'
<1> SUFFICES ASSUME IInv, MessageThread PROVE IInv'
  OBVIOUS
<1>1. CASE CreateWindow \/ CreateWindowFails \/ PumpEnds \/ Leave
  <2>1. TypeOK'
    <3>1. Flags /\ Rest
      BY TypeParts DEF IInv
    <3>2. Flags'
      BY <1>1, <3>1, Zenon DEF Flags, CreateWindow, CreateWindowFails, PumpEnds,
          Leave, owner, poller, flusher
    <3>3. Rest'
      BY <1>1, <3>1 DEF Rest, CreateWindow, CreateWindowFails, PumpEnds,
          Leave, owner, poller, flusher
    <3> QED
      BY <3>2, <3>3, Zenon DEF TypeOK, Flags, Rest
  <2>2. MotionConserved'
    BY <1>1 DEF IInv, TypeOK, MotionConserved, CreateWindow, CreateWindowFails, PumpEnds,
        Leave, owner, poller, flusher
  <2>3. Lifecycle'
    BY <1>1 DEF IInv, Lifecycle, CreateWindow, CreateWindowFails, PumpEnds,
        Leave, owner, poller, flusher
  <2>4. LastStraggler'
    BY <1>1 DEF IInv, Lifecycle, LastStraggler, CreateWindow, CreateWindowFails, PumpEnds,
        Leave, owner, poller, flusher
  <2>5. HeldMotion'
    BY <1>1 DEF IInv, HeldMotion, CreateWindow, CreateWindowFails, PumpEnds,
        Leave, owner, poller, flusher
  <2> QED
    BY <2>1, <2>2, <2>3, <2>4, <2>5 DEF IInv
<1> USE LimitAssumption, StepAssumption, MaxSamplesAssumption
    DEF IInv, TypeOK, MotionConserved, Lifecycle, LastStraggler, HeldMotion, owner, poller, flusher
<1>2. ASSUME NEW d \in -Step..Step, RawInput(d)
      PROVE  IInv'
  BY <1>2 DEF RawInput
<1>3. CASE Accumulate
  <2>1. batch.d \in -Limit..Limit /\ sample \in -Step..Step /\ batch.d + sample \in Int
    OBVIOUS
  <2>2. Clamp(batch.d + sample) \in -Limit..Limit
    BY <2>1, ClampBounds
  <2>3. Sign(sample) \in -1..1
    BY <2>1 DEF Sign
  <2>4. batch' = [batch EXCEPT !.d = Clamp(batch.d + sample),
                               !.sign = IF sample # 0 THEN Sign(sample) ELSE batch.sign]
    BY <1>3 DEF Accumulate
  <2>5. batch' \in [d : -Limit..Limit, sign : -1..1, aged : BOOLEAN]
    BY <2>2, <2>3, <2>4
  <2>6. batch'.d = Clamp(batch.d + sample)
    BY <2>4
  <2>7. moved' = moved + sample
        /\ clipped' = clipped + (batch.d + sample) - Clamp(batch.d + sample)
    BY <1>3 DEF Accumulate
  <2>8. TypeOK'
    BY <1>3, <2>1, <2>2, <2>5, <2>7 DEF Accumulate
  <2>9. MotionConserved'
    BY <1>3, <2>1, <2>2, <2>6, <2>7 DEF Accumulate
  <2> QED
    BY <1>3, <2>8, <2>9 DEF Accumulate
<1> QED
  BY <1>1, <1>2, <1>3 DEF MessageThread

LEMMA OwnerPreserves == IInv /\ Owner => IInv'
<1> SUFFICES ASSUME IInv, Owner PROVE IInv'
  OBVIOUS
<1>4. CASE StartThreads
  <2>1. TypeOK'
    BY <1>4 DEF IInv, TypeOK, StartThreads, monitor
  <2>2. MotionConserved'
    BY <1>4 DEF IInv, TypeOK, MotionConserved, StartThreads, monitor
  <2>3. Lifecycle'
    BY <1>4 DEF IInv, Lifecycle, StartThreads, monitor
  <2>4. LastStraggler'
    BY <1>4 DEF IInv, Lifecycle, LastStraggler, StartThreads, monitor
  <2>5. HeldMotion'
    BY <1>4 DEF IInv, Lifecycle, HeldMotion, StartThreads, monitor
  <2> QED
    BY <2>1, <2>2, <2>3, <2>4, <2>5 DEF IInv
<1>5. CASE Stop
  <2>1. TypeOK'
    <3>1. Flags /\ Rest
      BY TypeParts DEF IInv
    <3>2. Flags'
      BY <1>5, <3>1, Zenon DEF Flags, Stop, poller, flusher, monitor
    <3>3. Rest'
      BY <1>5, <3>1 DEF Rest, Stop, poller, flusher, monitor
    <3> QED
      BY <3>2, <3>3, Zenon DEF TypeOK, Flags, Rest
  <2>2. MotionConserved'
    BY <1>5 DEF IInv, TypeOK, MotionConserved, Stop, poller, flusher, monitor
  <2>3. Lifecycle'
    BY <1>5 DEF IInv, Lifecycle, Stop, poller, flusher, monitor
  <2>4. LastStraggler'
    BY <1>5 DEF IInv, Lifecycle, LastStraggler, Stop, poller, flusher, monitor
  <2>5. HeldMotion'
    BY <1>5 DEF IInv, HeldMotion, Stop, poller, flusher, monitor
  <2> QED
    BY <2>1, <2>2, <2>3, <2>4, <2>5 DEF IInv
<1>6. CASE StopMonitor
  <2>1. TypeOK'
    <3>1. Flags /\ Rest
      BY TypeParts DEF IInv
    <3>2. Flags'
      BY <1>6, <3>1, Zenon DEF Flags, StopMonitor, poller, flusher
    <3>3. Rest'
      BY <1>6, <3>1 DEF Rest, StopMonitor, poller, flusher
    <3> QED
      BY <3>2, <3>3, Zenon DEF TypeOK, Flags, Rest
  <2>2. MotionConserved'
    BY <1>6 DEF IInv, TypeOK, MotionConserved, StopMonitor, poller, flusher
  <2>3. Lifecycle'
    BY <1>6 DEF IInv, Lifecycle, StopMonitor, poller, flusher
  <2>4. LastStraggler'
    BY <1>6 DEF IInv, Lifecycle, LastStraggler, StopMonitor, poller, flusher
  <2>5. HeldMotion'
    BY <1>6 DEF IInv, HeldMotion, StopMonitor, poller, flusher
  <2> QED
    BY <2>1, <2>2, <2>3, <2>4, <2>5 DEF IInv
<1> USE DEF IInv, TypeOK, MotionConserved, Lifecycle, LastStraggler, HeldMotion, owner, poller,
        flusher, monitor
<1>1. CASE MonitorReady BY <1>1 DEF MonitorReady
<1>2. CASE MonitorMissing BY <1>2 DEF MonitorMissing
<1>3. CASE Subscribe BY <1>3 DEF Subscribe
<1> QED
  BY <1>1, <1>2, <1>3, <1>4, <1>5, <1>6 DEF Owner

LEMMA PollLoopPreserves == IInv /\ PollLoop => IInv'
<1> SUFFICES ASSUME IInv, PollLoop PROVE IInv'
  OBVIOUS
<1> USE DEF IInv, TypeOK, MotionConserved, Lifecycle, LastStraggler, HeldMotion, owner, flusher,
        monitor
<1>1. CASE PollTop BY <1>1 DEF PollTop
<1>2. CASE PollFocus BY <1>2 DEF PollFocus
<1>3. CASE PollSleep BY <1>3 DEF PollSleep
<1> QED
  BY <1>1, <1>2, <1>3 DEF PollLoop

\* flush_loop moves motion from the batch to its hands and from there to one of
\* two accounts; what it sends after stop it sends on its last turn.
LEMMA FlushLoopPreserves == IInv /\ FlushLoop => IInv'
<1> SUFFICES ASSUME IInv, FlushLoop PROVE IInv'
  OBVIOUS
<1>1. CASE FlushTop
  <2>1. TypeOK'
    BY <1>1 DEF IInv, TypeOK, FlushTop, owner, poller, monitor
  <2>2. MotionConserved'
    BY <1>1 DEF IInv, TypeOK, MotionConserved, FlushTop, owner, poller, monitor
  <2>3. Lifecycle'
    BY <1>1 DEF IInv, Lifecycle, FlushTop, owner, poller, monitor
  <2>4. LastStraggler'
    BY <1>1 DEF IInv, Lifecycle, LastStraggler, FlushTop, owner, poller, monitor
  <2>5. HeldMotion'
    BY <1>1 DEF IInv, HeldMotion, FlushTop, owner, poller, monitor
  <2> QED
    BY <2>1, <2>2, <2>3, <2>4, <2>5 DEF IInv
<1>2. CASE FlushWakes
  <2>1. TypeOK'
    <3>1. Flags /\ Rest
      BY TypeParts DEF IInv
    <3>2. Flags'
      BY <1>2, <3>1, Zenon DEF Flags, FlushWakes, owner, poller, monitor
    <3>3. Rest'
      BY <1>2, <3>1 DEF Rest, FlushWakes, owner, poller, monitor
    <3> QED
      BY <3>2, <3>3, Zenon DEF TypeOK, Flags, Rest
  <2>2. MotionConserved'
    BY <1>2 DEF IInv, TypeOK, MotionConserved, FlushWakes, owner, poller, monitor
  <2>3. Lifecycle'
    BY <1>2 DEF IInv, Lifecycle, FlushWakes, owner, poller, monitor
  <2>4. LastStraggler'
    BY <1>2 DEF IInv, Lifecycle, LastStraggler, FlushWakes, owner, poller, monitor
  <2>5. HeldMotion'
    BY <1>2 DEF IInv, HeldMotion, FlushWakes, owner, poller, monitor
  <2> QED
    BY <2>1, <2>2, <2>3, <2>4, <2>5 DEF IInv
<1>7. CASE FlushSends
  <2>1. TypeOK'
    <3>1. Flags /\ Rest
      BY TypeParts DEF IInv
    <3>2. Flags'
      BY <1>7, <3>1, Zenon DEF Flags, FlushSends, owner, poller, monitor
    <3>3. Rest'
      <4>1. stragglers' = stragglers \/ stragglers' = stragglers + 1
        BY <1>7, Zenon DEF FlushSends
      <4>2. stragglers' \in Nat
        BY <3>1, <4>1 DEF Rest
      <4>3. /\ fpc' = "top" /\ taken' = 0 /\ sent' = sent + taken
            /\ UNCHANGED <<opc, batch, ppc, mpc, quit, sample, samples, moved, clipped,
                           discarded>>
        BY <1>7, Zenon DEF FlushSends, owner, poller, monitor
      <4> QED
        BY <3>1, <4>2, <4>3, LimitAssumption DEF Rest
    <3> QED
      BY <3>2, <3>3, Zenon DEF TypeOK, Flags, Rest
  <2>2. MotionConserved'
    BY <1>7 DEF IInv, TypeOK, MotionConserved, FlushSends, owner, poller, monitor
  <2>3. Lifecycle'
    BY <1>7 DEF IInv, Lifecycle, FlushSends, owner, poller, monitor
  <2>4. LastStraggler'
    BY <1>7 DEF IInv, Lifecycle, LastStraggler, FlushSends, owner, poller, monitor
  <2>5. HeldMotion'
    BY <1>7 DEF IInv, HeldMotion, FlushSends, owner, poller, monitor
  <2> QED
    BY <2>1, <2>2, <2>3, <2>4, <2>5 DEF IInv
<1> USE LimitAssumption
    DEF IInv, TypeOK, MotionConserved, Lifecycle, LastStraggler, HeldMotion, owner, poller, monitor
<1>3. CASE FlushDecides BY <1>3 DEF FlushDecides
<1>4. CASE FlushTakes
  <2>1. taken = 0 /\ taken' = batch.d
    BY <1>4 DEF FlushTakes
  <2>2. batch'.d = 0 /\ batch' \in [d : -Limit..Limit, sign : -1..1, aged : BOOLEAN]
    BY <1>4 DEF FlushTakes, Emptied, EmptyBatch
  <2> QED
    BY <1>4, <2>1, <2>2 DEF FlushTakes
<1>5. CASE FlushChecks BY <1>5 DEF FlushChecks
<1>6. CASE FlushDiscards BY <1>6 DEF FlushDiscards
<1> QED
  BY <1>1, <1>2, <1>3, <1>4, <1>5, <1>6, <1>7 DEF FlushLoop

LEMMA InvStep == IInv /\ [Next]_vars => IInv'
<1>1. ASSUME IInv, UNCHANGED vars
      PROVE  IInv'
  BY <1>1 DEF vars, IInv, TypeOK, MotionConserved, Lifecycle, LastStraggler, HeldMotion
<1> QED
  BY <1>1, MessageThreadPreserves, OwnerPreserves, PollLoopPreserves, FlushLoopPreserves DEF Next

LEMMA Invariance == Spec => []IInv
BY InitIInv, InvStep, PTL DEF Spec

-----------------------------------------------------------------------------
(* The theorems.                                                           *)

\* Every variable keeps its type: a batch and what is taken from it stay within
\* the clamp.
THEOREM TypeCorrect == Spec => []TypeOK
<1>1. IInv => TypeOK
  BY DEF IInv
<1> QED
  BY <1>1, Invariance, PTL

\* Between the message thread and flush_loop no motion is lost or made up.
THEOREM MotionConservedHolds == Spec => []MotionConserved
<1>1. IInv => MotionConserved
  BY DEF IInv
<1> QED
  BY <1>1, Invariance, PTL

\* After stop, flush_loop sends at most once.
THEOREM OneAfterStopHolds == Spec => []OneAfterStop
<1>1. IInv => OneAfterStop
  BY DEF IInv, TypeOK, LastStraggler, OneAfterStop
<1> QED
  BY <1>1, Invariance, PTL

-----------------------------------------------------------------------------
(* The end of the threads: the safety part of StopEndsThreads.              *)

Stopped == opc \in {"stopping", "stopped"}

\* What is left of a round of a loop that finds its flag down at the end.
PollPlaces == [ended |-> 0, top |-> 1, sleeping |-> 2, focus |-> 3, none |-> 4]
FlushPlaces == [ended |-> 0, top |-> 1, sending |-> 2, focus |-> 3, alt |-> 4, due |-> 5,
                awake |-> 6, sleeping |-> 7, none |-> 8]
PollLeft == PollPlaces[ppc]
FlushLeft == FlushPlaces[fpc]

\* Once stop put the flag down, no step brings a loop away from its end, and each
\* of its own brings it nearer: its round is its last.
RoundsRunOut ==
  [][Stopped => /\ PollLeft' <= PollLeft /\ (PollLoop => PollLeft' < PollLeft)
                /\ FlushLeft' <= FlushLeft /\ (FlushLoop => FlushLeft' < FlushLeft)]_vars

\* stop leaves no thread out: both loops were started, and the message thread
\* has ended or was sent its WM_QUIT, although its end and the monitor's start
\* both write the flag that decides about the WM_QUIT.  The system may refuse the
\* WM_QUIT; then the message thread stays.
StopReachesAll ==
  /\ Stopped => ~running /\ ppc # "none" /\ fpc # "none"
  /\ opc = "stopped" => quit # "none" \/ mpc = "ended"

\* The monitor runs until its thread ended or it was stopped.
Reached ==
  /\ opc \in {"working", "stopping", "stopped"} => ppc # "none" /\ fpc # "none"
  /\ opc \in {"subscribing", "starting", "working", "stopping"} => mrunning \/ mpc = "ended"
  /\ opc = "stopped" => quit # "none" \/ mpc = "ended"

LEMMA ReachedStep == Reached /\ [Next]_vars => Reached'
<1> SUFFICES ASSUME Reached, [Next]_vars PROVE Reached'
  OBVIOUS
<1> USE DEF Reached
<1>1. CASE MessageThread
  <2>1. CASE Leave
    BY Zenon, <2>1 DEF Leave, owner, poller, flusher
  <2>2. CASE Accumulate
    BY Zenon, <2>2 DEF Accumulate, owner, poller, flusher
  <2>3. CASE \E d \in -Step..Step : RawInput(d)
    <3>1. mpc = "pumping" /\ UNCHANGED <<opc, ppc, fpc, mrunning, quit>>
      BY Zenon, <2>3 DEF RawInput, owner, poller, flusher
    <3>2. mpc # "ended"
      BY <3>1
    <3> QED
      BY Zenon, <3>1, <3>2
  <2>4. CASE CreateWindow \/ CreateWindowFails \/ PumpEnds
    BY Zenon, <2>4 DEF CreateWindow, CreateWindowFails, PumpEnds, owner, poller, flusher
  <2> QED
    BY Zenon, <1>1, <2>1, <2>2, <2>3, <2>4 DEF MessageThread
<1>2. CASE Owner
  <2>1. CASE MonitorReady
    <3>1. mrunning' = TRUE
      BY Zenon, <2>1 DEF MonitorReady
    <3>2. opc' = "subscribing"
      BY <2>1 DEF MonitorReady
    <3> QED
      BY <3>1, <3>2
  <2>2. CASE MonitorMissing
    BY <2>2 DEF MonitorMissing
  <2>3. CASE Subscribe \/ StartThreads \/ Stop
    <3>1. /\ opc \in {"subscribing", "starting", "working"}
          /\ opc' \in {"starting", "working", "stopping"}
          /\ opc' # "starting" => ppc' # "none" /\ fpc' # "none"
      BY <2>3 DEF Subscribe, StartThreads, Stop, poller, flusher
    <3>2. UNCHANGED <<mpc, mrunning>>
      BY Zenon, <2>3 DEF Subscribe, StartThreads, Stop, monitor
    <3> QED
      BY <3>1, <3>2
  <2>4. CASE StopMonitor
    <3>1. opc = "stopping" /\ opc' = "stopped" /\ UNCHANGED <<ppc, fpc, mpc>>
      BY <2>4 DEF StopMonitor, poller, flusher
    <3>2. quit' # "none" \/ mpc = "ended"
      BY <2>4, <3>1 DEF StopMonitor
    <3> QED
      BY <3>1, <3>2
  <2> QED
    BY Zenon, <1>2, <2>1, <2>2, <2>3, <2>4 DEF Owner
<1>3. CASE PollLoop
  BY <1>3 DEF PollLoop, PollTop, PollFocus, PollSleep, owner, flusher, monitor
<1>4. CASE FlushLoop
  BY <1>4 DEF FlushLoop, FlushTop, FlushWakes, FlushDecides, FlushTakes, FlushChecks,
              FlushDiscards, FlushSends, owner, poller, monitor
<1>5. CASE UNCHANGED vars
  BY Zenon, <1>5 DEF vars
<1> QED
  BY Zenon, <1>1, <1>2, <1>3, <1>4, <1>5 DEF Next

\* In every state stop leaves no thread out: both loops were started, and once it
\* ran the message thread has ended, has a WM_QUIT to come, or was sent one that
\* the system refused.
THEOREM StopReachesAllHolds == Spec => []StopReachesAll
<1>1. Init => Reached
  BY DEF Init, Reached
<1>2. IInv /\ Reached => StopReachesAll
  BY DEF IInv, Lifecycle, Reached, StopReachesAll, Stopped
<1> QED
  BY <1>1, <1>2, ReachedStep, Invariance, PTL DEF Spec

LEMMA RoundEnds ==
  ASSUME IInv, [Next]_vars, Stopped
  PROVE  /\ PollLeft' <= PollLeft /\ (PollLoop => PollLeft' < PollLeft)
         /\ FlushLeft' <= FlushLeft /\ (FlushLoop => FlushLeft' < FlushLeft)
<1>1. ~running /\ PollLeft \in Nat /\ FlushLeft \in Nat
  BY TypeParts DEF IInv, Lifecycle, Stopped, Rest, PollLeft, FlushLeft, PollPlaces, FlushPlaces
<1>2. CASE PollLoop
  <2>1. PollLeft' < PollLeft /\ PollLeft' \in Nat
    BY <1>1, <1>2 DEF PollLoop, PollTop, PollFocus, PollSleep, PollLeft, PollPlaces
  <2>2. UNCHANGED fpc
    BY <1>2 DEF PollLoop, PollTop, PollFocus, PollSleep, flusher
  <2>3. ~FlushLoop
    BY <1>2 DEF PollLoop, PollTop, PollFocus, PollSleep, FlushLoop, FlushTop, FlushWakes,
                FlushDecides, FlushTakes, FlushChecks, FlushDiscards, FlushSends, poller
  <2> QED
    BY <1>1, <2>1, <2>2, <2>3 DEF FlushLeft
<1>3. CASE FlushLoop
  <2>1. FlushLeft' < FlushLeft /\ FlushLeft' \in Nat
    BY <1>1, <1>3 DEF FlushLoop, FlushTop, FlushWakes, FlushDecides, FlushTakes, FlushChecks,
                      FlushDiscards, FlushSends, FlushLeft, FlushPlaces
  <2>2. UNCHANGED ppc
    BY <1>3 DEF FlushLoop, FlushTop, FlushWakes, FlushDecides, FlushTakes, FlushChecks,
                FlushDiscards, FlushSends, poller
  <2>3. ~PollLoop
    BY <2>2 DEF PollLoop, PollTop, PollFocus, PollSleep
  <2> QED
    BY <1>1, <2>1, <2>2, <2>3 DEF PollLeft
<1>4. CASE ~PollLoop /\ ~FlushLoop
  <2>1. CASE MessageThread
    BY <1>1, <1>4, <2>1 DEF MessageThread, CreateWindow, CreateWindowFails, RawInput, Accumulate,
       PumpEnds, Leave, poller, flusher, PollLeft, FlushLeft
  <2>2. CASE Owner
    BY <1>1, <1>4, <2>2 DEF Owner, MonitorReady, MonitorMissing, Subscribe, StartThreads, Stop,
       StopMonitor, poller, flusher, PollLeft, FlushLeft, Stopped
  <2>3. CASE UNCHANGED vars
    BY <1>1, <1>4, <2>3 DEF vars, PollLeft, FlushLeft
  <2> QED
    BY Zenon, <1>4, <2>1, <2>2, <2>3 DEF Next
<1> QED
  BY Zenon, <1>2, <1>3, <1>4

\* Once stop put the flag down, every step of a loop brings it nearer to its end
\* and no step of another takes it back: no loop begins a round it does not end.
THEOREM RoundsRunOutHolds == Spec => RoundsRunOut
<1>1. IInv /\ [Next]_vars =>
        [Stopped => /\ PollLeft' <= PollLeft /\ (PollLoop => PollLeft' < PollLeft)
                    /\ FlushLeft' <= FlushLeft /\ (FlushLoop => FlushLeft' < FlushLeft)]_vars
  BY Zenon, RoundEnds
<1> QED
  BY <1>1, Invariance, PTL DEF Spec, RoundsRunOut
=============================================================================

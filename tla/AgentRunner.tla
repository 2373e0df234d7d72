---------------------------- MODULE AgentRunner ----------------------------
(***************************************************************************)
(* The replay runner of the agent (modules/input/replay.rs): threads that  *)
(* call send_mouse_move, send_mouse_button, send_mouse_wheel or send_key,  *)
(* the bounded channel they feed, the worker thread that groups events and *)
(* hands each group to SendInput, and the thread that stops the runner.    *)
(*                                                                         *)
(* An event is a producer and the number of its call.  The clock behind    *)
(* last_flush is a choice: at every turn of the worker's loop the eight    *)
(* milliseconds may have passed or not.  How many events of a group the    *)
(* system inserts only decides on a warning.  stop() holds the lock on     *)
(* worker_handle while it joins, so that stop() and Drop return only when  *)
(* the worker has exited, whoever calls them; one caller stands for all.   *)
(***************************************************************************)
EXTENDS Naturals, Sequences

CONSTANTS
  Producers,   \* threads that call enqueue
  MaxCalls,    \* bound: calls of enqueue each producer makes
  Capacity,    \* CHANNEL_CAPACITY
  GroupMax     \* 64: the largest group given to one SendInput

ASSUME MaxCallsAssumption == MaxCalls \in Nat
ASSUME CapacityAssumption == Capacity \in Nat \ {0}
ASSUME GroupMaxAssumption == GroupMax \in Nat \ {0}

VARIABLES
  running,   \* ReplayInner.running
  chan,      \* the bounded channel
  pending,   \* local `pending` of worker_loop
  wpc,       \* where the worker stands
  ppc,       \* where each producer stands
  calls,     \* calls each producer has begun
  stopper,   \* where stop() stands
  log,       \* history: events whose enqueue returned Ok, in order
  taken      \* history: events handed to SendInput, in order

pvars == <<ppc, calls>>
history == <<log, taken>>
vars == <<running, chan, pending, wpc, ppc, calls, stopper, log, taken>>

Events == Producers \X (1..MaxCalls)
Calling(p) == <<p, calls[p]>>                \* the event p is enqueueing

TypeOK ==
  /\ running \in BOOLEAN
  /\ chan \in Seq(Events) /\ Len(chan) <= Capacity
  /\ pending \in Seq(Events)
  /\ wpc \in {"test", "recv", "flush", "drain", "finish", "exited"}
  /\ ppc \in [Producers -> {"idle", "sending"}]
  /\ calls \in [Producers -> 0..MaxCalls]
  /\ \A p \in Producers : ppc[p] = "sending" => calls[p] > 0
  /\ stopper \in {"idle", "joining", "stopped"}
  /\ log \in Seq(Events) /\ taken \in Seq(Events)

Init ==
  /\ running = TRUE
  /\ chan = <<>> /\ pending = <<>>
  /\ wpc = "test"
  /\ ppc = [p \in Producers |-> "idle"]
  /\ calls = [p \in Producers |-> 0]
  /\ stopper = "idle"
  /\ log = <<>> /\ taken = <<>>

-----------------------------------------------------------------------------
(* enqueue.                                                                 *)

Begin(p) == ppc[p] = "idle" /\ calls[p] < MaxCalls
            /\ calls' = [calls EXCEPT ![p] = @ + 1]

\* The runner was stopped: Err.
Refuse(p) ==
  /\ Begin(p)
  /\ ~running
  /\ UNCHANGED <<running, chan, pending, wpc, ppc, stopper, history>>

\* The runner was running when enqueue looked.
Enqueue(p) ==
  /\ Begin(p)
  /\ running
  /\ ppc' = [ppc EXCEPT ![p] = "sending"]
  /\ UNCHANGED <<running, chan, pending, wpc, stopper, history>>

\* send() waits for room; by now the runner may have been stopped.
Send(p) ==
  /\ ppc[p] = "sending"
  /\ wpc # "exited"
  /\ Len(chan) < Capacity
  /\ chan' = Append(chan, Calling(p))
  /\ log' = Append(log, Calling(p))
  /\ ppc' = [ppc EXCEPT ![p] = "idle"]
  /\ UNCHANGED <<running, pending, wpc, calls, stopper, taken>>

\* Mutant: the runner keeps the receiver alive after the worker exited.
SendNeverFails(p) == FALSE

\* The worker dropped the receiver: Err.
SendFails(p) ==
  /\ ppc[p] = "sending"
  /\ wpc = "exited"
  /\ ppc' = [ppc EXCEPT ![p] = "idle"]
  /\ UNCHANGED <<running, chan, pending, wpc, calls, stopper, history>>

-----------------------------------------------------------------------------
(* worker_loop.                                                             *)

Test ==
  /\ wpc = "test"
  /\ wpc' = IF running THEN "recv" ELSE "drain"
  /\ UNCHANGED <<running, chan, pending, pvars, stopper, history>>

Recv ==
  /\ wpc = "recv"
  /\ chan # <<>>
  /\ pending' = Append(pending, Head(chan))
  /\ chan' = Tail(chan)
  /\ wpc' = "flush"
  /\ UNCHANGED <<running, pvars, stopper, history>>

RecvTimeout ==
  /\ wpc = "recv"
  /\ chan = <<>>
  /\ wpc' = "flush"
  /\ UNCHANGED <<running, chan, pending, pvars, stopper, history>>

\* The events the inner loop pops into one group.
GroupLen == IF Len(pending) < GroupMax THEN Len(pending) ELSE GroupMax

\* Mutant: the event that fills the group is popped and not added to it.
SendGroupOffByOne ==
  /\ taken' = taken \o SubSeq(pending, 1, IF GroupLen = GroupMax THEN GroupMax - 1
                                          ELSE GroupLen)
  /\ pending' = SubSeq(pending, GroupLen + 1, Len(pending))

SendGroup ==
  /\ taken' = taken \o SubSeq(pending, 1, GroupLen)
  /\ pending' = SubSeq(pending, GroupLen + 1, Len(pending))

Flush ==
  /\ wpc = "flush"
  /\ SendGroup
  /\ wpc' = "test"
  /\ UNCHANGED <<running, chan, pvars, stopper, log>>

\* Not eight milliseconds yet, and the group is not full.
Wait ==
  /\ wpc = "flush"
  /\ Len(pending) < GroupMax
  /\ wpc' = "test"
  /\ UNCHANGED <<running, chan, pending, pvars, stopper, history>>

\* Mutant: what is left in the channel at the stop is not drained.
DrainNothing ==
  /\ wpc = "drain"
  /\ wpc' = "finish"
  /\ UNCHANGED <<running, chan, pending, pvars, stopper, history>>

\* The try_recv loop after running went down.
Drain ==
  /\ wpc = "drain"
  /\ IF chan # <<>>
     THEN /\ pending' = Append(pending, Head(chan))
          /\ chan' = Tail(chan)
          /\ UNCHANGED wpc
     ELSE /\ wpc' = "finish"
          /\ UNCHANGED <<chan, pending>>
  /\ UNCHANGED <<running, pvars, stopper, history>>

\* Mutant: one last group is sent, however many are pending.
FinishOnce ==
  /\ wpc = "finish"
  /\ SendGroup
  /\ wpc' = "exited"
  /\ chan' = <<>>
  /\ UNCHANGED <<running, pvars, stopper, log>>

\* The groups of the final loop.  When none is left the worker exits, and its
\* receiver is dropped with whatever was sent since the channel was empty.
Finish ==
  /\ wpc = "finish"
  /\ IF pending # <<>>
     THEN /\ SendGroup
          /\ UNCHANGED <<chan, wpc>>
     ELSE /\ wpc' = "exited"
          /\ chan' = <<>>
          /\ UNCHANGED <<pending, taken>>
  /\ UNCHANGED <<running, pvars, stopper, log>>

-----------------------------------------------------------------------------
(* stop, also called by Drop.                                               *)

StopRunner ==
  /\ stopper = "idle"
  /\ running' = FALSE
  /\ stopper' = "joining"
  /\ UNCHANGED <<chan, pending, wpc, pvars, history>>

Joined ==
  /\ stopper = "joining"
  /\ wpc = "exited"
  /\ stopper' = "stopped"
  /\ UNCHANGED <<running, chan, pending, wpc, pvars, history>>

-----------------------------------------------------------------------------
Worker == Test \/ Recv \/ RecvTimeout \/ Flush \/ Wait \/ Drain \/ Finish
Producer(p) == Refuse(p) \/ Enqueue(p) \/ Send(p) \/ SendFails(p)

Next == Worker \/ StopRunner \/ Joined \/ \E p \in Producers : Producer(p)

Spec == Init /\ [][Next]_vars

\* The worker thread runs and its clock advances; a thread inside enqueue or
\* stop is scheduled.  Nobody is obliged to call either.  A sender that waits
\* for room is in the channel's queue of senders, and gets its turn.
FairSpec ==
  /\ Spec
  /\ WF_vars(Worker) /\ SF_vars(Flush)
  /\ WF_vars(Joined)
  /\ \A p \in Producers : SF_vars(Send(p)) /\ WF_vars(SendFails(p))

-----------------------------------------------------------------------------
(* Safety.                                                                  *)

\* While the worker lives, what was accepted is handed to SendInput exactly
\* once and in the order of acceptance: nothing is lost, duplicated or
\* overtaken between the channel, the worker's queue and its groups.
Conserved == wpc # "exited" => log = taken \o pending \o chan

\* The worker's queue never outgrows one group while the runner runs, so the
\* memory it holds is bounded by the channel and one group.
PendingBounded ==
  /\ wpc \in {"test", "recv"} => Len(pending) < GroupMax
  /\ wpc \in {"test", "recv", "flush"} => Len(pending) <= GroupMax

\* The runner implements ReplayQueue.  What is sent once the drain loop found
\* the channel empty is late; before that, the worker's queue and the channel
\* together are the abstract buffer.
Drained == wpc \in {"finish", "exited"}
Queue == INSTANCE ReplayQueue WITH
  Items <- Events,
  buf   <- IF Drained THEN pending ELSE pending \o chan,
  late  <- IF Drained THEN chan ELSE <<>>,
  out   <- taken,
  open  <- running,
  done  <- (stopper = "stopped")
ImplementsQueue == Queue!QSpec

-----------------------------------------------------------------------------
(* Liveness.                                                                *)

\* An event accepted while the runner was running is handed to SendInput,
\* also when the runner is stopped right after.
AcceptedIsReplayed ==
  \A e \in Events :
    (running /\ \E i \in DOMAIN log : log[i] = e)
      ~> (\E i \in DOMAIN taken : taken[i] = e)

\* A thread blocked in enqueue on a full channel gets out, and so does the one
\* that stops the runner.
CallsReturn ==
  /\ \A p \in Producers : (ppc[p] = "sending") ~> (ppc[p] = "idle")
  /\ (stopper = "joining") ~> (stopper = "stopped")
=============================================================================

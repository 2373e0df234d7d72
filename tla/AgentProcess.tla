---------------------------- MODULE AgentProcess ----------------------------
(***************************************************************************)
(* The agent process: its read loop (AgentLoop) and the replay runner it   *)
(* owns (AgentRunner), a thread each.  The loop is the only producer of    *)
(* the runner: the n-th event of the batches it reads is its n-th call,    *)
(* which blocks while the channel is full.  handle_connection drops the    *)
(* runner when it returns, or when it panics in a build that unwinds, and  *)
(* the drop stops it.                                                      *)
(***************************************************************************)
EXTENDS AgentLoop

CONSTANTS
  Capacity,  \* CHANNEL_CAPACITY
  GroupMax   \* the largest group given to one SendInput

ASSUME ChannelAssumption == Capacity \in Nat \ {0} /\ GroupMax \in Nat \ {0}

VARIABLES running, chan, pending, wpc, ppc, calls, stopper, log, taken

Agent == "agent"
Runner == INSTANCE AgentRunner WITH
  Producers <- {Agent}, MaxCalls <- MaxFrames * MaxCount

runner == <<running, chan, pending, wpc, ppc, calls, stopper, log, taken>>
processVars == <<vars, runner>>

ProcessInit == Init /\ Runner!Init

-----------------------------------------------------------------------------
Returned == apc \in {"ended", "panicked"}

\* send_mouse_move: the loop waits in enqueue until the channel takes the event.
CallRunner ==
  /\ apc = "events"
  /\ Runner!Enqueue(Agent)
  /\ UNCHANGED vars

\* enqueue returns.  What HandEvent leaves open, the runner decides.
CallReturns ==
  /\ HandEvent
  /\ \/ handed' # handed /\ Runner!Send(Agent)
     \/ handed' = handed /\ (Runner!Refuse(Agent) \/ Runner!SendFails(Agent))

\* Mutant: the runner is dropped between two frames already.
DropRunnerEarly == apc = "header" /\ Runner!StopRunner /\ UNCHANGED vars

\* Drop of the runner, which is a local of handle_connection.
DropRunner == Returned /\ Runner!StopRunner /\ UNCHANGED vars

\* The steps of the loop that leave the runner alone.
Reads ==
  /\ \/ ReadHeader \/ ReadPayload \/ Answer \/ AnswerPanics \/ AnswerFails
     \/ PollTimesOut \/ ReadEnds
  /\ UNCHANGED runner

RunnerStep == (Runner!Worker \/ Runner!Joined) /\ UNCHANGED vars

LoopStep == Reads \/ CallRunner \/ CallReturns \/ DropRunner

ProcessNext == (PeerStep /\ UNCHANGED runner) \/ LoopStep \/ RunnerStep

ProcessSpec == ProcessInit /\ [][ProcessNext]_processVars

\* Both threads run, the poll of the loop times out, and the eight milliseconds
\* of the runner are over at some of its turns.
FairProcessSpec ==
  /\ ProcessSpec
  /\ WF_processVars(LoopStep)
  /\ WF_processVars(RunnerStep) /\ SF_processVars(Runner!Flush /\ UNCHANGED vars)

-----------------------------------------------------------------------------
\* An answer that says handled is true: until a poll is cut short, the runner
\* refuses no event, and an answered batch was accepted to its last event, in the
\* order sent; and SendInput is given what was accepted in that order, all of it
\* by the time the process ends, even if it ends by a panic.
HandledIsReplayed ==
  /\ ReplayedAsSent
  /\ ~cut => \A k \in 1..Len(answers) : \A i \in 1..sent[answers[k].to].count :
               \E j \in 1..Len(handed) : handed[j] = [id |-> answers[k].to, i |-> i]
  /\ Len(taken) <= Len(handed)
  /\ \A n \in 1..Len(taken) : taken[n] = <<Agent, n>>
  /\ stopper = "stopped" => Len(taken) = Len(handed)

\* When its peer leaves, the process ends, with its runner joined.
ProcessEnds == ~open ~> Returned /\ stopper = "stopped"
=============================================================================

------------------------------ MODULE Launcher ------------------------------
(***************************************************************************)
(* Starting a program in the child session (modules/launcher.rs): a task   *)
(* is registered with the task scheduler, run, polled until its program    *)
(* runs, and deleted.  The event-loop thread does this for LaunchProgram   *)
(* (modules/app.rs, on_launch_program), and the same thread creates the    *)
(* RDP hosts, so that both decide about its COM apartment: a launch asks   *)
(* for the multithreaded one and gives its reference back only when it     *)
(* succeeds, a host asks for a single-threaded one and keeps it.  Any call *)
(* may fail, and the errors return at once.                                *)
(*                                                                         *)
(* cleanup_orphaned_tasks is left out.  Nothing in the program calls it,   *)
(* and it would find none of these tasks: they are registered as hidden,   *)
(* and it lists what is not hidden.                                        *)
(*                                                                         *)
(* External: the scheduler, which starts a queued program, or never does.  *)
(***************************************************************************)
EXTENDS Naturals, FiniteSets

CONSTANTS Launches   \* calls of launch_in_session, each with its own task name

ASSUME LaunchesAssumption == IsFiniteSet(Launches)

VARIABLES
  stage,     \* how far each call came, or how it ended
  program,   \* the instance that RunEx created for it
  tasks,     \* the tasks of this program that are registered
  undeleted, \* history: tasks whose DeleteTask failed
  apartment, \* COM apartment of the event-loop thread
  refs,      \* references it holds on the multithreaded apartment
  hosts      \* history: the apartments RDP hosts were created in

launcherVars == <<stage, program, tasks, undeleted, apartment, refs, hosts>>

-----------------------------------------------------------------------------
UnderWay == {"registered", "polling"}
Failed == {"unprepared", "abandoned", "timedOut"}
Stages == {"new", "refused", "started"} \cup UnderWay \cup Failed

LauncherTypeOK ==
  /\ stage \in [Launches -> Stages]
  /\ program \in [Launches -> {"none", "queued", "running", "ended"}]
  /\ tasks \subseteq Launches /\ undeleted \subseteq Launches
  /\ apartment \in {"none", "sta", "mta"}
  /\ refs \in Nat /\ (refs > 0 <=> apartment = "mta")
  /\ hosts \subseteq {"sta", "mta"}

LauncherInit ==
  /\ stage = [l \in Launches |-> "new"]
  /\ program = [l \in Launches |-> "none"]
  /\ tasks = {} /\ undeleted = {}
  /\ apartment = "none" /\ refs = 0 /\ hosts = {}

\* The event-loop thread handles one event at a time.
Free == \A l \in Launches : stage[l] \notin UnderWay

To(l, s) == stage' = [stage EXCEPT ![l] = s]

-----------------------------------------------------------------------------
(* COM.                                                                     *)

\* RdpHost::new on the event-loop thread.  The errors of CoInitializeEx and
\* OleInitialize are ignored: in a multithreaded apartment the host is created
\* where the thread is.
CreateHost ==
  /\ Free
  /\ apartment' = IF apartment = "none" THEN "sta" ELSE apartment
  /\ hosts' = hosts \cup {apartment'}
  /\ UNCHANGED <<stage, program, tasks, undeleted, refs>>

EnterMta ==
  /\ apartment \in {"none", "mta"}
  /\ apartment' = "mta"
  /\ refs' = refs + 1

\* Mutant: a launch does not give its reference back.
LeaveMtaNever == UNCHANGED <<apartment, refs>>

\* CoUninitialize.
LeaveMta ==
  /\ refs' = refs - 1
  /\ apartment' = IF refs = 1 THEN "none" ELSE apartment

-----------------------------------------------------------------------------
(* launch_in_session.                                                       *)

\* CoInitializeEx finds the thread in a single-threaded apartment.
LaunchRefused(l) ==
  /\ Free /\ stage[l] = "new"
  /\ apartment = "sta"
  /\ To(l, "refused")
  /\ UNCHANGED <<program, tasks, undeleted, apartment, refs, hosts>>

\* A call on the way to RegisterTaskDefinition fails, or that one does.
LaunchUnprepared(l) ==
  /\ Free /\ stage[l] = "new"
  /\ EnterMta
  /\ To(l, "unprepared")
  /\ UNCHANGED <<program, tasks, undeleted, hosts>>

RegisterTask(l) ==
  /\ Free /\ stage[l] = "new"
  /\ EnterMta
  /\ tasks' = tasks \cup {l}
  /\ To(l, "registered")
  /\ UNCHANGED <<program, undeleted, hosts>>

\* RunEx, which needs the task.
RunTask(l) ==
  /\ stage[l] = "registered" /\ l \in tasks
  /\ program' = [program EXCEPT ![l] = "queued"]
  /\ To(l, "polling")
  /\ UNCHANGED <<tasks, undeleted, apartment, refs, hosts>>

\* RunEx fails, or State or EnginePID does: the task is left behind.
LaunchAbandoned(l) ==
  /\ stage[l] \in UnderWay
  /\ To(l, "abandoned")
  /\ UNCHANGED <<program, tasks, undeleted, apartment, refs, hosts>>

\* DeleteTask, whose result nobody looks at.
DeleteTask(l) ==
  \/ tasks' = tasks \ {l} /\ UNCHANGED undeleted
  \/ undeleted' = undeleted \cup {l} /\ UNCHANGED tasks

\* Mutant: a launch that timed out returns at once, like the other errors.
PollTimesOutAtOnce(l) ==
  /\ stage[l] = "polling"
  /\ To(l, "timedOut")
  /\ UNCHANGED <<program, tasks, undeleted, apartment, refs, hosts>>

\* Ten polls did not see the program run, or it had no process to name.
PollTimesOut(l) ==
  /\ stage[l] = "polling"
  /\ To(l, "timedOut")
  /\ DeleteTask(l)
  /\ UNCHANGED <<program, apartment, refs, hosts>>

PollSucceeds(l) ==
  /\ stage[l] = "polling" /\ program[l] = "running"
  /\ To(l, "started")
  /\ DeleteTask(l)
  /\ LeaveMta
  /\ UNCHANGED <<program, hosts>>

\* The scheduler and the program itself.
ProgramMoves(l) ==
  /\ \/ program[l] = "queued" /\ program' \in {[program EXCEPT ![l] = "running"],
                                               [program EXCEPT ![l] = "ended"]}
     \/ program[l] = "running" /\ program' = [program EXCEPT ![l] = "ended"]
  /\ UNCHANGED <<stage, tasks, undeleted, apartment, refs, hosts>>

-----------------------------------------------------------------------------
Launch(l) ==
  \/ LaunchRefused(l) \/ LaunchUnprepared(l) \/ RegisterTask(l) \/ RunTask(l)
  \/ LaunchAbandoned(l) \/ PollTimesOut(l) \/ PollSucceeds(l)

LauncherNext ==
  \/ CreateHost
  \/ \E l \in Launches : Launch(l) \/ ProgramMoves(l)

LauncherSpec == LauncherInit /\ [][LauncherNext]_launcherVars

-----------------------------------------------------------------------------
\* What launches leave on the scheduler: a launch that started its program or
\* timed out leaves its task only when DeleteTask failed; the other errors after
\* the registration leave it for good.
TasksAccounted ==
  tasks = {l \in Launches : stage[l] \in UnderWay \cup {"abandoned"}} \cup undeleted

\* What a launch leaves to the hosts that the same thread creates after it:
\* only a launch that failed keeps the thread out of the single-threaded
\* apartment an RDP control wants.
HostsInSta == "mta" \in hosts => \E l \in Launches : stage[l] \in Failed

\* What a host leaves to the launches that come after it: none of them runs a
\* program, because the thread stays in the single-threaded apartment.
HostBarsLaunch ==
  [][\A l \in Launches : program[l] = "none" /\ program'[l] # "none" =>
       "sta" \notin hosts]_launcherVars
=============================================================================

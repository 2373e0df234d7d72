--------------------------- MODULE EnvironmentFix ---------------------------
(***************************************************************************)
(* The repair of the environment (modules/environment.rs, fix_env.rs): the *)
(* fixes of run_all_fixes, applied in a fixed order and each reported on   *)
(* its own, and the conditions run_all_checks tests.  Fixes may run twice  *)
(* at once: from the frontend (cmd_apply_fixes, a task of its own for each *)
(* invocation) and from a console (--fix-env, which takes no instance      *)
(* mutex).  Any change may fail; reads of the registry find what is there. *)
(*                                                                         *)
(* External: the service manager, which stops and starts TermService on    *)
(* command, and the service, which reads its settings from the registry    *)
(* when it starts.                                                         *)
(***************************************************************************)
EXTENDS Naturals, FiniteSets

CONSTANTS
  Fixers,       \* runs of run_all_fixes
  PortNumbers,  \* what the value PortNumber may hold
  Absent,       \* no such value
  MaxFailures   \* bound: calls into Windows that fail

ASSUME AbsentAssumption == Absent \notin Nat
ASSUME PortNumbersAssumption == PortNumbers \subseteq Nat \cup {Absent}
ASSUME MaxFailuresAssumption == MaxFailures \in Nat

VARIABLES
  registry,  \* the values the fixes write, and ServiceDll
  loaded,    \* registry as TermService read it when it last started
  port,      \* PortNumber
  rules,     \* firewall: the ports blocked by rules of FIREWALL_RULE_NAME
  public,    \* firewall: DEFAULT_RDP_RULE_NAME is there and enabled
  service,   \* TermService
  child,     \* child sessions are enabled
  at,        \* the step each run of the fixes is at
  failed,    \* the FixResults with success = false, of each run
  failures   \* history: how many calls failed

windowsVars == <<registry, loaded, port, rules, public, service, child>>
fixVars == <<windowsVars, at, failed, failures>>

-----------------------------------------------------------------------------
(* What the fixes write, and what the checks ask for.                       *)

Written == [fDenyTSConnections |-> 0, fSingleSessionPerUser |-> 0,
            StartRCM |-> 1, SecurityLayer |-> 2, MinEncryptionLevel |-> 3,
            UserAuthentication |-> 1]
Dwords == DOMAIN Written
Security == {"SecurityLayer", "MinEncryptionLevel", "UserAuthentication"}
Dlls == {"termsrv", "wrapper"}               \* ServiceDll

\* A registry nobody repaired, and one that somebody did.
Fresh == [n \in Dwords |-> Absent]
Registries(values) == {[dwords |-> values, dll |-> d] : d \in Dlls}

CheckRdpEnabled == registry.dwords.fDenyTSConnections = 0
CheckMultiSession == registry.dwords.fSingleSessionPerUser = 0
CheckStartRcm == registry.dwords.StartRCM = 1
CheckTermServiceRunning == service = "running"
CheckChildSessions == child
CheckRdpWrapper == registry.dll # "wrapper"
CheckFirewallLoopbackRule == rules # {} /\ ~public

\* environment.rs: get_configured_rdp_port, a DWORD cast to u16.
ConfiguredPort == IF port = Absent THEN 3389 ELSE port % 65536

\* session.rs: get_configured_rdp_port, which the core reports.
IsPort == port # Absent /\ port > 0 /\ port <= 65535
ListenerPort == IF IsPort THEN port ELSE 3389

-----------------------------------------------------------------------------
Restart == {"stop", "waitStopped", "start", "waitRunning"}
Order == {"hook", "deny", "single", "rcm", "security", "firewall"}
           \cup Restart \cup {"child", "done"}
Steps == {"hook", "deny", "single", "rcm", "security", "firewall", "restart",
          "child"}

FixTypeOK ==
  /\ registry \in [dwords : [Dwords -> Nat \cup {Absent}], dll : Dlls]
  /\ loaded \in [Dwords -> Nat \cup {Absent}]
  /\ port \in PortNumbers /\ rules \subseteq Nat
  /\ service \in {"running", "stopping", "stopped", "starting"}
  /\ public \in BOOLEAN /\ child \in BOOLEAN
  /\ at \in [Fixers -> Order]
  /\ failed \in [Fixers -> SUBSET Steps]
  /\ failures \in 0..MaxFailures

FixInit ==
  /\ registry \in Registries(Fresh) \cup Registries(Written)
  /\ loaded = registry.dwords
  /\ port \in PortNumbers /\ rules = {} /\ public = TRUE
  /\ service \in {"running", "stopped"}
  /\ child = FALSE
  /\ at = [f \in Fixers |-> "hook"]
  /\ failed = [f \in Fixers |-> {}]
  /\ failures = 0

\* Run f leaves a step that did what it reports.
Succeeds(f, next) ==
  /\ at' = [at EXCEPT ![f] = next]
  /\ UNCHANGED <<failed, failures>>

\* Run f reports that a step failed, and goes on with the next one.
Fails(f, step, next) ==
  /\ failures < MaxFailures
  /\ failures' = failures + 1
  /\ failed' = [failed EXCEPT ![f] = @ \cup {step}]
  /\ at' = [at EXCEPT ![f] = next]

\* Run f gives the restart up and reports it failed, without a call failing.
GivesUpRestart(f) ==
  /\ failed' = [failed EXCEPT ![f] = @ \cup {"restart"}]
  /\ at' = [at EXCEPT ![f] = "child"]
  /\ UNCHANGED failures

-----------------------------------------------------------------------------
(* The registry.                                                            *)

\* A handle opened for writing cannot be queried: RegQueryValueExW fails.
Queried(access) == access = "KEY_READ"

\* fix_disable_rdp_wrapper_hook.  A value that could not be read counts as no
\* hook, and the step is reported as done.
FixDisableRdpWrapperHook(f) ==
  /\ at[f] = "hook"
  /\ \/ /\ IF Queried("KEY_WRITE") /\ registry.dll = "wrapper"
           THEN registry' = [registry EXCEPT !.dll = "termsrv"]
           ELSE UNCHANGED registry
        /\ Succeeds(f, "deny")
     \/ UNCHANGED registry /\ Fails(f, "hook", "deny")
  /\ UNCHANGED <<loaded, port, rules, public, service, child>>

Store(names) ==
  registry' = [registry EXCEPT !.dwords =
                 [n \in Dwords |-> IF n \in names THEN Written[n] ELSE @[n]]]

\* One DWORD: the key is opened, the value written, or the step fails.
SetDword(f, step, name, next) ==
  /\ at[f] = step
  /\ \/ Store({name}) /\ Succeeds(f, next)
     \/ UNCHANGED registry /\ Fails(f, step, next)
  /\ UNCHANGED <<loaded, port, rules, public, service, child>>

FixSetDenyTSConnections(f) == SetDword(f, "deny", "fDenyTSConnections", "single")
FixSetSingleSessionPerUser(f) ==
  SetDword(f, "single", "fSingleSessionPerUser", "rcm")
FixSetStartRcm(f) == SetDword(f, "rcm", "StartRCM", "security")

\* Mutant: one value that was written makes the step a success.
FixSetSecurityLayerAny(f) ==
  /\ at[f] = "security"
  /\ \E names \in SUBSET Security :
       /\ Store(names)
       /\ IF names # {} THEN Succeeds(f, "firewall")
          ELSE Fails(f, "security", "firewall")
  /\ UNCHANGED <<loaded, port, rules, public, service, child>>

\* fix_set_security_layer: three writes, each tried whatever the others did.
\* They are one step here: who writes these values writes the same ones, so that
\* what another run or the service finds between two of them is also found when
\* the later ones fail.
FixSetSecurityLayer(f) ==
  /\ at[f] = "security"
  /\ \E names \in SUBSET Security :
       /\ Store(names)
       /\ IF names = Security THEN Succeeds(f, "firewall")
          ELSE Fails(f, "security", "firewall")
  /\ UNCHANGED <<loaded, port, rules, public, service, child>>

-----------------------------------------------------------------------------
(* The firewall.                                                            *)

\* fix_ensure_firewall_loopback_rule: the default rule is deleted, which only
\* warns when it fails, the block added and looked for.  The step also fails
\* when the rule was added and then not found.
FixEnsureFirewallLoopbackRule(f) ==
  /\ at[f] = "firewall"
  /\ public' \in {public, FALSE}
  /\ \/ rules' = rules \cup {ConfiguredPort} /\ Succeeds(f, "stop")
     \/ /\ rules' \in {rules, rules \cup {ConfiguredPort}}
        /\ Fails(f, "firewall", "stop")
  /\ UNCHANGED <<registry, loaded, port, service, child>>

-----------------------------------------------------------------------------
(* fix_restart_term_service.                                                *)

\* Mutant: a stop command that was refused does not end the step.
StopServiceAnyway(f) ==
  /\ at[f] = "stop"
  /\ \/ /\ service = "running"
        /\ service' = "stopping"
        /\ Succeeds(f, "waitStopped")
     \/ /\ service # "running"
        /\ UNCHANGED service
        /\ Succeeds(f, "waitStopped")
  /\ UNCHANGED <<registry, loaded, port, rules, public, child>>

\* The stop command is accepted by a running service only; anything else ends
\* the step.
StopService(f) ==
  /\ at[f] = "stop"
  /\ \/ /\ service = "running"
        /\ service' = "stopping"
        /\ Succeeds(f, "waitStopped")
     \/ service # "running" /\ UNCHANGED service /\ GivesUpRestart(f)
     \/ UNCHANGED service /\ Fails(f, "restart", "child")
  /\ UNCHANGED <<registry, loaded, port, rules, public, child>>

\* Polling until STOPPED, for ten seconds, which may be too short or miss it.
WaitStopped(f) ==
  /\ at[f] = "waitStopped"
  /\ \/ service = "stopped" /\ Succeeds(f, "start")
     \/ GivesUpRestart(f)
  /\ UNCHANGED windowsVars

\* Only a stopped service can be started: another run may have done it already.
StartService(f) ==
  /\ at[f] = "start"
  /\ \/ /\ service = "stopped"
        /\ service' = "starting"
        /\ loaded' = registry.dwords
        /\ Succeeds(f, "waitRunning")
     \/ service # "stopped" /\ UNCHANGED <<service, loaded>> /\ GivesUpRestart(f)
     \/ UNCHANGED <<service, loaded>> /\ Fails(f, "restart", "child")
  /\ UNCHANGED <<registry, port, rules, public, child>>

\* Mutant: waiting for RUNNING in vain is not reported.
WaitRunningQuiet(f) ==
  /\ at[f] = "waitRunning"
  /\ \/ service = "running" /\ Succeeds(f, "child")
     \/ Succeeds(f, "child")
  /\ UNCHANGED windowsVars

\* Polling until RUNNING, for ten seconds.
WaitRunning(f) ==
  /\ at[f] = "waitRunning"
  /\ \/ service = "running" /\ Succeeds(f, "child")
     \/ GivesUpRestart(f)
  /\ UNCHANGED windowsVars

-----------------------------------------------------------------------------
FixEnableChildSessions(f) ==
  /\ at[f] = "child"
  /\ \/ child' = TRUE /\ Succeeds(f, "done")
     \/ UNCHANGED child /\ Fails(f, "child", "done")
  /\ UNCHANGED <<registry, loaded, port, rules, public, service>>

RunAllFixes(f) ==
  \/ FixDisableRdpWrapperHook(f)
  \/ FixSetDenyTSConnections(f) \/ FixSetSingleSessionPerUser(f)
  \/ FixSetStartRcm(f) \/ FixSetSecurityLayer(f)
  \/ FixEnsureFirewallLoopbackRule(f)
  \/ StopService(f) \/ WaitStopped(f) \/ StartService(f) \/ WaitRunning(f)
  \/ FixEnableChildSessions(f)

\* The service manager; a service may fail to start.
ServiceMoves ==
  /\ \/ service = "stopping" /\ service' = "stopped"
     \/ service = "starting" /\ service' \in {"running", "stopped"}
  /\ UNCHANGED <<registry, loaded, port, rules, public, child, at, failed,
                 failures>>

FixNext == ServiceMoves \/ \E f \in Fixers : RunAllFixes(f)

FixSpec == FixInit /\ [][FixNext]_fixVars

-----------------------------------------------------------------------------
\* Of a step that run f has behind it: its FixResult was a success.
Reported(f, step) == step \notin failed[f]
Behind(f, step) == at[f] = "done" \/ (at[f] = "child" /\ step # "child")

\* What it means for Windows that a step of run f is done.
InForce(f, step) ==
  /\ step = "hook" => CheckRdpWrapper
  /\ step = "deny" => CheckRdpEnabled
  /\ step = "single" => CheckMultiSession
  /\ step = "rcm" => CheckStartRcm
  /\ step = "security" => \A n \in Security : registry.dwords[n] = Written[n]
  /\ step = "firewall" =>
       /\ IsPort => ListenerPort \in rules
       /\ ~public => CheckFirewallLoopbackRule
  /\ step = "restart" =>
       /\ Reported(f, "security") => \A n \in Security : loaded[n] = Written[n]
       /\ Reported(f, "rcm") => loaded.StartRCM = Written.StartRCM
  /\ step = "child" => CheckChildSessions

\* What a run reported as done is in force, but for the hook step, whose report
\* HookDisabled refutes; however often the fixes run at once and whatever failed
\* in between: the values are what the checks ask for, the port the core takes
\* for the listener's is blocked (when PortNumber is a port), and if the restart
\* was reported too, the service runs on the values the run wrote before it.
ReportedIsEffective ==
  \A f \in Fixers, step \in Steps \ {"hook"} :
    Behind(f, step) /\ Reported(f, step) => InForce(f, step)

\* No run takes the service down without saying so: when it is down, nobody is
\* restarting it and some run reported a restart, another reported a failed one.
Restarting == \E f \in Fixers : at[f] \in Restart \ {"stop"}
Restarted(f) == at[f] \in {"child", "done"} /\ Reported(f, "restart")
DownIsReported ==
  ~CheckTermServiceRunning /\ ~Restarting /\ (\E f \in Fixers : Restarted(f)) =>
    \E f \in Fixers : ~Reported(f, "restart")

\* A service that is down while nobody restarts it stays down, however often the
\* fixes are applied: a restart begins with a stop command, which a stopped
\* service refuses, and the step ends there.
Down == service = "stopped" /\ ~Restarting
StaysDown == [][Down => Down']_fixVars

\* modules/environment.rs:422: the hook is rewritten when ServiceDll names a
\* wrapper, so a run that reports this step as done leaves no wrapper behind.
HookDisabled ==
  \A f \in Fixers : at[f] # "hook" /\ Reported(f, "hook") => CheckRdpWrapper
=============================================================================

----------------------------- MODULE MCDesktop -----------------------------
(***************************************************************************)
(* Instances of Settings, Launcher, CursorCapture and EnvironmentFix for   *)
(* TLC.  The four share no state and do not call each other, so that their *)
(* interleavings would say nothing about any of them: a behaviour is one   *)
(* of one part, and the others rest where they start.                      *)
(***************************************************************************)
EXTENDS Settings, Launcher, CursorCapture, EnvironmentFix

VARIABLE part   \* the part that moves

desktopVars == <<settingsVars, launcherVars, captureVars, fixVars, part>>

Init ==
  /\ part \in {"settings", "launcher", "cursor", "fixes"}
  /\ SettingsInit /\ LauncherInit /\ CaptureInit /\ FixInit
  /\ part # "settings" => disk = NoFile
  /\ part # "cursor" => /\ clip = Screen /\ shown = 0
                        /\ rect = CHOOSE r \in Regions : TRUE
  /\ part # "fixes" => /\ service = "running" /\ port = Absent
                       /\ registry = [dwords |-> Fresh, dll |-> "termsrv"]

Next ==
  /\ \/ part = "settings" /\ SettingsNext
        /\ UNCHANGED <<launcherVars, captureVars, fixVars>>
     \/ part = "launcher" /\ LauncherNext
        /\ UNCHANGED <<settingsVars, captureVars, fixVars>>
     \/ part = "cursor" /\ CaptureNext
        /\ UNCHANGED <<settingsVars, launcherVars, fixVars>>
     \/ part = "fixes" /\ FixNext
        /\ UNCHANGED <<settingsVars, launcherVars, captureVars>>
  /\ UNCHANGED part

Spec == Init /\ [][Next]_desktopVars
=============================================================================

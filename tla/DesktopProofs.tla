--------------------------- MODULE DesktopProofs ---------------------------
(***************************************************************************)
(* Proofs about Settings, Launcher, CursorCapture, EnvironmentFix and      *)
(* LogWriter, for any values of their constants.                           *)
(***************************************************************************)
EXTENDS Settings, Launcher, CursorCapture, EnvironmentFix, LogWriter,
        FiniteSetTheorems, TLAPS

-----------------------------------------------------------------------------
(* CursorCapture.  Its two invariants are inductive with the types, which   *)
(* are proved in three parts: flags, rectangles and counters.               *)

CaptureFlags == active \in BOOLEAN /\ stuck \in BOOLEAN
CaptureRects ==
  /\ clip \in Regions \cup Others /\ rect \in Regions
  /\ old \in Regions \cup Others \cup {NoRect}
CaptureCounters ==
  /\ count \in Int /\ shown \in -MaxShown..MaxShown
  /\ hides \in {0, MaxHide} /\ drift \in 0..MaxDrift
  /\ count = shown - hides - drift
ShownWhenReleased == ~active => hides = 0

CaptureInv ==
  /\ CaptureFlags /\ CaptureRects /\ CaptureCounters
  /\ ShownWhenReleased /\ FreeWhenReleased

LEMMA CaptureInvImplies == CaptureInv => CaptureTypeOK /\ CursorBalanced
BY Zenon DEF CaptureInv, CaptureFlags, CaptureRects, CaptureCounters, ShownWhenReleased,
             CaptureTypeOK, CursorBalanced

LEMMA CaptureInitInv == CaptureInit => CaptureInv
<1> SUFFICES ASSUME CaptureInit PROVE CaptureInv
  OBVIOUS
<1>1. CaptureFlags
  BY Zenon DEF CaptureInit, CaptureFlags
<1>2. CaptureRects
  BY DEF CaptureInit, CaptureRects, Others
<1>3. CaptureCounters
  BY HideAssumption DEF CaptureInit, CaptureCounters
<1>4. ShownWhenReleased
  BY DEF CaptureInit, ShownWhenReleased
<1>5. FreeWhenReleased
  BY RectAssumption DEF CaptureInit, FreeWhenReleased, Others
<1> QED
  BY <1>1, <1>2, <1>3, <1>4, <1>5 DEF CaptureInv

LEMMA CaptureStepInv == CaptureInv /\ [CaptureNext]_captureVars => CaptureInv'
<1> SUFFICES ASSUME CaptureInv, [CaptureNext]_captureVars PROVE CaptureInv'
  OBVIOUS
<1> USE DEF CaptureNext, captureVars, Idle, Capture, CaptureFails, ReleaseTemporarily,
            Release, UpdateRect, OthersClip, OthersShow
<1>1. CaptureFlags'
  BY Zenon DEF CaptureInv, CaptureFlags
<1>2. CaptureRects'
  BY DEF CaptureInv, CaptureRects, Others
<1>3. CaptureCounters'
  BY HideAssumption
     DEF CaptureInv, CaptureCounters, ShownWhenReleased, HideCursor, ShowCursor
<1>4. ShownWhenReleased'
  BY DEF CaptureInv, ShownWhenReleased, HideCursor, ShowCursor
<1>5. FreeWhenReleased'
  BY RectAssumption DEF CaptureInv, CaptureRects, FreeWhenReleased, Others
<1> QED
  BY <1>1, <1>2, <1>3, <1>4, <1>5 DEF CaptureInv

LEMMA CaptureAlways == CaptureSpec => []CaptureInv
BY CaptureInitInv, CaptureStepInv, PTL DEF CaptureSpec

\* The display counter is what others made of it, less what a capture under way
\* has taken from it, whatever calls come in whatever order.
THEOREM CursorBalancedHolds == CaptureSpec => []CursorBalanced
BY CaptureAlways, CaptureInvImplies, PTL

\* The cursor of a released capture is not left confined by this program.
THEOREM FreeWhenReleasedHolds == CaptureSpec => []FreeWhenReleased
<1>1. CaptureInv => FreeWhenReleased
  BY DEF CaptureInv
<1> QED
  BY <1>1, CaptureAlways, PTL

\* The capture keeps its types.
THEOREM CaptureTypeCorrect == CaptureSpec => []CaptureTypeOK
BY CaptureAlways, CaptureInvImplies, PTL

-----------------------------------------------------------------------------
(* Settings.  Between its change and its return a command finds memory as   *)
(* the newest change left it, and nobody changes it while a save is under   *)
(* way; so each save that succeeds writes the newest value.                 *)

Quiet == ~up => \A c \in Commands : doing[c] = "idle"
NewestInMemory == \A c \in Commands : doing[c] # "idle" => memory.change = changes
SavesMemory == \A c \in Savers : temp[c] = memory

\* The types, the flags of which are for another prover.
SettingsFlags == up \in BOOLEAN /\ unsaved \in BOOLEAN
SettingsValues ==
  /\ memory \in AppSettings
  /\ disk \in AppSettings \cup {NoFile, Unreadable}
  /\ temp \in [Commands -> AppSettings]
  /\ doing \in [Commands -> {"idle", "changed", "saving", "written"}]
  /\ changes \in 0..MaxChanges /\ acked \in 0..changes
  /\ deaths \in 0..MaxDeaths

SettingsInv ==
  /\ SettingsFlags /\ SettingsValues
  /\ Quiet /\ NewestInMemory /\ SavesMemory /\ AckedIsDurable /\ MemoryIsSaved

LEMMA SettingsInvTypes == SettingsInv => SettingsTypeOK
BY Zenon DEF SettingsInv, SettingsFlags, SettingsValues, SettingsTypeOK

\* The defaults and the settings of an earlier version are settings.
LEMMA KnownSettings == Default \in AppSettings /\ Old \in AppSettings
BY DEF Default, Old, AppSettings, Passwords

\* Protecting the password leaves settings of the same change.
LEMMA ProtectKeeps ==
  ASSUME NEW s \in AppSettings, NEW t \in Protect(s)
  PROVE  t \in AppSettings /\ t.change = s.change
BY DEF Protect, AppSettings, Passwords

LEMMA SettingsInitInv == SettingsInit => SettingsInv
<1> SUFFICES ASSUME SettingsInit PROVE SettingsInv
  OBVIOUS
<1>1. SettingsFlags
  BY Zenon DEF SettingsInit, SettingsFlags
<1>2. SettingsValues
  BY BoundsAssumption, KnownSettings DEF SettingsInit, SettingsValues, None
<1>3. Quiet /\ NewestInMemory /\ SavesMemory /\ AckedIsDurable /\ MemoryIsSaved
  BY DEF SettingsInit, Quiet, NewestInMemory, SavesMemory, AckedIsDurable, MemoryIsSaved,
         Savers
<1> QED
  BY <1>1, <1>2, <1>3 DEF SettingsInv

LEMMA SettingsStepInv == SettingsInv /\ [SettingsNext]_settingsVars => SettingsInv'
<1> SUFFICES ASSUME SettingsInv, [SettingsNext]_settingsVars PROVE SettingsInv'
  OBVIOUS
<1> USE DEF SettingsInv
<1>1. CASE StartLoaded
  <2> USE <1>1 DEF StartLoaded
  <2>1. /\ disk \in AppSettings /\ disk' \in AppSettings /\ memory' \in AppSettings
        /\ disk'.change = disk.change
    BY ProtectKeeps DEF SettingsValues
  <2>2. SettingsFlags'
    BY Zenon DEF SettingsFlags
  <2>3. SettingsValues'
    BY <2>1 DEF SettingsValues
  <2>4. Quiet' /\ NewestInMemory' /\ SavesMemory'
    BY DEF Quiet, NewestInMemory, SavesMemory, Savers
  <2>5. AckedIsDurable'
    BY <2>1, FilesAssumption DEF AckedIsDurable
  <2>6. MemoryIsSaved'
    BY DEF MemoryIsSaved
  <2> QED
    BY <2>2, <2>3, <2>4, <2>5, <2>6
<1>10. CASE StartDefault
  <2> USE <1>10 DEF StartDefault
  <2>1. SettingsFlags'
    BY Zenon DEF SettingsFlags
  <2>2. SettingsValues'
    BY KnownSettings DEF SettingsValues
  <2>3. Quiet' /\ NewestInMemory' /\ SavesMemory' /\ AckedIsDurable'
    BY DEF Quiet, NewestInMemory, SavesMemory, Savers, AckedIsDurable
  <2>4. MemoryIsSaved'
    BY DEF MemoryIsSaved, Default
  <2> QED
    BY <2>1, <2>2, <2>3, <2>4
<1>2. CASE Die
  <2> USE <1>2 DEF Die
  <2>1. SettingsFlags'
    BY Zenon DEF SettingsFlags
  <2>2. SettingsValues'
    BY BoundsAssumption DEF SettingsValues, None, Default, AppSettings, Passwords
  <2>3. Quiet' /\ NewestInMemory' /\ SavesMemory' /\ AckedIsDurable' /\ MemoryIsSaved'
    BY DEF Quiet, NewestInMemory, SavesMemory, Savers, AckedIsDurable, MemoryIsSaved
  <2> QED
    BY <2>1, <2>2, <2>3
<1>3. ASSUME NEW c \in Commands, NEW s \in AppSettings, Update(c, s) PROVE SettingsInv'
  <2> USE <1>3 DEF Update, CanWrite
  <2>1. SettingsFlags'
    BY Zenon DEF SettingsFlags
  <2>2. SettingsValues'
    BY BoundsAssumption DEF SettingsValues, AppSettings
  <2>3. Quiet' /\ NewestInMemory' /\ SavesMemory'
    BY DEF Quiet, NewestInMemory, SavesMemory, Savers, SettingsValues, AppSettings
  <2>4. AckedIsDurable' /\ MemoryIsSaved'
    BY DEF AckedIsDurable, MemoryIsSaved, SettingsValues
  <2> QED
    BY <2>1, <2>2, <2>3, <2>4
<1>4. ASSUME NEW c \in Commands, SaveBegins(c) \/ TempWritten(c) PROVE SettingsInv'
  <2> USE <1>4 DEF SaveBegins, TempWritten
  <2>1. SettingsFlags'
    BY Zenon DEF SettingsFlags
  <2>2. SettingsValues'
    BY DEF SettingsValues
  <2>3. Quiet' /\ NewestInMemory' /\ SavesMemory'
    BY DEF Quiet, NewestInMemory, SavesMemory, Savers, SettingsValues
  <2>4. AckedIsDurable' /\ MemoryIsSaved'
    BY DEF AckedIsDurable, MemoryIsSaved, SettingsValues
  <2> QED
    BY <2>1, <2>2, <2>3, <2>4
<1>5. ASSUME NEW c \in Commands, Persisted(c) PROVE SettingsInv'
  <2> USE <1>5 DEF Persisted, Returns
  <2>1. temp[c] = memory /\ memory.change = changes
    BY DEF SavesMemory, NewestInMemory, Savers
  <2>2. SettingsFlags'
    BY Zenon DEF SettingsFlags
  <2>3. acked' = changes
    BY <2>1 DEF SettingsValues, Newer
  <2>4. SettingsValues'
    BY <2>3, BoundsAssumption DEF SettingsValues, None, Default, AppSettings, Passwords
  <2>5. Quiet' /\ NewestInMemory' /\ SavesMemory'
    BY DEF Quiet, NewestInMemory, SavesMemory, Savers, SettingsValues
  <2>6. AckedIsDurable' /\ MemoryIsSaved'
    BY <2>1, <2>3, FilesAssumption DEF AckedIsDurable, MemoryIsSaved, SettingsValues
  <2> QED
    BY <2>2, <2>4, <2>5, <2>6
<1>6. ASSUME NEW c \in Commands, SaveFails(c) PROVE SettingsInv'
  <2> USE <1>6 DEF SaveFails, Returns
  <2>1. SettingsFlags'
    BY Zenon DEF SettingsFlags
  <2>2. SettingsValues'
    BY DEF SettingsValues, None, Default, AppSettings, Passwords
  <2>3. Quiet' /\ NewestInMemory' /\ SavesMemory'
    BY DEF Quiet, NewestInMemory, SavesMemory, Savers, SettingsValues
  <2>4. AckedIsDurable' /\ MemoryIsSaved'
    BY DEF AckedIsDurable, MemoryIsSaved, SettingsValues
  <2> QED
    BY <2>1, <2>2, <2>3, <2>4
<1>7. ASSUME NEW c \in Commands, CmdSetSettings(c) PROVE SettingsInv'
  BY <1>3, <1>7 DEF CmdSetSettings, AppSettings
<1>8. ASSUME NEW c \in Commands, CmdGameMouseToggle(c) PROVE SettingsInv'
  BY <1>3, <1>8 DEF CmdGameMouseToggle, AppSettings, SettingsValues
<1>9. CASE UNCHANGED settingsVars
  <2> USE <1>9 DEF settingsVars
  <2>1. SettingsFlags'
    BY Zenon DEF SettingsFlags
  <2>2. SettingsValues'
    BY DEF SettingsValues
  <2>3. Quiet' /\ NewestInMemory' /\ SavesMemory' /\ AckedIsDurable' /\ MemoryIsSaved'
    BY DEF Quiet, NewestInMemory, SavesMemory, Savers, AckedIsDurable, MemoryIsSaved
  <2> QED
    BY <2>1, <2>2, <2>3
<1> HIDE DEF SettingsInv
<1> QED
  BY <1>1, <1>2, <1>4, <1>5, <1>6, <1>7, <1>8, <1>9, <1>10 DEF SettingsNext, Command

LEMMA SettingsAlways == SettingsSpec => []SettingsInv
BY SettingsInitInv, SettingsStepInv, PTL DEF SettingsSpec

\* An acknowledged change is on disk, or a later one is, for any number of
\* commands, changes and deaths of the process.
THEOREM AckedIsDurableHolds == SettingsSpec => []AckedIsDurable
<1>1. SettingsInv => AckedIsDurable
  BY DEF SettingsInv
<1> QED
  BY <1>1, SettingsAlways, PTL

\* With no command under way and no failed save, a new start finds what memory
\* holds.
THEOREM MemoryIsSavedHolds == SettingsSpec => []MemoryIsSaved
<1>1. SettingsInv => MemoryIsSaved
  BY DEF SettingsInv
<1> QED
  BY <1>1, SettingsAlways, PTL

\* The settings, their file and the commands keep their types.
THEOREM SettingsTypeCorrect == SettingsSpec => []SettingsTypeOK
BY SettingsAlways, SettingsInvTypes, PTL

-----------------------------------------------------------------------------
(* Launcher.  Each launch that is under way or failed holds a reference on  *)
(* the multithreaded apartment, and a host in the single-threaded one keeps *)
(* the thread there.                                                        *)

Holding == {l \in Launches : stage[l] \in UnderWay \cup Failed}
RefsHeld == refs = Cardinality(Holding)
StaKept == "sta" \in hosts => apartment = "sta"
UndeletedEnded == \A l \in undeleted : stage[l] \in {"timedOut", "started"}

LauncherInv ==
  /\ LauncherTypeOK /\ RefsHeld /\ StaKept /\ UndeletedEnded
  /\ TasksAccounted /\ HostsInSta

LEMMA HoldingFinite == IsFiniteSet(Holding) /\ Cardinality(Holding) \in Nat
BY LaunchesAssumption, FS_Subset, FS_CardinalityType DEF Holding

LEMMA LauncherInitInv == LauncherInit => LauncherInv
<1> SUFFICES ASSUME LauncherInit PROVE LauncherInv
  OBVIOUS
<1>1. Holding = {}
  BY DEF LauncherInit, Holding, UnderWay, Failed
<1>2. RefsHeld
  BY <1>1, FS_EmptySet DEF LauncherInit, RefsHeld
<1>3. LauncherTypeOK /\ StaKept /\ UndeletedEnded /\ TasksAccounted /\ HostsInSta
  BY DEF LauncherInit, LauncherTypeOK, StaKept, UndeletedEnded, TasksAccounted, HostsInSta, Stages, UnderWay
<1> QED
  BY <1>2, <1>3 DEF LauncherInv

\* A launch that gets a reference, or gives it back.
LEMMA HoldingGrows ==
  ASSUME LauncherInv, NEW l \in Launches, stage[l] = "new",
         NEW s \in UnderWay \cup Failed, To(l, s), EnterMta
  PROVE  RefsHeld'
<1>1. Holding' = Holding \cup {l} /\ l \notin Holding
  BY DEF Holding, To, LauncherInv, LauncherTypeOK, UnderWay, Failed
<1> QED
  BY <1>1, HoldingFinite, FS_AddElement DEF RefsHeld, EnterMta, LauncherInv

LEMMA HoldingShrinks ==
  ASSUME LauncherInv, NEW l \in Launches, stage[l] = "polling", To(l, "started"), LeaveMta
  PROVE  RefsHeld' /\ refs > 0
<1>1. Holding' = Holding \ {l} /\ l \in Holding
  BY DEF Holding, To, LauncherInv, LauncherTypeOK, UnderWay, Failed
<1>2. Holding # {}
  BY <1>1
<1>3. Cardinality(Holding) > 0
  BY <1>2, HoldingFinite, FS_EmptySet
<1> QED
  BY <1>1, <1>3, HoldingFinite, FS_RemoveElement DEF RefsHeld, LeaveMta, LauncherInv

\* Holding a reference through a step changes nothing.
LEMMA HoldingStays ==
  ASSUME LauncherInv, NEW l \in Launches, stage[l] \in UnderWay,
         NEW s \in UnderWay \cup Failed, To(l, s), UNCHANGED refs
  PROVE  RefsHeld'
<1>1. Holding' = Holding
  BY DEF Holding, To, LauncherInv, LauncherTypeOK, UnderWay, Failed
<1> QED
  BY <1>1 DEF RefsHeld, LauncherInv

\* A failed launch stays failed, which is all HostsInSta asks of a step that
\* creates no host.
LEMMA HostsInStaStays ==
  ASSUME LauncherInv, UNCHANGED hosts, NEW l \in Launches, stage[l] \notin Failed,
         NEW s \in Stages, To(l, s)
  PROVE  HostsInSta'
BY DEF HostsInSta, LauncherInv, LauncherTypeOK, To

\* A launch under way has its task; where it goes, the task is kept or deleted.
LEMMA TasksFollow ==
  ASSUME LauncherInv, NEW l \in Launches, stage[l] \in UnderWay, NEW s \in Stages, To(l, s),
         \/ s = "abandoned" /\ UNCHANGED <<tasks, undeleted>>
         \/ s \in {"timedOut", "started"} /\ DeleteTask(l)
  PROVE  UndeletedEnded' /\ TasksAccounted'
<1>1. /\ l \in tasks /\ l \notin undeleted /\ stage'[l] = s
      /\ \A m \in Launches : m # l => stage'[m] = stage[m]
      /\ tasks = {m \in Launches : stage[m] \in UnderWay \cup {"abandoned"}} \cup undeleted
  BY DEF LauncherInv, LauncherTypeOK, UndeletedEnded, TasksAccounted, To, UnderWay
<1>2. CASE s = "abandoned"
  BY <1>1, <1>2 DEF LauncherInv, LauncherTypeOK, UndeletedEnded, TasksAccounted, UnderWay
<1>3. CASE s \in {"timedOut", "started"} /\ DeleteTask(l)
  <2>1. UndeletedEnded'
    BY <1>1, <1>3 DEF LauncherInv, LauncherTypeOK, UndeletedEnded, DeleteTask
  <2>2. CASE tasks' = tasks \ {l} /\ UNCHANGED undeleted
    BY <1>1, <1>3, <2>1, <2>2 DEF TasksAccounted, UnderWay
  <2>3. CASE undeleted' = undeleted \cup {l} /\ UNCHANGED tasks
    BY <1>1, <1>3, <2>1, <2>3 DEF TasksAccounted, UnderWay
  <2> QED
    BY <1>3, <2>1, <2>2, <2>3 DEF DeleteTask
<1> QED
  BY <1>2, <1>3

LEMMA LauncherStepInv == LauncherInv /\ [LauncherNext]_launcherVars => LauncherInv'
<1> SUFFICES ASSUME LauncherInv, [LauncherNext]_launcherVars PROVE LauncherInv'
  OBVIOUS
<1> USE DEF LauncherInv
<1>1. CASE CreateHost
  <2> USE <1>1 DEF CreateHost
  <2>1. LauncherTypeOK' /\ StaKept' /\ UndeletedEnded' /\ TasksAccounted'
    BY DEF LauncherTypeOK, StaKept, UndeletedEnded, TasksAccounted
  <2>2. RefsHeld'
    BY DEF RefsHeld, Holding
  <2>3. apartment = "mta" => Holding # {}
    BY FS_EmptySet DEF LauncherTypeOK, RefsHeld
  <2>4. apartment = "mta" => \E l \in Launches : stage[l] \in Failed
    BY <2>3 DEF Holding, Free
  <2>5. HostsInSta'
    BY <2>4 DEF HostsInSta
  <2> QED
    BY <2>1, <2>2, <2>5
<1>2. ASSUME NEW l \in Launches, LaunchRefused(l) PROVE LauncherInv'
  <2> USE <1>2 DEF LaunchRefused
  <2>1. LauncherTypeOK' /\ StaKept' /\ UndeletedEnded' /\ TasksAccounted'
    BY DEF LauncherTypeOK, StaKept, UndeletedEnded, TasksAccounted, To, Stages, UnderWay
  <2>2. Holding' = Holding
    BY DEF Holding, To, LauncherTypeOK, UnderWay, Failed
  <2>3. RefsHeld'
    BY <2>2 DEF RefsHeld
  <2>4. HostsInSta'
    BY HostsInStaStays DEF Failed, Stages
  <2> QED
    BY <2>1, <2>3, <2>4
<1>3. ASSUME NEW l \in Launches, LaunchUnprepared(l) PROVE LauncherInv'
  <2> USE <1>3 DEF LaunchUnprepared
  <2>1. LauncherTypeOK' /\ StaKept' /\ UndeletedEnded' /\ TasksAccounted'
    BY DEF LauncherTypeOK, StaKept, UndeletedEnded, TasksAccounted, To, Stages, UnderWay, Failed, EnterMta
  <2>2. RefsHeld'
    BY HoldingGrows DEF Failed
  <2>3. HostsInSta'
    BY HostsInStaStays DEF Failed, Stages
  <2> QED
    BY <2>1, <2>2, <2>3
<1>4. ASSUME NEW l \in Launches, RegisterTask(l) PROVE LauncherInv'
  <2> USE <1>4 DEF RegisterTask
  <2>1. LauncherTypeOK' /\ StaKept' /\ UndeletedEnded' /\ TasksAccounted'
    BY DEF LauncherTypeOK, StaKept, UndeletedEnded, TasksAccounted, To, Stages, UnderWay, EnterMta
  <2>2. RefsHeld'
    BY HoldingGrows DEF UnderWay
  <2>3. HostsInSta'
    BY HostsInStaStays DEF Failed, UnderWay, Stages
  <2> QED
    BY <2>1, <2>2, <2>3
<1>5. ASSUME NEW l \in Launches, RunTask(l) PROVE LauncherInv'
  <2> USE <1>5 DEF RunTask
  <2>1. LauncherTypeOK' /\ StaKept' /\ UndeletedEnded' /\ TasksAccounted'
    BY DEF LauncherTypeOK, StaKept, UndeletedEnded, TasksAccounted, To, Stages, UnderWay
  <2>2. RefsHeld'
    BY HoldingStays DEF UnderWay
  <2>3. HostsInSta'
    BY HostsInStaStays DEF Failed, UnderWay, Stages
  <2> QED
    BY <2>1, <2>2, <2>3
<1>6. ASSUME NEW l \in Launches, LaunchAbandoned(l) \/ PollTimesOut(l) PROVE LauncherInv'
  <2> USE <1>6 DEF LaunchAbandoned, PollTimesOut, DeleteTask
  <2>1. LauncherTypeOK' /\ StaKept'
    BY DEF LauncherTypeOK, StaKept, To, Stages, UnderWay, Failed
  <2>4. UndeletedEnded' /\ TasksAccounted'
    <3>1. CASE LaunchAbandoned(l)
      BY <3>1, TasksFollow DEF LaunchAbandoned, UnderWay, Failed, Stages
    <3>2. CASE PollTimesOut(l)
      BY <3>2, TasksFollow DEF PollTimesOut, UnderWay, Failed, Stages
    <3> QED
      BY <3>1, <3>2
  <2>2. RefsHeld'
    BY HoldingStays DEF UnderWay, Failed
  <2>3. HostsInSta'
    BY HostsInStaStays DEF Failed, UnderWay, Stages
  <2> QED
    BY <2>1, <2>2, <2>3, <2>4
<1>7. ASSUME NEW l \in Launches, PollSucceeds(l) PROVE LauncherInv'
  <2> USE <1>7 DEF PollSucceeds, DeleteTask
  <2>1. RefsHeld' /\ refs > 0
    BY HoldingShrinks
  <2>2. LauncherTypeOK' /\ StaKept'
    BY <2>1 DEF LauncherTypeOK, StaKept, To, Stages, UnderWay, LeaveMta
  <2>3. HostsInSta'
    BY HostsInStaStays DEF Failed, Stages
  <2>4. UndeletedEnded' /\ TasksAccounted'
    BY TasksFollow DEF UnderWay, Stages
  <2> QED
    BY <2>1, <2>2, <2>3, <2>4
<1>8. ASSUME NEW l \in Launches, ProgramMoves(l) PROVE LauncherInv'
  BY <1>8 DEF ProgramMoves, LauncherTypeOK, StaKept, UndeletedEnded, TasksAccounted, HostsInSta, RefsHeld,
              Holding
<1>9. CASE UNCHANGED launcherVars
  BY <1>9 DEF launcherVars, LauncherTypeOK, StaKept, UndeletedEnded, TasksAccounted, HostsInSta, RefsHeld,
              Holding
<1> HIDE DEF LauncherInv
<1> QED
  BY <1>1, <1>2, <1>3, <1>4, <1>5, <1>6, <1>7, <1>8, <1>9 DEF LauncherNext, Launch

LEMMA LauncherAlways == LauncherSpec => []LauncherInv
BY LauncherInitInv, LauncherStepInv, PTL DEF LauncherSpec

\* Launches, tasks, references and apartments keep their types.
THEOREM LauncherTypeCorrect == LauncherSpec => []LauncherTypeOK
<1>1. LauncherInv => LauncherTypeOK
  BY DEF LauncherInv
<1> QED
  BY <1>1, LauncherAlways, PTL

\* A task is on the scheduler exactly while its launch is under way, after one that
\* ended with an error other than the timeout, or when DeleteTask failed.
THEOREM TasksAccountedHolds == LauncherSpec => []TasksAccounted
<1>1. LauncherInv => TasksAccounted
  BY DEF LauncherInv
<1> QED
  BY <1>1, LauncherAlways, PTL

\* An RDP host is created outside the single-threaded apartment only after a
\* launch that failed.
THEOREM HostsInStaHolds == LauncherSpec => []HostsInSta
<1>1. LauncherInv => HostsInSta
  BY DEF LauncherInv
<1> QED
  BY <1>1, LauncherAlways, PTL

\* Once a host lives in the single-threaded apartment no launch runs a program.
THEOREM HostBarsLaunchHolds == LauncherSpec => HostBarsLaunch
<1>1. LauncherInv /\ [LauncherNext]_launcherVars =>
        [\A l \in Launches : program[l] = "none" /\ program'[l] # "none" =>
           "sta" \notin hosts]_launcherVars
  <2> SUFFICES ASSUME LauncherInv, [LauncherNext]_launcherVars,
                      NEW l \in Launches, program[l] = "none", program'[l] # "none"
               PROVE  "sta" \notin hosts
    OBVIOUS
  <2>1. RunTask(l)
    BY DEF LauncherNext, Launch, launcherVars, CreateHost, ProgramMoves, LaunchRefused,
           LaunchUnprepared, RegisterTask, RunTask, LaunchAbandoned, PollTimesOut,
           PollSucceeds, LauncherInv, LauncherTypeOK
  <2>2. l \in Holding
    BY <2>1 DEF RunTask, Holding, UnderWay
  <2>3. refs > 0
    BY <2>2, HoldingFinite, FS_EmptySet DEF LauncherInv, RefsHeld
  <2> QED
    BY <2>3 DEF LauncherInv, LauncherTypeOK, StaKept
<1> QED
  BY <1>1, LauncherAlways, PTL DEF LauncherSpec, HostBarsLaunch

-----------------------------------------------------------------------------
(* EnvironmentFix.  What a run reported stays in the registry from the step *)
(* that wrote it, because every run writes the same values; and every start *)
(* of the service after that step loads it.                                 *)

FixFlags == public \in BOOLEAN /\ child \in BOOLEAN
FixValues ==
  /\ registry \in [dwords : [Dwords -> Nat \cup {Absent}], dll : Dlls]
  /\ loaded \in [Dwords -> Nat \cup {Absent}]
  /\ port \in PortNumbers /\ rules \subseteq Nat
  /\ service \in {"running", "stopping", "stopped", "starting"}
  /\ failures \in 0..MaxFailures
FixRuns ==
  /\ at \in [Fixers -> Order]
  /\ failed \in [Fixers -> SUBSET Steps]

PastDeny == Order \ {"hook", "deny"}
PastSingle == PastDeny \ {"single"}
PastRcm == PastSingle \ {"rcm"}
PastSecurity == PastRcm \ {"security"}
PastFirewall == PastSecurity \ {"firewall"}

DenyStored ==
  \A f \in Fixers : at[f] \in PastDeny /\ Reported(f, "deny") =>
    registry.dwords["fDenyTSConnections"] = 0
SingleStored ==
  \A f \in Fixers : at[f] \in PastSingle /\ Reported(f, "single") =>
    registry.dwords["fSingleSessionPerUser"] = 0
RcmStored ==
  \A f \in Fixers : at[f] \in PastRcm /\ Reported(f, "rcm") =>
    registry.dwords["StartRCM"] = 1
SecurityStored ==
  \A f \in Fixers : at[f] \in PastSecurity /\ Reported(f, "security") =>
    \A n \in Security : registry.dwords[n] = Written[n]
Stored == DenyStored /\ SingleStored /\ RcmStored /\ SecurityStored

Loaded ==
  \A f \in Fixers :
    at[f] \in {"waitRunning", "child", "done"} /\ Reported(f, "restart") =>
      /\ Reported(f, "security") => \A n \in Security : loaded[n] = Written[n]
      /\ Reported(f, "rcm") => loaded["StartRCM"] = 1
Blocked ==
  \A f \in Fixers : at[f] \in PastFirewall /\ Reported(f, "firewall") =>
    ConfiguredPort \in rules
ChildEnabled ==
  \A f \in Fixers : at[f] = "done" /\ Reported(f, "child") => child

FixInv ==
  /\ FixFlags /\ FixValues /\ FixRuns
  /\ Stored /\ Loaded /\ Blocked /\ ChildEnabled /\ DownIsReported

LEMMA DwordsAre ==
  /\ Dwords = {"fDenyTSConnections", "fSingleSessionPerUser", "StartRCM",
               "SecurityLayer", "MinEncryptionLevel", "UserAuthentication"}
  /\ Security \subseteq Dwords
  /\ \A n \in Dwords : Written[n] \in Nat
  /\ Written["fDenyTSConnections"] = 0 /\ Written["fSingleSessionPerUser"] = 0
  /\ Written["StartRCM"] = 1
BY DEF Dwords, Written, Security

LEMMA FixInvTypes == FixInv => FixTypeOK
BY Zenon DEF FixInv, FixFlags, FixValues, FixRuns, FixTypeOK

\* The port the core takes for the listener's is the one the rule blocks.
LEMMA SamePort ==
  ASSUME port \in Nat \cup {Absent}, IsPort
  PROVE  ListenerPort = ConfiguredPort
BY DEF IsPort, ListenerPort, ConfiguredPort

LEMMA FixInvEffective == FixInv => ReportedIsEffective
<1> SUFFICES ASSUME FixInv, NEW f \in Fixers, NEW step \in Steps \ {"hook"},
                    Behind(f, step), Reported(f, step)
             PROVE  InForce(f, step)
  BY DEF ReportedIsEffective
<1>1. /\ at[f] \in {"child", "done"} /\ (step = "child" => at[f] = "done")
      /\ at[f] \in PastDeny \cap PastSingle \cap PastRcm \cap PastSecurity \cap PastFirewall
  BY DEF Behind, PastDeny, PastSingle, PastRcm, PastSecurity, PastFirewall, Order
<1>2. /\ step = "deny" => CheckRdpEnabled
      /\ step = "single" => CheckMultiSession
      /\ step = "rcm" => CheckStartRcm
      /\ step = "security" => \A n \in Security : registry.dwords[n] = Written[n]
  BY <1>1 DEF FixInv, Stored, DenyStored, SingleStored, RcmStored, SecurityStored,
              CheckRdpEnabled, CheckMultiSession, CheckStartRcm
<1>3. step = "restart" =>
        /\ Reported(f, "security") => \A n \in Security : loaded[n] = Written[n]
        /\ Reported(f, "rcm") => loaded.StartRCM = Written.StartRCM
  BY <1>1, DwordsAre DEF FixInv, Loaded
<1>4. step = "child" => CheckChildSessions
  BY Zenon, <1>1 DEF FixInv, ChildEnabled, CheckChildSessions
<1>5. step = "firewall" => ConfiguredPort \in rules
  BY <1>1 DEF FixInv, Blocked
<1>6. step = "firewall" => (IsPort => ListenerPort \in rules)
  BY <1>5, SamePort, PortNumbersAssumption DEF FixInv, FixValues
<1>7. step = "firewall" => (~public => CheckFirewallLoopbackRule)
  BY <1>5 DEF CheckFirewallLoopbackRule
<1>8. step # "hook"
  OBVIOUS
<1> QED
  BY Zenon, <1>2, <1>3, <1>4, <1>6, <1>7, <1>8 DEF InForce

LEMMA FixInitInv == FixInit => FixInv
<1> SUFFICES ASSUME FixInit PROVE FixInv
  OBVIOUS
<1>1. FixFlags
  BY Zenon DEF FixInit, FixFlags
<1>2. FixValues
  <2>1. Fresh \in [Dwords -> Nat \cup {Absent}] /\ Written \in [Dwords -> Nat \cup {Absent}]
    BY DwordsAre DEF Fresh, Written
  <2>2. registry \in [dwords : [Dwords -> Nat \cup {Absent}], dll : Dlls]
    BY <2>1 DEF FixInit, Registries
  <2>3. loaded \in [Dwords -> Nat \cup {Absent}]
    BY <2>2 DEF FixInit
  <2> QED
    BY <2>2, <2>3, MaxFailuresAssumption DEF FixInit, FixValues
<1>3. FixRuns
  BY DEF FixInit, FixRuns, Order, Restart
<1>4. Stored /\ Loaded /\ Blocked /\ ChildEnabled
  BY DEF FixInit, Stored, DenyStored, SingleStored, RcmStored, SecurityStored, Loaded,
         Blocked, ChildEnabled, PastDeny, PastSingle, PastRcm, PastSecurity, PastFirewall
<1>5. DownIsReported
  BY DEF FixInit, DownIsReported, Restarted
<1> QED
  BY <1>1, <1>2, <1>3, <1>4, <1>5 DEF FixInv

\* What a store leaves behind.
LEMMA StoreGives ==
  ASSUME FixValues, NEW names \in SUBSET Dwords, Store(names)
  PROVE  /\ registry' \in [dwords : [Dwords -> Nat \cup {Absent}], dll : Dlls]
         /\ \A n \in Dwords : registry'.dwords[n] =
              IF n \in names THEN Written[n] ELSE registry.dwords[n]
<1> DEFINE values == [n \in Dwords |-> IF n \in names THEN Written[n] ELSE registry.dwords[n]]
<1>1. registry' = [registry EXCEPT !.dwords = values]
  BY DEF Store
<1>2. values \in [Dwords -> Nat \cup {Absent}]
  BY DwordsAre DEF FixValues
<1> HIDE DEF values
<1>3. registry' \in [dwords : [Dwords -> Nat \cup {Absent}], dll : Dlls] /\ registry'.dwords = values
  BY <1>1, <1>2 DEF FixValues
<1> QED
  BY <1>3 DEF values

\* A run leaves a step: the others stay where they are, and no report of a
\* failure is taken back.
Moved(f, next) ==
  /\ at' = [at EXCEPT ![f] = next]
  /\ failed' \in [Fixers -> SUBSET Steps]
  /\ failures' \in 0..MaxFailures
  /\ \A g \in Fixers, s \in Steps : Reported(g, s)' => Reported(g, s)

LEMMA LeavesStep ==
  ASSUME FixRuns, failures \in 0..MaxFailures, NEW f \in Fixers,
         NEW step \in Steps, NEW next \in Order
  PROVE  /\ Succeeds(f, next) => Moved(f, next)
         /\ Fails(f, step, next) => Moved(f, next) /\ ~Reported(f, step)'
         /\ Moved(f, next) => FixRuns'
<1>1. Succeeds(f, next) => Moved(f, next)
  BY DEF Succeeds, Moved, FixRuns, Reported
<1>2. Fails(f, step, next) => failures' \in 0..MaxFailures
  BY MaxFailuresAssumption DEF Fails
<1>3. Fails(f, step, next) => /\ failed' \in [Fixers -> SUBSET Steps]
                              /\ \A g \in Fixers : failed[g] \subseteq failed'[g]
                              /\ step \in failed'[f]
  BY DEF Fails, FixRuns
<1>4. Fails(f, step, next) => Moved(f, next) /\ ~Reported(f, step)'
  BY <1>2, <1>3 DEF Moved, Reported, Fails
<1>5. Moved(f, next) => FixRuns'
  BY DEF Moved, FixRuns
<1> QED
  BY <1>1, <1>4, <1>5

\* DownIsReported survives a step that stops no service, and ends no restart
\* without a report or a running service.
LEMMA DownStays ==
  ASSUME FixInv, NEW f \in Fixers, NEW next \in Order, Moved(f, next),
         service' = service,
         \/ at[f] \notin Restart \ {"stop"} /\ next \notin {"child", "done"}
         \/ at[f] = "child" /\ next = "done"
         \/ next \in Restart \ {"stop"}
         \/ ~Reported(f, "restart")'
         \/ service = "running"
  PROVE  DownIsReported'
BY DEF FixInv, FixRuns, Moved, DownIsReported, Restarting, Restarted,
       CheckTermServiceRunning, Restart, Steps, Reported, Order

\* The steps up to the security layer touch the registry alone.
LEMMA RegistryStep ==
  ASSUME FixInv, FixValues', NEW f \in Fixers, Moved(f, at'[f]),
         at[f] \in {"hook", "deny", "single", "rcm", "security"},
         at'[f] \in {"deny", "single", "rcm", "security", "firewall"},
         UNCHANGED <<loaded, port, rules, public, service, child>>
  PROVE  FixFlags' /\ FixRuns' /\ Loaded' /\ Blocked' /\ ChildEnabled' /\ DownIsReported'
<1> USE DEF FixInv
<1>1. FixFlags'
  BY Zenon DEF FixFlags
<1>2. FixRuns'
  BY DEF Moved, FixRuns, Order
<1>3. Loaded'
  BY DEF Moved, FixRuns, Loaded, Steps
<1>4. Blocked'
  <2>1. ConfiguredPort' = ConfiguredPort
    BY DEF ConfiguredPort
  <2> QED
    BY <2>1 DEF Moved, FixRuns, Blocked, Steps, PastFirewall, PastSecurity, PastRcm,
                PastSingle, PastDeny
<1>5. ChildEnabled'
  BY DEF Moved, FixRuns, ChildEnabled, Steps
<1>6. DownIsReported'
  BY DownStays DEF Order, Restart
<1> QED
  BY <1>1, <1>2, <1>3, <1>4, <1>5, <1>6

\* Writing what the fixes write takes back nothing that was stored.
LEMMA StoreKeeps ==
  ASSUME FixInv, NEW f \in Fixers, Moved(f, at'[f]),
         at[f] \in {"hook", "deny", "single", "rcm", "security"},
         \/ at[f] = "hook" /\ at'[f] = "deny"
         \/ at[f] = "deny" /\ at'[f] = "single"
         \/ at[f] = "single" /\ at'[f] = "rcm"
         \/ at[f] = "rcm" /\ at'[f] = "security"
         \/ at[f] = "security" /\ at'[f] = "firewall",
         \A n \in Dwords : registry'.dwords[n] \in {registry.dwords[n], Written[n]},
         at[f] = "deny" /\ Reported(f, "deny")' =>
           registry'.dwords["fDenyTSConnections"] = 0,
         at[f] = "single" /\ Reported(f, "single")' =>
           registry'.dwords["fSingleSessionPerUser"] = 0,
         at[f] = "rcm" /\ Reported(f, "rcm")' => registry'.dwords["StartRCM"] = 1,
         at[f] = "security" /\ Reported(f, "security")' =>
           \A n \in Security : registry'.dwords[n] = Written[n]
  PROVE  Stored'
<1> USE DEF FixInv, Moved, FixRuns, Stored, Steps
<1>1. DenyStored'
  BY DwordsAre DEF DenyStored, PastDeny, Order
<1>2. SingleStored'
  BY DwordsAre DEF SingleStored, PastDeny, PastSingle, Order
<1>3. RcmStored'
  BY DwordsAre DEF RcmStored, PastDeny, PastSingle, PastRcm, Order
<1>4. SecurityStored'
  BY DwordsAre DEF SecurityStored, PastDeny, PastSingle, PastRcm, PastSecurity, Order
<1> QED
  BY <1>1, <1>2, <1>3, <1>4

\* A step of one value.
LEMMA SetDwordGives ==
  ASSUME FixInv, NEW f \in Fixers, NEW name \in Dwords,
         NEW step \in {"deny", "single", "rcm"}, NEW next \in {"single", "rcm", "security"},
         SetDword(f, step, name, next)
  PROVE  /\ FixValues' /\ Moved(f, next) /\ at[f] = step /\ at'[f] = next
         /\ \A n \in Dwords : registry'.dwords[n] \in {registry.dwords[n], Written[n]}
         /\ Reported(f, step)' => registry'.dwords[name] = Written[name]
         /\ UNCHANGED <<loaded, port, rules, public, service, child>>
<1> USE DEF SetDword, FixInv
<1>1. Moved(f, next) /\ (Fails(f, step, next) => ~Reported(f, step)')
  BY LeavesStep DEF FixValues, Steps, Order
<1>2. CASE Store({name}) /\ Succeeds(f, next)
  BY <1>1, <1>2, StoreGives DEF FixValues, FixRuns, Moved
<1>3. CASE UNCHANGED registry /\ Fails(f, step, next)
  BY <1>1, <1>3 DEF FixValues, FixRuns, Moved
<1> QED
  BY <1>2, <1>3

LEMMA PortsAreNumbers == FixValues => ConfiguredPort \in Nat
BY PortNumbersAssumption DEF FixValues, ConfiguredPort

\* The steps from the firewall on leave the values as they are.
LEMMA StoredStays ==
  ASSUME FixInv, NEW f \in Fixers, Moved(f, at'[f]), UNCHANGED registry,
         at[f] \in PastSecurity
  PROVE  Stored'
BY DEF FixInv, Moved, FixRuns, Stored, DenyStored, SingleStored, RcmStored, SecurityStored,
       Steps, PastSecurity, PastRcm, PastSingle, PastDeny

\* They keep what the firewall step reported, too, once it is behind them.
LEMMA BlockedStays ==
  ASSUME FixInv, NEW f \in Fixers, Moved(f, at'[f]), UNCHANGED <<port, rules>>,
         at[f] \in PastFirewall
  PROVE  Blocked'
<1>1. ConfiguredPort' = ConfiguredPort
  BY DEF ConfiguredPort
<1> QED
  BY <1>1 DEF FixInv, Moved, FixRuns, Blocked, Steps, PastFirewall, PastSecurity

LEMMA FirewallStep ==
  ASSUME FixInv, NEW f \in Fixers, FixEnsureFirewallLoopbackRule(f)
  PROVE  FixInv'
<1> USE DEF FixInv
<1>1. at[f] = "firewall" /\ UNCHANGED <<registry, loaded, port, service, child>>
  BY DEF FixEnsureFirewallLoopbackRule
<1>2. Moved(f, "stop") /\ at'[f] = "stop" /\ FixRuns'
  BY LeavesStep DEF FixEnsureFirewallLoopbackRule, FixValues, Steps, Order, Restart, Moved,
                    FixRuns
<1>3. FixFlags'
  BY Zenon, <1>1 DEF FixFlags, FixEnsureFirewallLoopbackRule
<1>4. rules' \in {rules, rules \cup {ConfiguredPort}}
  BY DEF FixEnsureFirewallLoopbackRule
<1>5. FixValues'
  BY <1>1, <1>2, <1>4, PortsAreNumbers DEF FixValues, Moved
<1>6. Stored'
  BY <1>1, <1>2, StoredStays DEF PastSecurity, PastRcm, PastSingle, PastDeny, Order
<1>7. Loaded' /\ ChildEnabled'
  <2>1. Loaded'
    BY <1>1, <1>2 DEF Loaded, Moved, FixRuns, Steps
  <2>2. ChildEnabled'
    BY <1>1, <1>2 DEF ChildEnabled, Moved, FixRuns, Steps
  <2> QED
    BY <2>1, <2>2
<1>8. Blocked'
  <2>1. ConfiguredPort' = ConfiguredPort
    BY <1>1 DEF ConfiguredPort
  <2>2. Reported(f, "firewall")' => ConfiguredPort \in rules'
    BY LeavesStep, <1>1 DEF FixEnsureFirewallLoopbackRule, FixValues, Steps, Order, Restart
  <2> QED
    BY <1>1, <1>2, <1>4, <2>1, <2>2
       DEF Blocked, Moved, FixRuns, Steps, PastFirewall, PastSecurity
<1>9. DownIsReported'
  BY <1>1, <1>2, DownStays DEF Order, Restart
<1> QED
  BY <1>2, <1>3, <1>5, <1>6, <1>7, <1>8, <1>9

\* The first step of each run, and the one of three values.
LEMMA HookAndSecuritySteps ==
  ASSUME FixInv, NEW f \in Fixers, FixDisableRdpWrapperHook(f) \/ FixSetSecurityLayer(f)
  PROVE  FixInv'
<1> USE DEF FixInv
<1>1. CASE FixDisableRdpWrapperHook(f)
  <2> USE <1>1
  <2>1. /\ at[f] = "hook" /\ UNCHANGED registry
        /\ UNCHANGED <<loaded, port, rules, public, service, child>>
    BY DEF FixDisableRdpWrapperHook, Queried
  <2>2. Moved(f, "deny") /\ at'[f] = "deny"
    BY LeavesStep DEF FixDisableRdpWrapperHook, FixValues, Steps, Order, Moved, FixRuns
  <2>3. FixValues'
    BY <2>1, <2>2 DEF FixValues, Moved
  <2>4. Stored'
    BY <2>1, <2>2, StoreKeeps
  <2> QED
    BY <2>1, <2>2, <2>3, <2>4, RegistryStep
<1>2. CASE FixSetSecurityLayer(f)
  <2> USE <1>2
  <2>1. at[f] = "security" /\ UNCHANGED <<loaded, port, rules, public, service, child>>
    BY DEF FixSetSecurityLayer
  <2>2. PICK names \in SUBSET Security :
          /\ Store(names)
          /\ IF names = Security THEN Succeeds(f, "firewall")
             ELSE Fails(f, "security", "firewall")
    BY DEF FixSetSecurityLayer
  <2>3. Moved(f, "firewall") /\ at'[f] = "firewall"
    BY <2>2, LeavesStep DEF FixValues, Steps, Order, Moved, FixRuns
  <2>4. /\ registry' \in [dwords : [Dwords -> Nat \cup {Absent}], dll : Dlls]
        /\ \A n \in Dwords : registry'.dwords[n] =
             IF n \in names THEN Written[n] ELSE registry.dwords[n]
    BY <2>2, StoreGives, DwordsAre
  <2>5. FixValues'
    BY <2>1, <2>3, <2>4 DEF FixValues, Moved
  <2>6. Reported(f, "security")' => names = Security
    BY <2>2, LeavesStep DEF FixValues, Steps, Order
  <2>7. Stored'
    BY <2>1, <2>3, <2>4, <2>6, StoreKeeps, DwordsAre
  <2> QED
    BY <2>1, <2>3, <2>5, <2>7, RegistryStep
<1> QED
  BY <1>1, <1>2

\* The restart, and the child sessions after it.
LEMMA RestartStep ==
  ASSUME FixInv, NEW f \in Fixers,
         StopService(f) \/ WaitStopped(f) \/ StartService(f) \/ WaitRunning(f)
  PROVE  FixInv'
<1> USE DEF FixInv
<1>1. /\ at[f] \in Restart /\ UNCHANGED <<registry, port, rules, public, child>>
      /\ service' \in {"running", "stopping", "stopped", "starting"}
      /\ loaded' \in {loaded, registry.dwords}
    BY DEF StopService, WaitStopped, StartService, WaitRunning, Restart, windowsVars,
           FixValues
<1>2. /\ Moved(f, at'[f])
      /\ at'[f] \in {"waitStopped", "start", "waitRunning", "child"}
      /\ at'[f] = "child" =>
           ~Reported(f, "restart")' \/ (at[f] = "waitRunning" /\ service = "running")
  <2>1. \/ \E next \in {"waitStopped", "start", "waitRunning"} : Succeeds(f, next)
        \/ Succeeds(f, "child") /\ at[f] = "waitRunning" /\ service = "running"
        \/ Fails(f, "restart", "child")
        \/ GivesUpRestart(f)
    BY DEF StopService, WaitStopped, StartService, WaitRunning
  <2>2. failures \in 0..MaxFailures
    BY DEF FixValues
  <2>3. ASSUME NEW next \in Order, Moved(f, next) PROVE at'[f] = next
    BY <2>3 DEF Moved, FixRuns
  <2>4. ASSUME NEW next \in {"waitStopped", "start", "waitRunning"}, Succeeds(f, next)
        PROVE  Moved(f, next) /\ at'[f] = next
    BY <2>2, <2>3, <2>4, LeavesStep DEF Order, Restart, Steps
  <2>5. ASSUME Succeeds(f, "child") PROVE Moved(f, "child") /\ at'[f] = "child"
    BY <2>2, <2>3, <2>5, LeavesStep DEF Order, Steps
  <2>6. ASSUME Fails(f, "restart", "child")
        PROVE  Moved(f, "child") /\ at'[f] = "child" /\ ~Reported(f, "restart")'
    BY <2>2, <2>3, <2>6, LeavesStep DEF Order, Steps
  <2>7. ASSUME GivesUpRestart(f)
        PROVE  Moved(f, "child") /\ at'[f] = "child" /\ ~Reported(f, "restart")'
    BY <2>2, <2>7 DEF GivesUpRestart, Moved, Reported, FixRuns, Steps
  <2>8. \E next \in {"waitStopped", "start", "waitRunning", "child"} :
          /\ Moved(f, next) /\ at'[f] = next
          /\ next = "child" =>
               ~Reported(f, "restart")' \/ (at[f] = "waitRunning" /\ service = "running")
    <3>1. CASE \E next \in {"waitStopped", "start", "waitRunning"} : Succeeds(f, next)
      BY <2>4, <3>1
    <3>2. CASE ~\E next \in {"waitStopped", "start", "waitRunning"} : Succeeds(f, next)
      BY <2>1, <2>5, <2>6, <2>7, <3>2
    <3> QED
      BY <3>1, <3>2
  <2>9. PICK next \in {"waitStopped", "start", "waitRunning", "child"} :
          /\ Moved(f, next) /\ at'[f] = next
          /\ next = "child" =>
               ~Reported(f, "restart")' \/ (at[f] = "waitRunning" /\ service = "running")
    BY <2>8
  <2>10. Moved(f, at'[f])
    BY <2>9 DEF Moved
  <2> QED
    BY <2>9, <2>10
<1>3. FixRuns'
  BY <1>2, LeavesStep DEF FixValues, Order, Restart, Steps
<1>4. FixFlags'
  BY Zenon, <1>1 DEF FixFlags
<1>5. FixValues'
  BY <1>1, <1>2 DEF FixValues, Moved
<1>6. Stored'
  BY <1>1, <1>2, StoredStays DEF PastSecurity, PastRcm, PastSingle, PastDeny, Order, Restart
<1>7. Loaded'
  <2>1. \/ loaded' = loaded /\ at'[f] # "waitRunning"
        \/ loaded' = registry'.dwords
    <3>1. CASE StartService(f)
      BY <1>1, <3>1 DEF StartService, Fails, GivesUpRestart, FixRuns
    <3>2. CASE StopService(f) \/ WaitStopped(f) \/ WaitRunning(f)
      BY <3>2 DEF StopService, WaitStopped, WaitRunning, Fails, Succeeds, GivesUpRestart,
                  FixRuns, windowsVars
    <3> QED
      BY <3>1, <3>2
  <2>2. CASE loaded' = loaded /\ at'[f] # "waitRunning"
    BY <1>1, <1>2, <2>2 DEF Loaded, Moved, FixRuns, Steps
  <2>3. CASE loaded' = registry'.dwords
    BY <1>3, <1>6, <2>3 DEF Loaded, Stored, RcmStored, SecurityStored, PastSecurity, PastRcm,
                            PastSingle, PastDeny, Order, Restart
  <2> QED
    BY <2>1, <2>2, <2>3
<1>8. Blocked'
  BY <1>1, <1>2, BlockedStays
     DEF PastFirewall, PastSecurity, PastRcm, PastSingle, PastDeny, Order, Restart
<1>9. ChildEnabled'
  BY <1>1, <1>2 DEF ChildEnabled, Moved, FixRuns, Steps
<1>10. DownIsReported'
  <2>1. CASE service' = service
    BY <1>1, <1>2, <2>1, DownStays DEF Order, Restart
  <2>2. CASE service' # service
    <3>1. at'[f] \in Restart \ {"stop"}
      BY <1>2, <2>2 DEF StopService, WaitStopped, StartService, WaitRunning, windowsVars,
                        Fails, Succeeds, GivesUpRestart, FixRuns, Restart
    <3> QED
      BY <3>1 DEF DownIsReported, Restarting
  <2> QED
    BY <2>1, <2>2
<1> QED
  BY <1>3, <1>4, <1>5, <1>6, <1>7, <1>8, <1>9, <1>10

LEMMA ChildStep ==
  ASSUME FixInv, NEW f \in Fixers, FixEnableChildSessions(f)
  PROVE  FixInv'
<1> USE DEF FixInv
<1>1. at[f] = "child" /\ UNCHANGED <<registry, loaded, port, rules, public, service>>
  BY DEF FixEnableChildSessions
<1>2. Moved(f, "done") /\ at'[f] = "done" /\ FixRuns'
  BY LeavesStep DEF FixEnableChildSessions, FixValues, Steps, Order, Moved, FixRuns
<1>3. FixFlags'
  BY Zenon DEF FixFlags, FixEnableChildSessions
<1>4. FixValues'
  BY <1>1, <1>2 DEF FixValues, Moved
<1>5. Stored'
  BY <1>1, <1>2, StoredStays DEF PastSecurity, PastRcm, PastSingle, PastDeny, Order
<1>6. Loaded'
  BY <1>1, <1>2 DEF Loaded, Moved, FixRuns, Steps
<1>7. Blocked'
  BY <1>1, <1>2, BlockedStays
     DEF PastFirewall, PastSecurity, PastRcm, PastSingle, PastDeny, Order
<1>8. ChildEnabled'
  <2>1. Fails(f, "child", "done") => ~Reported(f, "child")'
    BY LeavesStep DEF FixValues, Steps, Order
  <2>4. child' \/ ((child' <=> child) /\ ~Reported(f, "child")')
    BY Zenon, <2>1 DEF FixEnableChildSessions
  <2>2. \A g \in Fixers : g # f => at'[g] = at[g]
    BY <1>2 DEF Moved, FixRuns
  <2>3. \A g \in Fixers : Reported(g, "child")' => Reported(g, "child")
    BY <1>2 DEF Moved, Steps
  <2> QED
    BY Zenon, <2>2, <2>3, <2>4 DEF ChildEnabled
<1>9. DownIsReported'
  BY <1>1, <1>2, DownStays DEF Order, Restart
<1> QED
  BY <1>2, <1>3, <1>4, <1>5, <1>6, <1>7, <1>8, <1>9

\* The service manager's own steps, and none.
LEMMA RestingStep ==
  ASSUME FixInv, ServiceMoves \/ UNCHANGED fixVars
  PROVE  FixInv'
<1> USE DEF FixInv
<1>1. UNCHANGED <<registry, loaded, port, rules, public, child, at, failed, failures>>
  BY DEF ServiceMoves, fixVars, windowsVars
<1>2. /\ service' \in {"running", "stopping", "stopped", "starting"}
      /\ service = "running" => service' = "running"
  BY DEF ServiceMoves, fixVars, windowsVars, FixValues
<1>3. FixFlags'
  BY Zenon, <1>1 DEF FixFlags
<1>4. FixValues' /\ FixRuns'
  BY <1>1, <1>2 DEF FixValues, FixRuns
<1>5. Stored' /\ Loaded'
  BY <1>1 DEF Stored, DenyStored, SingleStored, RcmStored, SecurityStored, Loaded, Reported
<1>6. Blocked'
  <2>1. ConfiguredPort' = ConfiguredPort
    BY <1>1 DEF ConfiguredPort
  <2> QED
    BY <1>1, <2>1 DEF Blocked, Reported
<1>7. ChildEnabled'
  BY Zenon, <1>1 DEF ChildEnabled, Reported
<1>8. DownIsReported'
  BY <1>1, <1>2 DEF DownIsReported, Restarting, Restarted, Reported, CheckTermServiceRunning
<1> QED
  BY <1>3, <1>4, <1>5, <1>6, <1>7, <1>8

LEMMA FixStepInv == FixInv /\ [FixNext]_fixVars => FixInv'
<1> SUFFICES ASSUME FixInv, [FixNext]_fixVars PROVE FixInv'
  OBVIOUS
<1>1. ASSUME NEW f \in Fixers, NEW step \in {"deny", "single", "rcm"}, NEW name \in Dwords,
             NEW next \in {"single", "rcm", "security"}, SetDword(f, step, name, next),
             \/ step = "deny" /\ next = "single" /\ name = "fDenyTSConnections"
             \/ step = "single" /\ next = "rcm" /\ name = "fSingleSessionPerUser"
             \/ step = "rcm" /\ next = "security" /\ name = "StartRCM"
      PROVE  FixInv'
  <2>1. /\ FixValues' /\ Moved(f, next) /\ at[f] = step /\ at'[f] = next
        /\ \A n \in Dwords : registry'.dwords[n] \in {registry.dwords[n], Written[n]}
        /\ Reported(f, step)' => registry'.dwords[name] = Written[name]
        /\ UNCHANGED <<loaded, port, rules, public, service, child>>
    BY <1>1, SetDwordGives
  <2>2. Stored'
    BY <1>1, <2>1, StoreKeeps, DwordsAre
  <2> QED
    BY <1>1, <2>1, <2>2, RegistryStep DEF FixInv
<1>2. ASSUME NEW f \in Fixers, \/ FixSetDenyTSConnections(f) \/ FixSetSingleSessionPerUser(f)
                               \/ FixSetStartRcm(f)
      PROVE  FixInv'
  BY <1>1, <1>2, DwordsAre
     DEF FixSetDenyTSConnections, FixSetSingleSessionPerUser, FixSetStartRcm
<1> QED
  BY <1>2, FirewallStep, HookAndSecuritySteps, RestartStep, ChildStep, RestingStep
     DEF FixNext, RunAllFixes

LEMMA FixAlways == FixSpec => []FixInv
BY FixInitInv, FixStepInv, PTL DEF FixSpec

\* The repair keeps its types.
THEOREM FixTypeCorrect == FixSpec => []FixTypeOK
BY FixAlways, FixInvTypes, PTL

\* What a run of the fixes reported as done is in force, but for the hook step, for
\* any number of runs at once and of failures.
THEOREM ReportedIsEffectiveHolds == FixSpec => []ReportedIsEffective
BY FixAlways, FixInvEffective, PTL

\* No run takes the service down without a report.
THEOREM DownIsReportedHolds == FixSpec => []DownIsReported
<1>1. FixInv => DownIsReported
  BY DEF FixInv
<1> QED
  BY <1>1, FixAlways, PTL

\* A service that is down while nobody restarts it stays down.
THEOREM StaysDownHolds == FixSpec => StaysDown
<1>1. FixInv /\ [FixNext]_fixVars => [Down => Down']_fixVars
  <2> SUFFICES ASSUME FixInv, FixNext, Down PROVE Down'
    BY DEF fixVars, windowsVars, Down, Restarting
  <2> USE DEF FixInv, FixRuns, Down, Restarting, Restart
  <2>1. ASSUME NEW f \in Fixers, RunAllFixes(f) PROVE Down'
    BY <2>1 DEF RunAllFixes, FixDisableRdpWrapperHook, FixSetDenyTSConnections,
                FixSetSingleSessionPerUser, FixSetStartRcm, SetDword, FixSetSecurityLayer,
                FixEnsureFirewallLoopbackRule, StopService, WaitStopped, StartService,
                WaitRunning, FixEnableChildSessions, Succeeds, Fails, GivesUpRestart
  <2>2. CASE ServiceMoves
    BY <2>2 DEF ServiceMoves
  <2> QED
    BY <2>1, <2>2 DEF FixNext
<1> QED
  BY <1>1, FixAlways, PTL DEF FixSpec, StaysDown

-----------------------------------------------------------------------------
(* LogWriter.  The clone's buffers are empty from the start and nobody      *)
(* fills them, so that the flusher has nothing to write, for ever.          *)

Sizes == MaxBufferLines \in Nat \ {0} /\ MaxLines \in Nat

LogFlags == flag \in [Writers -> BOOLEAN]
LogBuffers ==
  /\ buffers \in [Writers -> [Logs -> Seq(Lines)]]
  /\ \A p \in Logs : Len(buffers["handle"][p]) <= MaxBufferLines
LogOthers ==
  /\ flusher \in {"none", "asleep", "flushing", "last", "ended"}
  /\ todo \subseteq Logs
  /\ logged \in Seq(Logs)
CloneIsEmpty == \A p \in Logs : buffers["clone"][p] = <<>>
FilesAreEmpty == file = [p \in Logs |-> <<>>]

LogInv == LogFlags /\ LogBuffers /\ LogOthers /\ CloneIsEmpty /\ FilesAreEmpty

LEMMA LogInvTypes == ASSUME Sizes, LogInv PROVE LogTypeOK
<1>1. \A w \in Writers, p \in Logs : Len(buffers[w][p]) <= MaxBufferLines
  BY DEF Sizes, LogInv, LogBuffers, CloneIsEmpty, Writers
<1>2. file \in [Logs -> Seq(Lines)]
  BY DEF LogInv, FilesAreEmpty
<1> QED
  BY Zenon, <1>1, <1>2 DEF LogInv, LogFlags, LogBuffers, LogOthers, LogTypeOK

LEMMA LogInitInv == ASSUME Sizes, LogInit PROVE LogInv
<1>1. LogFlags
  BY Zenon DEF LogInit, LogFlags
<1>2. LogBuffers /\ CloneIsEmpty
  BY DEF Sizes, LogInit, LogBuffers, CloneIsEmpty, Writers
<1>3. LogOthers /\ FilesAreEmpty
  BY DEF LogInit, LogOthers, FilesAreEmpty
<1> QED
  BY <1>1, <1>2, <1>3 DEF LogInv

LEMMA LogStepInv == ASSUME Sizes, LogInv, [LogNext]_logVars PROVE LogInv'
<1> USE DEF LogInv
<1>1. ASSUME NEW p \in Logs, WriteLine(p) PROVE LogInv'
  <2> USE <1>1 DEF WriteLine
  <2>1. LogFlags'
    BY Zenon DEF LogFlags
  <2>2. Len(logged') \in Lines /\ logged' \in Seq(Logs)
    BY DEF Sizes, LogOthers, Lines
  <2> DEFINE b == buffers["handle"][p]
             kept == IF Len(b) >= MaxBufferLines THEN Tail(b) ELSE b
             new == Append(kept, Len(logged'))
  <2>3. buffers' = [buffers EXCEPT !["handle"][p] = new]
    OBVIOUS
  <2>4. new \in Seq(Lines) /\ Len(new) <= MaxBufferLines
    <3>1. b \in Seq(Lines) /\ Len(b) \in Nat /\ Len(b) <= MaxBufferLines
      BY DEF LogBuffers, Writers
    <3> HIDE DEF b
    <3>2. kept \in Seq(Lines) /\ Len(kept) < MaxBufferLines
      BY <3>1 DEF Sizes
    <3> HIDE DEF kept
    <3> QED
      BY <2>2, <3>2 DEF Sizes
  <2> HIDE DEF new
  <2> DEFINE row == [buffers["handle"] EXCEPT ![p] = new]
  <2>5. row \in [Logs -> Seq(Lines)] /\ \A q \in Logs : Len(row[q]) <= MaxBufferLines
    BY <2>4 DEF LogBuffers, Writers
  <2>6. buffers' = [buffers EXCEPT !["handle"] = row]
    BY <2>3
  <2> HIDE DEF row
  <2>7. buffers' \in [Writers -> [Logs -> Seq(Lines)]]
    BY <2>5, <2>6 DEF LogBuffers
  <2>8. buffers'["handle"] = row /\ buffers'["clone"] = buffers["clone"]
    BY <2>6 DEF LogBuffers, Writers
  <2>9. LogBuffers' /\ CloneIsEmpty'
    BY <2>5, <2>7, <2>8 DEF LogBuffers, CloneIsEmpty
  <2>10. LogOthers' /\ FilesAreEmpty'
    BY <2>2 DEF LogOthers, FilesAreEmpty
  <2> QED
    BY <2>1, <2>9, <2>10
<1>2. ASSUME NEW p \in Logs, FlushBuffer(p) PROVE LogInv'
  <2> USE <1>2 DEF FlushBuffer
  <2>1. LogFlags'
    BY Zenon DEF LogFlags
  <2>2. LogBuffers' /\ CloneIsEmpty'
    BY DEF LogBuffers, CloneIsEmpty, Writers
  <2>3. LogOthers'
    BY DEF LogOthers
  <2>4. file' = file
    BY DEF CloneIsEmpty, FilesAreEmpty
  <2> QED
    BY <2>1, <2>2, <2>3, <2>4 DEF FilesAreEmpty
<1>3. CASE Shutdown
  <2> USE <1>3 DEF Shutdown
  <2>1. LogFlags'
    BY DEF LogFlags, Writers
  <2>2. LogBuffers' /\ LogOthers' /\ CloneIsEmpty' /\ FilesAreEmpty'
    BY DEF LogBuffers, LogOthers, CloneIsEmpty, FilesAreEmpty
  <2> QED
    BY <2>1, <2>2
<1>4. CASE Wake \/ Flushed \/ UNCHANGED logVars
  <2> USE <1>4 DEF Wake, Flushed, logVars
  <2>1. LogFlags'
    BY Zenon DEF LogFlags
  <2>2. LogBuffers' /\ LogOthers' /\ CloneIsEmpty' /\ FilesAreEmpty'
    BY DEF LogBuffers, LogOthers, CloneIsEmpty, FilesAreEmpty
  <2> QED
    BY <2>1, <2>2
<1> HIDE DEF LogInv
<1> QED
  BY <1>1, <1>2, <1>3, <1>4 DEF LogNext, Flusher

\* The log keeps its types, and its files stay empty whatever is logged: no
\* line of any writer reaches them.
THEOREM FilesStayEmpty ==
  ASSUME Sizes
  PROVE  LogSpec => [](LogTypeOK /\ FilesAreEmpty)
<1>1. LogInit => LogInv
  BY LogInitInv
<1>2. LogInv /\ [LogNext]_logVars => LogInv'
  BY LogStepInv
<1>3. LogInv => LogTypeOK /\ FilesAreEmpty
  BY LogInvTypes DEF LogInv
<1> QED
  BY <1>1, <1>2, <1>3, PTL DEF LogSpec
=============================================================================

------------------------------ MODULE Settings ------------------------------
(***************************************************************************)
(* The settings of the application (modules/settings.rs) and the commands  *)
(* of the frontend that read and change them (modules/ipc.rs).  The        *)
(* settings are held in memory behind an RwLock and kept in settings.json. *)
(* A command changes them under the write lock and saves them in a second  *)
(* call, under the read lock: commands interleave between the two.  A save *)
(* writes a temporary file and moves it over settings.json; the process    *)
(* may die between any two steps, and a start reads what is there.         *)
(*                                                                         *)
(* A value of the settings is its game mouse mode, its password, and the   *)
(* number of the change it is the outcome of, which stands for the rest    *)
(* and orders the values in time.  A password is empty, the user's text    *)
(* ("plain") or what DPAPI made of it ("DPAPI").                           *)
(***************************************************************************)
EXTENDS Naturals

CONSTANTS
  Commands,   \* invocations of the commands, each a task of its own
  NoFile,     \* settings.json does not exist
  Unreadable, \* it does not parse: damaged, or of a version with other fields
  MaxChanges, \* bound: changes of the settings
  MaxDeaths   \* bound: deaths of the process

ASSUME BoundsAssumption == MaxChanges \in Nat /\ MaxDeaths \in Nat

VARIABLES
  memory,  \* SettingsService.inner
  disk,    \* settings.json
  temp,    \* what each save serialised, in its NamedTempFile
  doing,   \* where each command stands
  up,      \* the process runs
  changes, \* history: changes made so far
  acked,   \* history: the newest change whose command returned Ok
  unsaved, \* history: a save failed, and none succeeded after it
  deaths   \* history: deaths of the process

settingsVars == <<memory, disk, temp, doing, up, changes, acked, unsaved, deaths>>

-----------------------------------------------------------------------------
Passwords == {"empty", "plain", "DPAPI"}
AppSettings == [mouse : BOOLEAN, password : Passwords, change : Nat]
Default == [mouse |-> FALSE, password |-> "empty", change |-> 0]
Old == [mouse |-> TRUE, password |-> "plain", change |-> 0]

ASSUME FilesAssumption == {NoFile, Unreadable} \cap AppSettings = {}

\* memory holds a value only while the process runs, temp only during a save.
None == Default

SettingsTypeOK ==
  /\ memory \in AppSettings
  /\ disk \in AppSettings \cup {NoFile, Unreadable}
  /\ temp \in [Commands -> AppSettings]
  /\ doing \in [Commands -> {"idle", "changed", "saving", "written"}]
  /\ up \in BOOLEAN /\ unsaved \in BOOLEAN
  /\ changes \in 0..MaxChanges /\ acked \in 0..changes
  /\ deaths \in 0..MaxDeaths

\* Before the first start: no settings, settings of an earlier version with a
\* password in plain text, or a file that does not parse.
SettingsInit ==
  /\ memory = None
  /\ disk \in {NoFile, Unreadable, Old}
  /\ temp = [c \in Commands |-> None]
  /\ doing = [c \in Commands |-> "idle"]
  /\ up = FALSE
  /\ changes = 0 /\ acked = 0 /\ unsaved = FALSE
  /\ deaths = 0

-----------------------------------------------------------------------------
(* The start: SettingsService::new with load_raw.                           *)

\* dpapi_protect, which returns the text itself when DPAPI fails.
Protect(s) ==
  IF s.password = "plain"
  THEN {[s EXCEPT !.password = "DPAPI"], s}
  ELSE {s}

\* load_raw read and parsed the file.  A password in plain text is protected
\* and saved at once; a save that fails only warns.
StartLoaded ==
  /\ ~up
  /\ disk \notin {NoFile, Unreadable}
  /\ memory' \in Protect(disk)
  /\ disk' \in {disk, memory'}
  /\ up' = TRUE
  /\ unsaved' = (disk' # memory')
  /\ UNCHANGED <<temp, doing, changes, acked, deaths>>

\* load_raw falls back to the defaults, and leaves the file alone: there is
\* none, it does not parse, or it could not be read this time.
StartDefault ==
  /\ ~up
  /\ memory' = Default
  /\ up' = TRUE
  /\ unsaved' = FALSE
  /\ UNCHANGED <<disk, temp, doing, changes, acked, deaths>>

\* The process dies.  A temporary file that was not moved yet stays behind.
Die ==
  /\ up /\ deaths < MaxDeaths
  /\ up' = FALSE
  /\ deaths' = deaths + 1
  /\ memory' = None
  /\ temp' = [c \in Commands |-> None]
  /\ doing' = [c \in Commands |-> "idle"]
  /\ UNCHANGED <<disk, changes, acked, unsaved>>

-----------------------------------------------------------------------------
(* update and save of the service.                                          *)

Savers == {c \in Commands : doing[c] \in {"saving", "written"}}

\* Mutant: a save does not keep its lock while it writes.
CanWriteAlways == up

\* RwLock::write: nobody is reading.
CanWrite == up /\ Savers = {}

\* A command changes the settings: update.
Update(c, s) ==
  /\ doing[c] = "idle" /\ CanWrite
  /\ changes < MaxChanges
  /\ changes' = changes + 1
  /\ memory' = [s EXCEPT !.change = changes + 1]
  /\ doing' = [doing EXCEPT ![c] = "changed"]
  /\ UNCHANGED <<disk, temp, up, acked, unsaved, deaths>>

\* cmd_set_settings: the whole value is replaced by the one the frontend sent.
CmdSetSettings(c) ==
  \E password \in Passwords, mouse \in BOOLEAN :
    Update(c, [mouse |-> mouse, password |-> password, change |-> 0])

\* cmd_game_mouse_toggle, up to its save.
CmdGameMouseToggle(c) == Update(c, [memory EXCEPT !.mouse = ~@])

\* save takes the read lock and serialises what is there now, the changes of
\* later commands included.
SaveBegins(c) ==
  /\ doing[c] = "changed"
  /\ temp' = [temp EXCEPT ![c] = memory]
  /\ doing' = [doing EXCEPT ![c] = "saving"]
  /\ UNCHANGED <<memory, disk, up, changes, acked, unsaved, deaths>>

\* The temporary file is complete.
TempWritten(c) ==
  /\ doing[c] = "saving"
  /\ doing' = [doing EXCEPT ![c] = "written"]
  /\ UNCHANGED <<memory, disk, temp, up, changes, acked, unsaved, deaths>>

Returns(c) ==
  /\ doing' = [doing EXCEPT ![c] = "idle"]
  /\ temp' = [temp EXCEPT ![c] = None]

Newer(a, b) == IF a > b THEN a ELSE b

\* persist: the temporary file replaces settings.json, and the command
\* returns Ok.
Persisted(c) ==
  /\ doing[c] = "written"
  /\ disk' = temp[c]
  /\ acked' = Newer(acked, temp[c].change)
  /\ unsaved' = FALSE
  /\ Returns(c)
  /\ UNCHANGED <<memory, up, changes, deaths>>

\* Mutant: the command drops the error of its save.
SaveFailsUnseen(c) ==
  /\ doing[c] \in {"saving", "written"}
  /\ Returns(c)
  /\ UNCHANGED <<memory, disk, up, changes, acked, unsaved, deaths>>

\* The file cannot be created, written or moved: the command returns the error,
\* and the change stays in memory.
SaveFails(c) ==
  /\ doing[c] \in {"saving", "written"}
  /\ unsaved' = TRUE
  /\ Returns(c)
  /\ UNCHANGED <<memory, disk, up, changes, acked, deaths>>

-----------------------------------------------------------------------------
Command(c) ==
  \/ CmdSetSettings(c) \/ CmdGameMouseToggle(c)
  \/ SaveBegins(c) \/ TempWritten(c) \/ Persisted(c) \/ SaveFails(c)

SettingsNext ==
  \/ StartLoaded \/ StartDefault \/ Die
  \/ \E c \in Commands : Command(c)

SettingsSpec == SettingsInit /\ [][SettingsNext]_settingsVars

-----------------------------------------------------------------------------
\* A change whose command returned Ok is on disk, or a later one is, whatever
\* commands run at once and whenever the process dies: no save puts an older
\* value over a newer one.
AckedIsDurable ==
  acked > 0 => disk \notin {NoFile, Unreadable} /\ disk.change >= acked

\* When the settings were changed since the start, no command is under way and
\* none was told that its save failed since the last that succeeded, a new start
\* finds what is in memory.
MemoryIsSaved ==
  (/\ up /\ memory.change > 0
   /\ \A c \in Commands : doing[c] = "idle"
   /\ ~unsaved)
  => disk = memory
=============================================================================

----------------------------- MODULE NonceFile -----------------------------
(***************************************************************************)
(* The nonce files of modules/ipc/nonce.rs: sessions that sweep stale      *)
(* files and write their own nonce, and receivers that read a nonce and    *)
(* delete its file, all on one directory and with no lock but the share    *)
(* mode of the file being written.                                         *)
(*                                                                         *)
(* A nonce is named by the session that generated it, so that the content  *)
(* of a file is its writer and how much of it was written.  Time is a      *)
(* coarse clock: files written at the same tick have the same              *)
(* modification time.  A directory listing is one step, with the           *)
(* modification times in it; everything done per entry comes later.  A     *)
(* process may crash whenever it is inside the module, and the system      *)
(* closes its file.                                                        *)
(***************************************************************************)
EXTENDS Naturals

CONSTANTS
  Sessions,   \* calls of write_nonce_file, each with a nonce of its own
  Readers,    \* calls of read_and_delete_nonce
  Paths,      \* the nonce_*.bin paths in play
  PathOf,     \* the path each session writes
  Targets,    \* the argument of each reader: a path, or Dir
  Dir,        \* the directory itself
  None,       \* no session, no path
  MaxTime     \* bound: ticks of the clock

ASSUME NoneAssumption == None \notin Sessions \cup Paths
ASSUME DirAssumption == Dir \notin Paths
ASSUME PathOfAssumption == PathOf \in [Sessions -> Paths]
ASSUME TargetsAssumption == Targets \in [Readers -> Paths \cup {Dir}]
ASSUME MaxTimeAssumption == MaxTime \in Nat

VARIABLES
  file,     \* the directory: what each path holds
  clock,    \* the time the file system stamps on a file
  wpc,      \* where each session stands
  todo,     \* the entries a sweep has listed and not tried yet
  rpc,      \* where each reader stands
  target,   \* local `target` of read_and_delete_nonce
  bytes,    \* local `bytes`: what the reader read, or Nothing
  kept,     \* the reader could not delete its file
  result    \* the session whose nonce was returned, or None for an error

disk == <<file, clock>>
writers == <<wpc, todo>>
readers == <<rpc, target, bytes, kept, result>>
vars == <<file, clock, wpc, todo, rpc, target, bytes, kept, result>>

\* by = None: there is no such file, or nothing was read.
Contents == [by : Sessions \cup {None}, len : {"part", "full"}]
Nothing == [by |-> None, len |-> "part"]
NoFile == [by |-> None, len |-> "part", time |-> 0]
Exists(p) == file[p].by # None

\* write_nonce_file has the file open with share mode 0: nobody else can open
\* it, to read or to delete.
Locked(p) == \E w \in Sessions : wpc[w] = "writing" /\ PathOf[w] = p

TypeOK ==
  /\ file \in [Paths -> [by : Sessions \cup {None}, len : {"part", "full"},
                         time : 0..MaxTime]]
  /\ clock \in 0..MaxTime
  /\ wpc \in [Sessions -> {"idle", "sweeping", "creating", "writing", "done", "failed"}]
  /\ todo \in [Sessions -> SUBSET Paths]
  /\ rpc \in [Readers -> {"idle", "reading", "deleting", "done"}]
  /\ target \in [Readers -> Paths \cup {None}]
  /\ \A r \in Readers : rpc[r] \in {"reading", "deleting"} => target[r] \in Paths
  /\ bytes \in [Readers -> Contents]
  /\ kept \in [Readers -> BOOLEAN]
  /\ result \in [Readers -> Sessions \cup {None}]

Init ==
  /\ file = [p \in Paths |-> NoFile]
  /\ clock = 0
  /\ wpc = [w \in Sessions |-> "idle"]
  /\ todo = [w \in Sessions |-> {}]
  /\ rpc = [r \in Readers |-> "idle"]
  /\ target = [r \in Readers |-> None]
  /\ bytes = [r \in Readers |-> Nothing]
  /\ kept = [r \in Readers |-> FALSE]
  /\ result = [r \in Readers |-> None]

Tick ==
  /\ clock < MaxTime
  /\ clock' = clock + 1
  /\ UNCHANGED <<file, writers, readers>>

\* Mutant: a file is deleted although another process has it open.
RemoveAnyway(p) == file' = [file EXCEPT ![p] = NoFile]

\* fs::remove_file succeeds.
Remove(p) == ~Locked(p) /\ file' = [file EXCEPT ![p] = NoFile]

-----------------------------------------------------------------------------
(* A session: sweep_stale_nonces, for those that call it, write_nonce_file. *)

Goto(w, from, to) == wpc[w] = from /\ wpc' = [wpc EXCEPT ![w] = to]

ListStale(w) ==
  /\ Goto(w, "idle", "sweeping")
  /\ todo' = [todo EXCEPT ![w] = {p \in Paths : Exists(p)}]
  /\ UNCHANGED <<disk, readers>>

\* The next entry is removed, or the error is only logged.
SweepOne(w) ==
  /\ wpc[w] = "sweeping"
  /\ \E p \in todo[w] :
       /\ todo' = [todo EXCEPT ![w] = @ \ {p}]
       /\ Remove(p) \/ UNCHANGED file
  /\ UNCHANGED <<clock, wpc, readers>>

Swept(w) ==
  /\ Goto(w, "sweeping", "creating")
  /\ todo[w] = {}
  /\ UNCHANGED <<disk, todo, readers>>

NoSweep(w) ==
  /\ Goto(w, "idle", "creating")
  /\ UNCHANGED <<disk, todo, readers>>

\* Mutant: CREATE_ALWAYS truncates a file that is there.
CreateAlways(w) ==
  /\ Goto(w, "creating", "writing")
  /\ ~Locked(PathOf[w])
  /\ file' = [file EXCEPT ![PathOf[w]] = [by |-> w, len |-> "part", time |-> clock]]
  /\ UNCHANGED <<clock, todo, readers>>

\* CreateFileW with CREATE_NEW.
Create(w) ==
  /\ Goto(w, "creating", "writing")
  /\ ~Exists(PathOf[w])
  /\ file' = [file EXCEPT ![PathOf[w]] = [by |-> w, len |-> "part", time |-> clock]]
  /\ UNCHANGED <<clock, todo, readers>>

\* The path is taken, or the directory or the file cannot be created.
CreateFails(w) ==
  /\ Goto(w, "creating", "failed")
  /\ UNCHANGED <<disk, todo, readers>>

\* write_all and flush, one write of 32 bytes.
Write(w) ==
  /\ wpc[w] = "writing"
  /\ file[PathOf[w]].len = "part"
  /\ file' = [file EXCEPT ![PathOf[w]] = [by |-> @.by, len |-> "full", time |-> clock]]
  /\ UNCHANGED <<clock, writers, readers>>

\* The handle is dropped: Ok after a full write, Err after a failed one.
CloseFile(w) ==
  /\ Goto(w, "writing", IF file[PathOf[w]].len = "full" THEN "done" ELSE "failed")
  /\ UNCHANGED <<disk, todo, readers>>

SessionCrash(w) ==
  /\ \E from \in {"sweeping", "creating", "writing"} : Goto(w, from, "failed")
  /\ todo' = [todo EXCEPT ![w] = {}]
  /\ UNCHANGED <<disk, readers>>

-----------------------------------------------------------------------------
(* A receiver: read_and_delete_nonce.                                       *)

\* find_latest_nonce_file: of the files with the greatest time, the first one
\* that the directory happens to list.
Latest == {p \in Paths : /\ Exists(p)
                         /\ \A q \in Paths : Exists(q) => file[q].time <= file[p].time}

Resolve(r) ==
  /\ rpc[r] = "idle"
  /\ \E p \in IF Targets[r] = Dir THEN Latest ELSE {Targets[r]} :
       target' = [target EXCEPT ![r] = p]
  /\ rpc' = [rpc EXCEPT ![r] = "reading"]
  /\ UNCHANGED <<disk, writers, bytes, kept, result>>

\* No nonce file in the directory.
ResolveFails(r) ==
  /\ rpc[r] = "idle"
  /\ Targets[r] = Dir /\ Latest = {}
  /\ rpc' = [rpc EXCEPT ![r] = "done"]
  /\ UNCHANGED <<disk, writers, target, bytes, kept, result>>

Read(r) ==
  /\ rpc[r] = "reading"
  /\ Exists(target[r])
  /\ ~Locked(target[r])
  /\ bytes' = [bytes EXCEPT ![r] = [by |-> file[target[r]].by, len |-> file[target[r]].len]]
  /\ rpc' = [rpc EXCEPT ![r] = "deleting"]
  /\ UNCHANGED <<disk, writers, target, kept, result>>

\* The file is gone, open elsewhere, or may not be read.
ReadFails(r) ==
  /\ rpc[r] = "reading"
  /\ rpc' = [rpc EXCEPT ![r] = "deleting"]
  /\ UNCHANGED <<disk, writers, target, bytes, kept, result>>

\* Mutant: any length will do.
VerdictUnmeasured(r) == bytes[r].by

\* What the reader returns: the nonce, or None for a read error or a length
\* other than 32.
Verdict(r) == IF bytes[r].len = "full" THEN bytes[r].by ELSE None

Return(r) ==
  /\ rpc[r] = "deleting"
  /\ rpc' = [rpc EXCEPT ![r] = "done"]
  /\ result' = [result EXCEPT ![r] = Verdict(r)]
  /\ UNCHANGED <<clock, writers, target, bytes>>

\* Mutant: a nonce of the wrong length is refused before it is deleted.
DeleteFullOnly(r) ==
  /\ Return(r)
  /\ Exists(target[r])
  /\ IF bytes[r].len = "full" THEN Remove(target[r]) ELSE UNCHANGED file
  /\ UNCHANGED kept

\* The file is deleted whether or not it could be read.
Delete(r) ==
  /\ Return(r)
  /\ Exists(target[r])
  /\ Remove(target[r])
  /\ UNCHANGED kept

\* remove_file returned NotFound.
DeleteGone(r) ==
  /\ Return(r)
  /\ ~Exists(target[r])
  /\ UNCHANGED <<file, kept>>

\* remove_file failed, which is only logged.
DeleteFails(r) ==
  /\ Return(r)
  /\ Exists(target[r])
  /\ kept' = [kept EXCEPT ![r] = TRUE]
  /\ UNCHANGED file

\* The receiver dies with the file still there.
ReaderCrash(r) ==
  /\ rpc[r] \in {"reading", "deleting"}
  /\ rpc' = [rpc EXCEPT ![r] = "done"]
  /\ bytes' = [bytes EXCEPT ![r] = Nothing]
  /\ UNCHANGED <<disk, writers, target, kept, result>>

-----------------------------------------------------------------------------
SessionStep(w) ==
  \/ ListStale(w) \/ SweepOne(w) \/ Swept(w) \/ NoSweep(w)
  \/ Create(w) \/ CreateFails(w) \/ Write(w) \/ CloseFile(w)
  \/ SessionCrash(w)

ReaderStep(r) ==
  \/ Resolve(r) \/ ResolveFails(r)
  \/ Read(r) \/ ReadFails(r)
  \/ Delete(r) \/ DeleteGone(r) \/ DeleteFails(r)
  \/ ReaderCrash(r)

Next ==
  \/ Tick
  \/ \E w \in Sessions : SessionStep(w)
  \/ \E r \in Readers : ReaderStep(r)

Spec == Init /\ [][Next]_vars

-----------------------------------------------------------------------------
(* Safety.                                                                  *)

\* While a session writes, the file at its path stays its own: no sweep, no
\* receiver and no other session deletes or replaces it.
OwnWhileWriting ==
  \A w \in Sessions :
    wpc[w] = "writing" =>
      /\ file[PathOf[w]].by = w
      /\ \A v \in Sessions : wpc[v] = "writing" /\ PathOf[v] = PathOf[w] => v = w

\* A receiver returns a nonce only after its writer let go of the file, and
\* only the whole of it.
NoTornNonce ==
  \A r \in Readers :
    result[r] # None =>
      /\ bytes[r] = [by |-> result[r], len |-> "full"]
      /\ wpc[result[r]] \in {"done", "failed"}

\* What a receiver read, valid or not, is gone from its path when the receiver
\* returns, and never comes back, unless the deletion itself failed.
ConsumedIsGone ==
  \A r \in Readers :
    rpc[r] = "done" /\ bytes[r].by # None /\ ~kept[r] =>
      file[target[r]].by # bytes[r].by

\* A session that reported success left its whole nonce at its path, and
\* nobody ever rewrites it: the path holds that nonce until it is deleted.
NeverRewritten ==
  [][\A p \in Paths :
       Exists(p) /\ ~Locked(p) /\ Exists(p)' => file'[p] = file[p]]_vars
=============================================================================

---------------------------- MODULE ReplayQueue ----------------------------
(***************************************************************************)
(* What the replay runner promises the threads that feed it and the one    *)
(* that stops it: every event accepted while it runs is handed to the      *)
(* system once, in the order of acceptance and in groups of bounded size,  *)
(* and before stop returns.  Only an event accepted after the runner was   *)
(* told to stop may come too late and be dropped.                          *)
(***************************************************************************)
EXTENDS Naturals, Sequences

CONSTANTS
  Items,     \* what is queued
  GroupMax   \* the largest group handed over at once

VARIABLES
  buf,       \* accepted and not handed over yet
  late,      \* accepted too late
  out,       \* handed over, in order
  open,      \* not told to stop
  done       \* stop returned

qvars == <<buf, late, out, open, done>>

QInit == buf = <<>> /\ late = <<>> /\ out = <<>> /\ open = TRUE /\ done = FALSE

Accept ==
  /\ ~done
  /\ \E e \in Items : buf' = Append(buf, e)
  /\ UNCHANGED <<late, out, open, done>>

AcceptLate ==
  /\ ~open /\ ~done
  /\ \E e \in Items : late' = Append(late, e)
  /\ UNCHANGED <<buf, out, open, done>>

HandOver ==
  /\ \E n \in 1..Len(buf) :
       /\ n <= GroupMax
       /\ out' = out \o SubSeq(buf, 1, n)
       /\ buf' = SubSeq(buf, n + 1, Len(buf))
  /\ UNCHANGED <<late, open, done>>

TellToStop ==
  /\ open
  /\ open' = FALSE
  /\ UNCHANGED <<buf, late, out, done>>

DropLate ==
  /\ ~open
  /\ late' = <<>>
  /\ UNCHANGED <<buf, out, open, done>>

ReturnFromStop ==
  /\ ~open /\ buf = <<>> /\ late = <<>>
  /\ done' = TRUE
  /\ UNCHANGED <<buf, late, out, open>>

QNext == \/ Accept \/ AcceptLate
         \/ HandOver
         \/ TellToStop \/ DropLate \/ ReturnFromStop

QSpec == QInit /\ [][QNext]_qvars
=============================================================================

----------------------------- MODULE LogWriter -----------------------------
(***************************************************************************)
(* The log of the program (modules/logging.rs).  The first line makes the  *)
(* writer of WRITER_HANDLE and starts the flusher, a thread that works on  *)
(* a clone of it: Clone gives the clone buffers and a shutdown flag of its *)
(* own.  Lines go to the buffers of the writer, which keep the newest; the *)
(* flusher wakes every 100 ms and empties the buffers of its clone.        *)
(***************************************************************************)
EXTENDS Naturals, Sequences, SequencesExt

CONSTANTS
  Logs,           \* LOG_PREFIXES, each with a buffer and a file
  MaxBufferLines, \* MAX_BUFFER_LINES
  MaxLines        \* bound: lines logged

VARIABLES
  buffers, \* buffers of each writer: the numbers of its lines
  flag,    \* shutdown of each writer
  flusher, \* "none" before the first line; "last" is flush_all before the end
  todo,    \* the logs flush_all has before it
  file,    \* lines in the files, or on stderr when a file cannot be opened
  logged   \* history: the log each line went to

logVars == <<buffers, flag, flusher, todo, file, logged>>

-----------------------------------------------------------------------------
Writers == {"handle", "clone"}
Lines == 1..MaxLines

LogTypeOK ==
  /\ buffers \in [Writers -> [Logs -> Seq(Lines)]]
  /\ \A w \in Writers, p \in Logs : Len(buffers[w][p]) <= MaxBufferLines
  /\ flag \in [Writers -> BOOLEAN]
  /\ flusher \in {"none", "asleep", "flushing", "last", "ended"}
  /\ todo \subseteq Logs
  /\ file \in [Logs -> Seq(Lines)]
  /\ logged \in Seq(Logs)

LogInit ==
  /\ buffers = [w \in Writers |-> [p \in Logs |-> <<>>]]
  /\ flag = [w \in Writers |-> FALSE]
  /\ flusher = "none" /\ todo = {}
  /\ file = [p \in Logs |-> <<>>]
  /\ logged = <<>>

\* write_line, with writer() before it: a full buffer loses its oldest line.
WriteLine(p) ==
  /\ Len(logged) < MaxLines
  /\ logged' = Append(logged, p)
  /\ LET kept == IF Len(buffers["handle"][p]) >= MaxBufferLines
                 THEN Tail(buffers["handle"][p])
                 ELSE buffers["handle"][p]
     IN buffers' = [buffers EXCEPT !["handle"][p] = Append(kept, Len(logged'))]
  /\ flusher' = IF flusher = "none" THEN "asleep" ELSE flusher
  /\ UNCHANGED <<flag, todo, file>>

\* shutdown, which does nothing before the first line.
Shutdown ==
  /\ flusher # "none"
  /\ flag' = [flag EXCEPT !["handle"] = TRUE]
  /\ UNCHANGED <<buffers, flusher, todo, file, logged>>

-----------------------------------------------------------------------------
(* The flusher.                                                             *)

\* The flag it reads is the clone's.
Wake ==
  /\ flusher = "asleep"
  /\ flusher' = IF flag["clone"] THEN "last" ELSE "flushing"
  /\ todo' = Logs
  /\ UNCHANGED <<buffers, flag, file, logged>>

\* flush_buffer.
FlushBuffer(p) ==
  /\ flusher \in {"flushing", "last"} /\ p \in todo
  /\ file' = [file EXCEPT ![p] = @ \o buffers["clone"][p]]
  /\ buffers' = [buffers EXCEPT !["clone"][p] = <<>>]
  /\ todo' = todo \ {p}
  /\ UNCHANGED <<flag, flusher, logged>>

Flushed ==
  /\ flusher \in {"flushing", "last"} /\ todo = {}
  /\ flusher' = IF flusher = "last" THEN "ended" ELSE "asleep"
  /\ UNCHANGED <<buffers, flag, todo, file, logged>>

Flusher == Wake \/ Flushed \/ \E p \in Logs : FlushBuffer(p)

-----------------------------------------------------------------------------
LogNext == Flusher \/ Shutdown \/ \E p \in Logs : WriteLine(p)

LogSpec == LogInit /\ [][LogNext]_logVars /\ WF_logVars(Flusher)

-----------------------------------------------------------------------------
\* README.md:81: the log is kept in files.  A line that was logged comes to be
\* in its file, unless its buffer was full and dropped it.
LinesReachFile ==
  \A n \in Lines, p \in Logs :
    Contains(buffers["handle"][p], n)
      ~> Contains(file[p], n) \/ ~Contains(buffers["handle"][p], n)
=============================================================================

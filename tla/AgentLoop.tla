----------------------------- MODULE AgentLoop -----------------------------
(***************************************************************************)
(* The read loop of the agent process, handle_connection of               *)
(* modules/bin/agent.rs, on a stream that some peer writes.  The loop      *)
(* polls for a frame under a timeout of 100 ms and goes on with the same   *)
(* stream after it.  The events of a batch go to the replay runner, which  *)
(* may refuse any of them; the batch is then answered as handled.          *)
(*                                                                         *)
(* Sequence numbers are machine words: LastSeq is computed modulo Word, or *)
(* the task panics, as the build has overflow checks or not.               *)
(***************************************************************************)
EXTENDS FrameStream

CONSTANTS
  Word,       \* 2^64 of the code
  MaxCount,   \* bound: events of a batch
  MaxFrames   \* bound: frames the peer writes

ASSUME WordAssumption == Word \in Nat \ {0}
ASSUME MaxCountAssumption == MaxCount \in Nat
ASSUME MaxFramesAssumption == MaxFrames \in Nat \ {0}

VARIABLES
  stream,    \* written by the peer, not read by the agent
  rest,      \* what the peer has left to write of a frame
  open,      \* the peer has the stream open
  apc,       \* where the loop stands
  frame,     \* the frame it is reading or handling, a local of the loop's turn
  next,      \* the next event of the batch to hand to the runner
  cut,       \* a poll was given up between a header and its payload
  answers,   \* last_seq of each RelativeMouseResult written, and the frame it is for
  sent,      \* history: the frames the peer wrote or began to write
  handed     \* history: the events the runner accepted

peer == <<rest, open, sent>>
vars == <<stream, rest, open, apc, frame, next, cut, answers, sent, handed>>

\* "bad": a payload that does not decode; "big": more than MAX_PAYLOAD;
\* "other": any frame that is not a batch.  The id tells frames apart.
Frames ==
  [kind : {"batch"}, id : 1..MaxFrames, first : 0..(Word - 1), count : 0..MaxCount]
    \cup [kind : {"other", "bad", "big"}, id : 1..MaxFrames, first : {0}, count : {0}]
NoFrame == [kind |-> "other", id |-> 1, first |-> 0, count |-> 0]
Events == [id : 1..MaxFrames, i : 1..MaxCount]
Results == [to : 1..MaxFrames, last : 0..(Word - 1)]

TypeOK ==
  /\ stream \in Seq(Units(Frames))
  /\ rest \in Seq(Units(Frames))
  /\ open \in BOOLEAN
  /\ apc \in {"header", "payload", "events", "answering", "ended", "panicked"}
  /\ frame \in Frames
  /\ next \in 1..(MaxCount + 1)
  /\ apc = "events" => next <= frame.count
  /\ cut \in BOOLEAN
  /\ answers \in Seq(Results)
  /\ sent \in Seq(Frames)
  /\ handed \in Seq(Events)

Init ==
  /\ stream = <<>> /\ rest = <<>> /\ open = TRUE
  /\ apc = "header" /\ frame = NoFrame /\ next = 1 /\ cut = FALSE
  /\ answers = <<>> /\ sent = <<>> /\ handed = <<>>

-----------------------------------------------------------------------------
(* The peer.                                                               *)

PeerBegins(f) ==
  /\ open /\ rest = <<>>
  /\ Len(sent) < MaxFrames /\ f.id = Len(sent) + 1
  /\ rest' = Encode(f)
  /\ sent' = Append(sent, f)
  /\ UNCHANGED <<stream, open, apc, frame, next, cut, answers, handed>>

PeerWrites ==
  /\ open /\ rest # <<>>
  /\ stream' = Append(stream, Head(rest))
  /\ rest' = Tail(rest)
  /\ UNCHANGED <<open, apc, frame, next, cut, answers, sent, handed>>

\* The peer may leave in the middle of a frame.
PeerCloses ==
  /\ open
  /\ open' = FALSE
  /\ UNCHANGED <<stream, rest, apc, frame, next, cut, answers, sent, handed>>

-----------------------------------------------------------------------------
(* The agent.                                                              *)

ReadHeader ==
  /\ apc = "header" /\ stream # <<>>
  /\ \E f \in Announced(Head(stream), Frames) :
       \/ f.kind = "big" /\ apc' = "ended" /\ frame' = NoFrame
       \/ f.kind # "big" /\ apc' = "payload" /\ frame' = f
  /\ stream' = Tail(stream)
  /\ UNCHANGED <<next, cut, answers, handed, peer>>

\* Any read error ends the loop, one in the payload too.
AfterPayload(f) ==
  CASE f.kind = "batch" -> IF f.count = 0 THEN "answering" ELSE "events"
    [] f.kind = "other" -> "header"
    [] OTHER -> "ended"

ReadPayload ==
  /\ apc = "payload" /\ stream # <<>>
  /\ stream' = Tail(stream)
  /\ apc' = AfterPayload(frame)
  /\ frame' = IF frame.kind = "batch" THEN frame ELSE NoFrame
  /\ UNCHANGED <<next, cut, answers, handed, peer>>

\* runner.send_mouse_move; a refusal is ignored.
HandEvent ==
  /\ apc = "events"
  /\ handed' \in {handed, Append(handed, [id |-> frame.id, i |-> next])}
  /\ IF next = frame.count THEN apc' = "answering" /\ next' = 1
                            ELSE apc' = "events" /\ next' = next + 1
  /\ UNCHANGED <<stream, frame, cut, answers, peer>>

\* first_seq + count - 1 leaves the word, at either end, before the result is
\* back in it.
Overflows(f) == f.first + f.count >= Word \/ f.first + f.count = 0

\* Mutant: the result names the number after the batch.
LastSeqOffByOne(f) == (f.first + f.count) % Word

LastSeq(f) == (f.first + f.count + Word - 1) % Word

Answer ==
  /\ apc = "answering" /\ open
  /\ answers' = Append(answers, [to |-> frame.id, last |-> LastSeq(frame)])
  /\ apc' = "header" /\ frame' = NoFrame
  /\ UNCHANGED <<stream, next, cut, handed, peer>>

\* A build with overflow checks.
AnswerPanics ==
  /\ apc = "answering"
  /\ Overflows(frame)
  /\ apc' = "panicked" /\ frame' = NoFrame
  /\ UNCHANGED <<stream, next, cut, answers, handed, peer>>

AnswerFails ==
  /\ apc = "answering" /\ ~open
  /\ apc' = "ended" /\ frame' = NoFrame
  /\ UNCHANGED <<stream, next, cut, answers, handed, peer>>

\* 100 ms passed with nothing more to read: what was read is forgotten.
PollTimesOut ==
  /\ apc \in {"header", "payload"} /\ stream = <<>> /\ open
  /\ cut' = (cut \/ apc = "payload")
  /\ apc' = "header" /\ frame' = NoFrame
  /\ UNCHANGED <<stream, next, answers, handed, peer>>

\* Mutant: only the end of file at a frame boundary is noticed.
ReadEndsAtBoundary ==
  /\ apc = "header" /\ stream = <<>> /\ ~open
  /\ apc' = "ended" /\ frame' = NoFrame
  /\ UNCHANGED <<stream, next, cut, answers, handed, peer>>

\* End of file, at a frame boundary or inside a frame.
ReadEnds ==
  /\ apc \in {"header", "payload"} /\ stream = <<>> /\ ~open
  /\ apc' = "ended" /\ frame' = NoFrame
  /\ UNCHANGED <<stream, next, cut, answers, handed, peer>>

-----------------------------------------------------------------------------
PeerStep == (\E f \in Frames : PeerBegins(f)) \/ PeerWrites \/ PeerCloses

AgentStep ==
  \/ ReadHeader \/ ReadPayload \/ HandEvent
  \/ Answer \/ AnswerPanics \/ AnswerFails
  \/ PollTimesOut \/ ReadEnds

Next == PeerStep \/ AgentStep

Spec == Init /\ [][Next]_vars

\* The runtime polls the loop, and its timer fires.
FairSpec == Spec /\ WF_vars(AgentStep)

-----------------------------------------------------------------------------
(* Safety.                                                                  *)

Before(e, d) == e.id < d.id \/ (e.id = d.id /\ e.i < d.i)

\* Until a poll is cut short, the runner gets the events of the batches that
\* were sent, in the order they were sent, each at most once, and none of a
\* batch behind a frame that ends the loop.
ReplayedAsSent ==
  ~cut =>
    \A k \in 1..Len(handed) :
      LET e == handed[k] IN
        /\ e.id <= Len(sent)
        /\ sent[e.id].kind = "batch" /\ e.i <= sent[e.id].count
        /\ \A n \in 1..(e.id - 1) : sent[n].kind \in {"batch", "other"}
        /\ k > 1 => Before(handed[k - 1], e)

\* Until a poll is cut short, every batch before one that is answered is answered
\* before it, none twice, and an answer names the last event of its batch: for
\* every batch with events whose numbers fit the word.
AnsweredInOrder ==
  ~cut =>
    \A k \in 1..Len(answers) :
      LET to == answers[k].to IN
        /\ to <= Len(sent) /\ sent[to].kind = "batch"
        /\ k > 1 => answers[k - 1].to < to
        /\ \A n \in 1..(to - 1) :
             sent[n].kind = "batch" => \E j \in 1..(k - 1) : answers[j].to = n
        /\ sent[to].count > 0 /\ sent[to].first + sent[to].count <= Word =>
             answers[k].last = sent[to].first + sent[to].count - 1

-----------------------------------------------------------------------------
(* What a comment says, and the code does not do.                           *)

\* frame.rs:267-268: who gives up a read must give up the stream, and not reuse
\* one that was read half.
CutIsFinal == [][cut => stream' = stream \/ Len(stream') > Len(stream)]_vars
=============================================================================

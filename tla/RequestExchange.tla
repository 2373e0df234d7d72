-------------------------- MODULE RequestExchange --------------------------
(***************************************************************************)
(* Requests and answers over one connection after its handshake: calls of  *)
(* PipeClient::send_batch and send_json (modules/ipc/client.rs) against    *)
(* the data loop of the server, handle_connection (modules/ipc/server.rs). *)
(*                                                                         *)
(* The pipe holds a limited amount in each direction, and a frame enters   *)
(* and leaves it in pieces.  The client waits at most RESPONSE_TIMEOUT for *)
(* an answer, and the connection stays with its caller; writing has no     *)
(* timeout at either end.  A request is known by its number in the order   *)
(* of the calls, and the answer by the number of its request.              *)
(***************************************************************************)
EXTENDS FrameStream

CONSTANTS
  MaxFrames,   \* bound: frames the client writes
  Capacity     \* what a direction of the pipe holds, in pieces of frames

ASSUME MaxFramesAssumption == MaxFrames \in Nat \ {0}
ASSUME CapacityAssumption == Capacity \in Nat \ {0}

VARIABLES
  up,        \* on its way to the server
  down,      \* on its way to the client
  spc,       \* where the data loop stands
  req,       \* the frame it is reading
  sout,      \* what is left to write of its answer
  cpc,       \* where the call stands; gone: the connection was dropped
  got,       \* the frame it is reading
  cout,      \* what is left to write of its request
  late,      \* a call on this connection timed out
  cut,       \* a read was given up between a header and its payload
  sent,      \* history: every frame the client wrote or began to write
  answered,  \* history: the numbers of the requests the server answered
  log        \* history: the answers the calls returned

server == <<spc, req, sout, answered>>
client == <<cpc, got, cout, late, cut, sent, log>>
vars == <<up, down, spc, req, sout, cpc, got, cout, late, cut, sent, answered, log>>

-----------------------------------------------------------------------------
(* Frames.  A miscounted batch is one whose count is not its number of     *)
(* events, which the peer's decoder refuses; the numbers of an edge batch, *)
(* first_seq + count, are past the word.  PipeClient never writes an       *)
(* oversized frame or a verdict; another program may.                      *)

Calls == {"batch", "edge", "miscounted", "json"}
Raw == {"oversized", "verdict"}
Answers == {"result", "status"}
Frames == [kind : Calls \cup Raw \cup Answers, id : 1..MaxFrames]
NoFrame == [kind |-> "json", id |-> 1]     \* no frame is being read

\* What the server answers, and what the call waits for.
Answerable(f) == f.kind \in {"batch", "edge", "json"}
AnswerKind(f) == IF f.kind = "json" THEN "status" ELSE "result"
AnswerTo(f) == [kind |-> AnswerKind(f), id |-> f.id]

\* The frame of the call under way: read_result and read_json of the client.
Own == sent[Len(sent)]

TypeOK ==
  /\ up \in Seq(Units(Frames)) /\ Len(up) <= Capacity
  /\ down \in Seq(Units(Frames)) /\ Len(down) <= Capacity
  /\ spc \in {"header", "payload", "answering", "closed"}
  /\ req \in Frames
  /\ sout \in Seq(Units(Frames)) /\ (sout # <<>>) = (spc = "answering")
  /\ cpc \in {"idle", "writing", "header", "payload", "gone"}
  /\ got \in Frames
  /\ cout \in Seq(Units(Frames)) /\ (cpc = "writing" => cout # <<>>)
  /\ late \in BOOLEAN /\ cut \in BOOLEAN
  /\ sent \in Seq(Frames)
  /\ answered \in Seq(1..MaxFrames)
  /\ log \in Seq([asked : 1..MaxFrames, answer : 1..MaxFrames,
                  clean : BOOLEAN, whole : BOOLEAN])

Init ==
  /\ up = <<>> /\ down = <<>>
  /\ spc = "header" /\ req = NoFrame /\ sout = <<>>
  /\ cpc = "idle" /\ got = NoFrame /\ cout = <<>>
  /\ late = FALSE /\ cut = FALSE
  /\ sent = <<>> /\ answered = <<>> /\ log = <<>>

-----------------------------------------------------------------------------
(* The data loop of the server.                                            *)

\* Mutant: an oversized frame is dropped and the loop goes on.
ServerReadsHeaderOn ==
  /\ spc = "header" /\ up # <<>>
  /\ \E f \in Announced(Head(up), Frames) :
       /\ req' = f
       /\ spc' = IF f.kind = "oversized" THEN "header" ELSE "payload"
  /\ up' = Tail(up)
  /\ UNCHANGED <<down, sout, answered, client>>

\* A frame that declares more than MAX_PAYLOAD ends the loop before its
\* payload is read.
ServerReadsHeader ==
  /\ spc = "header" /\ up # <<>>
  /\ \E f \in Announced(Head(up), Frames) :
       IF f.kind = "oversized"
       THEN spc' = "closed" /\ UNCHANGED req
       ELSE spc' = "payload" /\ req' = f
  /\ up' = Tail(up)
  /\ UNCHANGED <<down, sout, answered, client>>

\* Mutant: a batch is answered when it arrives and when it is handled.
ReplyTwice(f) == IF Answerable(f) THEN Encode(AnswerTo(f)) \o Encode(AnswerTo(f)) ELSE <<>>

Reply(f) == IF Answerable(f) THEN Encode(AnswerTo(f)) ELSE <<>>

\* A payload that does not decode, and a frame of another type, only leave a
\* warning.
Onward(f) == IF Answerable(f) THEN "answering" ELSE "header"

ServerReadsPayload ==
  /\ spc = "payload" /\ up # <<>>
  /\ up' = Tail(up)
  /\ sout' = Reply(req)
  /\ spc' = Onward(req)
  /\ answered' = IF Answerable(req) THEN Append(answered, req.id) ELSE answered
  /\ req' = NoFrame
  /\ UNCHANGED <<down, client>>

\* A build with overflow checks panics over last_seq and drops the connection.
ServerPanics ==
  /\ spc = "payload" /\ up # <<>> /\ req.kind = "edge"
  /\ up' = Tail(up)
  /\ spc' = "closed" /\ req' = NoFrame
  /\ UNCHANGED <<down, sout, answered, client>>

ServerWrites ==
  /\ spc = "answering" /\ cpc # "gone" /\ Len(down) < Capacity
  /\ down' = Append(down, Head(sout))
  /\ sout' = Tail(sout)
  /\ spc' = IF Len(sout) = 1 THEN "header" ELSE "answering"
  /\ UNCHANGED <<up, req, answered, client>>

\* The client is gone: a write fails, a read gets what is left and then EOF.
ServerLoses ==
  /\ cpc = "gone"
  /\ \/ spc = "answering"
     \/ spc \in {"header", "payload"} /\ up = <<>>
  /\ spc' = "closed"
  /\ sout' = <<>> /\ req' = NoFrame
  /\ UNCHANGED <<up, down, answered, client>>

-----------------------------------------------------------------------------
(* The client.                                                             *)

\* send_batch or send_json begins, or another program writes a frame.
Write(kind) ==
  /\ cpc = "idle" /\ Len(sent) < MaxFrames
  /\ LET f == [kind |-> kind, id |-> Len(sent) + 1] IN
       /\ sent' = Append(sent, f)
       /\ cout' = Encode(f)
  /\ cpc' = "writing"
  /\ UNCHANGED <<up, down, got, late, cut, log, server>>

\* Mutant: the call does not wait for its answer.
AwaitsNothing(f) == FALSE

Awaits(f) == f.kind \in Calls

ClientWrites ==
  /\ cpc = "writing" /\ spc # "closed" /\ Len(up) < Capacity
  /\ up' = Append(up, Head(cout))
  /\ cout' = Tail(cout)
  /\ cpc' = IF Len(cout) > 1 THEN "writing" ELSE IF Awaits(Own) THEN "header" ELSE "idle"
  /\ UNCHANGED <<down, got, late, cut, sent, log, server>>

\* The answer, or a frame that is not one, begins to arrive.
ClientReadsHeader ==
  /\ cpc = "header" /\ down # <<>>
  /\ \E f \in Announced(Head(down), Frames) :
       IF f.kind = "oversized"
       THEN cpc' = "idle" /\ UNCHANGED got
       ELSE cpc' = "payload" /\ got' = f
  /\ down' = Tail(down)
  /\ UNCHANGED <<up, cout, late, cut, sent, log, server>>

IsAnswer(f) == f.kind = AnswerKind(Own)

\* The answer is returned; a frame of another type is skipped.
ClientReadsPayload ==
  /\ cpc = "payload" /\ down # <<>>
  /\ down' = Tail(down)
  /\ got' = NoFrame
  /\ \/ /\ IsAnswer(got)
        /\ log' = Append(log, [asked |-> Own.id, answer |-> got.id,
                               clean |-> ~late, whole |-> ~cut])
        /\ cpc' = "idle"
     \/ /\ ~IsAnswer(got)
        /\ cpc' = IF got.kind = "miscounted" THEN "idle" ELSE "header"
        /\ UNCHANGED log
  /\ UNCHANGED <<up, cout, late, cut, sent, server>>

\* Mutant: the timeout does not cover the wait for an answer.
TimeoutNever == cpc = "gone" /\ UNCHANGED vars

\* RESPONSE_TIMEOUT passed with nothing left to read.
Timeout ==
  /\ cpc \in {"header", "payload"} /\ down = <<>>
  /\ late' = TRUE
  /\ cut' = (cut \/ cpc = "payload")
  /\ cpc' = "idle" /\ got' = NoFrame
  /\ UNCHANGED <<up, down, cout, sent, log, server>>

\* The server left: a write fails, a read gets what is left and then EOF.
ClientLoses ==
  /\ spc = "closed"
  /\ cpc = "writing" \/ (cpc \in {"header", "payload"} /\ down = <<>>)
  /\ cpc' = "idle" /\ got' = NoFrame /\ cout' = <<>>
  /\ UNCHANGED <<up, down, late, cut, sent, log, server>>

\* The caller drops the connection.
DropConnection ==
  /\ cpc = "idle"
  /\ cpc' = "gone"
  /\ UNCHANGED <<up, down, got, cout, late, cut, sent, log, server>>

-----------------------------------------------------------------------------
ServerStep ==
  \/ ServerReadsHeader \/ ServerReadsPayload \/ ServerPanics
  \/ ServerWrites \/ ServerLoses
CallStep == ClientWrites \/ ClientReadsHeader \/ ClientReadsPayload \/ Timeout \/ ClientLoses

Next ==
  \/ ServerStep
  \/ CallStep
  \/ \E kind \in Calls \cup Raw : Write(kind)
  \/ DropConnection

Spec == Init /\ [][Next]_vars

\* The runtime polls both tasks, and its timers fire.  Nobody is made to call.
Fairness == WF_vars(ServerStep) /\ WF_vars(CallStep)
FairSpec == Spec /\ Fairness

-----------------------------------------------------------------------------
(* Safety.                                                                  *)

\* The requests the server owes an answer, and those it gave one.
Owed == {n \in 1..Len(sent) : Answerable(sent[n])}
Given == {answered[i] : i \in 1..Len(answered)}

\* The frames that may end the data loop.
Fatal == {"oversized", "edge"}

\* The server answers the well-formed requests once, in order and without a gap,
\* and nothing else, whatever malformed or foreign frames come between; once it
\* has read everything it has answered everything.  Its loop ends for an
\* oversized frame, because the client is gone, or for a batch whose numbers
\* are past the word, in a build that checks.
AnsweredExactly ==
  /\ Given \subseteq Owed
  /\ \A i, j \in 1..Len(answered) : i < j => answered[i] < answered[j]
  /\ \A n \in Given : Owed \cap 1..n \subseteq Given
  /\ spc = "header" /\ up = <<>> /\ cpc # "writing" => Given = Owed
  /\ spc = "closed" => cpc = "gone" \/ \E i \in 1..Len(sent) : sent[i].kind \in Fatal

\* Until a call times out, each answer a call returns is its own.  After that,
\* as long as no read was cut short, answers still come in the order of the
\* requests, none is returned twice, and none belongs to a later request.
AnswersMatch ==
  \A j \in 1..Len(log) :
    /\ log[j].clean => log[j].answer = log[j].asked
    /\ log[j].whole => /\ log[j].answer <= log[j].asked
                       /\ \A i \in 1..(j - 1) : log[i].answer < log[j].answer

\* Each end waits for the other to read.
Blocked ==
  /\ cpc = "writing" /\ Len(up) = Capacity
  /\ spc = "answering" /\ Len(down) = Capacity

\* The two ends block on each other's full pipe only when answers that nobody
\* waited for are left in it.
BlockedOnlyLate == Blocked => late

\* The connection implements RequestService.
Calling == cpc \in {"writing", "header", "payload"}
Asked == [i \in 1..Len(sent) |-> sent[i].kind]
Service == INSTANCE RequestService WITH
  Kinds    <- Calls \cup Raw,
  Answered <- {"batch", "edge", "json"},
  Form     <- [kind \in Calls \cup Raw \cup Answers |->
                 IF kind = "json" THEN "status" ELSE "result"],
  Numbers  <- 1..MaxFrames,
  asked    <- Asked,
  given    <- answered,
  returned <- log,
  calling  <- Calling
ImplementsService == Service!RSpec

-----------------------------------------------------------------------------
(* Liveness.                                                                *)

\* A call returns, with an answer, an error or a timeout, unless the two ends
\* block each other.
CallsReturn == Calling ~> cpc \in {"idle", "gone"} \/ Blocked
=============================================================================

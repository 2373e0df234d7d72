--------------------------- MODULE PipeHandshake ---------------------------
(***************************************************************************)
(* The accept loop of PipeServer (modules/ipc/server.rs) against clients   *)
(* that run PipeClient (modules/ipc/client.rs) and against foreign clients *)
(* that open the pipe and send whatever frames they like.                  *)
(*                                                                         *)
(* One server task owns at most one pipe instance.  A client's end of the  *)
(* instance is a pair of byte streams, kept here as sequences of frames;   *)
(* they belong to the client because a client has at most one connection   *)
(* and the server is attached to at most one client.  What one end wrote   *)
(* before it closed can still be read by the other end; what an end left   *)
(* unread when it closed is gone.  Every timeout is a step that may happen *)
(* whenever the awaited input is not there.  A pipe client stands          *)
(* for one call of connect() and the session it yields.                    *)
(***************************************************************************)
EXTENDS Naturals, Sequences

CONSTANTS
  PipeClients,   \* calls of PipeClient::connect, one each
  Foreigners,    \* other processes allowed to open the pipe
  Nonces,        \* the 32-byte nonces in play
  NoNonce,       \* Option::None, and an empty-handed client
  NoClient,      \* no client attached to the pipe instance
  MaxRetries,    \* MAX_RETRIES of client.rs
  MaxBuffered    \* bound: frames a direction of the pipe holds

ASSUME NoNonceAssumption == NoNonce \notin Nonces
ASSUME NoClientAssumption == NoClient \notin PipeClients \cup Foreigners
ASSUME DisjointAssumption == PipeClients \cap Foreigners = {}
ASSUME MaxRetriesAssumption == MaxRetries \in Nat \ {0}
ASSUME MaxBufferedAssumption == MaxBuffered \in Nat \ {0}

Clients == PipeClients \cup Foreigners

VARIABLES
  expected,   \* PipeServer.expected_nonce
  spc,        \* where the task of PipeServer::run stands
  peer,       \* the client attached to the server's pipe instance
  snap,       \* local `expected` of run, for each client's connection
  cpc,        \* where each client stands
  cnonce,     \* the nonce each client presents
  tries,      \* local `attempt` of PipeClient::connect
  up,         \* frames written by the client, not read by the server
  down        \* frames written by the server, not read by the client

svars == <<expected, spc, peer, snap>>
cvars == <<cpc, cnonce, tries>>
pipe == <<up, down>>
vars == <<expected, spc, peer, snap, cpc, cnonce, tries, up, down>>

-----------------------------------------------------------------------------
(* Frames.  A Malformed frame has a length in bounds and a body that does   *)
(* not decode; an Oversize one declares more than MAX_PAYLOAD.  An EndBatch *)
(* is a RelativeMouseBatch whose first_seq + count is past the word.        *)

Plain == {"RelativeMouseBatch", "EndBatch", "Utf8Json", "Malformed", "Oversize"}
Frames == [type : {"Handshake"}, nonce : Nonces \cup {NoNonce}]
            \cup [type : Plain, nonce : {NoNonce}]
Handshake(n) == [type |-> "Handshake", nonce |-> n]
Frame(t) == [type |-> t, nonce |-> NoNonce]

Accepted == "Accepted"     \* HandshakeAck(HANDSHAKE_ACCEPTED)
Rejected == "Rejected"     \* HandshakeAck(HANDSHAKE_REJECTED)
Verdicts == {Accepted, Rejected}
Answers == {"RelativeMouseResult", "JsonOk"}

ServerStates ==
  {"create", "listening", "sid", "reading", "accepting", "rejecting", "data",
   "backoff", "panicked"}
Connected == {"writing", "waiting", "ready", "foreign"}
ClientStates ==
  {"idle", "opening", "rejected", "failed", "closed"} \cup Connected

\* Which ends of c's connection are open.  The server's end outlives a client
\* that left, and a client can open no other instance meanwhile.
CliOpen(c) == cpc[c] \in Connected
SrvOpen(c) == peer = c

TypeOK ==
  /\ expected \in Nonces \cup {NoNonce}
  /\ spc \in ServerStates
  /\ peer \in Clients \cup {NoClient}
  /\ snap \in [Clients -> Nonces \cup {NoNonce}]
  /\ cpc \in [Clients -> ClientStates]
  /\ \A c \in Foreigners : cpc[c] \in {"idle", "foreign"}
  /\ cnonce \in [Clients -> Nonces \cup {NoNonce}]
  /\ tries \in [Clients -> 0..MaxRetries]
  /\ \A c \in PipeClients :
       cpc[c] \in {"opening", "writing", "waiting"} => tries[c] < MaxRetries
  /\ up \in [Clients -> Seq(Frames)]
  /\ down \in [Clients -> Seq(Verdicts \cup Answers)]

Init ==
  /\ expected = NoNonce
  /\ spc = "create"
  /\ peer = NoClient
  /\ snap = [c \in Clients |-> NoNonce]
  /\ cpc = [c \in Clients |-> "idle"]
  /\ cnonce = [c \in Clients |-> NoNonce]
  /\ tries = [c \in Clients |-> 0]
  /\ up = [c \in Clients |-> <<>>]
  /\ down = [c \in Clients |-> <<>>]

-----------------------------------------------------------------------------
(* The server.                                                             *)

SetNonce ==
  /\ \E n \in Nonces : expected' = n
  /\ UNCHANGED <<spc, peer, snap, cvars, pipe>>

CreateInstance ==
  /\ spc = "create"
  /\ spc' = "listening"
  /\ UNCHANGED <<expected, peer, snap, cvars, pipe>>

\* The DACL could not be built, or the system refused another instance.
CreateFails ==
  /\ spc = "create"
  /\ spc' = "backoff"
  /\ UNCHANGED <<expected, peer, snap, cvars, pipe>>

Backoff ==
  /\ spc = "backoff"
  /\ spc' = "create"
  /\ UNCHANGED <<expected, peer, snap, cvars, pipe>>

\* Drop of the pipe instance: the attached client, if any, sees it close.
DropInstance(next) ==
  /\ up' = [c \in Clients |-> IF c = peer THEN <<>> ELSE up[c]]
  /\ peer' = NoClient
  /\ spc' = next

\* The accept window ran out (next = "create") or connect() failed
\* ("backoff"); a client may have opened the instance just before.
LeaveListening ==
  /\ spc = "listening"
  /\ \E next \in {"create", "backoff"} : DropInstance(next)
  /\ UNCHANGED <<expected, snap, cvars, down>>

AcceptClient ==
  /\ spc = "listening"
  /\ peer # NoClient
  /\ spc' = "sid"
  /\ UNCHANGED <<expected, peer, snap, cvars, pipe>>

SidRefused ==
  /\ spc = "sid"
  /\ DropInstance("create")
  /\ UNCHANGED <<expected, snap, cvars, down>>

\* The nonce is copied out of the mutex before the handshake is awaited;
\* with none set the verdict is a rejection and nothing is read.
SidAuthorized ==
  /\ spc = "sid"
  /\ snap' = [snap EXCEPT ![peer] = expected]
  /\ spc' = IF expected = NoNonce THEN "rejecting" ELSE "reading"
  /\ UNCHANGED <<expected, peer, cvars, pipe>>

\* Mutants: the nonce is not compared, or compared with the one set by now.
MatchesAnyNonce(f) == f.type = "Handshake"
MatchesCurrentNonce(f) == f.type = "Handshake" /\ f.nonce = expected

Matches(f) == f.type = "Handshake" /\ f.nonce = snap[peer]

ReadHandshake ==
  /\ spc = "reading"
  /\ up[peer] # <<>>
  /\ spc' = IF Matches(Head(up[peer])) THEN "accepting" ELSE "rejecting"
  /\ up' = [up EXCEPT ![peer] = Tail(@)]
  /\ UNCHANGED <<expected, peer, snap, cvars, down>>

\* Mutant: the handshake is read without a timeout.
ReadHandshakeFailsAtEOF ==
  /\ spc = "reading"
  /\ up[peer] = <<>>
  /\ ~CliOpen(peer)
  /\ spc' = "rejecting"
  /\ UNCHANGED <<expected, peer, snap, cvars, pipe>>

\* End of stream, a read error or the five seconds ran out.
ReadHandshakeFails ==
  /\ spc = "reading"
  /\ up[peer] = <<>>
  /\ spc' = "rejecting"
  /\ UNCHANGED <<expected, peer, snap, cvars, pipe>>

\* A frame reaches the client's side of the pipe only while it is open.
Deliver(c, f) == CliOpen(c) /\ down' = [down EXCEPT ![c] = Append(@, f)]

\* The verdict is a best effort of one second, and its loss changes nothing:
\* an acceptance starts the data loop, a rejection drops the instance.
SendAccept ==
  /\ spc = "accepting"
  /\ Deliver(peer, Accepted) \/ UNCHANGED down
  /\ spc' = "data"
  /\ UNCHANGED <<expected, peer, snap, cvars, up>>

\* Mutant: run() serves the connection whatever the verdict was.
SendRejectAndServe ==
  /\ spc = "rejecting"
  /\ Deliver(peer, Rejected) \/ UNCHANGED down
  /\ spc' = "data"
  /\ UNCHANGED <<expected, peer, snap, cvars, up>>

SendReject ==
  /\ spc = "rejecting"
  /\ Deliver(peer, Rejected) \/ UNCHANGED down
  /\ DropInstance("create")
  /\ UNCHANGED <<expected, snap, cvars>>

(* One turn of handle_connection on the frame it read.  The server answers *)
(* a request without acting on it and ignores what it does not expect.     *)
Requests == {"RelativeMouseBatch", "EndBatch", "Utf8Json"}
Answer(t) == IF t = "Utf8Json" THEN "JsonOk" ELSE "RelativeMouseResult"
Reading(t) == spc = "data" /\ up[peer] # <<>> /\ Head(up[peer]).type = t

ServeRequest ==
  /\ \E t \in Requests : Reading(t) /\ Deliver(peer, Answer(t))
  /\ Len(down[peer]) < MaxBuffered
  /\ up' = [up EXCEPT ![peer] = Tail(@)]
  /\ UNCHANGED <<expected, spc, peer, snap, cvars>>

IgnoreFrame ==
  /\ \E t \in {"Handshake", "Malformed"} : Reading(t)
  /\ up' = [up EXCEPT ![peer] = Tail(@)]
  /\ UNCHANGED <<expected, spc, peer, snap, cvars, down>>

\* The answer cannot be written, or the header announces too much.
ServeFails ==
  /\ \E t \in Requests \cup {"Oversize"} : Reading(t)
  /\ DropInstance("create")
  /\ UNCHANGED <<expected, snap, cvars, down>>

\* A build with overflow checks panics over last_seq.  The task of run() is gone,
\* the instance with it, and nobody listens any more.
ServePanics ==
  /\ Reading("EndBatch")
  /\ DropInstance("panicked")
  /\ UNCHANGED <<expected, snap, cvars, down>>

\* There is no timeout here: without a frame only the client's end closing
\* stops the loop.
PeerGone ==
  /\ spc = "data"
  /\ up[peer] = <<>>
  /\ ~CliOpen(peer)
  /\ DropInstance("create")
  /\ UNCHANGED <<expected, snap, cvars, down>>

ServerStep ==
  \/ CreateInstance \/ CreateFails \/ Backoff \/ LeaveListening
  \/ AcceptClient \/ SidRefused \/ SidAuthorized
  \/ ReadHandshake \/ ReadHandshakeFails \/ SendAccept \/ SendReject
  \/ ServeRequest \/ IgnoreFrame \/ ServeFails \/ ServePanics \/ PeerGone

-----------------------------------------------------------------------------
(* The clients.                                                            *)

\* connect() with the nonce read_and_delete_nonce returned; without one it
\* returns an error before it touches the pipe.
Connect(c) ==
  /\ cpc[c] = "idle"
  /\ \E n \in Nonces \cup {NoNonce} :
       /\ cnonce' = [cnonce EXCEPT ![c] = n]
       /\ cpc' = [cpc EXCEPT ![c] = IF n = NoNonce THEN "failed" ELSE "opening"]
  /\ tries' = [tries EXCEPT ![c] = 0]
  /\ UNCHANGED <<svars, pipe>>

\* The client gets the one instance that is waiting.
Attach(c) ==
  /\ spc = "listening"
  /\ peer = NoClient
  /\ peer' = c
  /\ up' = [up EXCEPT ![c] = <<>>]
  /\ down' = [down EXCEPT ![c] = <<>>]

Open(c) ==
  /\ cpc[c] = "opening"
  /\ Attach(c)
  /\ cpc' = [cpc EXCEPT ![c] = "writing"]
  /\ UNCHANGED <<expected, spc, snap, cnonce, tries>>

\* The client closes its end, or has none open.
LeavePipe(c, next) ==
  /\ cpc' = [cpc EXCEPT ![c] = next]
  /\ down' = [down EXCEPT ![c] = <<>>]

\* Mutant: attempts without end.
RetryForEver(c) ==
  /\ LeavePipe(c, "opening")
  /\ UNCHANGED <<svars, cnonce, tries, up>>

\* Ack::Lost, or the pipe could not be opened: try again while attempts are
\* left.  The client's end is closed before the delay.
Retry(c) ==
  /\ tries' = [tries EXCEPT ![c] = @ + 1]
  /\ LeavePipe(c, IF tries[c] + 1 < MaxRetries THEN "opening" ELSE "failed")
  /\ UNCHANGED <<svars, cnonce, up>>

OpenFails(c) ==
  /\ cpc[c] = "opening"
  /\ Retry(c)

WriteHandshake(c) ==
  /\ cpc[c] = "writing"
  /\ SrvOpen(c)
  /\ up' = [up EXCEPT ![c] = Append(@, Handshake(cnonce[c]))]
  /\ cpc' = [cpc EXCEPT ![c] = "waiting"]
  /\ UNCHANGED <<svars, cnonce, tries, down>>

\* The server closed its end, or the two seconds ran out.
WriteHandshakeFails(c) ==
  /\ cpc[c] = "writing"
  /\ Retry(c)

\* Mutant: any HandshakeAck counts as an acceptance.
ReadAnyVerdict(c) ==
  /\ cpc[c] = "waiting"
  /\ down[c] # <<>> /\ Head(down[c]) \in Verdicts
  /\ cpc' = [cpc EXCEPT ![c] = "ready"]
  /\ down' = [down EXCEPT ![c] = Tail(@)]
  /\ UNCHANGED <<svars, cnonce, tries, up>>

ReadAccepted(c) ==
  /\ cpc[c] = "waiting"
  /\ down[c] # <<>> /\ Head(down[c]) = Accepted
  /\ cpc' = [cpc EXCEPT ![c] = "ready"]
  /\ down' = [down EXCEPT ![c] = Tail(@)]
  /\ UNCHANGED <<svars, cnonce, tries, up>>

\* An explicit rejection is not retried.
ReadRejected(c) ==
  /\ cpc[c] = "waiting"
  /\ down[c] # <<>> /\ Head(down[c]) = Rejected
  /\ LeavePipe(c, "rejected")
  /\ UNCHANGED <<svars, cnonce, tries, up>>

\* End of stream, a frame that is no verdict, or the five seconds ran out.
ReadVerdictFails(c) ==
  /\ cpc[c] = "waiting"
  /\ down[c] # <<>> => Head(down[c]) \notin Verdicts
  /\ Retry(c)

\* send_batch, send_json and handshake on an open NamedPipeConnection.
Send(c) ==
  /\ cpc[c] = "ready"
  /\ SrvOpen(c)
  /\ Len(up[c]) < MaxBuffered
  /\ \E f \in {Frame(t) : t \in Requests} \cup {Handshake(cnonce[c])} :
       up' = [up EXCEPT ![c] = Append(@, f)]
  /\ UNCHANGED <<svars, cvars, down>>

Receive(c) ==
  /\ cpc[c] = "ready"
  /\ down[c] # <<>>
  /\ down' = [down EXCEPT ![c] = Tail(@)]
  /\ UNCHANGED <<svars, cvars, up>>

\* The connection is dropped, or the process ends at any point.
Close(c) ==
  /\ cpc[c] \in {"opening", "writing", "waiting", "ready"}
  /\ LeavePipe(c, "closed")
  /\ UNCHANGED <<svars, cnonce, tries, up>>

\* A foreign client opens the pipe with some nonce or none, writes any
\* frames, reads nothing it needs and closes when it likes.
ForeignOpen(c) ==
  /\ cpc[c] = "idle"
  /\ Attach(c)
  /\ \E n \in Nonces \cup {NoNonce} : cnonce' = [cnonce EXCEPT ![c] = n]
  /\ cpc' = [cpc EXCEPT ![c] = "foreign"]
  /\ UNCHANGED <<expected, spc, snap, tries>>

ForeignSend(c) ==
  /\ cpc[c] = "foreign"
  /\ SrvOpen(c)
  /\ Len(up[c]) < MaxBuffered
  /\ \E f \in {Handshake(cnonce[c])} \cup {Frame(t) : t \in Plain} :
       up' = [up EXCEPT ![c] = Append(@, f)]
  /\ UNCHANGED <<svars, cvars, down>>

ForeignClose(c) ==
  /\ cpc[c] = "foreign"
  /\ LeavePipe(c, "idle")
  /\ UNCHANGED <<svars, cnonce, tries, up>>

ConnectStep(c) ==
  \/ Open(c) \/ OpenFails(c)
  \/ WriteHandshake(c) \/ WriteHandshakeFails(c)
  \/ ReadAccepted(c) \/ ReadRejected(c) \/ ReadVerdictFails(c)

SessionStep(c) == Send(c) \/ Receive(c) \/ Close(c)

ForeignStep(c) == ForeignOpen(c) \/ ForeignSend(c) \/ ForeignClose(c)

Next ==
  \/ SetNonce
  \/ ServerStep
  \/ \E c \in PipeClients : Connect(c) \/ ConnectStep(c) \/ SessionStep(c)
  \/ \E c \in Foreigners : ForeignStep(c)

Spec == Init /\ [][Next]_vars

(* The tokio runtime keeps polling both tasks and its timers fire.  An     *)
(* instance is refused only for a while.  Nothing is assumed of foreign    *)
(* clients, of set_nonce, or of a client that holds a session.             *)
Fairness ==
  /\ WF_vars(ServerStep)
  /\ SF_vars(CreateInstance)
  /\ \A c \in PipeClients : WF_vars(ConnectStep(c))

FairSpec == Spec /\ Fairness

-----------------------------------------------------------------------------
(* What is checked.                                                        *)

CredentialGood(c) == snap[c] # NoNonce /\ cnonce[c] = snap[c]

\* The server runs its data loop only with a client that presented the nonce
\* it read when it took that client up, and never while no nonce was set
\* (verify_handshake, "fail-closed").
FailClosed ==
  \A c \in Clients : spc = "data" /\ peer = c => CredentialGood(c)

\* A client holds a NamedPipeConnection only if the server accepted that very
\* connection: its nonce was the expected one, and as long as the server's end
\* is open the server is in its data loop with it.  Retries, lost verdicts and
\* verdicts read after the server left must not break this.
NoFalseSession ==
  \A c \in PipeClients :
    cpc[c] = "ready" => CredentialGood(c) /\ (SrvOpen(c) => spc = "data")

\* No request is answered on a connection that was not admitted, whatever frames
\* its client sent.
NoAnswerBeforeAdmission ==
  \A c \in Clients :
    (\E i \in DOMAIN down[c] : down[c][i] \in Answers) => CredentialGood(c)

\* The handshake implements the abstract session of PipeSession.
Admitted ==
  {c \in Clients :
     \/ peer = c /\ spc = "data"
     \/ cpc[c] = "waiting" /\ down[c] # <<>> /\ Head(down[c]) = Accepted
     \/ cpc[c] = "ready"}

Session == INSTANCE PipeSession WITH
  cred <- cnonce, asked <- snap, admitted <- Admitted,
  holder <- IF spc = "data" THEN peer ELSE NoClient,
  believers <- {c \in PipeClients : cpc[c] = "ready"}

ImplementsSession == Session!Spec

\* Whatever its clients do, the accept loop comes back to listening for ever,
\* unless it is held in a session by an admitted client that stays connected
\* (handle_connection reads without a timeout), or was ended by a batch of an
\* admitted client whose numbers are past the word, in a build that checks.
AlwaysListensAgain ==
  \/ []<>(spc = "listening")
  \/ <>[](spc = "panicked")
  \/ \E c \in Clients : <>[](spc = "data" /\ peer = c /\ CliOpen(c))

\* connect() returns: its retries are bounded and every wait has a timeout.
ConnectReturns ==
  \A c \in PipeClients :
    cpc[c] \in {"opening", "writing", "waiting"}
      ~> cpc[c] \in {"ready", "rejected", "failed", "closed"}

-----------------------------------------------------------------------------
(* The inductive invariant behind FailClosed and NoFalseSession.           *)

\* Where the server stands tells whether a client is attached.
Attachment ==
  /\ spc \in {"create", "backoff", "panicked"} => peer = NoClient
  /\ spc \in {"sid", "reading", "accepting", "rejecting", "data"} =>
       peer # NoClient

\* Only the client itself speaks on its connection, so a handshake frame under
\* way carries the nonce it holds.
OwnNonce ==
  \A c \in Clients : \A i \in DOMAIN up[c] :
    up[c][i].type = "Handshake" => up[c][i].nonce = cnonce[c]

\* What the server has concluded on its way to the data loop.
Judgement ==
  /\ spc = "reading" => snap[peer] # NoNonce
  /\ spc \in {"accepting", "data"} => CredentialGood(peer)

\* What is on its way back to the client.  Nothing precedes the verdict, and
\* only a rejection goes to a client whose nonce is not the one asked for.
Replies ==
  \A c \in Clients :
    /\ down[c] # <<>> /\ peer = c => spc = "data"
    /\ \A i \in DOMAIN down[c] : down[c][i] # Rejected => CredentialGood(c)

\* A client that has not called connect() yet has left no trace, and one that
\* has not written its nonce yet cannot have been accepted.
Silent ==
  \A c \in PipeClients :
    /\ cpc[c] = "idle" => peer # c /\ up[c] = <<>> /\ down[c] = <<>>
    /\ cpc[c] = "writing" =>
         /\ peer = c => up[c] = <<>> /\ spc \notin {"accepting", "data"}
         /\ \A i \in DOMAIN down[c] : down[c][i] = Rejected

IInv ==
  /\ TypeOK
  /\ Attachment
  /\ Silent
  /\ OwnNonce
  /\ Judgement
  /\ Replies
  /\ NoFalseSession
=============================================================================

----------------------- MODULE PipeHandshakeProofs -----------------------
(***************************************************************************)
(* Proofs about PipeHandshake for any number of clients, nonces, retries   *)
(* and any buffer bound.                                                   *)
(***************************************************************************)
EXTENDS PipeHandshake, TLAPS

\* Writing a frame at the end of one client's stream.
LEMMA AppendAt ==
  ASSUME NEW S, NEW D, NEW g \in [D -> Seq(S)], NEW d \in D, NEW e \in S
  PROVE  [g EXCEPT ![d] = Append(@, e)] \in [D -> Seq(S)]
<1>1. Append(g[d], e) \in Seq(S)
  OBVIOUS
<1> QED BY <1>1

\* What a stream holds after one more frame was written to it.
LEMMA AppendElements ==
  ASSUME NEW S, NEW s \in Seq(S), NEW e \in S, NEW i \in DOMAIN Append(s, e)
  PROVE  (i \in DOMAIN s /\ Append(s, e)[i] = s[i]) \/ Append(s, e)[i] = e
  OBVIOUS

\* What a stream holds after its first frame was read.
LEMMA TailElements ==
  ASSUME NEW S, NEW s \in Seq(S), s # <<>>
  PROVE  /\ Head(s) = s[1] /\ 1 \in DOMAIN s
         /\ Tail(s) \in Seq(S)
         /\ \A i \in DOMAIN Tail(s) : i + 1 \in DOMAIN s /\ Tail(s)[i] = s[i + 1]
<1>1. Len(s) > 0
  OBVIOUS
<1> QED BY <1>1

\* What a client writes is a frame, and a handshake only with its own nonce.
LEMMA Spoken ==
  ASSUME TypeOK, NEW c \in Clients,
         NEW f \in {Handshake(cnonce[c])} \cup {Frame(t) : t \in Plain}
  PROVE  f \in Frames /\ (f.type = "Handshake" => f.nonce = cnonce[c])
<1>1. Handshake(cnonce[c]) \in Frames /\ \A t \in Plain : Frame(t) \in Frames
  BY DEF TypeOK, Handshake, Frame, Frames
<1>2. \A t \in Plain : Frame(t).type # "Handshake"
  BY DEF Frame, Plain
<1> QED
  BY <1>1, <1>2 DEF Handshake

LEMMA Sent ==
  ASSUME NEW c, Send(c)
  PROVE  \E f \in {Handshake(cnonce[c])} \cup {Frame(t) : t \in Plain} :
           up' = [up EXCEPT ![c] = Append(@, f)]
BY DEF Send, Requests, Plain

-----------------------------------------------------------------------------
(* Types, and where the server stands when a client is attached.           *)

\* Every step of the server and of a client keeps the variables in range, and
\* the server's program counter agrees with whether a client is attached.
LEMMA TypeStep ==
  ASSUME TypeOK, Attachment, [Next]_vars
  PROVE  TypeOK' /\ Attachment'
<1> USE NoNonceAssumption, NoClientAssumption, DisjointAssumption
    DEF Clients, ServerStates, ClientStates, Connected, TypeOK, Attachment,
        svars, cvars, pipe, Verdicts, Answers, Accepted, Rejected
<1>1. CASE UNCHANGED vars
  BY <1>1 DEF vars
<1>2. CASE SetNonce
  BY <1>2 DEF SetNonce
<1>3. CASE CreateInstance \/ CreateFails \/ Backoff \/ AcceptClient \/ ReadHandshakeFails
  BY <1>3 DEF CreateInstance, CreateFails, Backoff, AcceptClient, ReadHandshakeFails
<1>4. CASE LeaveListening \/ SidRefused \/ ServeFails \/ ServePanics \/ PeerGone
  <2>1. PICK next \in {"create", "backoff", "panicked"} : DropInstance(next)
    BY <1>4 DEF LeaveListening, SidRefused, ServeFails, ServePanics, PeerGone
  <2>2. UNCHANGED <<expected, snap, cpc, cnonce, tries, down>>
    BY <1>4 DEF LeaveListening, SidRefused, ServeFails, ServePanics, PeerGone
  <2> QED BY <2>1, <2>2 DEF DropInstance
<1>5. CASE SidAuthorized
  BY <1>5 DEF SidAuthorized
<1>6. CASE ReadHandshake
  <2>1. peer \in Clients /\ up[peer] \in Seq(Frames) /\ up[peer] # <<>>
    BY <1>6 DEF ReadHandshake
  <2>2. Tail(up[peer]) \in Seq(Frames)
    BY <2>1
  <2> QED BY <1>6, <2>1, <2>2 DEF ReadHandshake
<1>7. ASSUME SendAccept \/ SendReject \/ ServeRequest
      PROVE  down' \in [Clients -> Seq(Verdicts \cup Answers)]
  <2>1. peer \in Clients /\ down[peer] \in Seq(Verdicts \cup Answers)
    BY <1>7 DEF SendAccept, SendReject, ServeRequest, Reading
  <2>2. \/ UNCHANGED down
        \/ \E f \in Verdicts \cup Answers : down' = [down EXCEPT ![peer] = Append(@, f)]
    BY <1>7 DEF SendAccept, SendReject, ServeRequest, Deliver, Answer
  <2> HIDE DEF Verdicts, Answers
  <2>3. ASSUME NEW f \in Verdicts \cup Answers
        PROVE  [down EXCEPT ![peer] = Append(@, f)] \in [Clients -> Seq(Verdicts \cup Answers)]
    BY <2>1, AppendAt, Zenon DEF TypeOK
  <2>4. CASE UNCHANGED down
    BY <2>4 DEF TypeOK
  <2>5. CASE \E f \in Verdicts \cup Answers : down' = [down EXCEPT ![peer] = Append(@, f)]
    <3>1. PICK f \in Verdicts \cup Answers : down' = [down EXCEPT ![peer] = Append(@, f)]
      BY <2>5
    <3> QED BY <2>3, <3>1, Zenon
  <2> QED BY <2>2, <2>4, <2>5, Zenon
<1>8. CASE SendAccept
  BY <1>7, <1>8 DEF SendAccept
<1>9. CASE SendReject
  BY <1>7, <1>9 DEF SendReject, DropInstance
<1>10. CASE ServeRequest \/ IgnoreFrame
  <2>1. peer \in Clients /\ up[peer] \in Seq(Frames) /\ up[peer] # <<>>
    BY <1>10 DEF ServeRequest, IgnoreFrame, Reading
  <2>2. Tail(up[peer]) \in Seq(Frames)
    BY <2>1
  <2>3. down' \in [Clients -> Seq(Verdicts \cup Answers)]
    BY <1>7, <1>10 DEF IgnoreFrame
  <2>4. up' \in [Clients -> Seq(Frames)]
    BY <1>10, <2>1, <2>2 DEF ServeRequest, IgnoreFrame
  <2>5. UNCHANGED <<expected, spc, peer, snap, cpc, cnonce, tries>>
    BY <1>10 DEF ServeRequest, IgnoreFrame
  <2> QED BY <2>3, <2>4, <2>5
<1>11. ASSUME NEW c \in PipeClients, Connect(c) \/ ConnectStep(c) \/ SessionStep(c)
       PROVE  TypeOK' /\ Attachment'
  <2> c \in Clients
    OBVIOUS
  <2>1. CASE Connect(c)
    <3>1. cpc' \in [Clients -> ClientStates] /\ cnonce' \in [Clients -> Nonces \cup {NoNonce}]
      BY <2>1 DEF Connect
    <3>2. tries'[c] = 0 /\ 0 < MaxRetries /\ tries' \in [Clients -> 0..MaxRetries]
          /\ \A d \in Clients \ {c} : cpc'[d] = cpc[d] /\ tries'[d] = tries[d]
      BY <2>1, MaxRetriesAssumption DEF Connect
    <3> QED BY <2>1, <3>1, <3>2 DEF Connect
  <2>2. CASE Open(c)
    BY <2>2 DEF Open, Attach
  <2>3. CASE OpenFails(c) \/ WriteHandshakeFails(c) \/ ReadVerdictFails(c)
    <3>1. Retry(c)
      BY <2>3 DEF OpenFails, WriteHandshakeFails, ReadVerdictFails
    <3>2. cpc[c] \in {"opening", "writing", "waiting"}
      BY <2>3 DEF OpenFails, WriteHandshakeFails, ReadVerdictFails
    <3>4. /\ tries' \in [Clients -> 0..MaxRetries] /\ cpc' \in [Clients -> ClientStates]
          /\ tries'[c] = tries[c] + 1
          /\ cpc'[c] = IF tries[c] + 1 < MaxRetries THEN "opening" ELSE "failed"
          /\ \A d \in Clients \ {c} : cpc'[d] = cpc[d] /\ tries'[d] = tries[d]
      BY <3>1, <3>2, MaxRetriesAssumption DEF Retry, LeavePipe
    <3>3. down' \in [Clients -> Seq(Verdicts \cup Answers)]
      BY <3>1 DEF Retry, LeavePipe
    <3>5. UNCHANGED <<expected, spc, peer, snap, cnonce, up>>
      BY <3>1 DEF Retry
    <3> QED BY <3>3, <3>4, <3>5
  <2>4. CASE WriteHandshake(c)
    <3>1. Handshake(cnonce[c]) \in Frames
      BY DEF Handshake, Frames
    <3>2. up' \in [Clients -> Seq(Frames)]
      BY <2>4, <3>1, AppendAt DEF WriteHandshake
    <3> QED BY <2>4, <3>2 DEF WriteHandshake
  <2>5. CASE ReadAccepted(c)
    BY <2>5 DEF ReadAccepted
  <2>6. CASE ReadRejected(c)
    BY <2>6 DEF ReadRejected, LeavePipe
  <2>7. CASE Send(c)
    <3>1. PICK f \in Frames : up' = [up EXCEPT ![c] = Append(@, f)]
      <4>1. PICK f \in {Handshake(cnonce[c])} \cup {Frame(t) : t \in Plain} :
              up' = [up EXCEPT ![c] = Append(@, f)]
        BY <2>7, Sent
      <4> QED BY <4>1, Spoken
    <3>2. up' \in [Clients -> Seq(Frames)]
      BY <3>1, AppendAt
    <3> QED BY <2>7, <3>2 DEF Send
  <2>8. CASE Receive(c)
    BY <2>8 DEF Receive
  <2>9. CASE Close(c)
    BY <2>9 DEF Close, LeavePipe
  <2> QED BY <1>11, <2>1, <2>2, <2>3, <2>4, <2>5, <2>6, <2>7, <2>8, <2>9
          DEF ConnectStep, SessionStep
<1>12. ASSUME NEW c \in Foreigners, ForeignStep(c)
       PROVE  TypeOK' /\ Attachment'
  <2> c \in Clients
    OBVIOUS
  <2>1. CASE ForeignOpen(c)
    BY <2>1 DEF ForeignOpen, Attach
  <2>2. CASE ForeignSend(c)
    <3>1. PICK f \in Frames : up' = [up EXCEPT ![c] = Append(@, f)]
      <4>1. PICK f \in {Handshake(cnonce[c])} \cup {Frame(t) : t \in Plain} :
              up' = [up EXCEPT ![c] = Append(@, f)]
        BY <2>2 DEF ForeignSend
      <4> QED BY <4>1, Spoken
    <3>2. up' \in [Clients -> Seq(Frames)]
      BY <3>1, AppendAt
    <3> QED BY <2>2, <3>2 DEF ForeignSend
  <2>3. CASE ForeignClose(c)
    BY <2>3 DEF ForeignClose, LeavePipe
  <2> QED BY <1>12, <2>1, <2>2, <2>3 DEF ForeignStep
<1> QED BY <1>1, <1>2, <1>3, <1>4, <1>5, <1>6, <1>8, <1>9, <1>10, <1>11, <1>12
        DEF Next, ServerStep

\* The variables of the handshake stay in range in every behaviour.
THEOREM TypeCorrect == Spec => []TypeOK
<1>1. Init => TypeOK /\ Attachment
  BY NoClientAssumption, MaxRetriesAssumption
     DEF Init, TypeOK, Attachment, Clients, ServerStates, ClientStates
<1>2. (TypeOK /\ Attachment) /\ [Next]_vars => (TypeOK /\ Attachment)'
  BY TypeStep
<1> QED BY <1>1, <1>2, PTL DEF Spec

-----------------------------------------------------------------------------
(* The inductive invariant.                                                *)

\* No step of the server or of a client breaks IInv: see the comments on its
\* conjuncts in PipeHandshake.
LEMMA InvStep ==
  ASSUME IInv, [Next]_vars
  PROVE  IInv'
<1>1. TypeOK' /\ Attachment'
  BY TypeStep DEF IInv
<1> SUFFICES Silent' /\ OwnNonce' /\ Judgement' /\ Replies' /\ NoFalseSession'
  BY <1>1 DEF IInv
<1> USE NoNonceAssumption, NoClientAssumption, DisjointAssumption
    DEF IInv, TypeOK, Attachment, Silent, OwnNonce, Judgement, Replies,
        NoFalseSession, CredentialGood, SrvOpen, Clients,
        svars, cvars, pipe, Accepted, Rejected
<1>2. CASE UNCHANGED vars
  BY <1>2 DEF vars
<1>3. CASE SetNonce
  BY <1>3 DEF SetNonce
<1>4. CASE CreateInstance \/ CreateFails \/ Backoff \/ AcceptClient \/ ReadHandshakeFails
  BY <1>4 DEF CreateInstance, CreateFails, Backoff, AcceptClient, ReadHandshakeFails
<1>5. CASE LeaveListening \/ SidRefused \/ ServeFails \/ ServePanics \/ PeerGone
  <2>1. PICK next \in {"create", "backoff", "panicked"} : DropInstance(next)
    BY <1>5 DEF LeaveListening, SidRefused, ServeFails, ServePanics, PeerGone
  <2>2. UNCHANGED <<expected, snap, cpc, cnonce, tries, down>>
    BY <1>5 DEF LeaveListening, SidRefused, ServeFails, ServePanics, PeerGone
  <2> QED BY <2>1, <2>2 DEF DropInstance
<1>6. CASE SidAuthorized
  BY <1>6 DEF SidAuthorized
<1>7. CASE ReadHandshake
  BY <1>7 DEF ReadHandshake, Matches
<1>8. CASE SendAccept
  BY <1>8 DEF SendAccept, Deliver
<1>9. CASE SendReject
  BY <1>9 DEF SendReject, Deliver, DropInstance
<1>10. CASE ServeRequest
  BY <1>10 DEF ServeRequest, Reading, Deliver, Answer
<1>11. CASE IgnoreFrame
  BY <1>11 DEF IgnoreFrame, Reading
<1>12. ASSUME NEW c \in PipeClients, Connect(c) \/ ConnectStep(c) \/ SessionStep(c)
       PROVE  Silent' /\ OwnNonce' /\ Judgement' /\ Replies' /\ NoFalseSession'
  <2>1. CASE Connect(c)
    BY <2>1 DEF Connect
  <2>2. CASE Open(c)
    BY <2>2 DEF Open, Attach
  <2>3. CASE OpenFails(c) \/ WriteHandshakeFails(c) \/ ReadVerdictFails(c)
    <3>1. Retry(c)
      BY <2>3 DEF OpenFails, WriteHandshakeFails, ReadVerdictFails
    <3> QED BY <3>1 DEF Retry, LeavePipe
  <2>4. CASE WriteHandshake(c)
    BY <2>4 DEF WriteHandshake, Handshake
  <2>5. CASE ReadAccepted(c)
    BY <2>5 DEF ReadAccepted
  <2>6. CASE ReadRejected(c)
    BY <2>6 DEF ReadRejected, LeavePipe
  <2>7. CASE Send(c)
    <3>1. PICK f \in Frames : /\ f.type = "Handshake" => f.nonce = cnonce[c]
                              /\ up' = [up EXCEPT ![c] = Append(@, f)]
      <4>1. PICK f \in {Handshake(cnonce[c])} \cup {Frame(t) : t \in Plain} :
              up' = [up EXCEPT ![c] = Append(@, f)]
        BY <2>7, Sent
      <4> QED BY <4>1, Spoken
    <3>2. UNCHANGED <<spc, peer, snap, cpc, cnonce, down>> /\ cpc[c] = "ready"
      BY <2>7 DEF Send
    <3>3. \A i \in DOMAIN up'[c] : (i \in DOMAIN up[c] /\ up'[c][i] = up[c][i]) \/ up'[c][i] = f
      BY <3>1, <3>2, AppendElements
    <3>4. \A d \in Clients \ {c} : up'[d] = up[d]
      BY <3>1
    <3>5. OwnNonce'
      BY <3>1, <3>2, <3>3, <3>4
    <3>6. Silent' /\ Judgement' /\ Replies' /\ NoFalseSession'
      BY <3>2, <3>4
    <3> QED BY <3>5, <3>6
  <2>8. CASE Receive(c)
    BY <2>8 DEF Receive
  <2>9. CASE Close(c)
    BY <2>9 DEF Close, LeavePipe
  <2> QED BY <1>12, <2>1, <2>2, <2>3, <2>4, <2>5, <2>6, <2>7, <2>8, <2>9
          DEF ConnectStep, SessionStep
<1>13. ASSUME NEW c \in Foreigners, ForeignStep(c)
       PROVE  Silent' /\ OwnNonce' /\ Judgement' /\ Replies' /\ NoFalseSession'
  <2>1. CASE ForeignOpen(c)
    BY <2>1 DEF ForeignOpen, Attach
  <2>2. CASE ForeignSend(c)
    <3>1. PICK f \in Frames : /\ f.type = "Handshake" => f.nonce = cnonce[c]
                              /\ up' = [up EXCEPT ![c] = Append(@, f)]
      <4>1. PICK f \in {Handshake(cnonce[c])} \cup {Frame(t) : t \in Plain} :
              up' = [up EXCEPT ![c] = Append(@, f)]
        BY <2>2 DEF ForeignSend
      <4>2. c \in Clients
        OBVIOUS
      <4>3. f \in Frames /\ (f.type = "Handshake" => f.nonce = cnonce[c])
        BY <4>1, <4>2, Spoken DEF IInv
      <4> QED BY <4>1, <4>3
    <3>2. UNCHANGED <<spc, peer, snap, cpc, cnonce, down>> /\ c \in Clients
      BY <2>2 DEF ForeignSend
    <3>3. \A i \in DOMAIN up'[c] : (i \in DOMAIN up[c] /\ up'[c][i] = up[c][i]) \/ up'[c][i] = f
      BY <3>1, <3>2, AppendElements
    <3>4. \A d \in Clients \ {c} : up'[d] = up[d]
      BY <3>1
    <3>5. OwnNonce'
      BY <3>1, <3>2, <3>3, <3>4
    <3>6. Silent' /\ Judgement' /\ Replies' /\ NoFalseSession'
      BY <3>2, <3>4
    <3> QED BY <3>5, <3>6
  <2>3. CASE ForeignClose(c)
    BY <2>3 DEF ForeignClose, LeavePipe
  <2> QED BY <1>13, <2>1, <2>2, <2>3 DEF ForeignStep
<1> QED BY <1>2, <1>3, <1>4, <1>5, <1>6, <1>7, <1>8, <1>9, <1>10, <1>11, <1>12, <1>13
        DEF Next, ServerStep

LEMMA Invariant == Spec => []IInv
<1>1. Init => IInv
  BY NoClientAssumption, MaxRetriesAssumption
     DEF Init, IInv, TypeOK, Attachment, Silent, OwnNonce, Judgement, Replies,
         NoFalseSession, CredentialGood, Clients, ServerStates, ClientStates
<1>2. IInv /\ [Next]_vars => IInv'
  BY InvStep
<1> QED BY <1>1, <1>2, PTL DEF Spec

\* The server serves nobody who did not present the nonce it asked for, and
\* nobody at all while no nonce was set.
THEOREM FailClosedHolds == Spec => []FailClosed
<1>1. IInv => FailClosed
  BY DEF IInv, Judgement, FailClosed
<1> QED BY <1>1, Invariant, PTL

\* A client never holds a session the server did not grant on this connection.
THEOREM NoFalseSessionHolds == Spec => []NoFalseSession
<1>1. IInv => NoFalseSession
  BY DEF IInv
<1> QED BY <1>1, Invariant, PTL

\* No request of a client that was not admitted is ever answered.
THEOREM NoAnswerBeforeAdmissionHolds == Spec => []NoAnswerBeforeAdmission
<1>1. IInv => NoAnswerBeforeAdmission
  BY DEF IInv, Replies, NoAnswerBeforeAdmission, Answers, Rejected
<1> QED BY <1>1, Invariant, PTL

-----------------------------------------------------------------------------
(* The handshake implements PipeSession.                                   *)

LEMMA RefinementInit == Init => Session!Init
BY NoClientAssumption DEF Init, Session!Init, Admitted, Clients

\* Every step of the handshake is a step of the abstract session or leaves it
\* unchanged.
LEMMA RefinementStep ==
  ASSUME IInv, IInv', [Next]_vars
  PROVE  [Session!Next]_(Session!svars)
<1> DEFINE hold == IF spc = "data" THEN peer ELSE NoClient
           bel  == {c \in PipeClients : cpc[c] = "ready"}
<1> USE NoNonceAssumption, NoClientAssumption, DisjointAssumption
    DEF Session!svars, Admitted, Clients, svars, cvars, pipe
<1>1. CASE UNCHANGED vars
  BY <1>1 DEF vars
<1>2. CASE SetNonce
  <2>1. Session!Rotate
    BY <1>2 DEF SetNonce, Session!Rotate
  <2> QED BY <2>1 DEF Session!Next
<1>3. CASE CreateInstance \/ CreateFails \/ Backoff \/ AcceptClient
           \/ ReadHandshake \/ ReadHandshakeFails \/ IgnoreFrame
  BY <1>3 DEF CreateInstance, CreateFails, Backoff, AcceptClient,
              ReadHandshake, ReadHandshakeFails, IgnoreFrame, Reading
<1>4. CASE LeaveListening \/ SidRefused
  BY <1>4 DEF LeaveListening, SidRefused, DropInstance
<1>5. CASE ServeFails \/ ServePanics \/ PeerGone
  <2>1. Session!Release
    BY <1>5 DEF ServeFails, ServePanics, PeerGone, Reading, DropInstance, Session!Release
  <2> QED BY <2>1 DEF Session!Next
<1>6. CASE SidAuthorized
  <2>1. peer \in Clients /\ spc = "sid" /\ spc' # "data"
    BY <1>6 DEF SidAuthorized, IInv, TypeOK, Attachment
  <2>2. peer \notin Admitted
    BY <2>1 DEF IInv, TypeOK, Replies, NoFalseSession, SrvOpen
  <2>3. Admitted' = Admitted
    BY <1>6, <2>1 DEF SidAuthorized
  <2>4. Session!Ask(peer)
    BY <1>6, <2>1, <2>2, <2>3 DEF SidAuthorized, Session!Ask
  <2> QED BY <2>1, <2>4 DEF Session!Next
<1>7. CASE SendAccept
  <2>1. peer \in Clients /\ down[peer] = <<>> /\ spc = "accepting" /\ spc' = "data"
    BY <1>7 DEF SendAccept, IInv, TypeOK, Attachment, Replies
  <2>2. CredentialGood(peer)
    BY <2>1 DEF IInv, Judgement
  <2>3. \A c \in Clients \ {peer} : down'[c] = down[c]
    BY <1>7 DEF SendAccept, Deliver, IInv, TypeOK
  <2>4. Admitted' = Admitted \cup {peer}
    BY <1>7, <2>1, <2>3 DEF SendAccept
  <2> HIDE DEF Admitted
  <2>5. Session!Admit(peer)
    BY <1>7, <2>1, <2>2, <2>4 DEF SendAccept, Session!Admit, CredentialGood
  <2> QED BY <2>1, <2>5 DEF Session!Next
<1>8. CASE SendReject
  <2>1. peer \in Clients /\ down[peer] = <<>>
    BY <1>8 DEF SendReject, IInv, TypeOK, Attachment, Replies
  <2>2. UNCHANGED <<expected, snap, cpc, cnonce>> /\ spc = "rejecting" /\ spc' = "create"
    BY <1>8 DEF SendReject, DropInstance
  <2>3. \A c \in Clients : down'[c] = down[c] \/ (c = peer /\ Head(down'[c]) = Rejected)
    <3>1. Head(Append(<<>>, Rejected)) = Rejected
      OBVIOUS
    <3>2. UNCHANGED down \/ down' = [down EXCEPT ![peer] = Append(@, Rejected)]
      BY <1>8 DEF SendReject, Deliver
    <3>3. down \in [Clients -> Seq(Verdicts \cup Answers)]
      BY DEF IInv, TypeOK
    <3> HIDE DEF Rejected
    <3>4. CASE down' = [down EXCEPT ![peer] = Append(@, Rejected)]
      <4>1. down'[peer] = Append(<<>>, Rejected)
        BY <2>1, <3>3, <3>4
      <4>2. \A c \in Clients \ {peer} : down'[c] = down[c]
        BY <3>3, <3>4
      <4> QED BY <3>1, <4>1, <4>2
    <3> QED BY <3>2, <3>4
  <2>4. Admitted' = Admitted
    BY <2>1, <2>2, <2>3 DEF Accepted, Rejected
  <2> QED BY <2>2, <2>4
<1>9. CASE ServeRequest
  BY <1>9 DEF ServeRequest, Reading, Deliver, Answer, IInv, TypeOK
<1>10. ASSUME NEW c \in PipeClients, Connect(c) \/ ConnectStep(c) \/ SessionStep(c)
       PROVE  [Session!Next]_(Session!svars)
  <2>1. CASE Connect(c)
    <3>1. Admitted' = Admitted /\ c \notin Admitted
      BY <2>1 DEF Connect, IInv, TypeOK, Silent
    <3>2. bel' = bel /\ hold' = hold /\ c # hold
      BY <2>1 DEF Connect, IInv, TypeOK, Silent
    <3>3. Session!Equip(c)
      BY <2>1, <3>1, <3>2 DEF Connect, Session!Equip
    <3> QED BY <3>3 DEF Session!Next
  <2>2. CASE Open(c)
    <3>1. Admitted' = Admitted
      BY <2>2 DEF Open, Attach, IInv, TypeOK
    <3>2. bel' = bel /\ hold' = hold
      BY <2>2 DEF Open, Attach, IInv, TypeOK
    <3> QED BY <2>2, <3>1, <3>2 DEF Open
  <2>3. CASE OpenFails(c) \/ WriteHandshakeFails(c) \/ ReadVerdictFails(c)
    BY <2>3 DEF OpenFails, WriteHandshakeFails, ReadVerdictFails, Retry, LeavePipe, IInv, TypeOK,
       Verdicts
  <2>4. CASE WriteHandshake(c)
    <3>1. c \in Clients /\ cpc[c] = "writing" /\ cpc' = [cpc EXCEPT ![c] = "waiting"]
      BY <2>4 DEF WriteHandshake
    <3>2. down[c] # <<>> => Head(down[c]) # Accepted
      BY <3>1 DEF IInv, TypeOK, Silent, Accepted, Rejected
    <3>3. Admitted' = Admitted /\ bel' = bel
      BY <2>4, <3>1, <3>2 DEF WriteHandshake, IInv, TypeOK, NoFalseSession
    <3> QED BY <2>4, <3>3 DEF WriteHandshake
  <2>5. CASE ReadAccepted(c)
    <3>1. Session!Learn(c)
      BY <2>5 DEF ReadAccepted, Session!Learn, IInv, TypeOK
    <3> QED BY <3>1 DEF Session!Next
  <2>6. CASE ReadRejected(c)
    BY <2>6 DEF ReadRejected, LeavePipe, IInv, TypeOK, Accepted, Rejected
  <2>7. CASE Send(c)
    BY <2>7 DEF Send
  <2>8. CASE Receive(c)
    BY <2>8 DEF Receive, IInv, TypeOK
  <2>9. CASE Close(c)
    <3>1. Session!Leave(c) \/ UNCHANGED Session!svars
      BY <2>9 DEF Close, LeavePipe, Session!Leave, IInv, TypeOK
    <3> QED BY <3>1 DEF Session!Next
  <2> QED BY <1>10, <2>1, <2>2, <2>3, <2>4, <2>5, <2>6, <2>7, <2>8, <2>9
          DEF ConnectStep, SessionStep
<1>11. ASSUME NEW c \in Foreigners, ForeignStep(c)
       PROVE  [Session!Next]_(Session!svars)
  <2>1. CASE ForeignOpen(c)
    <3>1. Admitted' = Admitted /\ c \notin Admitted
      BY <2>1 DEF ForeignOpen, Attach, IInv, TypeOK
    <3>2. bel' = bel /\ hold' = hold /\ c # hold
      BY <2>1 DEF ForeignOpen, Attach, IInv, TypeOK
    <3>3. Session!Equip(c)
      BY <2>1, <3>1, <3>2 DEF ForeignOpen, Session!Equip
    <3> QED BY <3>3 DEF Session!Next
  <2>2. CASE ForeignSend(c)
    BY <2>2 DEF ForeignSend
  <2>3. CASE ForeignClose(c)
    BY <2>3 DEF ForeignClose, LeavePipe, IInv, TypeOK
  <2> QED BY <1>11, <2>1, <2>2, <2>3 DEF ForeignStep
<1> QED BY <1>1, <1>2, <1>3, <1>4, <1>5, <1>6, <1>7, <1>8, <1>9, <1>10, <1>11
        DEF Next, ServerStep

\* PipeServer and its clients implement the abstract session: whatever is
\* lost, late or retried, admission follows the nonce and belief follows
\* admission.
THEOREM Refinement == Spec => ImplementsSession
<1>1. Init => Session!Init
  BY RefinementInit
<1>2. IInv /\ IInv' /\ [Next]_vars => [Session!Next]_(Session!svars)
  BY RefinementStep
<1> QED BY <1>1, <1>2, Invariant, PTL DEF Spec, ImplementsSession, Session!Spec
=============================================================================

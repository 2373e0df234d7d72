----------------------- MODULE RequestExchangeProofs -----------------------
(***************************************************************************)
(* Proofs about RequestExchange, for a pipe of any capacity and any number *)
(* of frames.                                                              *)
(***************************************************************************)
EXTENDS RequestExchange, Integers, SequenceTheorems, TLAPS

-----------------------------------------------------------------------------
(* Frames and the pieces they are written in.                               *)

LEMMA FramesAre ==
  /\ NoFrame \in Frames
  /\ \A f \in Frames : /\ f.id \in 1..MaxFrames /\ f.kind \in Calls \cup Raw \cup Answers
                       /\ AnswerTo(f) \in Frames
  /\ \A k \in Calls \cup Raw, n \in 1..MaxFrames : [kind |-> k, id |-> n] \in Frames
BY MaxFramesAssumption DEF NoFrame, Frames, Calls, Raw, Answers, AnswerTo, AnswerKind

LEMMA EncodeIs ==
  ASSUME NEW f \in Frames
  PROVE  /\ Encode(f) \in Seq(Units(Frames)) /\ Len(Encode(f)) = 2
         /\ Encode(f) # <<>>
BY DEF Encode, Header, Payload, Units

LEMMA AnnouncedAre ==
  ASSUME NEW u \in Units(Frames), NEW f \in Announced(u, Frames)
  PROVE  f \in Frames
BY DEF Announced, Units

\* What a reader or a writer leaves of a sequence.
LEMMA Reading ==
  ASSUME NEW S, NEW s \in Seq(S), s # <<>>
  PROVE  /\ Head(s) \in S /\ Tail(s) \in Seq(S)
         /\ Len(s) \in Nat \ {0} /\ Len(Tail(s)) = Len(s) - 1
OBVIOUS

LEMMA Writing ==
  ASSUME NEW S, NEW s \in Seq(S), NEW e \in S
  PROVE  Append(s, e) \in Seq(S) /\ Len(Append(s, e)) = Len(s) + 1
OBVIOUS

-----------------------------------------------------------------------------
(* Types.  A call under way has written a frame.                            *)

PipeOK ==
  /\ up \in Seq(Units(Frames)) /\ Len(up) <= Capacity
  /\ down \in Seq(Units(Frames)) /\ Len(down) <= Capacity
ServerOK ==
  /\ spc \in {"header", "payload", "answering", "closed"}
  /\ req \in Frames
  /\ sout \in Seq(Units(Frames))
  /\ spc = "answering" => sout # <<>>
  /\ spc # "answering" => sout = <<>>
  /\ answered \in Seq(1..MaxFrames)
ClientOK ==
  /\ cpc \in {"idle", "writing", "header", "payload", "gone"}
  /\ got \in Frames
  /\ cout \in Seq(Units(Frames)) /\ (cpc = "writing" => cout # <<>>)
  /\ sent \in Seq(Frames) /\ Len(sent) <= MaxFrames
  /\ cpc \in {"writing", "header", "payload"} => sent # <<>>
ClientFlags == late \in BOOLEAN /\ cut \in BOOLEAN
Entries == [asked : 1..MaxFrames, answer : 1..MaxFrames, clean : BOOLEAN, whole : BOOLEAN]
LogOK == log \in Seq(Entries)

Inv == PipeOK /\ ServerOK /\ ClientOK /\ ClientFlags /\ LogOK

LEMMA InvImpliesTypeOK == Inv => TypeOK
<1> SUFFICES ASSUME Inv PROVE TypeOK
  OBVIOUS
<1>1. (sout # <<>>) = (spc = "answering")
  BY DEF Inv, ServerOK
<1> QED
  BY Zenon, <1>1 DEF Inv, PipeOK, ServerOK, ClientOK, ClientFlags, LogOK, Entries, TypeOK

LEMMA InitInv == Init => Inv
<1> SUFFICES ASSUME Init PROVE Inv
  OBVIOUS
<1>1. ClientFlags
  BY Zenon DEF Init, ClientFlags
<1>2. PipeOK /\ ServerOK /\ ClientOK /\ LogOK
  BY FramesAre, CapacityAssumption, MaxFramesAssumption
     DEF Init, PipeOK, ServerOK, ClientOK, LogOK
<1> QED
  BY <1>1, <1>2 DEF Inv

LEMMA FlagsStep == ASSUME ClientFlags, [Next]_vars PROVE ClientFlags'
BY Zenon DEF ClientFlags, Next, ServerStep, CallStep, vars, client, ServerReadsHeader,
             ServerReadsPayload, ServerPanics, ServerWrites, ServerLoses, Write, ClientWrites,
             ClientReadsHeader, ClientReadsPayload, Timeout, ClientLoses, DropConnection

LEMMA ServerStepInv ==
  ASSUME Inv, ServerStep
  PROVE  PipeOK' /\ ServerOK' /\ ClientOK' /\ LogOK'
<1> USE DEF Inv
<1>1. ClientOK' /\ LogOK'
  BY DEF ServerStep, ServerReadsHeader, ServerReadsPayload, ServerPanics, ServerWrites,
         ServerLoses, client, ClientOK, LogOK
<1>2. CASE ServerReadsHeader
  <2> USE <1>2 DEF ServerReadsHeader
  <2>1. PipeOK'
    BY Reading, CapacityAssumption DEF PipeOK
  <2>2. ServerOK'
    <3>1. Head(up) \in Units(Frames)
      BY Reading DEF PipeOK
    <3>2. PICK f \in Announced(Head(up), Frames) :
            IF f.kind = "oversized"
            THEN spc' = "closed" /\ UNCHANGED req
            ELSE spc' = "payload" /\ req' = f
      OBVIOUS
    <3>3. f \in Frames
      BY <3>1, AnnouncedAre
    <3> QED
      BY <3>2, <3>3 DEF ServerOK
  <2> QED
    BY <1>1, <2>1, <2>2
<1>3. CASE ServerReadsPayload
  <2> USE <1>3 DEF ServerReadsPayload
  <2>1. PipeOK'
    BY Reading, CapacityAssumption DEF PipeOK
  <2>2. req.id \in 1..MaxFrames /\ AnswerTo(req) \in Frames
    BY FramesAre DEF ServerOK
  <2>3. answered' \in Seq(1..MaxFrames)
    BY <2>2, Writing DEF ServerOK
  <2>4. Encode(AnswerTo(req)) \in Seq(Units(Frames)) /\ Encode(AnswerTo(req)) # <<>>
    BY <2>2, EncodeIs
  <2>5. ServerOK'
    BY <2>3, <2>4, FramesAre DEF ServerOK, Reply, Onward
  <2> QED
    BY <1>1, <2>1, <2>5
<1>4. CASE ServerWrites
  <2> USE <1>4 DEF ServerWrites
  <2>1. sout # <<>> /\ sout \in Seq(Units(Frames))
    BY DEF ServerOK
  <2>2. Head(sout) \in Units(Frames) /\ Tail(sout) \in Seq(Units(Frames))
        /\ Len(Tail(sout)) = Len(sout) - 1 /\ Len(sout) \in Nat \ {0}
    BY <2>1, Reading
  <2>3. PipeOK'
    BY <2>2, Writing, CapacityAssumption DEF PipeOK
  <2>4. sout' # <<>> <=> Len(sout) # 1
    BY <2>2
  <2>5. ServerOK'
    BY <2>2, <2>4 DEF ServerOK
  <2> QED
    BY <1>1, <2>3, <2>5
<1>5. CASE ServerLoses
  BY <1>1, <1>5, FramesAre DEF ServerLoses, PipeOK, ServerOK
<1>6. CASE ServerPanics
  <2> USE <1>6 DEF ServerPanics
  <2>1. PipeOK'
    BY Reading, CapacityAssumption DEF PipeOK
  <2>2. ServerOK'
    BY FramesAre DEF ServerOK
  <2> QED
    BY <1>1, <2>1, <2>2
<1> QED
  BY <1>2, <1>3, <1>4, <1>5, <1>6 DEF ServerStep

LEMMA ClientStepInv ==
  ASSUME Inv, CallStep \/ DropConnection \/ \E kind \in Calls \cup Raw : Write(kind)
  PROVE  PipeOK' /\ ServerOK' /\ ClientOK' /\ LogOK'
<1> USE DEF Inv
<1>1. ServerOK'
  BY DEF CallStep, ClientWrites, ClientReadsHeader, ClientReadsPayload, Timeout, ClientLoses,
         DropConnection, Write, server, ServerOK
<1>2. ASSUME NEW kind \in Calls \cup Raw, Write(kind) PROVE PipeOK' /\ ClientOK' /\ LogOK'
  <2> USE <1>2 DEF Write
  <2>1. Len(sent) + 1 \in 1..MaxFrames
    BY MaxFramesAssumption DEF ClientOK
  <2> DEFINE f == [kind |-> kind, id |-> Len(sent) + 1]
  <2>2. f \in Frames
    BY <2>1, FramesAre
  <2>3. sent' = Append(sent, f) /\ cout' = Encode(f)
    OBVIOUS
  <2> HIDE DEF f
  <2>4. ClientOK'
    BY <2>1, <2>2, <2>3, EncodeIs, Writing DEF ClientOK
  <2> QED
    BY <2>4 DEF PipeOK, LogOK
<1>3. CASE ClientWrites
  <2> USE <1>3 DEF ClientWrites
  <2>1. cout # <<>> /\ cout \in Seq(Units(Frames))
    BY DEF ClientOK
  <2>2. Head(cout) \in Units(Frames) /\ Tail(cout) \in Seq(Units(Frames))
        /\ Len(Tail(cout)) = Len(cout) - 1 /\ Len(cout) \in Nat \ {0}
    BY <2>1, Reading
  <2>3. PipeOK'
    BY <2>2, Writing, CapacityAssumption DEF PipeOK
  <2>4. Len(cout) > 1 => cout' # <<>>
    BY <2>2
  <2>5. ClientOK' /\ LogOK'
    BY <2>2, <2>4 DEF ClientOK, LogOK
  <2> QED
    BY <1>1, <2>3, <2>5
<1>4. CASE ClientReadsHeader
  <2> USE <1>4 DEF ClientReadsHeader
  <2>1. PipeOK'
    BY Reading, CapacityAssumption DEF PipeOK
  <2>2. Head(down) \in Units(Frames)
    BY Reading DEF PipeOK
  <2>3. PICK f \in Announced(Head(down), Frames) :
          IF f.kind = "oversized"
          THEN cpc' = "idle" /\ UNCHANGED got
          ELSE cpc' = "payload" /\ got' = f
    OBVIOUS
  <2>4. f \in Frames
    BY <2>2, AnnouncedAre
  <2>5. ClientOK' /\ LogOK'
    BY <2>3, <2>4 DEF ClientOK, LogOK
  <2> QED
    BY <1>1, <2>1, <2>5
<1>5. CASE ClientReadsPayload
  <2> USE <1>5 DEF ClientReadsPayload
  <2>1. PipeOK'
    BY Reading, CapacityAssumption DEF PipeOK
  <2>2. ClientOK'
    BY FramesAre DEF ClientOK
  <2>3. Own.id \in 1..MaxFrames /\ got.id \in 1..MaxFrames
    BY FramesAre DEF ClientOK, Own
  <2> DEFINE clean == ~late
             whole == ~cut
             entry == [asked |-> Own.id, answer |-> got.id, clean |-> clean, whole |-> whole]
  <2>4. log' \in {log, Append(log, entry)}
    BY Zenon
  <2>5. clean \in BOOLEAN /\ whole \in BOOLEAN
    BY Zenon DEF ClientFlags
  <2> HIDE DEF clean, whole
  <2>6. entry \in Entries
    BY <2>3, <2>5 DEF Entries
  <2> HIDE DEF entry
  <2>7. LogOK'
    BY <2>4, <2>6, Writing DEF LogOK
  <2> QED
    BY <1>1, <2>1, <2>2, <2>7
<1>6. CASE Timeout \/ ClientLoses \/ DropConnection
  <2>1. /\ UNCHANGED <<up, down, sent, log>> /\ cout' \in {cout, <<>>}
        /\ cpc' \in {"idle", "gone"} /\ got' \in {got, NoFrame}
    BY <1>6 DEF Timeout, ClientLoses, DropConnection
  <2>2. ClientOK'
    <3>1. NoFrame \in Frames /\ <<>> \in Seq(Units(Frames))
      BY FramesAre
    <3>2. UNCHANGED sent /\ cpc' \notin {"writing", "header", "payload"}
      BY <2>1
    <3> QED
      BY <2>1, <3>1, <3>2 DEF ClientOK
  <2>3. PipeOK' /\ LogOK'
    BY <2>1 DEF PipeOK, LogOK
  <2> QED
    BY <1>1, <2>2, <2>3
<1> QED
  BY <1>1, <1>2, <1>3, <1>4, <1>5, <1>6 DEF CallStep

LEMMA StepInv == Inv /\ [Next]_vars => Inv'
<1> SUFFICES ASSUME Inv, [Next]_vars PROVE Inv'
  OBVIOUS
<1>1. ClientFlags'
  BY FlagsStep DEF Inv
<1>2. CASE UNCHANGED vars
  BY <1>1, <1>2 DEF Inv, vars, PipeOK, ServerOK, ClientOK, LogOK
<1> QED
  BY <1>1, <1>2, ServerStepInv, ClientStepInv DEF Next, Inv

\* The pipe stays within its capacity, and the two ends keep their types.
THEOREM TypeCorrect == Spec => []TypeOK
BY InitInv, StepInv, InvImpliesTypeOK, PTL DEF Spec

-----------------------------------------------------------------------------
(* Where the two ends stand.  A stream holds the encodings of frames from  *)
(* one on; its reader may have the header of the first one already.        *)

Encodes(s, fs, n, off) ==
  /\ n \in 0..Len(fs) /\ off \in {0, 1} /\ n + off <= Len(fs)
  /\ Len(s) = 2 * (Len(fs) - n) - off
  /\ \A k \in (n + 1)..Len(fs) : s[2 * (k - n) - off] = Payload(fs[k])
  /\ \A k \in (n + off + 1)..Len(fs) : s[2 * (k - n) - 1 - off] = Header(fs[k])

Up == up \o cout
Down == down \o sout
ServerHalf == IF spc = "payload" THEN 1 ELSE 0
ClientHalf == IF cpc = "payload" THEN 1 ELSE 0
Replies == [i \in 1..Len(answered) |-> AnswerTo(sent[answered[i]])]

Numbered == \A k \in 1..Len(sent) : sent[k].id = k
Outgoing == cpc # "writing" => cout = <<>>
Increasing == \A i, j \in 1..Len(answered) : i < j => answered[i] < answered[j]
ClosedFor ==
  spc = "closed" => cpc = "gone" \/ \E i \in 1..Len(sent) : sent[i].kind \in Fatal
CutIsLate == cut => late

\* The server has read n frames, and answered those it owes an answer.
AnsweredTo(n) == n \in 0..Len(sent) /\ Given = Owed \cap 1..n
ServerAt(n) ==
  spc # "closed" => /\ Encodes(Up, sent, n, ServerHalf)
                    /\ spc = "payload" => req = sent[n + 1]

\* The client has read a answers; those to come are later than all it returned.
ClientAt(a) ==
  ~cut /\ cpc # "gone" =>
    /\ Encodes(Down, Replies, a, ClientHalf)
    /\ cpc = "payload" => got = Replies[a + 1]
    /\ \A j \in 1..Len(log) : log[j].answer \in Given
    /\ \A j \in 1..Len(log), k \in (a + 1)..Len(answered) : log[j].answer < answered[k]

\* As long as no call timed out, the only answer to come is that of the call
\* under way.
Prompt(n, a) ==
  ~late /\ cpc # "gone" =>
    /\ cpc \in {"idle", "writing"} => a = Len(answered)
    /\ a < Len(answered) => a + 1 = Len(answered) /\ answered[a + 1] = Len(sent)
    /\ spc # "closed" =>
         \A k \in Owed : k > n => k = Len(sent) /\ cpc \in {"writing", "header"}

Standing(n, a) == AnsweredTo(n) /\ ServerAt(n) /\ ClientAt(a) /\ Prompt(n, a)

InPlace ==
  /\ Numbered /\ Outgoing /\ Increasing /\ ClosedFor /\ CutIsLate /\ AnswersMatch
  /\ \E n \in Nat, a \in Nat : Standing(n, a)

-----------------------------------------------------------------------------
(* Reading and writing an encoding.                                         *)

\* The first piece of a joined stream is the first of its first part.
LEMMA ReadJoined ==
  ASSUME NEW S, NEW s \in Seq(S), NEW t \in Seq(S), s # <<>>
  PROVE  /\ s \o t \in Seq(S) /\ s \o t # <<>>
         /\ Head(s) = Head(s \o t) /\ Tail(s) \o t = Tail(s \o t)
OBVIOUS

\* A piece that goes from one part of a stream to the other leaves it the same.
LEMMA MoveHead ==
  ASSUME NEW S, NEW s \in Seq(S), NEW t \in Seq(S), t # <<>>
  PROVE  Append(s, Head(t)) \o Tail(t) = s \o t
<1> DEFINE u == Append(s, Head(t)) \o Tail(t)
           v == s \o t
<1>1. u \in Seq(S) /\ v \in Seq(S) /\ Len(u) = Len(v)
  OBVIOUS
<1>2. ASSUME NEW i \in 1..Len(v) PROVE u[i] = v[i]
  BY <1>2
<1> HIDE DEF u, v
<1> QED
  BY <1>1, <1>2

LEMMA ReadHeaderOf ==
  ASSUME NEW S, NEW T, NEW s \in Seq(T), NEW fs \in Seq(S), NEW n, Encodes(s, fs, n, 0),
         s # <<>>
  PROVE  n < Len(fs) /\ Head(s) = Header(fs[n + 1]) /\ Encodes(Tail(s), fs, n, 1)
<1> DEFINE t == Tail(s)
<1>1. /\ n \in Nat /\ n < Len(fs) /\ Len(s) \in Nat \ {0} /\ Len(s) = 2 * (Len(fs) - n)
      /\ t \in Seq(T) /\ Len(t) = Len(s) - 1 /\ \A i \in 1..Len(t) : t[i] = s[i + 1]
  BY DEF Encodes
<1>2. Head(s) = s[1] /\ s[1] = Header(fs[n + 1])
  BY <1>1 DEF Encodes
<1> HIDE DEF t
<1>3. ASSUME NEW k \in (n + 1)..Len(fs) PROVE t[2 * (k - n) - 1] = Payload(fs[k])
  <2>1. 2 * (k - n) - 1 \in 1..Len(t)
    BY <1>1
  <2>2. t[2 * (k - n) - 1] = s[2 * (k - n) - 1 + 1]
    BY <1>1, <2>1
  <2> QED
    BY <1>1, <2>2 DEF Encodes
<1>4. ASSUME NEW k \in (n + 1 + 1)..Len(fs) PROVE t[2 * (k - n) - 1 - 1] = Header(fs[k])
  <2>1. 2 * (k - n) - 1 - 1 \in 1..Len(t) /\ k \in (n + 0 + 1)..Len(fs)
    BY <1>1
  <2>2. t[2 * (k - n) - 1 - 1] = s[2 * (k - n) - 1 - 1 + 1]
    BY <1>1, <2>1
  <2>3. 2 * (k - n) - 1 - 1 + 1 = 2 * (k - n) - 1 - 0
    BY <1>1
  <2> QED
    BY <2>1, <2>2, <2>3 DEF Encodes
<1>5. Encodes(t, fs, n, 1)
  BY <1>1, <1>3, <1>4 DEF Encodes
<1> QED
  BY <1>1, <1>2, <1>5 DEF t

LEMMA ReadPayloadOf ==
  ASSUME NEW S, NEW T, NEW s \in Seq(T), NEW fs \in Seq(S), NEW n, Encodes(s, fs, n, 1)
  PROVE  n < Len(fs) /\ s # <<>> /\ Encodes(Tail(s), fs, n + 1, 0)
<1> DEFINE t == Tail(s)
<1>1. /\ n \in Nat /\ n < Len(fs) /\ Len(s) \in Nat \ {0} /\ Len(s) = 2 * (Len(fs) - n) - 1
      /\ s # <<>>
      /\ t \in Seq(T) /\ Len(t) = Len(s) - 1 /\ \A i \in 1..Len(t) : t[i] = s[i + 1]
  BY DEF Encodes
<1> HIDE DEF t
<1>3. ASSUME NEW k \in (n + 1 + 1)..Len(fs) PROVE t[2 * (k - (n + 1)) - 0] = Payload(fs[k])
  <2>1. 2 * (k - (n + 1)) - 0 \in 1..Len(t) /\ k \in (n + 1)..Len(fs)
    BY <1>1
  <2>2. t[2 * (k - (n + 1)) - 0] = s[2 * (k - n) - 1]
    BY <1>1, <2>1
  <2> QED
    BY <2>1, <2>2 DEF Encodes
<1>4. ASSUME NEW k \in (n + 1 + 0 + 1)..Len(fs)
      PROVE  t[2 * (k - (n + 1)) - 1 - 0] = Header(fs[k])
  <2>1. 2 * (k - (n + 1)) - 1 - 0 \in 1..Len(t) /\ k \in (n + 1 + 1)..Len(fs)
    BY <1>1
  <2>2. t[2 * (k - (n + 1)) - 1 - 0] = s[2 * (k - n) - 1 - 1]
    BY <1>1, <2>1
  <2> QED
    BY <2>1, <2>2 DEF Encodes
<1>5. Encodes(t, fs, n + 1, 0)
  BY <1>1, <1>3, <1>4 DEF Encodes
<1> QED
  BY <1>1, <1>5 DEF t

LEMMA JoinedPair ==
  ASSUME NEW S, NEW s \in Seq(S), NEW e \in Seq(S), Len(e) = 2
  PROVE  /\ Len(s \o e) = Len(s) + 2
         /\ \A i \in 1..Len(s) : (s \o e)[i] = s[i]
         /\ (s \o e)[Len(s) + 1] = e[1] /\ (s \o e)[Len(s) + 2] = e[2]
<1> DEFINE t == s \o e
           m == Len(s)
<1>1. m \in Nat
  OBVIOUS
<1>2. /\ Len(t) = m + Len(e)
      /\ \A i \in 1..(m + Len(e)) : t[i] = IF i <= m THEN s[i] ELSE e[i - m]
  BY Zenon, ConcatProperties
<1> HIDE DEF t, m
<1>3. \A i \in 1..m : t[i] = s[i]
  BY <1>1, <1>2
<1>4. t[m + 1] = e[1]
  BY <1>1, <1>2
<1>5. t[m + 2] = e[2]
  BY <1>1, <1>2
<1> QED
  BY <1>2, <1>3, <1>4, <1>5 DEF t, m

LEMMA WriteFrame ==
  ASSUME NEW S, NEW s \in Seq(Units(S)), NEW fs \in Seq(S), NEW n, NEW off, NEW f \in S,
         Encodes(s, fs, n, off)
  PROVE  Encodes(s \o Encode(f), Append(fs, f), n, off)
<1> DEFINE t == s \o Encode(f)
           gs == Append(fs, f)
<1>1. /\ n \in 0..Len(fs) /\ off \in {0, 1} /\ n + off <= Len(fs)
      /\ Len(s) = 2 * (Len(fs) - n) - off /\ Len(s) \in Nat /\ Len(fs) \in Nat
  BY DEF Encodes
<1>2. /\ Len(gs) = Len(fs) + 1 /\ gs[Len(fs) + 1] = f
      /\ \A k \in 1..Len(fs) : gs[k] = fs[k]
  OBVIOUS
<1>3. /\ Encode(f) \in Seq(Units(S)) /\ Len(Encode(f)) = 2
      /\ Encode(f)[1] = Header(f) /\ Encode(f)[2] = Payload(f)
  BY DEF Encode, Header, Payload, Units
<1>4. /\ Len(t) = Len(s) + 2
      /\ \A i \in 1..Len(s) : t[i] = s[i]
      /\ t[Len(s) + 1] = Header(f) /\ t[Len(s) + 2] = Payload(f)
  <2> DEFINE e == Encode(f)
  <2> HIDE DEF e
  <2>1. e \in Seq(Units(S)) /\ Len(e) = 2 /\ e[1] = Header(f) /\ e[2] = Payload(f)
    BY <1>3 DEF e
  <2>2. /\ Len(s \o e) = Len(s) + 2
        /\ \A i \in 1..Len(s) : (s \o e)[i] = s[i]
        /\ (s \o e)[Len(s) + 1] = e[1] /\ (s \o e)[Len(s) + 2] = e[2]
    BY <2>1, JoinedPair
  <2> QED
    BY <2>1, <2>2 DEF e
<1> HIDE DEF t, gs
<1>5. ASSUME NEW k \in (n + 1)..Len(gs) PROVE t[2 * (k - n) - off] = Payload(gs[k])
  <2>1. CASE k = Len(fs) + 1
    BY <1>1, <1>2, <1>4, <2>1
  <2>2. CASE k <= Len(fs)
    <3>1. 2 * (k - n) - off \in 1..Len(s) /\ k \in (n + 1)..Len(fs) /\ k \in 1..Len(fs)
      BY <1>1, <2>2
    <3> QED
      BY <1>2, <1>4, <3>1 DEF Encodes
  <2> QED
    BY <1>1, <1>2, <2>1, <2>2
<1>6. ASSUME NEW k \in (n + off + 1)..Len(gs) PROVE t[2 * (k - n) - 1 - off] = Header(gs[k])
  <2>1. CASE k = Len(fs) + 1
    BY <1>1, <1>2, <1>4, <2>1
  <2>2. CASE k <= Len(fs)
    <3>1. /\ 2 * (k - n) - 1 - off \in 1..Len(s) /\ k \in (n + off + 1)..Len(fs)
          /\ k \in 1..Len(fs)
      BY <1>1, <2>2
    <3> QED
      BY <1>2, <1>4, <3>1 DEF Encodes
  <2> QED
    BY <1>1, <1>2, <2>1, <2>2
<1>7. Encodes(t, gs, n, off)
  <2>1. n \in 0..Len(gs) /\ n + off <= Len(gs)
    BY <1>1, <1>2
  <2>2. Len(t) = 2 * (Len(fs) - n) - off + 2
    BY <1>1, <1>4
  <2>3. Len(t) = 2 * (Len(gs) - n) - off
    BY <1>1, <1>2, <2>2
  <2> QED
    BY <1>1, <1>5, <1>6, <2>1, <2>3 DEF Encodes
<1> QED
  BY <1>7 DEF t, gs

-----------------------------------------------------------------------------
(* What InPlace gives, and what it needs to begin with.                     *)

LEMMA RepliesAre ==
  ASSUME Inv, NEW n, AnsweredTo(n)
  PROVE  /\ Replies \in Seq(Frames) /\ Len(Replies) = Len(answered)
         /\ \A i \in 1..Len(answered) : /\ answered[i] \in Owed /\ answered[i] \in 1..n
                                        /\ Replies[i] = AnswerTo(sent[answered[i]])
<1>1. answered \in Seq(1..MaxFrames) /\ sent \in Seq(Frames) /\ Len(answered) \in Nat
  BY DEF Inv, ServerOK, ClientOK
<1>2. ASSUME NEW i \in 1..Len(answered) PROVE answered[i] \in Owed /\ answered[i] \in 1..n
  BY DEF AnsweredTo, Given
<1>3. ASSUME NEW i \in 1..Len(answered) PROVE AnswerTo(sent[answered[i]]) \in Frames
  <2>1. answered[i] \in 1..Len(sent)
    BY <1>2 DEF Owed
  <2>2. sent[answered[i]] \in Frames
    BY <1>1, <2>1
  <2> QED
    BY <2>2, FramesAre
<1>4. Replies \in [1..Len(answered) -> Frames]
  BY <1>3 DEF Replies
<1>5. Replies \in Seq(Frames) /\ Len(Replies) = Len(answered)
  BY <1>1, <1>4
<1> QED
  BY <1>2, <1>5 DEF Replies

LEMMA StreamsAre ==
  ASSUME Inv
  PROVE  /\ up \in Seq(Units(Frames)) /\ cout \in Seq(Units(Frames))
         /\ Up \in Seq(Units(Frames))
         /\ down \in Seq(Units(Frames)) /\ sout \in Seq(Units(Frames))
         /\ Down \in Seq(Units(Frames))
         /\ sent \in Seq(Frames) /\ Len(sent) \in Nat
         /\ answered \in Seq(1..MaxFrames) /\ Len(answered) \in Nat
         /\ log \in Seq(Entries) /\ Len(log) \in Nat
BY DEF Inv, PipeOK, ServerOK, ClientOK, LogOK, Up, Down

LEMMA InitInPlace == Init => InPlace
<1> SUFFICES ASSUME Init PROVE InPlace
  OBVIOUS
<1>1. Numbered /\ Outgoing /\ Increasing /\ ClosedFor /\ CutIsLate /\ AnswersMatch
  BY DEF Init, Numbered, Outgoing, Increasing, ClosedFor, CutIsLate, AnswersMatch
<1>2. AnsweredTo(0)
  BY DEF Init, AnsweredTo, Given, Owed
<1>3. Up = <<>> /\ Down = <<>> /\ Len(Replies) = 0
  BY DEF Init, Up, Down, Replies
<1>4. ServerAt(0) /\ ClientAt(0) /\ Prompt(0, 0)
  BY <1>3 DEF Init, ServerAt, ClientAt, Prompt, Encodes, ServerHalf, ClientHalf, Owed
<1> QED
  BY <1>1, <1>2, <1>4 DEF InPlace, Standing

LEMMA InPlaceImplies ==
  ASSUME Inv, InPlace PROVE AnsweredExactly /\ AnswersMatch /\ BlockedOnlyLate
<1>1. PICK n \in Nat, a \in Nat : Standing(n, a)
  BY DEF InPlace
<1>2. Given \subseteq Owed /\ \A m \in Given : Owed \cap 1..m \subseteq Given
  <2>1. Given = Owed \cap 1..n /\ n \in Nat
    BY <1>1 DEF Standing, AnsweredTo
  <2> QED
    BY <2>1 DEF Owed
<1>3. ASSUME spc = "header", up = <<>>, cpc # "writing" PROVE Given = Owed
  <2>1. Up = <<>>
    BY <1>3 DEF InPlace, Outgoing, Up
  <2>2. Len(sent) \in Nat /\ Len(Up) = 2 * (Len(sent) - n) - 0 /\ n \in 0..Len(sent)
    BY <1>1, <1>3, StreamsAre DEF Standing, ServerAt, Encodes, ServerHalf
  <2>3. n = Len(sent)
    BY <2>1, <2>2
  <2> QED
    BY <1>1, <2>3 DEF Standing, AnsweredTo, Owed
<1>4. AnsweredExactly
  BY <1>2, <1>3 DEF AnsweredExactly, InPlace, Increasing, ClosedFor
<1>5. ASSUME Blocked, ~late PROVE FALSE
  <2>1. cpc = "writing" /\ spc = "answering" /\ sout # <<>>
    BY <1>5 DEF Blocked, Inv, ServerOK
  <2>2. ~cut
    BY Zenon, <1>5 DEF InPlace, CutIsLate
  <2>3. a = Len(answered)
    BY <1>1, <1>5, <2>1 DEF Standing, Prompt
  <2>4. Encodes(Down, Replies, a, 0)
    BY <1>1, <2>1, <2>2 DEF Standing, ClientAt, ClientHalf
  <2>5. Len(Down) = 0
    BY <1>1, <2>3, <2>4, RepliesAre, StreamsAre DEF Standing, Encodes
  <2>6. down \o sout = <<>>
    BY <2>5, StreamsAre DEF Down
  <2> QED
    BY <2>1, <2>6, StreamsAre, ConcatEqualIffEmpty
<1> QED
  BY Zenon, <1>4, <1>5 DEF InPlace, BlockedOnlyLate

-----------------------------------------------------------------------------
(* The server.                                                              *)

\* What a step leaves alone.
LEMMA HistoriesKept ==
  ASSUME UNCHANGED <<sent, answered, log>>
  PROVE  /\ Numbered => Numbered'
         /\ Increasing => Increasing'
         /\ AnswersMatch => AnswersMatch'
         /\ Owed' = Owed /\ Replies' = Replies
         /\ \A n : AnsweredTo(n) => AnsweredTo(n)'
BY DEF Numbered, Increasing, AnswersMatch, Owed, Given, Replies, AnsweredTo

LEMMA ServerReadsHeaderInPlace ==
  ASSUME Inv, InPlace, ServerReadsHeader PROVE InPlace'
<1> USE DEF ServerReadsHeader, client
<1>1. PICK n \in Nat, a \in Nat : Standing(n, a)
  BY DEF InPlace
<1>2. /\ Up # <<>> /\ Up' = Tail(Up) /\ Head(up) = Head(Up)
  BY StreamsAre, ReadJoined DEF Up
<1>3. Encodes(Up, sent, n, 0)
  BY <1>1 DEF Standing, ServerAt, ServerHalf
<1>4. n < Len(sent) /\ Head(Up) = Header(sent[n + 1]) /\ Encodes(Tail(Up), sent, n, 1)
  BY <1>2, <1>3, StreamsAre, ReadHeaderOf
<1>5. IF sent[n + 1].kind = "oversized"
      THEN spc' = "closed" /\ UNCHANGED req
      ELSE spc' = "payload" /\ req' = sent[n + 1]
  BY <1>2, <1>4 DEF Announced, Header
<1>6. ServerAt(n)'
  BY <1>2, <1>4, <1>5 DEF ServerAt, ServerHalf
<1>7. ClosedFor'
  BY <1>4, <1>5, StreamsAre DEF ClosedFor, Fatal
<1>8. ClientAt(a)'
  BY <1>1, HistoriesKept DEF Standing, ClientAt, ClientHalf, Down, Given
<1>9. Prompt(n, a)'
  BY <1>1, HistoriesKept DEF Standing, Prompt
<1> QED
  BY <1>1, <1>6, <1>7, <1>8, <1>9, HistoriesKept
     DEF InPlace, Standing, Outgoing, CutIsLate

LEMMA ServerPanicsInPlace ==
  ASSUME Inv, InPlace, ServerPanics PROVE InPlace'
<1> USE DEF ServerPanics, client
<1>1. PICK n \in Nat, a \in Nat : Standing(n, a)
  BY DEF InPlace
<1>2. ServerAt(n)'
  BY DEF ServerAt
<1>3. ClosedFor'
  <2>1. n + 1 \in 1..Len(sent) /\ req = sent[n + 1]
    BY <1>1, StreamsAre DEF Standing, ServerAt, ServerHalf, Encodes
  <2> QED
    BY <2>1 DEF ClosedFor, Fatal
<1>4. ClientAt(a)'
  BY <1>1, HistoriesKept DEF Standing, ClientAt, ClientHalf, Down, Given
<1>5. Prompt(n, a)'
  BY <1>1, HistoriesKept DEF Standing, Prompt
<1> QED
  BY <1>1, <1>2, <1>3, <1>4, <1>5, HistoriesKept
     DEF InPlace, Standing, Outgoing, CutIsLate

LEMMA TwoParts ==
  ASSUME NEW S, NEW s \in Seq(S), NEW t \in Seq(S), s # <<>>, t # <<>>
  PROVE  Len(s \o t) >= 2
<1>1. Len(s) \in Nat \ {0} /\ Len(t) \in Nat \ {0}
  BY EmptySeq
<1>2. Len(s \o t) = Len(s) + Len(t)
  BY ConcatProperties
<1> QED
  BY <1>1, <1>2

LEMMA ServerReadsPayloadInPlace ==
  ASSUME Inv, InPlace, ServerReadsPayload PROVE InPlace'
<1> USE DEF ServerReadsPayload, client
<1>1. PICK n \in Nat, a \in Nat : Standing(n, a)
  BY DEF InPlace
<1>2. Up # <<>> /\ Up' = Tail(Up)
  BY StreamsAre, ReadJoined DEF Up
<1>3. Encodes(Up, sent, n, 1) /\ req = sent[n + 1]
  BY <1>1 DEF Standing, ServerAt, ServerHalf
<1>4. n < Len(sent) /\ Encodes(Tail(Up), sent, n + 1, 0)
  BY <1>3, StreamsAre, ReadPayloadOf
<1>5. n + 1 \in 1..Len(sent) /\ req.id = n + 1 /\ req \in Frames /\ AnswerTo(req) \in Frames
  <2>1. n + 1 \in 1..Len(sent) /\ sent \in Seq(Frames)
    BY <1>4, StreamsAre
  <2>2. sent[n + 1] \in Frames
    BY <2>1
  <2>3. sent[n + 1].id = n + 1
    BY <2>1 DEF InPlace, Numbered
  <2> QED
    BY <1>3, <2>1, <2>2, <2>3, FramesAre
<1>6. ServerAt(n + 1)'
  <2>1. spc' \in {"answering", "header"} /\ UNCHANGED sent
    BY DEF Onward
  <2> QED
    BY <1>2, <1>4, <2>1 DEF ServerAt, ServerHalf
<1>7. /\ Given = Owed \cap 1..n /\ Len(answered) \in Nat
      /\ \A i \in 1..Len(answered) : answered[i] \in 1..n
  BY <1>1, StreamsAre, RepliesAre DEF Standing, AnsweredTo
<1>8. Numbered' /\ Outgoing' /\ CutIsLate' /\ AnswersMatch' /\ Owed' = Owed
  BY DEF InPlace, Numbered, Outgoing, CutIsLate, AnswersMatch, Owed
<1>9. ClosedFor'
  BY DEF ClosedFor, Onward
<1>10. sout = <<>> /\ Down = down
  BY StreamsAre, ConcatEmptySeq DEF Inv, ServerOK, Down
<1>11. CASE ~Answerable(req)
  <2>1. UNCHANGED <<answered, sent, log>> /\ Down' = Down
    BY <1>10, <1>11 DEF Reply, Down
  <2>2. n + 1 \notin Owed
    BY <1>3, <1>11 DEF Owed
  <2>3. AnsweredTo(n + 1)'
    <3>1. Given' = Given
      BY <2>1 DEF Given
    <3>2. Owed \cap 1..(n + 1) = Owed \cap 1..n
      BY <2>2
    <3> QED
      BY <1>5, <1>7, <1>8, <2>1, <3>1, <3>2 DEF AnsweredTo
  <2>4. ClientAt(a)'
    BY <1>1, <2>1, HistoriesKept DEF Standing, ClientAt, ClientHalf, Given
  <2>5. Prompt(n + 1, a)'
    <3>1. spc # "closed" /\ Owed \subseteq Nat
      BY DEF Owed
    <3> QED
      BY <1>1, <1>8, <2>1, <3>1 DEF Standing, Prompt
  <2> QED
    BY <1>1, <1>6, <1>8, <1>9, <2>1, <2>3, <2>4, <2>5, HistoriesKept DEF InPlace, Standing
<1>12. CASE Answerable(req)
  <2>1. /\ answered' = Append(answered, n + 1) /\ UNCHANGED <<sent, log>>
        /\ Len(answered') = Len(answered) + 1 /\ answered'[Len(answered) + 1] = n + 1
        /\ \A i \in 1..Len(answered) : answered'[i] = answered[i]
    BY <1>5, <1>12, StreamsAre
  <2>2. n + 1 \in Owed
    BY <1>3, <1>5, <1>12 DEF Owed
  <2>3. Given' = Given \cup {n + 1}
    BY <1>7, <2>1 DEF Given
  <2>4. AnsweredTo(n + 1)'
    BY <1>5, <1>7, <1>8, <2>1, <2>2, <2>3 DEF AnsweredTo
  <2>5. Increasing'
    BY <1>7, <2>1 DEF InPlace, Increasing
  <2>6. Replies' = Append(Replies, AnswerTo(req))
    <3> DEFINE x == AnswerTo(req)
               u == Append(Replies, x)
               m == Len(answered)
    <3>1. Replies \in Seq(Frames) /\ Len(Replies) = m
      BY <1>1, RepliesAre DEF Standing
    <3>2. x \in Frames /\ m \in Nat
      BY <1>5, <1>7
    <3> HIDE DEF x, m
    <3>3. /\ u \in Seq(Frames) /\ Len(u) = m + 1 /\ u[m + 1] = x
          /\ \A i \in 1..m : u[i] = Replies[i]
      BY <3>1, <3>2, AppendProperties
    <3> HIDE DEF u
    <3>4. Replies' = [i \in 1..(m + 1) |-> AnswerTo(sent[answered'[i]])]
      BY <2>1 DEF Replies, m
    <3>5. ASSUME NEW i \in 1..(m + 1) PROVE AnswerTo(sent[answered'[i]]) = u[i]
      <4>1. CASE i = m + 1
        <5>1. answered'[i] = n + 1
          BY <2>1, <4>1 DEF m
        <5>2. u[i] = x
          BY <3>3, <4>1
        <5> QED
          BY <1>3, <5>1, <5>2 DEF x
      <4>2. CASE i \in 1..m
        <5>1. i \in 1..Len(answered) /\ u[i] = Replies[i]
          BY <3>3, <4>2 DEF m
        <5>2. answered'[i] = answered[i]
          BY <2>1, <5>1
        <5>3. Replies[i] = AnswerTo(sent[answered[i]])
          BY <5>1 DEF Replies
        <5> QED
          BY Zenon, <2>1, <5>1, <5>2, <5>3
      <4>3. i = m + 1 \/ i \in 1..m
        BY <3>2
      <4> QED
        BY Zenon, <4>1, <4>2, <4>3
    <3>6. u = [i \in 1..(m + 1) |-> u[i]]
      BY <3>3
    <3>7. Replies' = u
      BY <3>4, <3>5, <3>6
    <3> QED
      BY <3>7 DEF u, x
  <2>7. Down' = Down \o Encode(AnswerTo(req))
    BY <1>10, <1>12 DEF Down, Reply
  <2>8. ASSUME ~cut, cpc # "gone" PROVE ClientAt(a)'
    <3>1. Encodes(Down, Replies, a, ClientHalf) /\ (cpc = "payload" => got = Replies[a + 1])
      BY <1>1, <2>8 DEF Standing, ClientAt
    <3>2. Replies \in Seq(Frames) /\ Len(Replies) = Len(answered)
      BY <1>1, RepliesAre DEF Standing
    <3>3. Encodes(Down', Replies', a, ClientHalf')
      <4>1. Encodes(Down \o Encode(AnswerTo(req)), Append(Replies, AnswerTo(req)), a, ClientHalf)
        BY <1>5, <3>1, <3>2, StreamsAre, WriteFrame
      <4>2. ClientHalf' = ClientHalf
        BY DEF ClientHalf
      <4> QED
        BY <2>6, <2>7, <4>1, <4>2
    <3>4. cpc' = "payload" => got' = Replies'[a + 1]
      <4>1. cpc = "payload" => a + 1 \in 1..Len(Replies)
        BY <3>1, <3>2, <1>7 DEF Encodes, ClientHalf
      <4> QED
        BY <1>5, <2>6, <3>1, <3>2, <4>1
    <3>5. \A j \in 1..Len(log) : log[j].answer \in Given /\ log[j].answer \in 1..n
      BY <1>1, <1>7, <2>8 DEF Standing, ClientAt
    <3>6. ASSUME NEW j \in 1..Len(log'), NEW k \in (a + 1)..Len(answered')
          PROVE  log'[j].answer < answered'[k]
      BY <1>1, <1>7, <2>1, <2>8, <3>5 DEF Standing, ClientAt
    <3> QED
      BY <2>1, <2>3, <3>3, <3>4, <3>5, <3>6 DEF ClientAt
  <2>9. ClientAt(a)'
    <3>1. CASE cut \/ cpc = "gone"
      BY <3>1 DEF ClientAt
    <3> QED
      BY Zenon, <2>8, <3>1
  <2>10. ASSUME ~late, cpc # "gone" PROVE Prompt(n + 1, a)'
    <3>1. /\ a < Len(answered) => a + 1 = Len(answered) /\ answered[a + 1] = Len(sent)
          /\ n + 1 = Len(sent) /\ cpc \in {"writing", "header"}
          /\ \A k \in Owed : k > n => k = n + 1
      BY <1>1, <2>2, <2>10 DEF Standing, Prompt
    <3>2. cpc # "writing"
      <4> SUFFICES ASSUME cpc = "writing" PROVE FALSE
        OBVIOUS
      <4>1. Len(Up) = 1
        BY <1>3, <3>1 DEF Encodes
      <4>2. cout # <<>> /\ up # <<>>
        BY DEF Inv, ClientOK
      <4>3. Len(Up) >= 2
        BY <4>2, StreamsAre, TwoParts DEF Up
      <4> QED
        BY <4>1, <4>3
    <3>3. ~cut
      BY Zenon, <2>10 DEF InPlace, CutIsLate
    <3>4. a \in 0..Len(answered)
      BY <1>1, <2>10, <3>3, RepliesAre DEF Standing, ClientAt, Encodes
    <3>5. a = Len(answered)
      BY <1>7, <3>1, <3>4
    <3>6. /\ a + 1 = Len(answered') /\ answered'[a + 1] = Len(sent')
          /\ cpc' \notin {"idle", "writing"}
      BY <2>1, <3>1, <3>2, <3>5
    <3>7. \A k \in Owed' : ~(k > n + 1)
      <4>1. Owed' = Owed /\ Owed \subseteq Nat
        BY <1>8 DEF Owed
      <4> QED
        BY <3>1, <4>1
    <3> QED
      BY <3>6, <3>7 DEF Prompt
  <2>11. Prompt(n + 1, a)'
    <3>1. CASE late \/ cpc = "gone"
      BY <3>1 DEF Prompt
    <3> QED
      BY Zenon, <2>10, <3>1
  <2> QED
    BY <1>6, <1>8, <1>9, <2>4, <2>5, <2>9, <2>11 DEF InPlace, Standing
<1> QED
  BY <1>11, <1>12

LEMMA ServerWritesInPlace ==
  ASSUME Inv, InPlace, ServerWrites PROVE InPlace'
<1> USE DEF ServerWrites, client
<1>1. PICK n \in Nat, a \in Nat : Standing(n, a)
  BY DEF InPlace
<1>2. Down' = Down
  BY StreamsAre, MoveHead DEF Inv, ServerOK, Down
<1>3. ServerAt(n)'
  BY <1>1 DEF Standing, ServerAt, ServerHalf, Up
<1>4. ClientAt(a)'
  BY <1>1, <1>2, HistoriesKept DEF Standing, ClientAt, ClientHalf, Given
<1>5. Prompt(n, a)'
  BY <1>1, HistoriesKept DEF Standing, Prompt
<1>6. ClosedFor'
  BY DEF ClosedFor
<1> QED
  BY <1>1, <1>3, <1>4, <1>5, <1>6, HistoriesKept DEF InPlace, Standing, Outgoing, CutIsLate

LEMMA ServerLosesInPlace ==
  ASSUME Inv, InPlace, ServerLoses PROVE InPlace'
<1> USE DEF ServerLoses, client
<1>1. PICK n \in Nat, a \in Nat : Standing(n, a)
  BY DEF InPlace
<1>2. ServerAt(n)' /\ ClientAt(a)' /\ Prompt(n, a)' /\ ClosedFor'
  BY DEF ServerAt, ClientAt, Prompt, ClosedFor
<1> QED
  BY <1>1, <1>2, HistoriesKept DEF InPlace, Standing, Outgoing, CutIsLate

-----------------------------------------------------------------------------
(* The client.                                                              *)

LEMMA WriteInPlace ==
  ASSUME Inv, InPlace, NEW kind \in Calls \cup Raw, Write(kind) PROVE InPlace'
<1> USE DEF Write, server
<1>1. PICK n \in Nat, a \in Nat : Standing(n, a)
  BY DEF InPlace
<1> DEFINE f == [kind |-> kind, id |-> Len(sent) + 1]
<1>2. f \in Frames /\ f.id = Len(sent) + 1
  <2>1. Len(sent) + 1 \in 1..MaxFrames
    BY StreamsAre, MaxFramesAssumption
  <2> QED
    BY <2>1, FramesAre
<1>3. sent' = Append(sent, f) /\ cout' = Encode(f) /\ cpc = "idle" /\ cpc' = "writing"
  OBVIOUS
<1> HIDE DEF f
<1>4. /\ Len(sent') = Len(sent) + 1 /\ sent'[Len(sent) + 1] = f /\ Len(sent) \in Nat
      /\ \A k \in 1..Len(sent) : sent'[k] = sent[k]
  BY <1>2, <1>3, StreamsAre
<1>5. Numbered'
  BY <1>2, <1>4 DEF InPlace, Numbered
<1>6. Outgoing' /\ Increasing' /\ AnswersMatch' /\ CutIsLate' /\ ClosedFor'
  BY <1>3, <1>4 DEF InPlace, Outgoing, Increasing, AnswersMatch, CutIsLate, ClosedFor
<1>7. n \in 0..Len(sent) /\ Given = Owed \cap 1..n /\ Given' = Given
  BY <1>1 DEF Standing, AnsweredTo, Given
<1>8. Owed' \cap 1..Len(sent) = Owed
  BY <1>4 DEF Owed
<1>9. AnsweredTo(n)'
  <2>1. Owed' \cap 1..n = Owed \cap 1..n
    BY <1>7, <1>8, <1>4
  <2> QED
    BY <1>4, <1>7, <2>1 DEF AnsweredTo
<1>10. ServerAt(n)'
  <2> SUFFICES ASSUME spc # "closed" PROVE ServerAt(n)'
    BY DEF ServerAt
  <2>1. cout = <<>> /\ Up = up /\ Up' = Up \o Encode(f)
    BY <1>3, StreamsAre, ConcatEmptySeq DEF InPlace, Outgoing, Up
  <2>2. Encodes(Up, sent, n, ServerHalf) /\ (spc = "payload" => req = sent[n + 1])
    BY <1>1 DEF Standing, ServerAt
  <2>3. Encodes(Up \o Encode(f), Append(sent, f), n, ServerHalf)
    BY <1>2, <2>2, StreamsAre, WriteFrame
  <2>4. ServerHalf' = ServerHalf
    BY DEF ServerHalf
  <2>5. spc = "payload" => n + 1 \in 1..Len(sent)
    BY <1>4, <2>2 DEF Encodes, ServerHalf
  <2> QED
    BY <1>3, <1>4, <2>1, <2>2, <2>3, <2>4, <2>5 DEF ServerAt
<1>11. Replies' = Replies
  <2>1. \A i \in 1..Len(answered) : answered[i] \in 1..Len(sent)
    BY <1>1, RepliesAre DEF Standing, Owed
  <2> QED
    BY <1>4, <2>1 DEF Replies
<1>12. ClientAt(a)'
  BY <1>1, <1>3, <1>7, <1>11 DEF Standing, ClientAt, ClientHalf, Down
<1>13. Prompt(n, a)'
  <2> SUFFICES ASSUME ~late, spc # "closed", NEW k \in Owed', k > n PROVE k = Len(sent')
    BY <1>1, <1>3 DEF Standing, Prompt
  <2>1. ~(k \in Owed)
    BY <1>1, <1>3 DEF Standing, Prompt
  <2> QED
    BY <1>4, <1>8, <2>1 DEF Owed
<1> QED
  BY <1>5, <1>6, <1>9, <1>10, <1>12, <1>13 DEF InPlace, Standing

LEMMA ClientWritesInPlace ==
  ASSUME Inv, InPlace, ClientWrites PROVE InPlace'
<1> USE DEF ClientWrites, server
<1>1. PICK n \in Nat, a \in Nat : Standing(n, a)
  BY DEF InPlace
<1>2. cout # <<>> /\ Len(cout) \in Nat \ {0} /\ Len(cout') = Len(cout) - 1 /\ cout' \in Seq(Units(Frames))
  BY StreamsAre, Reading DEF Inv, ClientOK
<1>3. Up' = Up
  BY <1>2, StreamsAre, MoveHead DEF Up
<1>4. Outgoing'
  BY <1>2 DEF Outgoing
<1>5. ServerAt(n)'
  BY <1>1, <1>3 DEF Standing, ServerAt, ServerHalf
<1>6. ClientAt(a)'
  BY <1>1, HistoriesKept DEF Standing, ClientAt, ClientHalf, Down, Given
<1>7. Prompt(n, a)'
  <2> SUFFICES ASSUME ~late PROVE Prompt(n, a)'
    BY DEF Prompt
  <2>1. a = Len(answered) /\ \A k \in Owed : k > n => k = Len(sent)
    BY <1>1 DEF Standing, Prompt
  <2>2. cpc' = "idle" => Len(sent) \notin Owed
    BY DEF Awaits, Own, Owed, Answerable, Calls
  <2>3. cpc' \in {"idle", "writing", "header"} /\ Owed' = Owed
    BY HistoriesKept
  <2>4. Len(answered) \in Nat
    BY StreamsAre
  <2> QED
    BY <2>1, <2>2, <2>3, <2>4 DEF Prompt
<1>8. ClosedFor'
  BY DEF ClosedFor
<1> QED
  BY <1>1, <1>4, <1>5, <1>6, <1>7, <1>8, HistoriesKept DEF InPlace, Standing, CutIsLate

\* While no call timed out, what the client reads is the answer to its call,
\* which is the last frame that was written.
LEMMA LastAnswer ==
  ASSUME Inv, InPlace, NEW n \in Nat, NEW a \in Nat, Standing(n, a), ~late, cpc # "gone",
         a < Len(answered)
  PROVE  /\ a + 1 = Len(answered) /\ answered[a + 1] = Len(sent)
         /\ \A k \in Owed : ~(k > n)
<1>1. a + 1 = Len(answered) /\ answered[a + 1] = Len(sent)
  BY DEF Standing, Prompt
<1>2. Len(sent) \in 1..n /\ n \in 0..Len(sent) /\ Len(sent) \in Nat
  <2>1. a + 1 \in 1..Len(answered)
    BY <1>1
  <2>2. answered[a + 1] \in 1..n
    BY <2>1, RepliesAre DEF Standing
  <2> QED
    BY <1>1, <2>2, StreamsAre DEF Standing, AnsweredTo
<1> QED
  BY <1>1, <1>2 DEF Owed

LEMMA ClientReadsHeaderInPlace ==
  ASSUME Inv, InPlace, ClientReadsHeader PROVE InPlace'
<1> USE DEF ClientReadsHeader, server
<1>1. PICK n \in Nat, a \in Nat : Standing(n, a)
  BY DEF InPlace
<1>2. ServerAt(n)'
  BY <1>1 DEF Standing, ServerAt, ServerHalf, Up
<1>3. Down # <<>> /\ Down' = Tail(Down) /\ Head(down) = Head(Down)
  BY StreamsAre, ReadJoined DEF Down
<1>4. ClosedFor' /\ Outgoing' /\ CutIsLate'
  BY DEF InPlace, ClosedFor, Outgoing, CutIsLate
<1>5. CASE cut
  <2>1. late
    BY Zenon, <1>5 DEF InPlace, CutIsLate
  <2>2. ClientAt(a)' /\ Prompt(n, a)'
    BY <1>5, <2>1 DEF ClientAt, Prompt
  <2> QED
    BY <1>1, <1>2, <1>4, <2>2, HistoriesKept DEF InPlace, Standing
<1>6. CASE ~cut
  <2>1. /\ Encodes(Down, Replies, a, 0)
        /\ \A j \in 1..Len(log) : log[j].answer \in Given
        /\ \A j \in 1..Len(log), k \in (a + 1)..Len(answered) : log[j].answer < answered[k]
    BY <1>1, <1>6 DEF Standing, ClientAt, ClientHalf
  <2>2. Replies \in Seq(Frames) /\ Len(Replies) = Len(answered)
    BY <1>1, RepliesAre DEF Standing
  <2>3. /\ a < Len(answered) /\ Head(Down) = Header(Replies[a + 1])
        /\ Encodes(Tail(Down), Replies, a, 1)
    BY <1>3, <2>1, <2>2, StreamsAre, ReadHeaderOf
  <2>4. Replies[a + 1].kind # "oversized"
    <3>1. a + 1 \in 1..Len(answered)
      BY <2>3, StreamsAre
    <3>2. Replies[a + 1] = AnswerTo(sent[answered[a + 1]])
      BY <1>1, <3>1, RepliesAre DEF Standing
    <3> QED
      BY <3>2 DEF AnswerTo, AnswerKind
  <2>5. cpc' = "payload" /\ got' = Replies[a + 1]
    BY <1>3, <2>3, <2>4 DEF Announced, Header
  <2>6. ClientAt(a)'
    BY <1>3, <2>1, <2>3, <2>5, HistoriesKept DEF ClientAt, ClientHalf, Given
  <2>7. Prompt(n, a)'
    <3> SUFFICES ASSUME ~late PROVE Prompt(n, a)'
      BY DEF Prompt
    <3>1. /\ a + 1 = Len(answered) /\ answered[a + 1] = Len(sent)
          /\ \A k \in Owed : ~(k > n)
      BY <1>1, <2>3, LastAnswer
    <3> QED
      BY <2>5, <3>1, HistoriesKept DEF Prompt
  <2> QED
    BY <1>1, <1>2, <1>4, <2>6, <2>7, HistoriesKept DEF InPlace, Standing
<1> QED
  BY Zenon, <1>5, <1>6

\* What AnswersMatch says of one answer; those returned before a step keep it.
Matched(j) ==
  /\ log[j].clean => log[j].answer = log[j].asked
  /\ log[j].whole => /\ log[j].answer <= log[j].asked
                     /\ \A i \in 1..(j - 1) : log[i].answer < log[j].answer

LEMMA StillMatched ==
  ASSUME Inv, AnswersMatch, NEW j \in 1..Len(log), \A i \in 1..Len(log) : log'[i] = log[i]
  PROVE  Matched(j)'
<1>1. Matched(j)
  BY Zenon DEF AnswersMatch, Matched
<1>2. log'[j] = log[j]
  OBVIOUS
<1>3. ASSUME NEW i \in 1..(j - 1) PROVE log'[i] = log[i]
  <2>1. i \in 1..Len(log)
    BY StreamsAre
  <2> QED
    BY <2>1
<1> QED
  BY Zenon, <1>1, <1>2, <1>3 DEF Matched

LEMMA Appended ==
  ASSUME NEW S, NEW s \in Seq(S), NEW e \in S, NEW t, t = Append(s, e)
  PROVE  /\ Len(t) \in {Len(s), Len(s) + 1} /\ Len(s) \in Nat
         /\ Len(t) = Len(s) + 1 => t[Len(s) + 1] = e
         /\ \A j \in 1..Len(s) : t[j] = s[j]
BY AppendProperties

\* The answer the client is reading: that to a request, the next of those given.
LEMMA AnswerAtHand ==
  ASSUME Inv, InPlace, NEW n \in Nat, NEW a \in Nat, Standing(n, a), ~cut, cpc = "payload"
  PROVE  /\ a + 1 \in 1..Len(answered) /\ Len(answered) \in Nat
         /\ Encodes(Down, Replies, a, 1)
         /\ got.id = answered[a + 1] /\ got.id \in Given
         /\ got.id \in 1..n /\ got.id \in 1..Len(sent) /\ n \in 0..Len(sent)
         /\ got = AnswerTo(sent[got.id]) /\ Own.id = Len(sent)
         /\ \A j \in 1..Len(log) : log[j].answer \in Given /\ log[j].answer < got.id
<1>1. /\ Encodes(Down, Replies, a, 1) /\ got = Replies[a + 1]
      /\ \A j \in 1..Len(log) : log[j].answer \in Given
      /\ \A j \in 1..Len(log), k \in (a + 1)..Len(answered) : log[j].answer < answered[k]
  BY DEF Standing, ClientAt, ClientHalf
<1>2. Len(Replies) = Len(answered) /\ Len(answered) \in Nat
  BY RepliesAre, StreamsAre DEF Standing
<1>3. a + 1 \in 1..Len(answered)
  BY <1>1, <1>2 DEF Encodes
<1>4. /\ answered[a + 1] \in 1..n /\ answered[a + 1] \in 1..Len(sent)
      /\ got = AnswerTo(sent[answered[a + 1]]) /\ n \in 0..Len(sent)
  BY <1>1, <1>3, RepliesAre DEF Standing, AnsweredTo, Owed
<1>5. got.id = answered[a + 1] /\ answered[a + 1] \in Given
  BY <1>3, <1>4 DEF InPlace, Numbered, AnswerTo, Given
<1>6. Own.id = Len(sent)
  <2>1. Len(sent) \in 1..Len(sent)
    <3>1. answered[a + 1] \in 1..Len(sent)
      BY <1>4
    <3>2. Len(sent) \in Nat
      BY StreamsAre
    <3> QED
      BY <3>1, <3>2
  <2>2. sent[Len(sent)].id = Len(sent)
    BY Zenon, <2>1 DEF InPlace, Numbered
  <2> QED
    BY Zenon, <2>2 DEF Own
<1>7. \A j \in 1..Len(log) : log[j].answer < answered[a + 1]
  BY <1>1, <1>3
<1> QED
  BY <1>1, <1>2, <1>3, <1>4, <1>5, <1>6, <1>7

LEMMA ClientReadsPayloadInPlace ==
  ASSUME Inv, InPlace, ClientReadsPayload PROVE InPlace'
<1> USE DEF ClientReadsPayload, server
<1>1. PICK n \in Nat, a \in Nat : Standing(n, a)
  BY DEF InPlace
<1>2. ServerAt(n)' /\ AnsweredTo(n)'
  BY <1>1 DEF Standing, ServerAt, ServerHalf, Up, AnsweredTo, Given, Owed
<1>3. Down # <<>> /\ Down' = Tail(Down)
  BY StreamsAre, ReadJoined DEF Down
<1>4. /\ ClosedFor' /\ Outgoing' /\ CutIsLate' /\ Numbered' /\ Increasing'
      /\ cpc' \in {"idle", "header"} /\ Owed' = Owed /\ Given' = Given /\ Replies' = Replies
  BY DEF InPlace, ClosedFor, Outgoing, CutIsLate, Numbered, Increasing, Owed, Given, Replies
<1> DEFINE clean == ~late
           whole == ~cut
           entry == [asked |-> Own.id, answer |-> got.id, clean |-> clean, whole |-> whole]
<1>5. log' = log \/ log' = Append(log, entry)
  BY Zenon
<1>6. clean \in BOOLEAN /\ whole \in BOOLEAN
  BY Zenon DEF Inv, ClientFlags
<1> HIDE DEF clean, whole
<1>7. entry \in Entries /\ entry.asked = Own.id /\ entry.answer = got.id
      /\ entry.clean = clean /\ entry.whole = whole
  BY <1>6, FramesAre DEF Entries, Own, Inv, ClientOK
<1> HIDE DEF entry
<1>8. /\ Len(log') \in {Len(log), Len(log) + 1} /\ Len(log) \in Nat
      /\ Len(log') = Len(log) + 1 => log'[Len(log) + 1] = entry
      /\ \A j \in 1..Len(log) : log'[j] = log[j]
  <2>1. log \in Seq(Entries) /\ Len(log) \in Nat
    BY StreamsAre
  <2>2. CASE log' = log
    BY <2>1, <2>2
  <2>3. CASE log' = Append(log, entry)
    <3> DEFINE t == log'
    <3>1. t = Append(log, entry) /\ entry \in Entries
      BY <1>7, <2>3
    <3> HIDE DEF t
    <3>2. /\ Len(t) \in {Len(log), Len(log) + 1} /\ Len(log) \in Nat
          /\ Len(t) = Len(log) + 1 => t[Len(log) + 1] = entry
          /\ \A j \in 1..Len(log) : t[j] = log[j]
      BY <2>1, <3>1, Appended
    <3> QED
      BY Zenon, <3>2 DEF t
  <2> QED
    BY Zenon, <1>5, <2>2, <2>3
<1>9. ASSUME cut PROVE InPlace'
  <2>1. late /\ late' /\ cut'
    BY Zenon, <1>9 DEF InPlace, CutIsLate
  <2>2. ~clean /\ ~whole
    BY Zenon, <1>9, <2>1 DEF clean, whole
  <2>3. AnswersMatch'
    <3> SUFFICES ASSUME NEW j \in 1..Len(log') PROVE Matched(j)'
      BY Zenon DEF AnswersMatch, Matched
    <3>1. CASE j \in 1..Len(log)
      BY Zenon, <1>8, <3>1, StillMatched DEF InPlace
    <3>2. CASE j = Len(log) + 1
      <4>1. log'[j] = entry
        BY <1>8, <3>2
      <4>2. ~log'[j].clean /\ ~log'[j].whole
        BY Zenon, <1>7, <2>2, <4>1
      <4> QED
        BY Zenon, <4>2 DEF Matched
    <3> QED
      BY <1>8, <3>1, <3>2
  <2>4. ClientAt(a)' /\ Prompt(n, a)'
    BY <2>1 DEF ClientAt, Prompt
  <2> QED
    BY <1>1, <1>2, <1>4, <2>3, <2>4 DEF InPlace, Standing
<1>10. ASSUME ~cut PROVE InPlace'
  <2>1. /\ a + 1 \in 1..Len(answered) /\ Len(answered) \in Nat
        /\ Encodes(Down, Replies, a, 1)
        /\ got.id = answered[a + 1] /\ got.id \in Given
        /\ got.id \in 1..n /\ got.id \in 1..Len(sent) /\ n \in 0..Len(sent)
        /\ Own.id = Len(sent)
        /\ \A j \in 1..Len(log) : log[j].answer \in Given /\ log[j].answer < got.id
    BY <1>1, <1>10, AnswerAtHand
  <2>2. Replies \in Seq(Frames) /\ Len(Replies) = Len(answered)
    BY <1>1, RepliesAre DEF Standing
  <2>3. Encodes(Tail(Down), Replies, a + 1, 0)
    BY <2>1, <2>2, StreamsAre, ReadPayloadOf
  <2>4. \A k \in (a + 2)..Len(answered) : got.id < answered[k]
    <3>1. Increasing
      BY DEF InPlace
    <3>2. a + 1 \in 1..Len(answered) /\ Len(answered) \in Nat /\ got.id = answered[a + 1]
      BY <2>1
    <3> QED
      BY <3>1, <3>2 DEF Increasing
  <2>5. ClientAt(a + 1)'
    <3>1. ASSUME NEW j \in 1..Len(log')
          PROVE  /\ log'[j].answer \in Given
                 /\ \A k \in (a + 2)..Len(answered) : log'[j].answer < answered[k]
      <4>1. CASE j \in 1..Len(log)
        <5>1. log'[j] = log[j] /\ log[j].answer \in Given
          BY <1>8, <2>1, <4>1
        <5>2. \A k \in (a + 1)..Len(answered) : log[j].answer < answered[k]
          BY <1>1, <1>10, <4>1 DEF Standing, ClientAt
        <5> QED
          BY <5>1, <5>2
      <4>2. CASE j = Len(log) + 1
        <5>1. log'[j].answer = got.id
          BY <1>7, <1>8, <4>2
        <5> QED
          BY <2>1, <2>4, <5>1
      <4> QED
        BY <1>8, <4>1, <4>2
    <3>2. Encodes(Down', Replies', a + 1, 0) /\ ClientHalf' = 0
      BY <1>3, <1>4, <2>3 DEF ClientHalf
    <3>3. UNCHANGED answered /\ a + 1 + 1 = a + 2
      BY <1>1
    <3> QED
      BY <1>4, <3>1, <3>2, <3>3 DEF ClientAt
  <2>6. ASSUME ~late
        PROVE  /\ a + 1 = Len(answered) /\ answered[a + 1] = Len(sent)
               /\ \A k \in Owed : ~(k > n)
    BY <1>1, <2>1, <2>6, LastAnswer
  <2>7. Prompt(n, a + 1)'
    <3> SUFFICES ASSUME ~late PROVE Prompt(n, a + 1)'
      BY DEF Prompt
    <3>1. /\ a + 1 = Len(answered) /\ Len(answered) \in Nat
          /\ \A k \in Owed : ~(k > n)
      BY <2>1, <2>6
    <3> QED
      BY <1>4, <3>1 DEF Prompt
  <2>8. entry.answer = answered[a + 1] /\ entry.asked = Len(sent)
    BY <1>7, <2>1
  <2>9. entry.clean => entry.answer = entry.asked
    <3>1. CASE late
      BY Zenon, <1>7, <3>1 DEF clean
    <3>2. CASE ~late
      BY <2>6, <2>8, <3>2
    <3> QED
      BY Zenon, <3>1, <3>2
  <2>10. AnswersMatch'
    <3> SUFFICES ASSUME NEW j \in 1..Len(log') PROVE Matched(j)'
      BY Zenon DEF AnswersMatch, Matched
    <3>1. CASE j \in 1..Len(log)
      BY Zenon, <1>8, <3>1, StillMatched DEF InPlace
    <3>2. CASE j = Len(log) + 1
      <4>1. log'[j] = entry /\ \A i \in 1..(j - 1) : log'[i] = log[i] /\ i \in 1..Len(log)
        BY <1>8, <3>2
      <4>2. log'[j].clean => log'[j].answer = log'[j].asked
        BY Zenon, <2>9, <4>1
      <4>3. log'[j].answer <= log'[j].asked
        BY <2>1, <2>8, <4>1
      <4>4. \A i \in 1..(j - 1) : log'[i].answer < log'[j].answer
        BY <2>1, <2>8, <4>1
      <4> QED
        BY Zenon, <4>2, <4>3, <4>4 DEF Matched
    <3> QED
      BY <1>8, <3>1, <3>2
  <2> QED
    BY <1>1, <1>2, <1>4, <2>5, <2>7, <2>10 DEF InPlace, Standing
<1> QED
  BY Zenon, <1>9, <1>10

LEMMA TimeoutInPlace ==
  ASSUME Inv, InPlace, Timeout PROVE InPlace'
<1> USE DEF Timeout, server
<1>1. PICK n \in Nat, a \in Nat : Standing(n, a)
  BY DEF InPlace
<1>2. ServerAt(n)' /\ Prompt(n, a)'
  BY <1>1 DEF Standing, ServerAt, ServerHalf, Up, Prompt
<1>3. ClientAt(a)'
  <2>1. CASE cut'
    BY <2>1 DEF ClientAt
  <2>2. CASE ~cut'
    <3>1. ~cut /\ cpc # "payload"
      BY Zenon, <2>2
    <3> QED
      BY <1>1, <3>1, HistoriesKept DEF Standing, ClientAt, ClientHalf, Down, Given
  <2> QED
    BY Zenon, <2>1, <2>2
<1>4. CutIsLate'
  BY Zenon DEF CutIsLate
<1>5. ClosedFor' /\ Outgoing'
  BY DEF InPlace, ClosedFor, Outgoing
<1>6. Numbered' /\ Increasing' /\ AnswersMatch' /\ AnsweredTo(n)'
  BY <1>1, HistoriesKept DEF InPlace, Standing
<1> QED
  BY Zenon, <1>2, <1>3, <1>4, <1>5, <1>6 DEF InPlace, Standing

LEMMA ClientLosesInPlace ==
  ASSUME Inv, InPlace, ClientLoses PROVE InPlace'
<1> USE DEF ClientLoses, server
<1>1. PICK n \in Nat, a \in Nat : Standing(n, a)
  BY DEF InPlace
<1>2. ServerAt(n)'
  BY DEF ServerAt
<1>3. cpc # "writing" => Down = <<>>
  BY StreamsAre, ConcatEmptySeq DEF Inv, ServerOK, Down
<1>4. ASSUME ~cut
      PROVE  /\ Encodes(Down, Replies, a, 0) /\ cpc # "payload"
             /\ cpc # "writing" => a = Len(answered)
  <2>1. Encodes(Down, Replies, a, ClientHalf) /\ Len(Replies) = Len(answered)
    BY <1>1, <1>4, RepliesAre DEF Standing, ClientAt
  <2>2. cpc # "writing" => Len(Down) = 0
    BY <1>3
  <2>3. /\ Len(Down) = 2 * (Len(answered) - a) - ClientHalf /\ ClientHalf \in {0, 1}
        /\ a + ClientHalf <= Len(answered)
    BY <2>1 DEF Encodes, ClientHalf
  <2>4. Len(answered) \in Nat
    BY StreamsAre
  <2>5. cpc # "payload"
    BY <2>2, <2>3, <2>4 DEF ClientHalf
  <2>6. ClientHalf = 0
    BY <2>5 DEF ClientHalf
  <2> QED
    BY <2>1, <2>2, <2>3, <2>4, <2>5, <2>6
<1>5. ClientAt(a)'
  <2> SUFFICES ASSUME ~cut PROVE ClientAt(a)'
    BY DEF ClientAt
  <2> QED
    BY <1>1, <1>4, HistoriesKept DEF Standing, ClientAt, ClientHalf, Down, Given
<1>6. Prompt(n, a)'
  <2> SUFFICES ASSUME ~late PROVE Prompt(n, a)'
    BY DEF Prompt
  <2>1. ~cut
    BY Zenon DEF InPlace, CutIsLate
  <2>2. a = Len(answered) /\ Len(answered) \in Nat
    BY <1>1, <1>4, <2>1, StreamsAre DEF Standing, Prompt
  <2> QED
    BY <2>2 DEF Prompt
<1>7. ClosedFor' /\ Outgoing' /\ CutIsLate'
  BY DEF InPlace, ClosedFor, Outgoing, CutIsLate
<1>8. Numbered' /\ Increasing' /\ AnswersMatch' /\ AnsweredTo(n)'
  BY <1>1, HistoriesKept DEF InPlace, Standing
<1> QED
  BY Zenon, <1>2, <1>5, <1>6, <1>7, <1>8 DEF InPlace, Standing

LEMMA DropConnectionInPlace ==
  ASSUME Inv, InPlace, DropConnection PROVE InPlace'
<1> USE DEF DropConnection, server
<1>1. PICK n \in Nat, a \in Nat : Standing(n, a)
  BY DEF InPlace
<1>2. ServerAt(n)' /\ ClientAt(a)' /\ Prompt(n, a)'
  BY <1>1 DEF Standing, ServerAt, ServerHalf, Up, ClientAt, Prompt
<1>3. ClosedFor' /\ Outgoing' /\ CutIsLate'
  BY DEF InPlace, ClosedFor, Outgoing, CutIsLate
<1>4. Numbered' /\ Increasing' /\ AnswersMatch' /\ AnsweredTo(n)'
  BY <1>1, HistoriesKept DEF InPlace, Standing
<1> QED
  BY Zenon, <1>2, <1>3, <1>4 DEF InPlace, Standing

-----------------------------------------------------------------------------
LEMMA StepInPlace == ASSUME Inv, InPlace, [Next]_vars PROVE InPlace'
<1>1. CASE UNCHANGED vars
  <2> USE <1>1 DEF vars
  <2>1. PICK n \in Nat, a \in Nat : Standing(n, a)
    BY DEF InPlace
  <2>2. ServerAt(n)'
    BY <2>1 DEF Standing, ServerAt, Up, ServerHalf
  <2>3. ClientAt(a)'
    BY <2>1, HistoriesKept DEF Standing, ClientAt, Down, ClientHalf, Given
  <2>4. Prompt(n, a)'
    BY <2>1, HistoriesKept DEF Standing, Prompt
  <2>5. ClosedFor' /\ Outgoing' /\ CutIsLate'
    BY DEF InPlace, ClosedFor, Outgoing, CutIsLate
  <2>6. Numbered' /\ Increasing' /\ AnswersMatch' /\ AnsweredTo(n)'
    BY <2>1, HistoriesKept DEF InPlace, Standing
  <2> QED
    BY Zenon, <2>2, <2>3, <2>4, <2>5, <2>6 DEF InPlace, Standing
<1>2. CASE Next
  BY Zenon, <1>2, ServerReadsHeaderInPlace, ServerReadsPayloadInPlace, ServerPanicsInPlace,
     ServerWritesInPlace, ServerLosesInPlace, WriteInPlace, ClientWritesInPlace, ClientReadsHeaderInPlace,
     ClientReadsPayloadInPlace, TimeoutInPlace, ClientLosesInPlace, DropConnectionInPlace
     DEF Next, ServerStep, CallStep
<1> QED
  BY Zenon, <1>1, <1>2

LEMMA AlwaysInPlace == Spec => [](Inv /\ InPlace)
<1>1. Init => Inv /\ InPlace
  BY Zenon, InitInv, InitInPlace
<1>2. Inv /\ InPlace /\ [Next]_vars => (Inv /\ InPlace)'
  BY Zenon, StepInv, StepInPlace
<1> QED
  BY <1>1, <1>2, PTL DEF Spec

\* The server answers what it owes an answer, once, in order and without a gap,
\* and nothing else, for any number and kinds of frames and any capacity.
THEOREM AnsweredExactlyHolds == Spec => []AnsweredExactly
BY AlwaysInPlace, InPlaceImplies, PTL

\* A call gets its own answer until one timed out, and after that, until a read
\* was cut short, an answer to an earlier call at worst, none of them twice.
THEOREM AnswersMatchHolds == Spec => []AnswersMatch
BY AlwaysInPlace, InPlaceImplies, PTL

\* The two ends block each other only if a call timed out before.
THEOREM BlockedOnlyLateHolds == Spec => []BlockedOnlyLate
BY AlwaysInPlace, InPlaceImplies, PTL

-----------------------------------------------------------------------------
(* The connection implements RequestService.                                *)

\* The requests as RequestService sees them.
LEMMA ServiceIs ==
  ASSUME Inv
  PROVE  /\ Len(Asked) = Len(sent)
         /\ \A i \in 1..Len(sent) : Asked[i] = sent[i].kind
         /\ Service!Unanswered = Owed \ Given
<1>1. Len(sent) \in Nat /\ Len(Asked) = Len(sent)
      /\ \A i \in 1..Len(sent) : Asked[i] = sent[i].kind
  BY StreamsAre DEF Asked
<1> QED
  BY <1>1 DEF Service!Unanswered, Owed, Given, Answerable

LEMMA InitService == Init => Service!RInit
BY DEF Init, Service!RInit, Asked, Calling

\* A step that leaves what the abstract connection sees.
LEMMA ServiceKept ==
  ASSUME UNCHANGED <<sent, answered, log, late, cut>>, Calling' = Calling
  PROVE  UNCHANGED Service!rvars
BY DEF Service!rvars, Asked, Calling

LEMMA GiveStep ==
  ASSUME Inv, InPlace, ServerReadsPayload
  PROVE  Service!Give \/ UNCHANGED Service!rvars
<1> USE DEF ServerReadsPayload, client
<1>1. CASE ~Answerable(req)
  BY <1>1, ServiceKept DEF Calling
<1>2. CASE Answerable(req)
  <2>1. PICK n \in Nat, a \in Nat : Standing(n, a)
    BY DEF InPlace
  <2>2. /\ Given = Owed \cap 1..n /\ n + 1 \in 1..Len(sent) /\ req = sent[n + 1]
    BY <2>1, StreamsAre DEF Standing, AnsweredTo, ServerAt, Encodes, ServerHalf
  <2>3. req.id = n + 1 /\ n + 1 \in Owed
    BY <1>2, <2>2 DEF InPlace, Numbered, Owed
  <2>4. req.id \in Owed \ Given /\ \A m \in Owed \ Given : req.id <= m
    BY <2>2, <2>3 DEF Owed
  <2>5. answered' = Append(answered, req.id)
    BY <1>2
  <2>6. UNCHANGED <<Asked, log, Calling, late, cut>>
    BY DEF Asked, Calling
  <2> QED
    BY <2>4, <2>5, <2>6, ServiceIs DEF Service!Give, Calling
<1> QED
  BY Zenon, <1>1, <1>2

Kind == Calls \cup Raw \cup Answers

LEMMA Grown ==
  ASSUME NEW S, NEW s \in Seq(S), NEW e \in S, NEW t \in Seq(S),
         Len(t) = Len(s) + 1, t[Len(s) + 1] = e, \A i \in 1..Len(s) : t[i] = s[i]
  PROVE  t = Append(s, e)
<1>1. Append(s, e) \in Seq(S) /\ Len(Append(s, e)) = Len(t)
      /\ \A i \in 1..Len(t) : t[i] = Append(s, e)[i]
  OBVIOUS
<1> QED
  BY <1>1, SeqEqual

LEMMA AskedType ==
  ASSUME NEW s \in Seq(Frames)
  PROVE  [i \in 1..Len(s) |-> s[i].kind] \in Seq(Kind)
<1>1. Len(s) \in Nat /\ \A i \in 1..Len(s) : s[i].kind \in Kind
  <2>1. \A i \in 1..Len(s) : s[i] \in Frames
    OBVIOUS
  <2> QED
    BY <2>1, FramesAre DEF Kind
<1>2. [i \in 1..Len(s) |-> s[i].kind] \in [1..Len(s) -> Kind]
  BY <1>1
<1> QED
  BY <1>1, <1>2

LEMMA AskStep ==
  ASSUME Inv, NEW kind \in Calls \cup Raw, Write(kind)
  PROVE  Service!Ask
<1> DEFINE f == [kind |-> kind, id |-> Len(sent) + 1]
<1>1. sent' = Append(sent, f) /\ f.kind = kind /\ Len(sent) \in Nat
  BY StreamsAre DEF Write
<1>2. Asked' = Append(Asked, kind)
  <2>1. sent \in Seq(Frames)
    BY StreamsAre
  <2>2. Len(sent') = Len(sent) + 1 /\ sent'[Len(sent) + 1] = f
        /\ \A i \in 1..Len(sent) : sent'[i] = sent[i]
    BY <1>1, <2>1
  <2>3. sent' \in Seq(Frames)
    <3>1. Len(sent) + 1 \in 1..MaxFrames
      BY <1>1, MaxFramesAssumption DEF Write
    <3>2. f \in Frames
      BY <3>1, FramesAre
    <3> QED
      BY <1>1, <2>1, <3>2
  <2> HIDE DEF f
  <2>4. Asked \in Seq(Kind) /\ Asked' \in Seq(Kind) /\ kind \in Kind
    BY <2>1, <2>3, AskedType DEF Asked, Kind
  <2>5. Len(Asked') = Len(Asked) + 1 /\ Asked'[Len(Asked) + 1] = kind
        /\ \A i \in 1..Len(Asked) : Asked'[i] = Asked[i]
    BY <1>1, <2>2 DEF Asked
  <2> QED
    BY <2>4, <2>5, Grown
<1>3. ~Calling /\ Calling' /\ UNCHANGED <<answered, log, late, cut>>
  BY DEF Write, server, Calling
<1> QED
  BY <1>2, <1>3 DEF Service!Ask, Calling

\* A call that ends without an answer.
LEMMA EndStep ==
  ASSUME Calling, ~Calling', UNCHANGED <<sent, answered, log>>,
         UNCHANGED <<late, cut>> \/ (late' = TRUE /\ (cut' = cut \/ cut' = TRUE))
  PROVE  Service!End
<1>1. UNCHANGED <<Asked, answered, log>>
  BY DEF Asked
<1>2. UNCHANGED <<late, cut>> \/ (late' = TRUE /\ cut' \in {cut, TRUE})
  BY Zenon
<1>3. Calling /\ Calling' = FALSE
  BY DEF Calling
<1> QED
  BY Zenon, <1>1, <1>2, <1>3 DEF Service!End

LEMMA ReturnStep ==
  ASSUME Inv, InPlace, ClientReadsPayload
  PROVE  Service!Return \/ Service!End \/ UNCHANGED Service!rvars
<1> USE DEF ClientReadsPayload, server
<1> DEFINE entry(m) == [asked |-> Len(Asked), answer |-> m, clean |-> ~late, whole |-> ~cut]
<1>1. Calling /\ UNCHANGED <<sent, answered, late, cut>>
  BY DEF Calling
<1>2. CASE ~IsAnswer(got)
  <2>1. UNCHANGED log /\ cpc' \in {"idle", "header"}
    BY Zenon, <1>2
  <2>2. CASE cpc' = "idle"
    BY <1>1, <2>1, <2>2, EndStep DEF Calling
  <2>3. CASE cpc' = "header"
    BY <1>1, <2>1, <2>3, ServiceKept DEF Calling
  <2> QED
    BY <2>1, <2>2, <2>3
<1>3. CASE IsAnswer(got)
  <2>1. /\ cpc' = "idle"
        /\ log' = Append(log, [asked |-> Own.id, answer |-> got.id,
                               clean |-> ~late, whole |-> ~cut])
    BY Zenon, <1>3
  <2>2. Own.id = Len(Asked) /\ got.id \in 1..MaxFrames
    <3>1. Len(sent) \in 1..Len(sent)
      BY EmptySeq, StreamsAre DEF Inv, ClientOK
    <3>2. Own.id = Len(sent)
      BY Zenon, <3>1 DEF InPlace, Numbered, Own
    <3> QED
      BY <3>2, FramesAre, ServiceIs DEF Inv, ClientOK
  <2>3. log' = Append(log, entry(got.id))
    BY Zenon, <2>1, <2>2
  <2>4. cut \/ Service!Due(got.id, Len(Asked))
    <3> SUFFICES ASSUME ~cut PROVE Service!Due(got.id, Len(Asked))
      BY Zenon
    <3>1. PICK n \in Nat, a \in Nat : Standing(n, a)
      BY DEF InPlace
    <3>2. /\ a + 1 \in 1..Len(answered) /\ Len(answered) \in Nat
          /\ got.id = answered[a + 1] /\ got.id \in Given /\ got.id \in 1..Len(sent)
          /\ got = AnswerTo(sent[got.id]) /\ Own.id = Len(sent)
          /\ \A j \in 1..Len(log) : log[j].answer < got.id
      BY <3>1, AnswerAtHand
    <3>3. \E i \in 1..Len(answered) : answered[i] = got.id
      BY <3>2
    <3>4. ~late => got.id = Len(Asked)
      <4> SUFFICES ASSUME ~late PROVE got.id = Len(Asked)
        BY Zenon
      <4>1. a < Len(answered)
        BY <3>2
      <4>2. answered[a + 1] = Len(sent)
        BY <3>1, <4>1, LastAnswer
      <4> QED
        BY <3>2, <4>2, ServiceIs
    <3>5. /\ Asked[got.id] = sent[got.id].kind /\ sent[got.id] \in Frames
          /\ Asked[Len(Asked)] = Own.kind /\ Own \in Frames
      <4>1. sent \in Seq(Frames) /\ Len(sent) \in Nat
        BY StreamsAre
      <4>2. got.id \in 1..Len(sent)
        BY <3>2
      <4>3. Len(sent) \in 1..Len(sent)
        BY <4>1, <4>2
      <4>4. sent[got.id] \in Frames /\ sent[Len(sent)] \in Frames
        BY <4>1, <4>2, <4>3
      <4> QED
        BY <4>2, <4>3, <4>4, ServiceIs DEF Own
    <3>6. (sent[got.id].kind = "json") = (Own.kind = "json")
      BY <1>3, <3>2 DEF IsAnswer, AnswerTo, AnswerKind
    <3>7. /\ Asked[got.id] \in Calls \cup Raw \cup Answers
          /\ Asked[Len(Asked)] \in Calls \cup Raw \cup Answers
          /\ (Asked[got.id] = "json") = (Asked[Len(Asked)] = "json")
      BY <3>5, <3>6, FramesAre
    <3> QED
      BY <3>2, <3>3, <3>4, <3>7 DEF Service!Due
  <2>5. Calling' = FALSE /\ UNCHANGED Asked
    BY <2>1 DEF Asked, Calling
  <2> QED
    BY Zenon, <1>1, <2>2, <2>3, <2>4, <2>5 DEF Service!Return
<1> QED
  BY Zenon, <1>2, <1>3

\* Each step of the connection is one of RequestService, or is not seen there.
LEMMA ServiceStep ==
  ASSUME Inv, InPlace, [Next]_vars
  PROVE  [Service!RNext]_(Service!rvars)
<1>1. CASE UNCHANGED vars
  BY <1>1, ServiceKept DEF vars, Calling
<1>2. CASE ServerStep
  <2>1. CASE ServerReadsPayload
    BY Zenon, <2>1, GiveStep DEF Service!RNext
  <2>2. CASE ServerReadsHeader \/ ServerPanics \/ ServerWrites \/ ServerLoses
    BY <2>2, ServiceKept
       DEF ServerReadsHeader, ServerPanics, ServerWrites, ServerLoses, client, Calling
  <2> QED
    BY Zenon, <1>2, <2>1, <2>2 DEF ServerStep
<1>3. CASE CallStep
  <2>1. CASE ClientReadsPayload
    BY Zenon, <2>1, ReturnStep DEF Service!RNext
  <2>2. CASE ClientWrites \/ ClientReadsHeader
    <3>1. Calling /\ UNCHANGED <<sent, answered, log>>
      BY <2>2 DEF ClientWrites, ClientReadsHeader, server, Calling
    <3>2. UNCHANGED <<late, cut>>
      BY Zenon, <2>2 DEF ClientWrites, ClientReadsHeader
    <3>3. CASE Calling'
      BY <3>1, <3>2, <3>3, ServiceKept
    <3>4. CASE ~Calling'
      BY Zenon, <3>1, <3>2, <3>4, EndStep DEF Service!RNext
    <3> QED
      BY Zenon, <3>3, <3>4
  <2>3. CASE ClientLoses
    <3>1. Calling /\ ~Calling' /\ UNCHANGED <<sent, answered, log>>
      BY <2>3 DEF ClientLoses, server, Calling
    <3>2. UNCHANGED <<late, cut>>
      BY Zenon, <2>3 DEF ClientLoses
    <3> QED
      BY Zenon, <3>1, <3>2, EndStep DEF Service!RNext
  <2>4. CASE Timeout
    <3>1. Calling /\ ~Calling' /\ UNCHANGED <<sent, answered, log>>
      BY <2>4 DEF Timeout, server, Calling
    <3>2. late' = TRUE /\ (cut' = cut \/ cut' = TRUE)
      <4>1. cut \in BOOLEAN
        BY Zenon DEF Inv, ClientFlags
      <4>2. late' = TRUE /\ cut' = (cut \/ cpc = "payload")
        BY Zenon, <2>4 DEF Timeout
      <4> QED
        BY <4>1, <4>2
    <3> QED
      BY Zenon, <3>1, <3>2, EndStep DEF Service!RNext
  <2> QED
    BY Zenon, <1>3, <2>1, <2>2, <2>3, <2>4 DEF CallStep
<1>4. CASE \E kind \in Calls \cup Raw : Write(kind)
  BY Zenon, <1>4, AskStep DEF Service!RNext
<1>5. CASE DropConnection
  BY <1>5, ServiceKept DEF DropConnection, server, Calling
<1> QED
  BY Zenon, <1>1, <1>2, <1>3, <1>4, <1>5 DEF Next

\* The connection keeps the promise of RequestService, whatever is asked and
\* however calls time out: the server answers what it owes, the oldest first, and
\* a call returns only an answer in its turn and of its form, its own until a
\* call times out, as long as no read is cut short.
THEOREM ImplementsServiceHolds == Spec => ImplementsService
<1>1. Init => Service!RInit
  BY Zenon, InitService
<1>2. Inv /\ InPlace /\ [Next]_vars => [Service!RNext]_(Service!rvars)
  BY Zenon, ServiceStep
<1> QED
  BY <1>1, <1>2, AlwaysInPlace, PTL DEF Spec, ImplementsService, Service!RSpec
=============================================================================

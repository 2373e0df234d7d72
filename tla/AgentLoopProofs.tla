-------------------------- MODULE AgentLoopProofs --------------------------
(***************************************************************************)
(* Proofs about AgentLoop, for words, batches and streams of any size.     *)
(***************************************************************************)
EXTENDS AgentProcess, Integers, TLAPS

-----------------------------------------------------------------------------
(* Frames and the pieces they are written in.                               *)

LEMMA FramesAre ==
  /\ NoFrame \in Frames
  /\ \A f \in Frames : /\ f.id \in 1..MaxFrames
                       /\ f.kind \in {"batch", "other", "bad", "big"}
                       /\ f.first \in 0..(Word - 1) /\ f.count \in 0..MaxCount
BY MaxFramesAssumption, MaxCountAssumption, WordAssumption DEF NoFrame, Frames

LEMMA EncodeIs ==
  ASSUME NEW f \in Frames
  PROVE  /\ Encode(f) = <<Header(f), Payload(f)>>
         /\ Header(f) \in Units(Frames) /\ Payload(f) \in Units(Frames)
         /\ Encode(f) \in Seq(Units(Frames))
BY DEF Encode, Header, Payload, Units

LEMMA AnnouncedAre ==
  ASSUME NEW u \in Units(Frames), NEW f \in Announced(u, Frames)
  PROVE  f \in Frames
BY DEF Announced, Units

-----------------------------------------------------------------------------
(* Types.                                                                   *)

Flags == open \in BOOLEAN /\ cut \in BOOLEAN
StreamOK ==
  /\ stream \in Seq(Units(Frames)) /\ rest \in Seq(Units(Frames))
  /\ sent \in Seq(Frames)
LoopOK ==
  /\ apc \in {"header", "payload", "events", "answering", "ended", "panicked"}
  /\ frame \in Frames
  /\ next \in 1..(MaxCount + 1)
  /\ IF apc = "events" THEN next <= frame.count ELSE next = 1
ResultsOK == answers \in Seq(Results) /\ handed \in Seq(Events)

Inv == Flags /\ StreamOK /\ LoopOK /\ ResultsOK

LEMMA InvImpliesTypeOK == Inv => TypeOK
BY Zenon DEF Inv, Flags, StreamOK, LoopOK, ResultsOK, TypeOK

LEMMA InitInv == Init => Inv
<1> SUFFICES ASSUME Init PROVE Inv
  OBVIOUS
<1>1. Flags
  BY Zenon DEF Init, Flags
<1>2. StreamOK /\ LoopOK /\ ResultsOK
  BY FramesAre, MaxCountAssumption DEF Init, StreamOK, LoopOK, ResultsOK
<1> QED
  BY <1>1, <1>2 DEF Inv

LEMMA FlagsStep == ASSUME Flags, [Next]_vars PROVE Flags'
BY Zenon DEF Flags, Next, PeerStep, AgentStep, vars, peer, PeerBegins, PeerWrites, PeerCloses,
             ReadHeader, ReadPayload, HandEvent, Answer, AnswerPanics, AnswerFails,
             PollTimesOut, ReadEnds

LEMMA StepInv == Inv /\ [Next]_vars => Inv'
<1> SUFFICES ASSUME Inv, [Next]_vars PROVE Inv'
  OBVIOUS
<1> USE DEF Inv
<1>1. Flags'
  BY FlagsStep
<1>2. ASSUME NEW f \in Frames, PeerBegins(f) PROVE Inv'
  <2>1. UNCHANGED <<stream, apc, frame, next, answers, handed>>
        /\ rest' = Encode(f) /\ sent' = Append(sent, f)
    BY <1>2 DEF PeerBegins
  <2> QED
    BY <1>1, <2>1, EncodeIs DEF StreamOK, LoopOK, ResultsOK
<1>3. CASE PeerWrites
  <2>1. UNCHANGED <<apc, frame, next, answers, sent, handed>>
        /\ rest # <<>> /\ stream' = Append(stream, Head(rest)) /\ rest' = Tail(rest)
    BY <1>3 DEF PeerWrites
  <2> QED
    BY <1>1, <2>1 DEF StreamOK, LoopOK, ResultsOK
<1>4. CASE ReadHeader
  <2>1. /\ stream # <<>> /\ stream' = Tail(stream)
        /\ UNCHANGED <<rest, sent, next, answers, handed>>
    BY <1>4 DEF ReadHeader, peer
  <2>2. Head(stream) \in Units(Frames) /\ Tail(stream) \in Seq(Units(Frames))
    BY <2>1 DEF StreamOK
  <2>3. PICK f \in Announced(Head(stream), Frames) :
          \/ apc' = "ended" /\ frame' = NoFrame
          \/ apc' = "payload" /\ frame' = f
    BY <1>4 DEF ReadHeader
  <2>4. f \in Frames /\ apc = "header"
    BY <1>4, <2>2, AnnouncedAre DEF ReadHeader
  <2> QED
    BY <1>1, <2>1, <2>2, <2>3, <2>4, FramesAre DEF StreamOK, LoopOK, ResultsOK
<1>5. CASE ReadPayload
  <2>1. /\ stream # <<>> /\ stream' = Tail(stream) /\ apc = "payload"
        /\ apc' = AfterPayload(frame) /\ frame' = (IF frame.kind = "batch" THEN frame ELSE NoFrame)
        /\ UNCHANGED <<next, rest, sent, answers, handed>>
    BY <1>5 DEF ReadPayload, peer
  <2>2. StreamOK' /\ ResultsOK'
    BY <2>1 DEF StreamOK, ResultsOK
  <2>3. LoopOK'
    BY <2>1, FramesAre, MaxCountAssumption DEF LoopOK, AfterPayload
  <2> QED
    BY <1>1, <2>2, <2>3
<1>6. CASE HandEvent
  <2>1. /\ apc = "events"
        /\ \/ next = frame.count /\ apc' = "answering" /\ next' = 1
           \/ next # frame.count /\ apc' = "events" /\ next' = next + 1
        /\ handed' \in {handed, Append(handed, [id |-> frame.id, i |-> next])}
        /\ UNCHANGED <<stream, frame, rest, sent, answers>>
    BY <1>6 DEF HandEvent, peer
  <2>2. frame.id \in 1..MaxFrames /\ frame.count \in 0..MaxCount /\ next \in 1..MaxCount
    BY <2>1, FramesAre, MaxCountAssumption DEF LoopOK
  <2> DEFINE e == [id |-> frame.id, i |-> next]
  <2>3. e \in Events /\ handed' \in {handed, Append(handed, e)}
    BY <2>1, <2>2 DEF Events
  <2> HIDE DEF e
  <2>4. StreamOK' /\ ResultsOK'
    <3>1. Append(handed, e) \in Seq(Events)
      BY <2>3 DEF ResultsOK
    <3> QED
      BY <2>1, <2>3, <3>1 DEF StreamOK, ResultsOK
  <2>5. LoopOK'
    BY <2>1, <2>2, MaxCountAssumption DEF LoopOK
  <2> QED
    BY <1>1, <2>4, <2>5
<1>7. CASE Answer
  <2> DEFINE a == [to |-> frame.id, last |-> LastSeq(frame)]
  <2>1. /\ answers' = Append(answers, a) /\ apc = "answering" /\ apc' = "header"
        /\ frame' = NoFrame
        /\ UNCHANGED <<stream, rest, sent, next, handed>>
    BY <1>7 DEF Answer, peer
  <2>2. LastSeq(frame) \in 0..(Word - 1)
    <3>1. frame.first + frame.count + Word - 1 \in Nat
      BY FramesAre, WordAssumption, MaxCountAssumption DEF LoopOK
    <3> QED
      BY <3>1, WordAssumption DEF LastSeq
  <2>3. a \in Results
    BY <2>2, FramesAre DEF LoopOK, Results
  <2> HIDE DEF a
  <2> QED
    BY <1>1, <2>1, <2>3, FramesAre DEF StreamOK, LoopOK, ResultsOK
<1>8. CASE PeerCloses \/ AnswerPanics \/ AnswerFails \/ PollTimesOut \/ ReadEnds \/ UNCHANGED vars
  <2>1. /\ UNCHANGED <<stream, rest, sent, next, answers, handed>>
        /\ \/ apc' = apc /\ frame' = frame
           \/ apc # "events" /\ apc' \in {"header", "ended", "panicked"} /\ frame' = NoFrame
    BY <1>8 DEF PeerCloses, AnswerPanics, AnswerFails, PollTimesOut, ReadEnds, vars, peer
  <2> QED
    BY <1>1, <2>1, FramesAre DEF StreamOK, LoopOK, ResultsOK
<1> HIDE DEF Inv
<1> QED
  BY <1>2, <1>3, <1>4, <1>5, <1>6, <1>7, <1>8 DEF Next, PeerStep, AgentStep

LEMMA Always == Spec => []Inv
BY InitInv, StepInv, PTL DEF Spec

\* The loop keeps its types; the number an answer names is a machine word.
THEOREM TypeCorrect == Spec => []TypeOK
BY Always, InvImpliesTypeOK, PTL

-----------------------------------------------------------------------------
(* Where the loop stands in the stream, while no poll was cut short.        *)

\* The frames whose header was read are the first c that were sent; p units of
\* the stream were read.
Read(c) == IF apc = "payload" THEN 2 * c - 1 ELSE 2 * c
Handling == apc \in {"payload", "events", "answering"}
Reading == apc = "header" \/ Handling

Aligned(c) ==
  Reading =>
    /\ Read(c) + Len(stream) + Len(rest) = 2 * Len(sent)
    /\ \A n \in 1..Len(sent) :
         /\ \A j \in 1..Len(stream) : Read(c) + j = 2 * n - 1 => stream[j] = Header(sent[n])
         /\ \A j \in 1..Len(rest) :
              Read(c) + Len(stream) + j = 2 * n - 1 => rest[j] = Header(sent[n])

\* The frame being handled is the last one read.
Current(c) ==
  /\ Handling => c > 0 /\ frame = sent[c]
  /\ apc \in {"events", "answering"} => frame.kind = "batch"

\* The frames done with: the last one read, if the loop is at a header again.
Done(c) == IF apc = "header" THEN c ELSE c - 1

HandedBy(c) ==
  \A k \in 1..Len(handed) :
    LET e == handed[k] IN
      /\ e.id <= c
      /\ sent[e.id].kind = "batch" /\ e.i <= sent[e.id].count
      /\ k > 1 => Before(handed[k - 1], e)
      /\ apc = "payload" => e.id < c
      /\ apc = "events" => (e.id < c \/ e.i < next)

AnsweredBefore(s, n, k) == \E j \in 1..k : s[j].to = n

Fits(f) == f.count > 0 /\ f.first + f.count <= Word

AllAnswered(c) ==
  \A n \in 1..Done(c) :
    /\ sent[n].kind \in {"batch", "other"}
    /\ sent[n].kind = "batch" => AnsweredBefore(answers, n, Len(answers))
AnswersOf(c) ==
  \A k \in 1..Len(answers) :
    LET to == answers[k].to IN
      /\ to <= c /\ (Handling => to < c)
      /\ sent[to].kind = "batch"
      /\ k > 1 => answers[k - 1].to < to
      /\ \A n \in 1..(to - 1) : sent[n].kind = "batch" => AnsweredBefore(answers, n, k - 1)
      /\ Fits(sent[to]) => answers[k].last = sent[to].first + sent[to].count - 1
AnsweredBy(c) == AllAnswered(c) /\ AnswersOf(c)

Numbered == \A n \in 1..Len(sent) : sent[n].id = n

Standing(c) == Aligned(c) /\ Current(c) /\ HandedBy(c) /\ AnsweredBy(c)
InPlace == Numbered /\ (~cut => \E c \in 0..Len(sent) : Standing(c))

LEMMA HistoriesAre ==
  ASSUME Inv
  PROVE  /\ \A k \in 1..Len(handed) : handed[k].id \in 1..MaxFrames /\ handed[k].i \in 1..MaxCount
         /\ \A k \in 1..Len(answers) : answers[k].to \in 1..MaxFrames
<1>1. \A k \in 1..Len(handed) : handed[k] \in Events
  BY DEF Inv, ResultsOK
<1>2. \A k \in 1..Len(answers) : answers[k] \in Results
  BY DEF Inv, ResultsOK
<1>3. \A e \in Events : e.id \in 1..MaxFrames /\ e.i \in 1..MaxCount
  BY DEF Events
<1>4. \A a \in Results : a.to \in 1..MaxFrames
  BY DEF Results
<1> QED
  BY <1>1, <1>2, <1>3, <1>4

LEMMA InPlaceImplies == ASSUME Inv, InPlace PROVE ReplayedAsSent /\ AnsweredInOrder
<1> SUFFICES ASSUME ~cut PROVE ReplayedAsSent /\ AnsweredInOrder
  BY DEF ReplayedAsSent, AnsweredInOrder
<1>1. PICK c \in 0..Len(sent) : Standing(c)
  BY DEF InPlace
<1>2. \A k \in 1..Len(handed) : handed[k].id \in 1..MaxFrames
  BY HistoriesAre
<1>3. \A k \in 1..Len(answers) : answers[k].to \in 1..MaxFrames
  BY HistoriesAre
<1>4. Len(sent) \in Nat /\ MaxFrames \in Nat
  BY MaxFramesAssumption DEF Inv, StreamOK
<1>5. ReplayedAsSent
  BY <1>1, <1>2, <1>4 DEF Standing, HandedBy, AnsweredBy, AllAnswered, AnswersOf, Done, ReplayedAsSent
<1>6. AnsweredInOrder
  BY <1>1, <1>3, <1>4 DEF Standing, AnsweredBy, AllAnswered, AnswersOf, AnsweredInOrder, AnsweredBefore, Fits
<1> QED
  BY <1>5, <1>6

LEMMA InitInPlace == Init => InPlace
BY DEF Init, InPlace, Numbered, Standing, Aligned, Current, HandedBy, AnsweredBy, AllAnswered, AnswersOf,
       Reading, Handling, Read, Done

\* A step that leaves the histories alone and moves the loop on, at most past
\* the frame that it was reading.
LEMMA HistoriesKept ==
  ASSUME Inv, NEW c \in 0..Len(sent), HandedBy(c), AnsweredBy(c),
         UNCHANGED <<sent, handed, answers>>, NEW d \in {c, c + 1},
         d = c => (~Handling' \/ (Handling /\ apc' # "payload" /\ apc' # "events")
                   \/ (apc = apc' /\ next = next')),
         d = c + 1 => apc = "header" /\ apc' # "header",
         d = c /\ apc' = "header" => apc = "header"
  PROVE  HandedBy(d)' /\ AnsweredBy(d)'
<1>1. c \in Nat
  BY DEF Inv, StreamOK
<1>2. HandedBy(d)'
  BY <1>1, HistoriesAre DEF HandedBy, Handling, Before
<1>3. AnsweredBy(d)'
  BY <1>1, HistoriesAre DEF AnsweredBy, AllAnswered, AnswersOf, AnsweredBefore, Handling, Done
<1> QED
  BY <1>2, <1>3

LEMMA PeerBeginsInPlace ==
  ASSUME Inv, NEW f \in Frames, PeerBegins(f), NEW c \in 0..Len(sent), Standing(c)
  PROVE  Standing(c)'
<1>1. /\ rest = <<>> /\ rest' = Encode(f) /\ sent' = Append(sent, f)
      /\ UNCHANGED <<stream, apc, frame, next, answers, handed>>
  BY DEF PeerBegins
<1>2. /\ Len(sent) \in Nat /\ Len(sent') = Len(sent) + 1 /\ sent'[Len(sent')] = f
      /\ \A n \in 1..Len(sent) : sent'[n] = sent[n]
  BY <1>1 DEF Inv, StreamOK
<1>3. Len(stream) \in Nat /\ Len(rest) = 0
  BY <1>1 DEF Inv, StreamOK
<1>4. Len(rest') = 2 /\ rest'[1] = Header(f)
  BY <1>1, EncodeIs
<1>5. Read(c)' = Read(c) /\ Read(c) \in Int /\ Reading' = Reading /\ Handling' = Handling
      /\ Done(c)' = Done(c)
  BY <1>1, <1>2 DEF Read, Reading, Handling, Done
<1>6. Aligned(c)'
  <2>1. SUFFICES ASSUME Reading'
        PROVE  /\ Read(c)' + Len(stream') + Len(rest') = 2 * Len(sent')
               /\ \A n \in 1..Len(sent') :
                    /\ \A j \in 1..Len(stream') : Read(c)' + j = 2 * n - 1 => stream'[j] = Header(sent'[n])
                    /\ \A j \in 1..Len(rest') :
                         Read(c)' + Len(stream') + j = 2 * n - 1 => rest'[j] = Header(sent'[n])
    BY DEF Aligned
  <2>2. Read(c) + Len(stream) = 2 * Len(sent)
    BY <1>3, <1>5, <2>1 DEF Standing, Aligned
  <2>3. \A n \in 1..Len(sent) : \A j \in 1..Len(stream) :
          Read(c) + j = 2 * n - 1 => stream[j] = Header(sent[n])
    BY <1>5, <2>1 DEF Standing, Aligned
  <2> HIDE DEF Read
  <2>4. ASSUME NEW n \in 1..Len(sent'), NEW j \in 1..Len(stream'), Read(c)' + j = 2 * n - 1
        PROVE  stream'[j] = Header(sent'[n])
    <3>1. n \in 1..Len(sent) /\ j \in 1..Len(stream) /\ Read(c) + j = 2 * n - 1
      BY <1>1, <1>2, <1>3, <1>5, <2>2, <2>4
    <3> QED
      BY <3>1, <2>3, <1>1, <1>2
  <2>5. ASSUME NEW n \in 1..Len(sent'), NEW j \in 1..Len(rest'),
               Read(c)' + Len(stream') + j = 2 * n - 1
        PROVE  rest'[j] = Header(sent'[n])
    <3>1. n = Len(sent') /\ j = 1
      BY <1>1, <1>2, <1>3, <1>4, <1>5, <2>2, <2>5
    <3> QED
      BY <3>1, <1>2, <1>4
  <2>6. Read(c)' + Len(stream') + Len(rest') = 2 * Len(sent')
    BY <1>1, <1>2, <1>3, <1>4, <1>5, <2>2
  <2> QED
    BY <2>4, <2>5, <2>6
<1>7. Current(c)'
  BY <1>1, <1>2, <1>5 DEF Standing, Current
<1>8. HandedBy(c)'
  <2>1. \A k \in 1..Len(handed) : handed[k].id <= c /\ handed[k].id \in Nat \ {0}
    BY HistoriesAre, MaxFramesAssumption DEF Standing, HandedBy
  <2>2. \A k \in 1..Len(handed) : sent'[handed[k].id] = sent[handed[k].id]
    BY <2>1, <1>2
  <2> HIDE DEF Before
  <2> QED
    BY <2>2, <1>1 DEF Standing, HandedBy
<1>9. AnsweredBy(c)'
  <2>1. \A k \in 1..Len(answers) : answers[k].to <= c /\ answers[k].to \in Nat \ {0}
    BY HistoriesAre, MaxFramesAssumption DEF Standing, AnsweredBy, AllAnswered, AnswersOf
  <2>2. /\ \A k \in 1..Len(answers) : sent'[answers[k].to] = sent[answers[k].to]
        /\ \A k \in 1..Len(answers) : \A n \in 1..(answers[k].to - 1) : sent'[n] = sent[n]
        /\ \A n \in 1..Done(c) : sent'[n] = sent[n]
    <3>1. \A k \in 1..Len(answers) : answers[k].to \in 1..Len(sent)
      BY <2>1, <1>2
    <3>2. \A k \in 1..Len(answers) : \A n \in 1..(answers[k].to - 1) : n \in 1..Len(sent)
      BY <3>1, <1>2
    <3>3. \A n \in 1..Done(c) : n \in 1..Len(sent)
      BY <1>2 DEF Done
    <3> QED
      BY <3>1, <3>2, <3>3, <1>2
  <2>3. Handling' = Handling /\ Done(c)' = Done(c)
    BY <1>5
  <2> HIDE DEF Done, Handling, Fits, AnsweredBefore
  <2>4. \A n \in 1..Done(c) :
          /\ sent'[n].kind \in {"batch", "other"}
          /\ sent'[n].kind = "batch" => AnsweredBefore(answers, n, Len(answers))
    BY <2>2 DEF Standing, AnsweredBy, AllAnswered, AnswersOf
  <2>5. \A k \in 1..Len(answers) :
          LET to == answers[k].to IN
            /\ to <= c /\ (Handling => to < c)
            /\ sent'[to].kind = "batch"
            /\ k > 1 => answers[k - 1].to < to
            /\ \A n \in 1..(to - 1) : sent'[n].kind = "batch" => AnsweredBefore(answers, n, k - 1)
            /\ Fits(sent'[to]) => answers[k].last = sent'[to].first + sent'[to].count - 1
    BY <2>2 DEF Standing, AnsweredBy, AllAnswered, AnswersOf
  <2>6. answers' = answers
    BY <1>1
  <2>7. \A n \in 1..Done(c)' :
          /\ sent'[n].kind \in {"batch", "other"}
          /\ sent'[n].kind = "batch" => AnsweredBefore(answers', n, Len(answers'))
    BY <2>3, <2>4, <2>6
  <2>8. \A k \in 1..Len(answers') :
          LET to == answers'[k].to IN
            /\ to <= c /\ (Handling' => to < c)
            /\ sent'[to].kind = "batch"
            /\ k > 1 => answers'[k - 1].to < to
            /\ \A n \in 1..(to - 1) : sent'[n].kind = "batch" => AnsweredBefore(answers', n, k - 1)
            /\ Fits(sent'[to]) => answers'[k].last = sent'[to].first + sent'[to].count - 1
    BY <2>3, <2>5, <2>6
  <2> QED
    <3>1. AllAnswered(c)'
      BY <2>7 DEF AllAnswered
    <3>2. AnswersOf(c)'
      BY <2>8 DEF AnswersOf, Fits
    <3> QED
      BY <3>1, <3>2 DEF AnsweredBy
<1> QED
  BY <1>6, <1>7, <1>8, <1>9 DEF Standing

LEMMA PeerWritesInPlace ==
  ASSUME Inv, PeerWrites, NEW c \in 0..Len(sent), Standing(c)
  PROVE  Standing(c)'
<1>1. /\ rest # <<>> /\ rest' = Tail(rest) /\ stream' = Append(stream, Head(rest))
      /\ UNCHANGED <<sent, apc, frame, next, answers, handed>>
  BY DEF PeerWrites
<1>2. Len(sent) \in Nat /\ Len(stream) \in Nat /\ Len(rest) \in Nat \ {0}
  BY <1>1 DEF Inv, StreamOK
<1>3. /\ Len(stream') = Len(stream) + 1 /\ stream'[Len(stream')] = rest[1]
      /\ \A j \in 1..Len(stream) : stream'[j] = stream[j]
      /\ Len(rest') = Len(rest) - 1 /\ \A j \in 1..Len(rest') : rest'[j] = rest[j + 1]
  BY <1>1 DEF Inv, StreamOK
<1>4. Read(c)' = Read(c) /\ Read(c) \in Int /\ Reading' = Reading /\ Handling' = Handling
  BY <1>1, <1>2 DEF Read, Reading, Handling
<1>5. Aligned(c)'
  <2>1. SUFFICES ASSUME Reading
        PROVE  /\ Read(c)' + Len(stream') + Len(rest') = 2 * Len(sent')
               /\ \A n \in 1..Len(sent') :
                    /\ \A j \in 1..Len(stream') : Read(c)' + j = 2 * n - 1 => stream'[j] = Header(sent'[n])
                    /\ \A j \in 1..Len(rest') :
                         Read(c)' + Len(stream') + j = 2 * n - 1 => rest'[j] = Header(sent'[n])
    BY <1>4 DEF Aligned
  <2>2. /\ Read(c) + Len(stream) + Len(rest) = 2 * Len(sent)
        /\ \A n \in 1..Len(sent) :
             /\ \A j \in 1..Len(stream) : Read(c) + j = 2 * n - 1 => stream[j] = Header(sent[n])
             /\ \A j \in 1..Len(rest) :
                  Read(c) + Len(stream) + j = 2 * n - 1 => rest[j] = Header(sent[n])
    BY <2>1 DEF Standing, Aligned
  <2>3. ASSUME NEW n \in 1..Len(sent'), NEW j \in 1..Len(stream'), Read(c)' + j = 2 * n - 1
        PROVE  stream'[j] = Header(sent'[n])
    <3>1. CASE j \in 1..Len(stream)
      BY <3>1, <1>1, <1>3, <1>4, <2>2, <2>3
    <3>2. CASE j = Len(stream) + 1
      <4>1. Read(c) + Len(stream) + 1 = 2 * n - 1 /\ n \in 1..Len(sent) /\ 1 \in 1..Len(rest)
        BY <3>2, <1>1, <1>2, <1>4, <2>3
      <4>2. rest[1] = Header(sent[n])
        BY <4>1, <2>2
      <4> QED
        BY <4>2, <3>2, <1>1, <1>3
    <3> QED
      BY <3>1, <3>2, <1>2, <1>3
  <2>4. ASSUME NEW n \in 1..Len(sent'), NEW j \in 1..Len(rest'),
               Read(c)' + Len(stream') + j = 2 * n - 1
        PROVE  rest'[j] = Header(sent'[n])
    <3>1. Read(c) + Len(stream) + (j + 1) = 2 * n - 1 /\ j + 1 \in 1..Len(rest) /\ n \in 1..Len(sent)
      BY <1>1, <1>2, <1>3, <1>4, <2>4
    <3>2. rest[j + 1] = Header(sent[n])
      BY <3>1, <2>2
    <3> QED
      BY <3>2, <1>1, <1>3
  <2>5. Read(c)' + Len(stream') + Len(rest') = 2 * Len(sent')
    BY <1>1, <1>2, <1>3, <1>4, <2>2
  <2> QED
    BY <2>3, <2>4, <2>5
<1>6. Current(c)'
  BY <1>1, <1>4 DEF Standing, Current
<1>7. HandedBy(c)' /\ AnsweredBy(c)'
  <2>1. HandedBy(c)'
    BY <1>1 DEF Standing, HandedBy
  <2>2. AnsweredBy(c)'
    BY <1>1 DEF Standing, AnsweredBy, AllAnswered, AnswersOf, Done, Handling
  <2> QED
    BY <2>1, <2>2
<1> QED
  BY <1>5, <1>6, <1>7 DEF Standing

LEMMA ReadHeaderInPlace ==
  ASSUME Inv, ReadHeader, NEW c \in 0..Len(sent), Standing(c)
  PROVE  c + 1 \in 0..Len(sent) /\ Standing(c + 1)'
<1> SUFFICES ASSUME NEW d, d = c + 1 PROVE d \in 0..Len(sent) /\ Standing(d)'
  OBVIOUS
<1>1. /\ apc = "header" /\ stream # <<>> /\ stream' = Tail(stream)
      /\ UNCHANGED <<rest, sent, next, answers, handed>>
  BY DEF ReadHeader, peer
<1>2. Len(sent) \in Nat /\ Len(stream) \in Nat \ {0} /\ Len(rest) \in Nat /\ Head(stream) = stream[1]
  BY <1>1 DEF Inv, StreamOK
<1>3. /\ Len(stream') = Len(stream) - 1
      /\ \A j \in 1..Len(stream') : stream'[j] = stream[j + 1]
  BY <1>1 DEF Inv, StreamOK
<1>4. /\ 2 * c + Len(stream) + Len(rest) = 2 * Len(sent)
      /\ \A n \in 1..Len(sent) :
           /\ \A j \in 1..Len(stream) : 2 * c + j = 2 * n - 1 => stream[j] = Header(sent[n])
           /\ \A j \in 1..Len(rest) : 2 * c + Len(stream) + j = 2 * n - 1 => rest[j] = Header(sent[n])
  BY <1>1 DEF Standing, Aligned, Reading, Read
<1>5. d \in 1..Len(sent) /\ 1 \in 1..Len(stream) /\ 2 * c + 1 = 2 * d - 1
  BY <1>2, <1>4
<1>6. Announced(Head(stream), Frames) = {sent[d]}
  <2>1. stream[1] = Header(sent[d])
    BY <1>4, <1>5
  <2> QED
    BY <2>1, <1>2 DEF Announced, Header
<1>7. \/ apc' = "ended"
      \/ apc' = "payload" /\ frame' = sent[d]
  BY <1>6 DEF ReadHeader
<1>8. Aligned(d)'
  <2>1. CASE apc' = "ended"
    BY <2>1 DEF Aligned, Reading, Handling
  <2>2. CASE apc' = "payload"
    <3>1. Read(d)' = 2 * c + 1
      BY <2>2, <1>2 DEF Read
    <3>2. ASSUME NEW n \in 1..Len(sent'), NEW j \in 1..Len(stream'), 2 * c + 1 + j = 2 * n - 1
          PROVE  stream'[j] = Header(sent'[n])
      <4>1. j + 1 \in 1..Len(stream) /\ 2 * c + (j + 1) = 2 * n - 1
        BY <3>2, <1>2, <1>3
      <4> QED
        BY <4>1, <1>1, <1>3, <1>4
    <3>3. ASSUME NEW n \in 1..Len(sent'), NEW j \in 1..Len(rest'),
                 2 * c + 1 + Len(stream') + j = 2 * n - 1
          PROVE  rest'[j] = Header(sent'[n])
      <4>1. 2 * c + Len(stream) + j = 2 * n - 1
        BY <3>3, <1>1, <1>2, <1>3
      <4> QED
        BY <4>1, <1>1, <1>4
    <3>4. 2 * c + 1 + Len(stream') + Len(rest') = 2 * Len(sent')
      <4>1. 2 * c + Len(stream) + Len(rest) = 2 * Len(sent)
        BY <1>4
      <4>2. Len(stream') = Len(stream) - 1 /\ Len(rest') = Len(rest) /\ Len(sent') = Len(sent)
        BY <1>1, <1>3
      <4> QED
        BY <4>1, <4>2, <1>2
    <3> QED
      BY <3>1, <3>2, <3>3, <3>4 DEF Aligned
  <2> QED
    BY <1>7, <2>1, <2>2
<1>9. Current(d)'
  BY <1>1, <1>5, <1>7 DEF Current, Handling
<1>10. HandedBy(d)' /\ AnsweredBy(d)'
  <2>1. HandedBy(c) /\ AnsweredBy(c) /\ apc' # "header" /\ d # c /\ d \in {c, c + 1}
    BY <1>7, <1>2 DEF Standing
  <2> QED
    BY <2>1, <1>1, HistoriesKept
<1> QED
  BY <1>5, <1>8, <1>9, <1>10 DEF Standing

LEMMA ReadPayloadInPlace ==
  ASSUME Inv, ReadPayload, NEW c \in 0..Len(sent), Standing(c)
  PROVE  Standing(c)'
<1>1. /\ apc = "payload" /\ stream # <<>> /\ stream' = Tail(stream)
      /\ UNCHANGED <<rest, sent, next, answers, handed>>
  BY DEF ReadPayload, peer
<1>2. Len(sent) \in Nat /\ Len(stream) \in Nat \ {0} /\ Len(rest) \in Nat
  BY <1>1 DEF Inv, StreamOK
<1>3. /\ Len(stream') = Len(stream) - 1
      /\ \A j \in 1..Len(stream') : stream'[j] = stream[j + 1]
  BY <1>1 DEF Inv, StreamOK
<1>4. /\ 2 * c - 1 + Len(stream) + Len(rest) = 2 * Len(sent)
      /\ \A n \in 1..Len(sent) :
           /\ \A j \in 1..Len(stream) : 2 * c - 1 + j = 2 * n - 1 => stream[j] = Header(sent[n])
           /\ \A j \in 1..Len(rest) :
                2 * c - 1 + Len(stream) + j = 2 * n - 1 => rest[j] = Header(sent[n])
  BY <1>1 DEF Standing, Aligned, Reading, Handling, Read
<1>5. c > 0 /\ frame = sent[c] /\ frame.kind \in {"batch", "other", "bad", "big"}
  BY <1>1, FramesAre DEF Standing, Current, Handling, Inv, LoopOK
<1>6. \/ frame.kind = "batch" /\ apc' \in {"events", "answering"} /\ frame' = frame
      \/ frame.kind = "other" /\ apc' = "header"
      \/ apc' = "ended"
  <2>1. apc' = AfterPayload(frame) /\ (frame.kind = "batch" => frame' = frame)
    BY DEF ReadPayload
  <2> QED
    BY <2>1, <1>5 DEF AfterPayload
<1>7. Aligned(c)'
  <2>1. SUFFICES ASSUME Reading' PROVE Aligned(c)'
    BY DEF Aligned
  <2>2. Read(c)' = 2 * c
    BY <2>1, <1>6 DEF Read, Reading, Handling
  <2>3. ASSUME NEW n \in 1..Len(sent'), NEW j \in 1..Len(stream'), 2 * c + j = 2 * n - 1
        PROVE  stream'[j] = Header(sent'[n])
    <3>1. j + 1 \in 1..Len(stream) /\ 2 * c - 1 + (j + 1) = 2 * n - 1
      BY <2>3, <1>2, <1>3
    <3> QED
      BY <3>1, <1>1, <1>3, <1>4
  <2>4. ASSUME NEW n \in 1..Len(sent'), NEW j \in 1..Len(rest'),
               2 * c + Len(stream') + j = 2 * n - 1
        PROVE  rest'[j] = Header(sent'[n])
    <3>1. 2 * c - 1 + Len(stream) + j = 2 * n - 1
      BY <2>4, <1>1, <1>2, <1>3
    <3> QED
      BY <3>1, <1>1, <1>4
  <2>5. 2 * c + Len(stream') + Len(rest') = 2 * Len(sent')
    BY <1>1, <1>2, <1>3, <1>4
  <2> QED
    BY <2>2, <2>3, <2>4, <2>5 DEF Aligned
<1>8. Current(c)'
  BY <1>1, <1>5, <1>6 DEF Current, Handling
<1>9. HandedBy(c)'
  BY <1>1, <1>2, <1>6, HistoriesAre DEF Standing, HandedBy, Before
<1>10. AnsweredBy(c)'
  <2>1. \A n \in 1..(c - 1) :
          /\ sent[n].kind \in {"batch", "other"}
          /\ sent[n].kind = "batch" => AnsweredBefore(answers, n, Len(answers))
    BY <1>1 DEF Standing, AnsweredBy, AllAnswered, AnswersOf, Done
  <2>2. \A n \in 1..Done(c)' :
          /\ sent[n].kind \in {"batch", "other"}
          /\ sent[n].kind = "batch" => AnsweredBefore(answers, n, Len(answers))
    BY <2>1, <1>2, <1>5, <1>6 DEF Done
  <2>3. \A k \in 1..Len(answers) :
          LET to == answers[k].to IN
            /\ to < c
            /\ sent[to].kind = "batch"
            /\ k > 1 => answers[k - 1].to < to
            /\ \A n \in 1..(to - 1) : sent[n].kind = "batch" => AnsweredBefore(answers, n, k - 1)
            /\ Fits(sent[to]) => answers[k].last = sent[to].first + sent[to].count - 1
    BY <1>1 DEF Standing, AnsweredBy, AllAnswered, AnswersOf, Handling
  <2>4. \A k \in 1..Len(answers) : answers[k].to \in Nat
    BY HistoriesAre, MaxFramesAssumption
  <2>5. AllAnswered(c)'
    BY <2>2, <1>1 DEF AllAnswered
  <2>6. AnswersOf(c)'
    BY <2>3, <2>4, <1>1, <1>2 DEF AnswersOf, Fits
  <2> QED
    BY <2>5, <2>6 DEF AnsweredBy
<1> QED
  BY <1>7, <1>8, <1>9, <1>10 DEF Standing

LEMMA HandEventInPlace ==
  ASSUME Inv, Numbered, HandEvent, NEW c \in 0..Len(sent), Standing(c)
  PROVE  Standing(c)'
<1> DEFINE e == [id |-> frame.id, i |-> next]
<1>1. /\ apc = "events" /\ handed' \in {handed, Append(handed, e)}
      /\ \/ next = frame.count /\ apc' = "answering" /\ next' = 1
         \/ next # frame.count /\ apc' = "events" /\ next' = next + 1
      /\ UNCHANGED <<stream, rest, sent, frame, answers>>
  BY DEF HandEvent, peer
<1>2. /\ Len(sent) \in Nat /\ c \in Nat /\ c > 0 /\ frame = sent[c] /\ frame.kind = "batch"
      /\ frame.id = c /\ next \in Nat /\ next <= frame.count /\ frame.count \in Nat
  BY <1>1, FramesAre, MaxCountAssumption
     DEF Standing, Current, Handling, Inv, StreamOK, LoopOK, Numbered
<1>3. e.id = c /\ e.i = next
  BY <1>2
<1> HIDE DEF e
<1>4. Aligned(c)'
  BY <1>1 DEF Standing, Aligned, Read, Reading, Handling
<1>5. Current(c)'
  BY <1>1, <1>2 DEF Current, Handling
<1>6. HandedBy(c)'
  <2>1. \A k \in 1..Len(handed) :
          /\ handed[k].id \in Nat /\ handed[k].i \in Nat
          /\ handed[k].id <= c /\ (handed[k].id < c \/ handed[k].i < next)
          /\ sent[handed[k].id].kind = "batch" /\ handed[k].i <= sent[handed[k].id].count
          /\ k > 1 => Before(handed[k - 1], handed[k])
    <3>1. \A k \in 1..Len(handed) : handed[k].id \in Nat /\ handed[k].i \in Nat
      BY HistoriesAre, MaxFramesAssumption, MaxCountAssumption
    <3> QED
      BY <3>1, <1>1 DEF Standing, HandedBy
  <2>2. apc' = "events" => next' = next + 1
    BY <1>1
  <2>3. CASE handed' = handed
    BY <2>1, <2>2, <2>3, <1>1, <1>2 DEF HandedBy
  <2>4. CASE handed' = Append(handed, e)
    <3>1. /\ Len(handed) \in Nat /\ Len(handed') = Len(handed) + 1 /\ handed'[Len(handed')] = e
          /\ \A k \in 1..Len(handed) : handed'[k] = handed[k]
      BY <2>4 DEF Inv, ResultsOK
    <3>2. \A k \in 1..Len(handed) : Before(handed[k], e)
      BY <2>1, <1>2, <1>3 DEF Before
    <3>3. ASSUME NEW k \in 1..Len(handed')
          PROVE  /\ handed'[k].id \in Nat /\ handed'[k].i \in Nat
                 /\ handed'[k].id <= c /\ (handed'[k].id < c \/ handed'[k].i < next + 1)
                 /\ sent[handed'[k].id].kind = "batch" /\ handed'[k].i <= sent[handed'[k].id].count
                 /\ k > 1 => Before(handed'[k - 1], handed'[k])
      <4>1. CASE k \in 1..Len(handed)
        <5>1. handed'[k] = handed[k] /\ (k > 1 => handed'[k - 1] = handed[k - 1])
          BY <4>1, <3>1
        <5> QED
          BY <5>1, <4>1, <2>1, <1>2
      <4>2. CASE k = Len(handed')
        <5>1. handed'[k] = e /\ (k > 1 => k - 1 \in 1..Len(handed) /\ handed'[k - 1] = handed[k - 1])
          BY <4>2, <3>1
        <5> QED
          BY <5>1, <3>2, <1>2, <1>3
      <4> QED
        BY <4>1, <4>2, <3>1
    <3> HIDE DEF Before
    <3> QED
      BY <3>3, <2>2, <1>1, <1>2 DEF HandedBy, Before
  <2> QED
    BY <2>3, <2>4, <1>1
<1>7. AnsweredBy(c)'
  BY <1>1 DEF Standing, AnsweredBy, AllAnswered, AnswersOf, AnsweredBefore, Handling, Done, Fits
<1> QED
  BY <1>4, <1>5, <1>6, <1>7 DEF Standing

\* The number of the last event, when it fits.
LEMMA LastFits ==
  ASSUME NEW f \in Frames, Fits(f)
  PROVE  LastSeq(f) = f.first + f.count - 1
<1>1. f.first \in Nat /\ f.count \in Nat /\ Word \in Nat
  BY FramesAre, WordAssumption, MaxCountAssumption
<1> DEFINE l == f.first + f.count - 1
<1>2. l \in 0..(Word - 1) /\ f.first + f.count + Word - 1 = l + Word
  BY <1>1 DEF Fits
<1> HIDE DEF l
<1>3. (l + Word) % Word = l
  BY <1>1, <1>2
<1> QED
  BY <1>2, <1>3 DEF LastSeq, l

LEMMA AnswerInPlace ==
  ASSUME Inv, Numbered, Answer, NEW c \in 0..Len(sent), Standing(c)
  PROVE  Standing(c)'
<1> DEFINE a == [to |-> frame.id, last |-> LastSeq(frame)]
<1>1. /\ apc = "answering" /\ apc' = "header" /\ answers' = Append(answers, a)
      /\ UNCHANGED <<stream, rest, sent, next, handed>>
  BY DEF Answer, peer
<1>2. /\ Len(sent) \in Nat /\ c \in Nat /\ c > 0 /\ frame = sent[c] /\ frame.kind = "batch"
      /\ frame.id = c /\ frame \in Frames
  BY <1>1 DEF Standing, Current, Handling, Inv, StreamOK, LoopOK, Numbered
<1>3. a.to = c /\ (Fits(frame) => a.last = frame.first + frame.count - 1)
  BY <1>2, LastFits
<1> HIDE DEF a
<1>4. Aligned(c)'
  BY <1>1 DEF Standing, Aligned, Read, Reading, Handling
<1>5. Current(c)'
  BY <1>1 DEF Current, Handling
<1>6. HandedBy(c)'
  BY <1>1 DEF Standing, HandedBy
<1>7. AnsweredBy(c)'
  <2>1. /\ Len(answers) \in Nat /\ Len(answers') = Len(answers) + 1 /\ answers'[Len(answers')] = a
        /\ \A k \in 1..Len(answers) : answers'[k] = answers[k] /\ answers[k].to \in Nat
    BY <1>1, HistoriesAre, MaxFramesAssumption DEF Inv, ResultsOK
  <2>2. /\ Done(c)' = c
        /\ \A n \in 1..(c - 1) :
             /\ sent[n].kind \in {"batch", "other"}
             /\ sent[n].kind = "batch" => AnsweredBefore(answers, n, Len(answers))
        /\ \A k \in 1..Len(answers) :
             LET to == answers[k].to IN
               /\ to < c
               /\ sent[to].kind = "batch"
               /\ k > 1 => answers[k - 1].to < to
               /\ \A n \in 1..(to - 1) : sent[n].kind = "batch" => AnsweredBefore(answers, n, k - 1)
               /\ Fits(sent[to]) => answers[k].last = sent[to].first + sent[to].count - 1
    BY <1>1 DEF Standing, AnsweredBy, AllAnswered, AnswersOf, Handling, Done
  <2>3. \A n, k \in Nat : k <= Len(answers) => AnsweredBefore(answers', n, k) = AnsweredBefore(answers, n, k)
    BY <2>1 DEF AnsweredBefore
  <2>4. AnsweredBefore(answers', c, Len(answers'))
    BY <2>1, <1>3 DEF AnsweredBefore
  <2>5. \A n \in Nat : AnsweredBefore(answers, n, Len(answers)) => AnsweredBefore(answers', n, Len(answers'))
    BY <2>1 DEF AnsweredBefore
  <2>6. ASSUME NEW n \in 1..c
        PROVE  /\ sent[n].kind \in {"batch", "other"}
               /\ sent[n].kind = "batch" => AnsweredBefore(answers', n, Len(answers'))
    BY <2>2, <2>4, <2>5, <1>2
  <2>7. ASSUME NEW k \in 1..Len(answers')
        PROVE  LET to == answers'[k].to IN
               /\ to <= c
               /\ sent[to].kind = "batch"
               /\ k > 1 => answers'[k - 1].to < to
               /\ \A n \in 1..(to - 1) : sent[n].kind = "batch" => AnsweredBefore(answers', n, k - 1)
               /\ Fits(sent[to]) => answers'[k].last = sent[to].first + sent[to].count - 1
    <3>1. CASE k \in 1..Len(answers)
      <4>1. answers'[k] = answers[k] /\ answers[k].to \in Nat /\ (k > 1 => answers'[k - 1] = answers[k - 1])
        BY <3>1, <2>1
      <4>2. k - 1 \in Nat /\ k - 1 <= Len(answers)
        BY <3>1, <2>1
      <4>3. \A n \in Nat : AnsweredBefore(answers', n, k - 1) = AnsweredBefore(answers, n, k - 1)
        BY <4>2, <2>3
      <4>4. \A n \in 1..(answers[k].to - 1) : n \in Nat
        BY <4>1
      <4> HIDE DEF AnsweredBefore, Fits
      <4> QED
        BY <4>1, <4>3, <4>4, <3>1, <2>2, <1>2
    <3>2. CASE k = Len(answers')
      <4>1. /\ answers'[k] = a /\ k - 1 = Len(answers)
            /\ k > 1 => k - 1 \in 1..Len(answers) /\ answers'[k - 1] = answers[k - 1]
        BY <3>2, <2>1
      <4> QED
        BY <4>1, <2>1, <2>2, <2>3, <1>2, <1>3
    <3> QED
      BY <3>1, <3>2, <2>1
  <2> HIDE DEF AnsweredBefore
  <2> QED
    BY <2>2, <2>6, <2>7, <1>1, <1>2 DEF AnsweredBy, AllAnswered, AnswersOf, Handling, Fits
<1> QED
  BY <1>4, <1>5, <1>6, <1>7 DEF Standing

LEMMA EndsInPlace ==
  ASSUME Inv, AnswerPanics \/ AnswerFails \/ ReadEnds \/ (PollTimesOut /\ ~cut'),
         NEW c \in 0..Len(sent), Standing(c)
  PROVE  Standing(c)'
<1>1. /\ UNCHANGED <<stream, rest, sent, next, answers, handed>>
      /\ \/ apc' \in {"ended", "panicked"}
         \/ apc = "header" /\ apc' = "header"
  BY DEF AnswerPanics, AnswerFails, ReadEnds, PollTimesOut, peer
<1>2. HandedBy(c)' /\ AnsweredBy(c)'
  <2>1. HandedBy(c) /\ AnsweredBy(c) /\ ~Handling' /\ (apc' = "header" => apc = "header") /\ c # c + 1
    BY <1>1 DEF Standing, Handling, Inv, StreamOK
  <2> QED
    BY <2>1, <1>1, HistoriesKept
<1>3. Aligned(c)' /\ Current(c)'
  BY <1>1 DEF Standing, Aligned, Current, Reading, Handling, Read
<1> QED
  BY <1>2, <1>3 DEF Standing

LEMMA NumberedStep == ASSUME Inv, Numbered, [Next]_vars PROVE Numbered'
<1>1. CASE \E f \in Frames : PeerBegins(f)
  <2>1. PICK f \in Frames : PeerBegins(f)
    BY <1>1
  <2>2. sent' = Append(sent, f) /\ f.id = Len(sent) + 1
    BY <2>1 DEF PeerBegins
  <2> QED
    BY <2>2 DEF Numbered, Inv, StreamOK
<1>2. CASE ~ \E f \in Frames : PeerBegins(f)
  <2>1. sent' = sent
    BY <1>2, Zenon DEF Next, PeerStep, AgentStep, vars, peer, PeerWrites, PeerCloses, ReadHeader, ReadPayload,
                HandEvent, Answer, AnswerPanics, AnswerFails, PollTimesOut, ReadEnds
  <2> QED
    BY <2>1 DEF Numbered
<1> QED
  BY <1>1, <1>2

LEMMA CutStays == [Next]_vars => (cut => cut')
BY Zenon DEF Next, PeerStep, AgentStep, vars, peer, PeerBegins, PeerWrites, PeerCloses, ReadHeader,
             ReadPayload, HandEvent, Answer, AnswerPanics, AnswerFails, PollTimesOut, ReadEnds

LEMMA StepInPlace == ASSUME Inv, InPlace, [Next]_vars PROVE InPlace'
<1> USE DEF InPlace
<1>1. Numbered /\ Numbered'
  BY NumberedStep
<1> SUFFICES ASSUME ~cut' PROVE (\E c \in 0..Len(sent) : Standing(c))'
  BY <1>1
<1>2. PICK c \in 0..Len(sent) : Standing(c)
  BY CutStays
<1>3. ASSUME NEW f \in Frames, PeerBegins(f) PROVE (\E d \in 0..Len(sent) : Standing(d))'
  <2>1. Standing(c)'
    BY <1>2, <1>3, PeerBeginsInPlace
  <2>2. c \in 0..Len(sent')
    BY <1>3 DEF PeerBegins, Inv, StreamOK
  <2> QED
    BY <2>1, <2>2
<1>4. CASE ReadHeader
  <2>1. sent' = sent
    BY <1>4 DEF ReadHeader, peer
  <2> QED
    BY <1>2, <1>4, <2>1, ReadHeaderInPlace
<1>5. ASSUME sent' = sent, Standing(c)' PROVE (\E d \in 0..Len(sent) : Standing(d))'
  BY <1>5
<1>6. CASE PeerWrites \/ ReadPayload \/ HandEvent \/ Answer
  <2>1. sent' = sent
    BY <1>6 DEF PeerWrites, ReadPayload, HandEvent, Answer, peer
  <2>2. Standing(c)'
    BY <1>1, <1>2, <1>6, PeerWritesInPlace, ReadPayloadInPlace, HandEventInPlace, AnswerInPlace
  <2> QED
    BY <1>5, <2>1, <2>2
<1>7. CASE AnswerPanics \/ AnswerFails \/ ReadEnds \/ PollTimesOut
  <2>1. sent' = sent
    BY <1>7 DEF AnswerPanics, AnswerFails, ReadEnds, PollTimesOut, peer
  <2>2. Standing(c)'
    BY <1>2, <1>7, EndsInPlace
  <2> QED
    BY <1>5, <2>1, <2>2
<1>8. CASE PeerCloses \/ UNCHANGED vars
  <2>1. UNCHANGED <<stream, rest, sent, apc, frame, next, answers, handed>>
    BY <1>8 DEF PeerCloses, vars
  <2>2. Standing(c)'
    <3>1. Aligned(c)' /\ Current(c)'
      BY <2>1, <1>2 DEF Standing, Aligned, Current, Reading, Handling, Read
    <3>2. HandedBy(c)'
      BY <2>1, <1>2 DEF Standing, HandedBy
    <3>3. AnsweredBy(c)'
      BY <2>1, <1>2 DEF Standing, AnsweredBy, AllAnswered, AnswersOf, Handling, Done
    <3> QED
      BY <3>1, <3>2, <3>3 DEF Standing
  <2> QED
    BY <1>5, <2>1, <2>2
<1> HIDE DEF InPlace
<1> QED
  BY <1>3, <1>4, <1>6, <1>7, <1>8 DEF Next, PeerStep, AgentStep

LEMMA AlwaysInPlace == Spec => [](Inv /\ InPlace)
BY InitInv, StepInv, InitInPlace, StepInPlace, PTL DEF Spec

\* As long as no poll was cut short, the runner is handed the events of the
\* batches that were sent, in order and each at most once.
THEOREM ReplayedAsSentHolds == Spec => []ReplayedAsSent
BY AlwaysInPlace, InPlaceImplies, PTL

\* As long as no poll was cut short, batches are answered one after the other,
\* none is left out, and an answer names the last event of its batch.
THEOREM AnsweredInOrderHolds == Spec => []AnsweredInOrder
BY AlwaysInPlace, InPlaceImplies, PTL

-----------------------------------------------------------------------------
(* The process: the loop with the runner it owns.                           *)

LEMMA LoopInProcess == ProcessNext => [Next]_vars
BY Zenon DEF ProcessNext, LoopStep, RunnerStep, Reads, CallRunner, CallReturns, DropRunner,
             Next, AgentStep

Calls == {Agent} \X Nat

\* The events of s are the calls of the loop that follow the first o.
Follow(s, o) == \A n \in 1..Len(s) : s[n] = <<Agent, o + n>>

QueuesOK == chan \in Seq(Calls) /\ pending \in Seq(Calls) /\ taken \in Seq(Calls)
CallsOK == calls \in [{Agent} -> Nat]

Where ==
  /\ running \in BOOLEAN
  /\ wpc \in {"test", "recv", "flush", "drain", "finish", "exited"}
  /\ ppc \in [{Agent} -> {"idle", "sending"}]
  /\ stopper \in {"idle", "joining", "stopped"}

\* The runner is dropped only behind the loop, so that it refuses no call and
\* finds no sender when it stops.
Stops ==
  /\ running <=> stopper = "idle"
  /\ ~Returned => running
  /\ running => wpc \in {"test", "recv", "flush"}
  /\ ppc[Agent] = "sending" => apc = "events"
  /\ stopper = "stopped" => wpc = "exited"
Empties ==
  /\ wpc \in {"finish", "exited"} => chan = <<>>
  /\ wpc = "exited" => pending = <<>>

\* What the loop handed over is in SendInput, the worker's queue or the channel.
Holds ==
  /\ calls[Agent] = Len(handed) + (IF ppc[Agent] = "sending" THEN 1 ELSE 0)
  /\ Len(handed) = Len(taken) + Len(pending) + Len(chan)
  /\ Follow(taken, 0) /\ Follow(pending, Len(taken))
  /\ Follow(chan, Len(taken) + Len(pending))

RunnerInv == QueuesOK /\ CallsOK /\ Where /\ Stops /\ Empties /\ Holds

LEMMA InitRunnerInv == ProcessInit => RunnerInv
<1> SUFFICES ASSUME ProcessInit PROVE RunnerInv
  OBVIOUS
<1>1. /\ running = TRUE /\ chan = <<>> /\ pending = <<>> /\ taken = <<>> /\ wpc = "test"
      /\ ppc = [p \in {Agent} |-> "idle"] /\ calls = [p \in {Agent} |-> 0] /\ stopper = "idle"
      /\ apc = "header" /\ handed = <<>>
  BY DEF ProcessInit, Init, Runner!Init
<1>2. QueuesOK /\ CallsOK /\ Empties /\ Holds
  BY <1>1 DEF QueuesOK, CallsOK, Empties, Holds, Follow
<1>3. Where /\ Stops
  BY <1>1 DEF Where, Stops, Returned
<1> QED
  BY <1>2, <1>3 DEF RunnerInv

\* While a batch is handed over, the runner takes the event.
LEMMA NothingRefused ==
  ASSUME RunnerInv, CallReturns
  PROVE  handed' = Append(handed, [id |-> frame.id, i |-> next]) /\ Runner!Send(Agent)
<1>1. apc = "events" /\ handed' \in {handed, Append(handed, [id |-> frame.id, i |-> next])}
  BY DEF CallReturns, HandEvent
<1>2. running /\ wpc # "exited"
  BY <1>1 DEF RunnerInv, Stops, Returned
<1>3. ~Runner!Refuse(Agent) /\ ~Runner!SendFails(Agent)
  BY <1>2 DEF Runner!Refuse, Runner!SendFails
<1> QED
  BY <1>1, <1>3 DEF CallReturns

LEMMA ReturnedStays ==
  ASSUME ProcessNext, Returned
  PROVE  Returned' /\ handed' = handed
BY DEF ProcessNext, LoopStep, RunnerStep, Reads, CallRunner, CallReturns, DropRunner, Returned,
       PeerStep, PeerBegins, PeerWrites, PeerCloses, ReadHeader, ReadPayload, HandEvent, Answer,
       AnswerPanics, AnswerFails, PollTimesOut, ReadEnds, vars

\* A group moves from the head of the worker's queue to the end of what was sent.
LEMMA GroupMoves ==
  ASSUME RunnerInv, Runner!SendGroup
  PROVE  /\ taken' \in Seq(Calls) /\ pending' \in Seq(Calls)
         /\ Len(taken') + Len(pending') = Len(taken) + Len(pending)
         /\ Follow(taken', 0) /\ Follow(pending', Len(taken'))
<1>1. PICK g \in 0..Len(pending) : /\ taken' = taken \o SubSeq(pending, 1, g)
                                  /\ pending' = SubSeq(pending, g + 1, Len(pending))
  <2>1. Runner!GroupLen \in 0..Len(pending)
    BY ChannelAssumption DEF Runner!GroupLen, RunnerInv, QueuesOK
  <2> QED
    BY <2>1 DEF Runner!SendGroup
<1>2. taken \in Seq(Calls) /\ pending \in Seq(Calls) /\ Len(taken) \in Nat /\ Len(pending) \in Nat
  BY DEF RunnerInv, QueuesOK
<1>3. /\ \A n \in 1..Len(taken) : taken[n] = <<Agent, n>>
      /\ \A n \in 1..Len(pending) : pending[n] = <<Agent, Len(taken) + n>>
  BY <1>2 DEF RunnerInv, Holds, Follow, QueuesOK
<1> DEFINE h == SubSeq(pending, 1, g)
           t == SubSeq(pending, g + 1, Len(pending))
<1>4. h \in Seq(Calls) /\ Len(h) = g /\ \A n \in 1..g : h[n] = pending[n]
  BY <1>1, <1>2
<1>5. /\ t \in Seq(Calls) /\ Len(t) = Len(pending) - g
      /\ \A n \in 1..Len(t) : t[n] = pending[g + n]
  BY <1>1, <1>2
<1>6. taken' = taken \o h /\ pending' = t
  BY <1>1
<1> HIDE DEF h, t
<1>7. /\ taken' \in Seq(Calls) /\ Len(taken') = Len(taken) + g
      /\ \A n \in 1..Len(taken) : taken'[n] = taken[n]
      /\ \A n \in (Len(taken) + 1)..(Len(taken) + g) : taken'[n] = h[n - Len(taken)]
  BY <1>2, <1>4, <1>6
<1>8. Follow(taken', 0)
  <2>1. ASSUME NEW n \in 1..Len(taken') PROVE taken'[n] = <<Agent, 0 + n>>
    <3>1. CASE n \in 1..Len(taken)
      BY <3>1, <1>3, <1>7, <1>2
    <3>2. CASE n \in (Len(taken) + 1)..(Len(taken) + g)
      <4>1. PICK m \in 1..g : n = Len(taken) + m /\ m = n - Len(taken)
        BY <3>2, <1>2
      <4>2. m \in 1..Len(pending) /\ 0 + n = Len(taken) + m
        BY <4>1, <1>2
      <4>3. h[m] = <<Agent, Len(taken) + m>>
        BY <4>2, <1>3, <1>4
      <4>4. taken'[n] = h[m]
        BY <4>1, <3>2, <1>7
      <4> QED
        BY <4>2, <4>3, <4>4
    <3> QED
      BY <3>1, <3>2, <1>2, <1>7
  <2> QED
    BY <2>1 DEF Follow
<1>9. Follow(pending', Len(taken'))
  <2>1. ASSUME NEW n \in 1..Len(t) PROVE t[n] = <<Agent, (Len(taken) + g) + n>>
    <3>1. g + n \in 1..Len(pending) /\ Len(taken) + (g + n) = (Len(taken) + g) + n
      BY <1>2, <1>5
    <3> QED
      BY <3>1, <1>3, <1>5
  <2> QED
    BY <2>1, <1>6, <1>7 DEF Follow
<1>10. Len(taken') + Len(pending') = Len(taken) + Len(pending)
  <2>1. Len(taken') = Len(taken) + g /\ Len(pending') = Len(pending) - g
    BY <1>5, <1>6, <1>7
  <2> QED
    BY <2>1, <1>2
<1>11. taken' \in Seq(Calls) /\ pending' \in Seq(Calls)
  BY <1>5, <1>6, <1>7
<1> QED
  BY <1>8, <1>9, <1>10, <1>11

\* The head of the channel moves to the end of the worker's queue.
LEMMA HeadMoves ==
  ASSUME RunnerInv, chan # <<>>, pending' = Append(pending, Head(chan)), chan' = Tail(chan)
  PROVE  /\ chan' \in Seq(Calls) /\ pending' \in Seq(Calls)
         /\ Len(pending') + Len(chan') = Len(pending) + Len(chan)
         /\ Follow(pending', Len(taken)) /\ Follow(chan', Len(taken) + Len(pending'))
<1>1. /\ chan \in Seq(Calls) /\ pending \in Seq(Calls) /\ Len(taken) \in Nat
      /\ Len(pending) \in Nat /\ Len(chan) \in Nat \ {0}
  BY DEF RunnerInv, QueuesOK
<1>2. /\ \A n \in 1..Len(pending) : pending[n] = <<Agent, Len(taken) + n>>
      /\ \A n \in 1..Len(chan) : chan[n] = <<Agent, (Len(taken) + Len(pending)) + n>>
  BY DEF RunnerInv, Holds, Follow
<1>3. /\ pending' \in Seq(Calls) /\ Len(pending') = Len(pending) + 1
      /\ pending'[Len(pending')] = chan[1]
      /\ \A n \in 1..Len(pending) : pending'[n] = pending[n]
      /\ chan' \in Seq(Calls) /\ Len(chan') = Len(chan) - 1
      /\ \A n \in 1..Len(chan') : chan'[n] = chan[n + 1]
  BY <1>1
<1>4. Follow(pending', Len(taken))
  <2>1. chan[1] = <<Agent, Len(taken) + Len(pending) + 1>>
    BY <1>1, <1>2
  <2>2. ASSUME NEW n \in 1..Len(pending') PROVE pending'[n] = <<Agent, Len(taken) + n>>
    <3>1. CASE n \in 1..Len(pending)
      BY <3>1, <1>2, <1>3
    <3>2. CASE n = Len(pending')
      <4>1. Len(taken) + n = Len(taken) + Len(pending) + 1
        BY <3>2, <1>1, <1>3
      <4> QED
        BY <4>1, <3>2, <2>1, <1>3
    <3> QED
      BY <3>1, <3>2, <1>1, <1>3
  <2> QED
    BY <2>2 DEF Follow
<1>5. Follow(chan', Len(taken) + Len(pending'))
  <2>1. ASSUME NEW n \in 1..Len(chan') PROVE chan'[n] = <<Agent, Len(taken) + Len(pending') + n>>
    <3>1. n + 1 \in 1..Len(chan)
          /\ (Len(taken) + Len(pending)) + (n + 1) = Len(taken) + Len(pending') + n
      BY <1>1, <1>3
    <3> QED
      BY <3>1, <1>2, <1>3
  <2> QED
    BY <2>1 DEF Follow
<1> QED
  BY <1>1, <1>3, <1>4, <1>5

\* Only RunnerStep and the calls of the loop touch the runner.
LEMMA LoopAloneStep ==
  ASSUME RunnerInv, UNCHANGED <<runner, handed>>, ProcessNext,
         ppc[Agent] = "sending" => apc' = apc
  PROVE  RunnerInv'
<1>1. Returned => Returned'
  BY ReturnedStays
<1>2. UNCHANGED <<running, chan, pending, wpc, ppc, calls, stopper, taken, handed>>
  BY DEF runner
<1>3. Where' /\ Stops' /\ Empties'
  BY <1>1, <1>2 DEF RunnerInv, Where, Stops, Empties
<1>4. QueuesOK' /\ CallsOK' /\ Holds'
  BY <1>2 DEF RunnerInv, QueuesOK, CallsOK, Holds, Follow
<1> QED
  BY <1>3, <1>4 DEF RunnerInv

LEMMA CallStep == ASSUME Inv, RunnerInv, CallRunner PROVE RunnerInv'
<1>1. /\ apc = "events" /\ UNCHANGED <<running, chan, pending, wpc, stopper, taken, handed, apc>>
      /\ ppc[Agent] = "idle" /\ ppc' = [ppc EXCEPT ![Agent] = "sending"]
      /\ calls' = [calls EXCEPT ![Agent] = @ + 1]
  BY DEF CallRunner, Runner!Enqueue, Runner!Begin, Runner!history, vars
<1>2. /\ ppc'[Agent] = "sending" /\ ppc' \in [{Agent} -> {"idle", "sending"}]
      /\ calls'[Agent] = calls[Agent] + 1 /\ calls' \in [{Agent} -> Nat]
  BY <1>1 DEF RunnerInv, Where, CallsOK
<1>3. Where' /\ Stops' /\ Empties'
  BY <1>1, <1>2 DEF RunnerInv, Where, Stops, Empties, Returned
<1>4. QueuesOK' /\ CallsOK' /\ Holds'
  <2>1. calls'[Agent] = Len(handed) + 1
    <3>1. calls[Agent] = Len(handed) + 0
      BY <1>1, Zenon DEF RunnerInv, Holds
    <3>2. Len(handed) \in Nat
      BY DEF Inv, ResultsOK
    <3> QED
      BY <3>1, <3>2, <1>2
  <2> QED
    BY <2>1, <1>1, <1>2 DEF RunnerInv, QueuesOK, CallsOK, Holds, Follow
<1> QED
  BY <1>3, <1>4 DEF RunnerInv

LEMMA ReturnStep == ASSUME Inv, RunnerInv, CallReturns PROVE RunnerInv'
<1> DEFINE e == [id |-> frame.id, i |-> next]
<1>1. /\ apc = "events" /\ apc' \in {"events", "answering"} /\ handed' = Append(handed, e)
      /\ ppc[Agent] = "sending" /\ ppc' = [ppc EXCEPT ![Agent] = "idle"]
      /\ chan' = Append(chan, <<Agent, calls[Agent]>>)
      /\ UNCHANGED <<running, pending, wpc, calls, stopper, taken>>
  BY NothingRefused DEF CallReturns, HandEvent, Runner!Send, Runner!Calling
<1>2. running /\ wpc \in {"test", "recv", "flush"}
  BY <1>1 DEF RunnerInv, Stops, Returned
<1> HIDE DEF e
<1>3. Where' /\ Stops' /\ Empties'
  <2>1. ppc'[Agent] = "idle" /\ ppc' \in [{Agent} -> {"idle", "sending"}]
    BY <1>1 DEF RunnerInv, Where
  <2> QED
    BY <1>1, <1>2, <2>1 DEF RunnerInv, Where, Stops, Empties, Returned
<1>4. /\ Len(handed') = Len(handed) + 1 /\ Len(handed) \in Nat
      /\ calls[Agent] \in Nat /\ calls[Agent] = Len(handed) + 1
      /\ chan \in Seq(Calls) /\ Len(chan) \in Nat /\ Len(pending) \in Nat /\ Len(taken) \in Nat
      /\ Len(handed) = Len(taken) + Len(pending) + Len(chan)
  <2>1. calls[Agent] \in Nat
    BY DEF RunnerInv, CallsOK
  <2>2. calls[Agent] = Len(handed) + 1
    BY <1>1, Zenon DEF RunnerInv, Holds
  <2>3. handed \in Seq(Events) /\ Len(handed) \in Nat
    BY DEF Inv, ResultsOK
  <2>4. Len(handed') = Len(handed) + 1
    BY <2>3, <1>1
  <2>5. chan \in Seq(Calls) /\ Len(chan) \in Nat /\ Len(pending) \in Nat /\ Len(taken) \in Nat
    BY DEF RunnerInv, QueuesOK
  <2>6. Len(handed) = Len(taken) + Len(pending) + Len(chan)
    BY DEF RunnerInv, Holds
  <2> QED
    BY <2>1, <2>2, <2>3, <2>4, <2>5, <2>6
<1>5. <<Agent, calls[Agent]>> \in Calls
  BY <1>4 DEF Calls
<1> DEFINE x == <<Agent, calls[Agent]>>
<1> HIDE DEF x
<1>6. /\ chan' \in Seq(Calls) /\ Len(chan') = Len(chan) + 1 /\ chan'[Len(chan')] = x
      /\ \A n \in 1..Len(chan) : chan'[n] = chan[n]
  BY <1>1, <1>4, <1>5 DEF x
<1>7. Follow(chan', Len(taken) + Len(pending))
  <2>1. ASSUME NEW n \in 1..Len(chan') PROVE chan'[n] = <<Agent, (Len(taken) + Len(pending)) + n>>
    <3>1. CASE n \in 1..Len(chan)
      BY <3>1, <1>6 DEF RunnerInv, Holds, Follow
    <3>2. CASE n = Len(chan')
      <4>1. calls[Agent] = (Len(taken) + Len(pending)) + n
        BY <3>2, <1>4, <1>6
      <4> QED
        BY <4>1, <3>2, <1>6 DEF x
    <3> QED
      BY <3>1, <3>2, <1>4, <1>6
  <2> QED
    BY <2>1 DEF Follow
<1>8. Holds'
  <2>1. calls'[Agent] = Len(handed') + (IF ppc'[Agent] = "sending" THEN 1 ELSE 0)
    <3>1. ppc'[Agent] = "idle"
      BY <1>1 DEF RunnerInv, Where
    <3> QED
      BY <3>1, <1>1, <1>4
  <2>2. Len(handed') = Len(taken') + Len(pending') + Len(chan')
    <3>1. Len(taken') = Len(taken) /\ Len(pending') = Len(pending)
      BY <1>1
    <3> QED
      BY <3>1, <1>4, <1>6
  <2>3. Follow(taken', 0) /\ Follow(pending', Len(taken'))
    BY <1>1 DEF RunnerInv, Holds, Follow
  <2>4. Follow(chan', Len(taken') + Len(pending'))
    BY <1>1, <1>7
  <2> QED
    BY <2>1, <2>2, <2>3, <2>4 DEF Holds, Follow
<1>9. QueuesOK' /\ CallsOK'
  BY <1>1, <1>6 DEF RunnerInv, QueuesOK, CallsOK
<1> QED
  BY <1>3, <1>8, <1>9 DEF RunnerInv

LEMMA DropStep == ASSUME RunnerInv, DropRunner PROVE RunnerInv'
<1>1. /\ Returned /\ running' = FALSE /\ stopper' = "joining"
      /\ UNCHANGED <<chan, pending, wpc, ppc, calls, taken, handed, apc>>
  BY DEF DropRunner, Runner!StopRunner, Runner!pvars, Runner!history, vars
<1>2. Where' /\ Stops' /\ Empties'
  BY <1>1 DEF RunnerInv, Where, Stops, Empties, Returned
<1>3. QueuesOK' /\ CallsOK' /\ Holds'
  BY <1>1 DEF RunnerInv, QueuesOK, CallsOK, Holds, Follow
<1> QED
  BY <1>2, <1>3 DEF RunnerInv

LEMMA WorkerStep == ASSUME RunnerInv, RunnerStep PROVE RunnerInv'
<1>1. UNCHANGED <<apc, handed>> /\ (Runner!Worker \/ Runner!Joined)
  BY DEF RunnerStep, vars
<1>2. /\ running \in BOOLEAN /\ ppc[Agent] = "sending" => apc = "events"
      /\ running <=> stopper = "idle"
      /\ wpc \in {"drain", "finish", "exited"} => ~running
      /\ Returned' = Returned
  BY <1>1 DEF RunnerInv, Where, Stops, Returned
<1>3. CASE Runner!Test \/ Runner!RecvTimeout \/ Runner!Wait \/ Runner!Joined
  <2>1. /\ UNCHANGED <<running, chan, pending, ppc, calls, taken>>
        /\ \/ /\ stopper' = stopper /\ wpc \in {"test", "recv", "flush"}
              /\ \/ wpc' \in {"recv", "flush", "test"}
                 \/ wpc' = "drain" /\ ~running
           \/ stopper = "joining" /\ wpc = "exited" /\ stopper' = "stopped" /\ wpc' = wpc
    BY <1>3 DEF Runner!Test, Runner!RecvTimeout, Runner!Wait, Runner!Joined, Runner!pvars, Runner!history
  <2>2. Where' /\ Stops' /\ Empties'
    BY <2>1, <1>1, <1>2 DEF RunnerInv, Where, Stops, Empties
  <2>3. QueuesOK' /\ CallsOK' /\ Holds'
    BY <2>1, <1>1 DEF RunnerInv, QueuesOK, CallsOK, Holds, Follow
  <2> QED
    BY <2>2, <2>3 DEF RunnerInv
<1>4. ASSUME chan # <<>>, pending' = Append(pending, Head(chan)), chan' = Tail(chan),
             UNCHANGED <<calls, ppc, taken>>
      PROVE  QueuesOK' /\ CallsOK' /\ Holds'
  <2>1. QueuesOK' /\ CallsOK'
    BY <1>4, HeadMoves DEF RunnerInv, QueuesOK, CallsOK
  <2>2. Len(handed') = Len(taken') + Len(pending') + Len(chan')
    <3>1. /\ Len(taken) \in Nat /\ Len(pending) \in Nat /\ Len(chan) \in Nat
          /\ Len(pending') \in Nat /\ Len(chan') \in Nat
          /\ Len(handed) = Len(taken) + Len(pending) + Len(chan)
      BY <2>1 DEF RunnerInv, QueuesOK, Holds
    <3>2. Len(pending') + Len(chan') = Len(pending) + Len(chan)
      BY <1>4, HeadMoves
    <3>3. Len(taken') = Len(taken) /\ Len(handed') = Len(handed)
      BY <1>1, <1>4
    <3> QED
      BY <3>1, <3>2, <3>3
  <2>3. Follow(taken', 0) /\ Follow(pending', Len(taken')) /\ Follow(chan', Len(taken') + Len(pending'))
    BY <1>4, HeadMoves DEF RunnerInv, Holds, Follow
  <2> QED
    BY <2>1, <2>2, <2>3, <1>1, <1>4 DEF RunnerInv, Holds, Follow
<1>5. CASE Runner!Recv
  <2>1. /\ chan # <<>> /\ pending' = Append(pending, Head(chan)) /\ chan' = Tail(chan)
        /\ wpc = "recv" /\ wpc' = "flush" /\ UNCHANGED <<running, ppc, calls, stopper, taken>>
    BY <1>5 DEF Runner!Recv, Runner!pvars, Runner!history
  <2>2. Where' /\ Stops' /\ Empties'
    BY <2>1, <1>1, <1>2 DEF RunnerInv, Where, Stops, Empties
  <2> QED
    BY <2>1, <2>2, <1>4 DEF RunnerInv
<1>6. CASE Runner!Drain
  <2>1. /\ wpc = "drain" /\ UNCHANGED <<running, ppc, calls, stopper, taken>>
        /\ \/ /\ chan # <<>> /\ pending' = Append(pending, Head(chan)) /\ chan' = Tail(chan)
              /\ wpc' = wpc
           \/ chan = <<>> /\ wpc' = "finish" /\ UNCHANGED <<chan, pending>>
    BY <1>6 DEF Runner!Drain, Runner!pvars, Runner!history
  <2>2. Where' /\ Stops' /\ Empties'
    BY <2>1, <1>1, <1>2 DEF RunnerInv, Where, Stops, Empties
  <2>3. QueuesOK' /\ CallsOK' /\ Holds'
    <3>1. CASE UNCHANGED <<chan, pending>>
      BY <3>1, <2>1, <1>1 DEF RunnerInv, QueuesOK, CallsOK, Holds, Follow
    <3>2. CASE chan # <<>> /\ pending' = Append(pending, Head(chan)) /\ chan' = Tail(chan)
      BY <3>2, <2>1, <1>4
    <3> QED
      BY <3>1, <3>2, <2>1
  <2> QED
    BY <2>2, <2>3 DEF RunnerInv
<1>7. ASSUME Runner!SendGroup, UNCHANGED <<chan, calls, ppc>>
      PROVE  QueuesOK' /\ CallsOK' /\ Holds'
  <2>1. QueuesOK' /\ CallsOK'
    BY <1>7, GroupMoves DEF RunnerInv, QueuesOK, CallsOK
  <2>2. /\ Len(handed') = Len(taken') + Len(pending') + Len(chan')
        /\ Len(taken') + Len(pending') = Len(taken) + Len(pending)
    <3>1. /\ Len(taken) \in Nat /\ Len(pending) \in Nat /\ Len(chan) \in Nat
          /\ Len(pending') \in Nat /\ Len(taken') \in Nat
          /\ Len(handed) = Len(taken) + Len(pending) + Len(chan)
      BY <2>1 DEF RunnerInv, QueuesOK, Holds
    <3>2. Len(taken') + Len(pending') = Len(taken) + Len(pending)
      BY <1>7, GroupMoves
    <3>3. Len(chan') = Len(chan) /\ Len(handed') = Len(handed)
      BY <1>1, <1>7
    <3> QED
      BY <3>1, <3>2, <3>3
  <2>3. Follow(taken', 0) /\ Follow(pending', Len(taken'))
    BY <1>7, GroupMoves
  <2>4. Follow(chan', Len(taken') + Len(pending'))
    BY <2>2, <1>7 DEF RunnerInv, Holds, Follow
  <2> QED
    BY <2>1, <2>2, <2>3, <2>4, <1>1, <1>7 DEF RunnerInv, Holds, Follow
<1>8. CASE Runner!Flush
  <2>1. /\ wpc = "flush" /\ wpc' = "test" /\ UNCHANGED <<running, chan, ppc, calls, stopper>>
        /\ Runner!SendGroup
    BY <1>8 DEF Runner!Flush, Runner!pvars
  <2>2. Where' /\ Stops' /\ Empties'
    BY <2>1, <1>1, <1>2 DEF RunnerInv, Where, Stops, Empties
  <2> QED
    BY <2>1, <2>2, <1>7 DEF RunnerInv
<1>9. CASE Runner!Finish
  <2>1. /\ wpc = "finish" /\ UNCHANGED <<running, ppc, calls, stopper>>
        /\ \/ pending # <<>> /\ Runner!SendGroup /\ UNCHANGED <<chan, wpc>>
           \/ pending = <<>> /\ wpc' = "exited" /\ chan' = <<>> /\ UNCHANGED <<pending, taken>>
    BY <1>9 DEF Runner!Finish, Runner!pvars
  <2>2. chan = <<>>
    BY <2>1 DEF RunnerInv, Empties
  <2>3. Where' /\ Stops' /\ Empties'
    BY <2>1, <2>2, <1>1, <1>2 DEF RunnerInv, Where, Stops, Empties
  <2>4. QueuesOK' /\ CallsOK' /\ Holds'
    <3>1. CASE UNCHANGED <<pending, taken>> /\ chan' = <<>>
      BY <3>1, <2>1, <2>2, <1>1 DEF RunnerInv, QueuesOK, CallsOK, Holds, Follow
    <3>2. CASE Runner!SendGroup /\ UNCHANGED chan
      BY <3>2, <2>1, <1>7
    <3> QED
      BY <3>1, <3>2, <2>1
  <2> QED
    BY <2>3, <2>4 DEF RunnerInv
<1> QED
  BY <1>1, <1>3, <1>5, <1>6, <1>8, <1>9 DEF Runner!Worker

LEMMA RunnerInvStep == ASSUME Inv, RunnerInv, [ProcessNext]_processVars PROVE RunnerInv'
<1>1. CASE UNCHANGED processVars
  <2>1. UNCHANGED <<running, chan, pending, wpc, ppc, calls, stopper, taken, handed, apc>>
    BY <1>1 DEF processVars, vars, runner
  <2>2. Where' /\ Stops' /\ Empties'
    BY <2>1 DEF RunnerInv, Where, Stops, Empties, Returned
  <2>3. QueuesOK' /\ CallsOK' /\ Holds'
    BY <2>1 DEF RunnerInv, QueuesOK, CallsOK, Holds, Follow
  <2> QED
    BY <2>2, <2>3 DEF RunnerInv
<1>2. CASE (PeerStep /\ UNCHANGED runner) \/ Reads
  <2>1. /\ UNCHANGED runner /\ handed' = handed
        /\ apc = "events" => apc' = apc
    BY <1>2 DEF Reads, PeerStep, PeerBegins, PeerWrites, PeerCloses, ReadHeader, ReadPayload, Answer,
                AnswerPanics, AnswerFails, PollTimesOut, ReadEnds
  <2>2. ProcessNext
    BY <1>2 DEF ProcessNext, LoopStep
  <2>3. ppc[Agent] = "sending" => apc' = apc
    BY <2>1 DEF RunnerInv, Stops
  <2> QED
    BY <2>1, <2>2, <2>3, LoopAloneStep
<1> QED
  BY <1>1, <1>2, CallStep, ReturnStep, DropStep, WorkerStep DEF ProcessNext, LoopStep

-----------------------------------------------------------------------------
(* What the answers promise.                                                *)

Accepted(s, x, i) == \E j \in 1..Len(s) : s[j] = [id |-> x, i |-> i]

AnsweredAccepted ==
  \A k \in 1..Len(answers) : \A i \in 1..sent[answers[k].to].count :
    Accepted(handed, answers[k].to, i)
BatchAccepted ==
  /\ apc = "events" => \A i \in 1..(next - 1) : Accepted(handed, frame.id, i)
  /\ apc = "answering" => \A i \in 1..frame.count : Accepted(handed, frame.id, i)
Complete == ~cut => AnsweredAccepted /\ BatchAccepted

\* The frame in the loop's hands is the one that was sent under its number, and
\* the frames answered so far were sent.
LEMMA AtHand ==
  ASSUME Inv, InPlace, ~cut
  PROVE  /\ Handling => frame.id \in 1..Len(sent) /\ frame = sent[frame.id]
         /\ \A k \in 1..Len(answers) : answers[k].to \in 1..Len(sent)
<1>1. PICK c \in 0..Len(sent) : Standing(c)
  BY DEF InPlace
<1>2. Len(sent) \in Nat /\ Numbered
  BY DEF Inv, StreamOK, InPlace
<1>3. Handling => frame.id \in 1..Len(sent) /\ frame = sent[frame.id]
  BY <1>1, <1>2 DEF Standing, Current, Numbered
<1>4. \A k \in 1..Len(answers) : answers[k].to \in 1..Len(sent)
  <2>1. \A k \in 1..Len(answers) : answers[k].to <= c
    BY <1>1 DEF Standing, AnsweredBy, AllAnswered, AnswersOf
  <2> QED
    BY <2>1, <1>2, HistoriesAre, MaxFramesAssumption
<1> QED
  BY <1>3, <1>4

LEMMA SentGrows ==
  ASSUME Inv, [Next]_vars
  PROVE  Len(sent') >= Len(sent) /\ \A n \in 1..Len(sent) : sent'[n] = sent[n]
<1>1. CASE \E f \in Frames : PeerBegins(f)
  <2>1. PICK f \in Frames : sent' = Append(sent, f)
    BY <1>1 DEF PeerBegins
  <2> QED
    BY <2>1 DEF Inv, StreamOK
<1>2. CASE ~ \E f \in Frames : PeerBegins(f)
  <2>1. sent' = sent
    BY <1>2, Zenon DEF Next, PeerStep, AgentStep, vars, peer, PeerWrites, PeerCloses, ReadHeader, ReadPayload,
                HandEvent, Answer, AnswerPanics, AnswerFails, PollTimesOut, ReadEnds
  <2> QED
    BY <2>1 DEF Inv, StreamOK
<1> QED
  BY <1>1, <1>2

LEMMA CompleteStep ==
  ASSUME Inv, InPlace, RunnerInv, Complete, [ProcessNext]_processVars
  PROVE  Complete'
<1>1. [Next]_vars
  BY LoopInProcess DEF processVars
<1> SUFFICES ASSUME ~cut' PROVE AnsweredAccepted' /\ BatchAccepted'
  BY DEF Complete
<1>2. ~cut /\ AnsweredAccepted /\ BatchAccepted
  BY <1>1, CutStays DEF Complete
<1>3. /\ handed \in Seq(Events) /\ answers \in Seq(Results)
      /\ \A k \in 1..Len(answers) : sent'[answers[k].to] = sent[answers[k].to]
  BY <1>1, <1>2, AtHand, SentGrows DEF Inv, ResultsOK
<1>4. CASE CallReturns
  <2> DEFINE e == [id |-> frame.id, i |-> next]
  <2>1. /\ apc = "events" /\ handed' = Append(handed, e) /\ UNCHANGED <<frame, answers, sent>>
        /\ \/ next = frame.count /\ apc' = "answering" /\ next' = 1
           \/ apc' = "events" /\ next' = next + 1
    BY <1>4, NothingRefused DEF CallReturns, HandEvent, peer
  <2>2. next \in Nat /\ frame.count \in Nat
    BY <2>1, FramesAre, MaxCountAssumption DEF Inv, LoopOK
  <2>3. e = [id |-> frame.id, i |-> next]
    OBVIOUS
  <2> HIDE DEF e
  <2>4. /\ Len(handed) \in Nat /\ Len(handed') = Len(handed) + 1 /\ handed'[Len(handed')] = e
        /\ \A j \in 1..Len(handed) : handed'[j] = handed[j]
    BY <2>1, <1>3
  <2>5. \A x, i : Accepted(handed, x, i) => Accepted(handed', x, i)
    BY <2>4 DEF Accepted
  <2>6. Accepted(handed', frame.id, next)
    BY <2>3, <2>4 DEF Accepted
  <2>7. \A i \in 1..next : Accepted(handed', frame.id, i)
    BY <2>1, <2>2, <2>5, <2>6, <1>2 DEF BatchAccepted
  <2>8. AnsweredAccepted'
    BY <2>1, <2>5, <1>2 DEF AnsweredAccepted
  <2>9. BatchAccepted'
    <3>1. CASE next = frame.count /\ apc' = "answering"
      BY <3>1, <2>1, <2>7 DEF BatchAccepted
    <3>2. CASE apc' = "events" /\ next' = next + 1
      <4>1. next' - 1 = next
        BY <3>2, <2>2
      <4> QED
        BY <4>1, <3>2, <2>1, <2>7 DEF BatchAccepted
    <3> QED
      BY <3>1, <3>2, <2>1
  <2> QED
    BY <2>8, <2>9
<1>5. CASE Answer
  <2> DEFINE a == [to |-> frame.id, last |-> LastSeq(frame)]
  <2>1. /\ apc = "answering" /\ apc' = "header" /\ answers' = Append(answers, a)
        /\ UNCHANGED <<sent, handed>>
    BY <1>5 DEF Answer, peer
  <2>2. a.to = frame.id
    OBVIOUS
  <2> HIDE DEF a
  <2>3. /\ Len(answers) \in Nat /\ Len(answers') = Len(answers) + 1 /\ answers'[Len(answers')] = a
        /\ \A k \in 1..Len(answers) : answers'[k] = answers[k]
    BY <2>1, <1>3
  <2>4. \A i \in 1..sent[frame.id].count : Accepted(handed, frame.id, i)
    BY <2>1, <1>2, AtHand DEF BatchAccepted, Handling
  <2>5. AnsweredAccepted'
    <3>1. ASSUME NEW k \in 1..Len(answers'), NEW i \in 1..sent[answers'[k].to].count
          PROVE  Accepted(handed, answers'[k].to, i)
      BY <2>2, <2>3, <2>4, <1>2 DEF AnsweredAccepted
    <3> QED
      BY <3>1, <2>1 DEF AnsweredAccepted
  <2>6. BatchAccepted'
    BY <2>1 DEF BatchAccepted
  <2> QED
    BY <2>5, <2>6
<1>6. CASE ReadPayload
  <2>1. apc' \in {"events", "answering", "header", "ended"} /\ UNCHANGED <<next, handed, answers>>
        /\ (apc' = "answering" => frame'.count = 0) /\ apc # "events"
    BY <1>6, FramesAre DEF ReadPayload, AfterPayload, Inv, LoopOK
  <2>2. next = 1
    BY <2>1 DEF Inv, LoopOK
  <2> QED
    BY <2>1, <2>2, <1>2, <1>3 DEF BatchAccepted, AnsweredAccepted
<1>7. CASE \/ UNCHANGED vars \/ PeerStep \/ ReadHeader \/ AnswerPanics \/ AnswerFails
           \/ PollTimesOut \/ ReadEnds
  <2>1. /\ UNCHANGED <<handed, answers>>
        /\ \/ UNCHANGED <<apc, next, frame>>
           \/ apc' \in {"payload", "header", "ended", "panicked"}
    BY <1>7 DEF vars, PeerStep, PeerBegins, PeerWrites, PeerCloses, ReadHeader, AnswerPanics,
                AnswerFails, PollTimesOut, ReadEnds
  <2>2. BatchAccepted'
    BY <2>1, <1>2 DEF BatchAccepted
  <2> QED
    BY <2>1, <2>2, <1>2, <1>3 DEF AnsweredAccepted
<1> QED
  BY <1>4, <1>5, <1>6, <1>7
     DEF ProcessNext, LoopStep, RunnerStep, Reads, CallRunner, DropRunner, processVars

ProcessInv == Inv /\ InPlace /\ RunnerInv /\ Complete

LEMMA ProcessAlways == ProcessSpec => []ProcessInv
<1>1. ProcessInit => ProcessInv
  <2>1. ProcessInit => Init
    BY DEF ProcessInit
  <2>2. Init => Complete
    BY DEF Init, Complete, AnsweredAccepted, BatchAccepted
  <2> QED
    BY <2>1, <2>2, InitInv, InitInPlace, InitRunnerInv DEF ProcessInv
<1>2. ProcessInv /\ [ProcessNext]_processVars => ProcessInv'
  <2> SUFFICES ASSUME ProcessInv, [ProcessNext]_processVars PROVE ProcessInv'
    OBVIOUS
  <2>1. [Next]_vars
    BY LoopInProcess DEF processVars
  <2> QED
    BY <2>1, StepInv, StepInPlace, RunnerInvStep, CompleteStep DEF ProcessInv
<1> QED
  BY <1>1, <1>2, PTL DEF ProcessSpec

\* An answered batch was handed over to its last event, and SendInput is given
\* what was handed over, in order, all of it when the process ends.
THEOREM HandledIsReplayedHolds == ProcessSpec => []HandledIsReplayed
<1>1. ProcessInv => HandledIsReplayed
  <2> SUFFICES ASSUME ProcessInv PROVE HandledIsReplayed
    OBVIOUS
  <2>1. ReplayedAsSent
    BY InPlaceImplies DEF ProcessInv
  <2>2. ~cut => \A k \in 1..Len(answers) : \A i \in 1..sent[answers[k].to].count :
               \E j \in 1..Len(handed) : handed[j] = [id |-> answers[k].to, i |-> i]
    BY DEF ProcessInv, Complete, AnsweredAccepted, Accepted
  <2>3. /\ Len(taken) \in Nat /\ Len(pending) \in Nat /\ Len(chan) \in Nat
        /\ Len(handed) = Len(taken) + Len(pending) + Len(chan)
    BY DEF ProcessInv, RunnerInv, QueuesOK, Holds
  <2>4. \A n \in 1..Len(taken) : taken[n] = <<Agent, n>>
    BY <2>3 DEF ProcessInv, RunnerInv, Holds, Follow
  <2>5. stopper = "stopped" => Len(pending) = 0 /\ Len(chan) = 0
    BY DEF ProcessInv, RunnerInv, Stops, Empties
  <2> QED
    BY <2>1, <2>2, <2>3, <2>4, <2>5 DEF HandledIsReplayed
<1> QED
  BY <1>1, ProcessAlways, PTL

\* The loop of the process is the loop above, so that what holds of it alone
\* holds here.
THEOREM ProcessImplementsLoop == ProcessSpec => Spec
<1>1. ProcessInit => Init
  BY DEF ProcessInit
<1>2. [ProcessNext]_processVars => [Next]_vars
  BY LoopInProcess DEF processVars
<1> QED
  BY <1>1, <1>2, PTL DEF ProcessSpec, Spec

-----------------------------------------------------------------------------
(* The runner in the process, with the loop as its only producer.           *)

LEMMA RunnerInProcess == ProcessNext => [Runner!Next]_runner
<1> SUFFICES ASSUME ProcessNext PROVE [Runner!Next]_runner
  OBVIOUS
<1>1. CASE UNCHANGED runner
  BY <1>1
<1>2. CASE CallRunner
  BY Zenon, <1>2 DEF CallRunner, Runner!Next, Runner!Producer
<1>3. CASE CallReturns
  BY Zenon, <1>3 DEF CallReturns, Runner!Next, Runner!Producer
<1>4. CASE DropRunner
  BY Zenon, <1>4 DEF DropRunner, Runner!Next
<1>5. CASE RunnerStep
  BY Zenon, <1>5 DEF RunnerStep, Runner!Next
<1> QED
  BY Zenon, <1>1, <1>2, <1>3, <1>4, <1>5 DEF ProcessNext, LoopStep, Reads

\* The runner of the process is the runner of AgentRunner: the loop calls it, and
\* drops it, only in ways a producer and a caller of stop may.
THEOREM ProcessImplementsRunner == ProcessSpec => Runner!Spec
<1>1. ProcessInit => Runner!Init
  BY DEF ProcessInit
<1>2. [ProcessNext]_processVars => [Runner!Next]_(Runner!vars)
  BY RunnerInProcess DEF processVars, runner, Runner!vars
<1> QED
  BY <1>1, <1>2, PTL DEF ProcessSpec, Runner!Spec

RunnerProofs == INSTANCE AgentRunnerProofs WITH
  Producers <- {Agent}, MaxCalls <- MaxFrames * MaxCount

\* So the process keeps the promise of ReplayQueue to its peer: the events the loop
\* handed over reach SendInput once, in order and in groups of bounded size,
\* before the process ends, whatever frames it reads and however it ends.
THEOREM ProcessImplementsQueue == ProcessSpec => RunnerProofs!ImplementsQueue
<1>1. Capacity \in Nat \ {0} /\ GroupMax \in Nat \ {0} /\ MaxFrames * MaxCount \in Nat
  BY ChannelAssumption, MaxFramesAssumption, MaxCountAssumption
<1>2. RunnerProofs!Spec => RunnerProofs!ImplementsQueue
  BY Zenon, <1>1, RunnerProofs!Refinement
<1>3. Runner!Init => RunnerProofs!Init
  BY DEF Runner!Init, RunnerProofs!Init
<1>4. [Runner!Next]_(Runner!vars) => [RunnerProofs!Next]_(RunnerProofs!vars)
  BY DEF Runner!Next, Runner!Worker, Runner!Producer, Runner!Test, Runner!Recv,
             Runner!RecvTimeout, Runner!GroupLen, Runner!SendGroup, Runner!Flush,
             Runner!Wait, Runner!Drain, Runner!Finish, Runner!StopRunner,
             Runner!Joined, Runner!Begin, Runner!Refuse, Runner!Enqueue, Runner!Send,
             Runner!SendFails, Runner!Calling, Runner!pvars, Runner!history,
             Runner!vars, RunnerProofs!Next, RunnerProofs!Worker,
             RunnerProofs!Producer, RunnerProofs!Test, RunnerProofs!Recv,
             RunnerProofs!RecvTimeout, RunnerProofs!GroupLen, RunnerProofs!SendGroup,
             RunnerProofs!Flush, RunnerProofs!Wait, RunnerProofs!Drain,
             RunnerProofs!Finish, RunnerProofs!StopRunner, RunnerProofs!Joined,
             RunnerProofs!Begin, RunnerProofs!Refuse, RunnerProofs!Enqueue,
             RunnerProofs!Send, RunnerProofs!SendFails, RunnerProofs!Calling,
             RunnerProofs!pvars, RunnerProofs!history, RunnerProofs!vars
<1>5. Runner!Spec => RunnerProofs!Spec
  BY <1>3, <1>4, PTL DEF Runner!Spec, RunnerProofs!Spec
<1> QED
  BY <1>2, <1>5, ProcessImplementsRunner, PTL
=============================================================================

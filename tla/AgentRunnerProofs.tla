------------------------- MODULE AgentRunnerProofs -------------------------
(***************************************************************************)
(* Proofs about AgentRunner for any number of producers and calls, any     *)
(* channel capacity and any group size.                                    *)
(***************************************************************************)
EXTENDS AgentRunner, SequenceTheorems, TLAPS

-----------------------------------------------------------------------------
(* Sequences.                                                              *)

\* Moving the head of the second sequence to the end of the first.
LEMMA MoveHead ==
  ASSUME NEW S, NEW s \in Seq(S), NEW t \in Seq(S), t # <<>>
  PROVE  /\ Append(s, Head(t)) \in Seq(S) /\ Tail(t) \in Seq(S)
         /\ Append(s, Head(t)) \o Tail(t) = s \o t
<1>1. Head(t) \in S /\ Tail(t) \in Seq(S) /\ <<Head(t)>> \in Seq(S)
  BY HeadTailProperties
<1>2. t = <<Head(t)>> \o Tail(t)
  <2>1. Len(t) \in Nat \ {0}
    BY EmptySeq
  <2>2. SubSeq(t, 1, Len(t)) = <<t[1]>> \o SubSeq(t, 2, Len(t))
    BY <2>1, SubSeqRecursiveFirst
  <2>3. SubSeq(t, 1, Len(t)) = t /\ Tail(t) = SubSeq(t, 2, Len(t)) /\ Head(t) = t[1]
    BY SubSeqFull, TailIsSubSeq
  <2> QED BY <2>2, <2>3
<1>3. Append(s, Head(t)) = s \o <<Head(t)>>
  BY <1>1, AppendIsConcat
<1>4. (s \o <<Head(t)>>) \o Tail(t) = s \o (<<Head(t)>> \o Tail(t))
  BY <1>1, ConcatAssociative
<1> QED BY <1>1, <1>2, <1>3, <1>4, AppendProperties

\* A sequence is its first n elements and the rest.
LEMMA SplitAt ==
  ASSUME NEW S, NEW s \in Seq(S), NEW n \in 0..Len(s)
  PROVE  /\ SubSeq(s, 1, n) \in Seq(S)
         /\ SubSeq(s, n + 1, Len(s)) \in Seq(S)
         /\ Len(SubSeq(s, n + 1, Len(s))) = Len(s) - n
         /\ SubSeq(s, 1, n) \o SubSeq(s, n + 1, Len(s)) = s
<1>1. Len(s) \in Nat /\ \A i \in 1..Len(s) : s[i] \in S
  BY LenProperties, ElementOfSeq
<1>2. SubSeq(s, 1, n) \in Seq(S)
  BY <1>1, SubSeqProperties
<1>3. /\ SubSeq(s, n + 1, Len(s)) \in Seq(S)
      /\ Len(SubSeq(s, n + 1, Len(s))) = Len(s) - n
  <2>1. \A i \in (n + 1)..Len(s) : s[i] \in S
    BY <1>1
  <2>2. n + 1 \in Int /\ Len(s) \in Int
    BY <1>1
  <2>3. /\ SubSeq(s, n + 1, Len(s)) \in Seq(S)
        /\ Len(SubSeq(s, n + 1, Len(s))) =
             IF n + 1 <= Len(s) THEN Len(s) - (n + 1) + 1 ELSE 0
    BY <2>1, <2>2, SubSeqProperties
  <2> QED BY <1>1, <2>3
<1>4. SubSeq(s, 1, n) \o SubSeq(s, n + 1, Len(s)) = SubSeq(s, 1, Len(s))
  <2>1. 1 \in 1..(Len(s) + 1) /\ n \in (1 - 1)..Len(s) /\ Len(s) \in n..Len(s)
    BY <1>1
  <2> QED BY <2>1, ConcatAdjacentSubSeq
<1> QED BY <1>2, <1>3, <1>4, SubSeqFull

-----------------------------------------------------------------------------
(* The inductive invariant.                                                 *)

\* Where the worker stands, once it saw running down it never goes back, and
\* nothing is pending when it exits; stop waits for that.
Shutdown ==
  /\ wpc \in {"drain", "finish", "exited"} => ~running
  /\ wpc = "exited" => pending = <<>>  /\ chan = <<>>
  /\ stopper = "stopped" => wpc = "exited"

IInv == TypeOK /\ Conserved /\ PendingBounded /\ Shutdown

\* The group the worker hands over, and what stays in its queue.
LEMMA Group ==
  ASSUME TypeOK
  PROVE  /\ GroupLen \in 0..Len(pending)
         /\ pending # <<>> => GroupLen > 0
         /\ GroupLen <= GroupMax
         /\ Len(pending) <= GroupMax => GroupLen = Len(pending)
<1>1. Len(pending) \in Nat /\ (pending # <<>> => Len(pending) > 0)
  BY LenProperties, EmptySeq DEF TypeOK
<1> QED BY <1>1, GroupMaxAssumption DEF GroupLen

\* Handing a group over moves it from the front of the queue to the end of
\* what was taken.
LEMMA SendGroupMoves ==
  ASSUME TypeOK, SendGroup
  PROVE  /\ taken' \in Seq(Events) /\ pending' \in Seq(Events)
         /\ taken' \o pending' = taken \o pending
         /\ Len(pending') = Len(pending) - GroupLen
<1>1. /\ pending \in Seq(Events) /\ taken \in Seq(Events)
      /\ GroupLen \in 0..Len(pending)
  BY Group DEF TypeOK
<1>2. PICK a \in Seq(Events), b \in Seq(Events) :
        /\ a \o b = pending /\ Len(b) = Len(pending) - GroupLen
        /\ taken' = taken \o a /\ pending' = b
  BY <1>1, SplitAt DEF SendGroup
<1>3. (taken \o a) \o b = taken \o (a \o b)
  BY <1>1, ConcatAssociative
<1> QED BY <1>1, <1>2, <1>3, ConcatProperties

\* A group taken from the front of the worker's queue is taken from the front
\* of that queue and the channel together.
LEMMA GroupOfBoth ==
  ASSUME TypeOK
  PROVE  /\ SubSeq(pending \o chan, 1, GroupLen) = SubSeq(pending, 1, GroupLen)
         /\ SubSeq(pending \o chan, GroupLen + 1, Len(pending \o chan))
              = SubSeq(pending, GroupLen + 1, Len(pending)) \o chan
<1>1. /\ pending \in Seq(Events) /\ chan \in Seq(Events) /\ pending \o chan \in Seq(Events)
      /\ Len(pending) \in Nat /\ Len(chan) \in Nat
      /\ Len(pending \o chan) = Len(pending) + Len(chan)
      /\ GroupLen \in 0..Len(pending) /\ GroupLen \in 0..Len(pending \o chan)
  BY Group, ConcatProperties, LenProperties DEF TypeOK
<1>2. SubSeq(pending \o chan, 1, GroupLen) = SubSeq(pending, 1, GroupLen)
  <2>1. CASE GroupLen = 0
    BY <2>1, SubSeqEmpty
  <2>2. CASE GroupLen > 0
    <3>1. 1 \in 1..Len(pending) /\ GroupLen \in 1..Len(pending)
      BY <2>2, <1>1
    <3> QED BY <1>1, <3>1, SubSeqOfConcat1
  <2> QED BY <1>1, <2>1, <2>2
<1>3. /\ SubSeq(pending, 1, GroupLen) \in Seq(Events)
      /\ SubSeq(pending, GroupLen + 1, Len(pending)) \in Seq(Events)
      /\ SubSeq(pending, 1, GroupLen) \o SubSeq(pending, GroupLen + 1, Len(pending)) = pending
  BY <1>1, SplitAt
<1>4. /\ SubSeq(pending \o chan, GroupLen + 1, Len(pending \o chan)) \in Seq(Events)
      /\ SubSeq(pending \o chan, 1, GroupLen)
           \o SubSeq(pending \o chan, GroupLen + 1, Len(pending \o chan)) = pending \o chan
  BY <1>1, SplitAt
<1>5. PICK a \in Seq(Events), b \in Seq(Events), c \in Seq(Events) :
        /\ a = SubSeq(pending, 1, GroupLen) /\ b = SubSeq(pending, GroupLen + 1, Len(pending))
        /\ c = SubSeq(pending \o chan, GroupLen + 1, Len(pending \o chan))
        /\ a \o c = (a \o b) \o chan
  BY <1>2, <1>3, <1>4
<1>6. c = b \o chan
  <2>1. chan \in Seq(Events)
    BY <1>1
  <2>2. (a \o b) \o chan = a \o (b \o chan)
    BY <2>1, ConcatAssociative
  <2>3. b \o chan \in Seq(Events)
    BY <2>1, ConcatProperties
  <2>4. a \o c = a \o (b \o chan)
    BY <1>5, <2>2
  <2> QED BY <2>3, <2>4, ConcatSimplifications
<1> QED BY <1>2, <1>5, <1>6

\* What an event a producer is sending is.
LEMMA CallingType ==
  ASSUME TypeOK, NEW p \in Producers, ppc[p] = "sending"
  PROVE  Calling(p) \in Events
BY MaxCallsAssumption DEF TypeOK, Calling, Events

LEMMA TypeStep ==
  ASSUME IInv, [Next]_vars
  PROVE  TypeOK'
<1> USE DEF IInv
<1>1. CASE UNCHANGED vars
  BY <1>1 DEF TypeOK, vars
<1>2. ASSUME NEW p \in Producers, Producer(p) PROVE TypeOK'
  <2>1. CASE Refuse(p) \/ Enqueue(p)
    <3>1. calls[p] \in 0..MaxCalls /\ calls[p] < MaxCalls
      BY <2>1 DEF Refuse, Enqueue, Begin, TypeOK
    <3>2. calls' = [calls EXCEPT ![p] = calls[p] + 1] /\ calls[p] + 1 \in 1..MaxCalls
      BY <2>1, <3>1, MaxCallsAssumption DEF Refuse, Enqueue, Begin
    <3>3. /\ calls' \in [Producers -> 0..MaxCalls]
          /\ \A q \in Producers : calls'[q] = IF q = p THEN calls[p] + 1 ELSE calls[q]
      BY <3>2 DEF TypeOK
    <3>4. /\ ppc' \in [Producers -> {"idle", "sending"}]
          /\ \A q \in Producers : q # p => ppc'[q] = ppc[q]
      BY <2>1 DEF Refuse, Enqueue, Begin, TypeOK
    <3>5. \A q \in Producers : ppc'[q] = "sending" => calls'[q] > 0
      BY <3>2, <3>3, <3>4 DEF TypeOK
    <3> QED BY <2>1, <3>3, <3>4, <3>5 DEF Refuse, Enqueue, TypeOK, history
  <2>2. CASE Send(p)
    <3>1. Calling(p) \in Events
      BY <2>2, CallingType DEF Send
    <3>2. /\ Append(chan, Calling(p)) \in Seq(Events)
          /\ Append(log, Calling(p)) \in Seq(Events)
          /\ Len(Append(chan, Calling(p))) = Len(chan) + 1
      BY <3>1, AppendProperties DEF TypeOK
    <3>3. Len(chan) + 1 <= Capacity
      BY <2>2, CapacityAssumption, LenProperties DEF Send, TypeOK
    <3> QED BY <2>2, <3>2, <3>3 DEF Send, TypeOK
  <2>3. CASE SendFails(p)
    BY <2>3 DEF SendFails, TypeOK, history
  <2> QED BY <1>2, <2>1, <2>2, <2>3 DEF Producer
<1>3. CASE Test \/ RecvTimeout \/ Wait
  BY <1>3 DEF Test, RecvTimeout, Wait, TypeOK, pvars, history
<1>4. CASE Recv \/ Drain
  <2>1. CASE chan # <<>>
    <3>1. /\ Append(pending, Head(chan)) \in Seq(Events)
          /\ Tail(chan) \in Seq(Events) /\ Len(Tail(chan)) = Len(chan) - 1
      BY <2>1, MoveHead, HeadTailProperties DEF TypeOK
    <3>2. Len(chan) - 1 <= Capacity
      BY CapacityAssumption, LenProperties DEF TypeOK
    <3> QED BY <1>4, <2>1, <3>1, <3>2 DEF Recv, Drain, TypeOK, pvars, history
  <2>2. CASE chan = <<>>
    BY <1>4, <2>2 DEF Recv, Drain, TypeOK, pvars, history
  <2> QED BY <2>1, <2>2
<1>5. CASE Flush
  BY <1>5, SendGroupMoves DEF Flush, TypeOK, pvars
<1>6. CASE Finish
  <2>1. <<>> \in Seq(Events) /\ Len(<<>>) <= Capacity
    BY CapacityAssumption
  <2> QED BY <1>6, <2>1, SendGroupMoves DEF Finish, TypeOK, pvars
<1>7. CASE StopRunner \/ Joined
  BY <1>7 DEF StopRunner, Joined, TypeOK, pvars, history
<1> QED BY <1>1, <1>2, <1>3, <1>4, <1>5, <1>6, <1>7 DEF Next, Worker

\* What is sent goes to the end of the channel, what is received to the end of
\* the worker's queue and what is handed over to the end of what was taken.
LEMMA ConservedStep ==
  ASSUME IInv, [Next]_vars
  PROVE  Conserved'
<1> USE DEF IInv
<1>1. CASE UNCHANGED vars
  BY <1>1 DEF Conserved, vars
<1>2. ASSUME NEW p \in Producers, Producer(p) PROVE Conserved'
  <2>1. CASE Refuse(p) \/ Enqueue(p) \/ SendFails(p)
    BY <2>1 DEF Refuse, Enqueue, SendFails, Conserved, history
  <2>2. CASE Send(p)
    <3>1. Calling(p) \in Events
      BY <2>2, CallingType DEF Send
    <3>2. /\ taken \in Seq(Events) /\ pending \in Seq(Events) /\ chan \in Seq(Events)
          /\ taken \o pending \in Seq(Events)
      BY ConcatProperties DEF TypeOK
    <3>3. Append((taken \o pending) \o chan, Calling(p))
            = (taken \o pending) \o Append(chan, Calling(p))
      <4>1. /\ (taken \o pending) \o chan \in Seq(Events)
            /\ <<Calling(p)>> \in Seq(Events)
        BY <3>1, <3>2, ConcatProperties
      <4>2. Append((taken \o pending) \o chan, Calling(p))
              = ((taken \o pending) \o chan) \o <<Calling(p)>>
        BY <3>1, <4>1, AppendIsConcat
      <4>3. Append(chan, Calling(p)) = chan \o <<Calling(p)>>
        BY <3>1, <3>2, AppendIsConcat
      <4>4. ((taken \o pending) \o chan) \o <<Calling(p)>>
              = (taken \o pending) \o (chan \o <<Calling(p)>>)
        BY <3>2, <4>1, ConcatAssociative
      <4> QED BY <4>2, <4>3, <4>4
    <3> QED BY <2>2, <3>3 DEF Send, Conserved
  <2> QED BY <1>2, <2>1, <2>2 DEF Producer
<1>3. CASE Test \/ RecvTimeout \/ Wait
  BY <1>3 DEF Test, RecvTimeout, Wait, Conserved, pvars, history
<1>4. CASE Recv \/ Drain
  <2>1. CASE chan # <<>>
    <3>1. /\ taken \in Seq(Events) /\ pending \in Seq(Events) /\ chan \in Seq(Events)
      BY DEF TypeOK
    <3>2. /\ pending' = Append(pending, Head(chan)) /\ chan' = Tail(chan)
          /\ taken' = taken /\ log' = log /\ wpc # "exited"
      BY <1>4, <2>1 DEF Recv, Drain, history
    <3>3. /\ pending' \in Seq(Events) /\ chan' \in Seq(Events)
          /\ pending' \o chan' = pending \o chan
      BY <2>1, <3>1, <3>2, MoveHead
    <3>4. /\ (taken \o pending) \o chan = taken \o (pending \o chan)
          /\ (taken \o pending') \o chan' = taken \o (pending' \o chan')
      <4>1. (taken \o pending) \o chan = taken \o (pending \o chan)
        BY <3>1, ConcatAssociative
      <4>2. (taken \o pending') \o chan' = taken \o (pending' \o chan')
        <5>1. pending' \in Seq(Events) /\ chan' \in Seq(Events)
          BY <3>3
        <5> QED BY <3>1, <5>1, ConcatAssociative
      <4> QED BY <4>1, <4>2
    <3> QED BY <3>2, <3>3, <3>4 DEF Conserved
  <2>2. CASE chan = <<>>
    BY <1>4, <2>2 DEF Recv, Drain, Conserved, pvars, history
  <2> QED BY <2>1, <2>2
<1>5. CASE Flush
  BY <1>5, SendGroupMoves DEF Flush, Conserved, pvars
<1>6. CASE Finish
  BY <1>6, SendGroupMoves DEF Finish, Conserved, pvars
<1>7. CASE StopRunner \/ Joined
  BY <1>7 DEF StopRunner, Joined, Conserved, pvars, history
<1> QED BY <1>1, <1>2, <1>3, <1>4, <1>5, <1>6, <1>7 DEF Next, Worker

\* A turn of the loop adds at most one event to a queue that is short of a
\* group, and a full group is always handed over.
LEMMA PendingStep ==
  ASSUME IInv, [Next]_vars
  PROVE  PendingBounded' /\ Shutdown'
<1> USE DEF IInv
<1>1. CASE UNCHANGED vars
  BY <1>1 DEF PendingBounded, Shutdown, vars
<1>2. ASSUME NEW p \in Producers, Producer(p) PROVE PendingBounded' /\ Shutdown'
  BY <1>2 DEF Producer, Refuse, Enqueue, Send, SendFails, PendingBounded, Shutdown, history
<1>3. CASE Test \/ RecvTimeout \/ Wait
  <2>1. Len(pending) \in Nat
    BY LenProperties DEF TypeOK
  <2> QED BY <1>3, <2>1, GroupMaxAssumption
          DEF Test, RecvTimeout, Wait, PendingBounded, Shutdown, pvars, history
<1>4. CASE Recv
  <2>1. Len(pending) \in Nat /\ Head(chan) \in Events
    BY <1>4, LenProperties, HeadTailProperties DEF Recv, TypeOK
  <2>2. Len(Append(pending, Head(chan))) = Len(pending) + 1
    BY <2>1, AppendProperties DEF TypeOK
  <2> QED BY <1>4, <2>1, <2>2, GroupMaxAssumption
          DEF Recv, PendingBounded, Shutdown, pvars, history
<1>5. CASE Drain
  BY <1>5 DEF Drain, PendingBounded, Shutdown, pvars, history
<1>6. CASE Flush
  <2>1. Len(pending') = 0
    BY <1>6, SendGroupMoves, Group, LenProperties DEF Flush, PendingBounded, TypeOK
  <2> QED BY <1>6, <2>1, GroupMaxAssumption DEF Flush, PendingBounded, Shutdown, pvars
<1>7. CASE Finish
  BY <1>7 DEF Finish, PendingBounded, Shutdown, pvars, SendGroup
<1>8. CASE StopRunner \/ Joined
  BY <1>8 DEF StopRunner, Joined, PendingBounded, Shutdown, pvars, history
<1> QED BY <1>1, <1>2, <1>3, <1>4, <1>5, <1>6, <1>7, <1>8 DEF Next, Worker

\* The invariant holds of every run.
LEMMA Invariant == Spec => []IInv
<1>1. Init => IInv
  <2>1. <<>> \in Seq(Events) /\ Len(<<>>) = 0 /\ <<>> \o <<>> \o <<>> = <<>>
    OBVIOUS
  <2> QED BY <2>1, GroupMaxAssumption, CapacityAssumption, MaxCallsAssumption
          DEF Init, IInv, TypeOK, Conserved, PendingBounded, Shutdown
<1>2. IInv /\ [Next]_vars => IInv'
  BY TypeStep, ConservedStep, PendingStep DEF IInv
<1> QED BY <1>1, <1>2, PTL DEF Spec

-----------------------------------------------------------------------------
(* The runner implements ReplayQueue.                                       *)

Buf == IF Drained THEN pending ELSE pending \o chan
Late == IF Drained THEN chan ELSE <<>>

\* A group taken from the worker's queue is a prefix of the abstract buffer.
LEMMA HandsOver ==
  ASSUME IInv, SendGroup, pending # <<>>, wpc # "exited",
         UNCHANGED <<running, chan, stopper>>, Drained' = Drained
  PROVE  Queue!HandOver
<1> DEFINE n == GroupLen
<1>1. /\ pending \in Seq(Events) /\ chan \in Seq(Events)
      /\ n \in 1..Len(pending) /\ n \in 0..Len(pending) /\ n <= GroupMax
      /\ Len(pending) \in Nat /\ Len(chan) \in Nat
  BY Group, LenProperties DEF IInv, TypeOK
<1>2. taken' = taken \o SubSeq(pending, 1, n) /\ pending' = SubSeq(pending, n + 1, Len(pending))
  BY DEF SendGroup
<1>3. stopper # "stopped" /\ stopper' # "stopped"
  BY DEF IInv, Shutdown
<1> HIDE DEF n
<1>4. n \in 1..Len(Buf) /\ taken' = taken \o SubSeq(Buf, 1, n) /\ Buf' = SubSeq(Buf, n + 1, Len(Buf))
  <2>1. CASE Drained
    BY <1>1, <1>2, <2>1 DEF Buf
  <2>2. CASE ~Drained
    <3>1. Buf = pending \o chan /\ Buf' = pending' \o chan
      BY <2>2 DEF Buf
    <3>2. Len(pending \o chan) = Len(pending) + Len(chan)
      BY <1>1, ConcatProperties
    <3>3. /\ SubSeq(pending \o chan, 1, n) = SubSeq(pending, 1, n)
          /\ SubSeq(pending \o chan, n + 1, Len(pending \o chan))
               = SubSeq(pending, n + 1, Len(pending)) \o chan
      BY GroupOfBoth DEF n, IInv
    <3>4. n \in 1..Len(Buf)
      BY <1>1, <3>1, <3>2
    <3>5. taken' = taken \o SubSeq(Buf, 1, n)
      BY <1>2, <3>1, <3>3, Zenon
    <3>6. Buf' = SubSeq(Buf, n + 1, Len(Buf))
      BY <1>2, <3>1, <3>3, Zenon
    <3> QED BY <3>4, <3>5, <3>6
  <2> QED BY <2>1, <2>2
<1>5. Late' = Late
  BY DEF Late
<1> QED BY <1>1, <1>3, <1>4, <1>5 DEF Queue!HandOver, Buf, Late

\* Every step of the runner is a step of the queue or changes nothing of it.
LEMMA RefinementStep ==
  ASSUME IInv, [Next]_vars
  PROVE  [Queue!QNext]_(Queue!qvars)
<1> USE DEF IInv
<1>1. CASE UNCHANGED vars
  BY <1>1 DEF vars, Queue!qvars, Drained
<1>2. ASSUME NEW p \in Producers, Producer(p) PROVE [Queue!QNext]_(Queue!qvars)
  <2>1. CASE Refuse(p) \/ Enqueue(p) \/ SendFails(p)
    BY <2>1 DEF Refuse, Enqueue, SendFails, history, Queue!qvars, Drained
  <2>2. CASE Send(p)
    <3>1. Calling(p) \in Events /\ stopper # "stopped"
      BY <2>2, CallingType DEF Send, Shutdown
    <3>2. CASE Drained
      <4>1. ~running /\ Late' = Append(Late, Calling(p)) /\ Buf' = Buf
        BY <2>2, <3>2 DEF Send, Shutdown, Drained, Late, Buf
      <4>2. Queue!AcceptLate
        BY <2>2, <3>1, <4>1 DEF Send, Queue!AcceptLate, Buf, Late
      <4> QED BY <4>2 DEF Queue!QNext
    <3>3. CASE ~Drained
      <4>1. pending \in Seq(Events) /\ chan \in Seq(Events) /\ <<Calling(p)>> \in Seq(Events)
        BY <3>1 DEF TypeOK
      <4>2. pending \o chan \in Seq(Events)
        BY <4>1, ConcatProperties
      <4>3. /\ Append(chan, Calling(p)) = chan \o <<Calling(p)>>
            /\ Append(pending \o chan, Calling(p)) = (pending \o chan) \o <<Calling(p)>>
        BY <3>1, <4>1, <4>2, AppendIsConcat
      <4>4. (pending \o chan) \o <<Calling(p)>> = pending \o (chan \o <<Calling(p)>>)
        BY <4>1, ConcatAssociative
      <4>5. Buf' = Append(Buf, Calling(p)) /\ Late' = Late
        BY <2>2, <3>3, <4>3, <4>4 DEF Send, Drained, Buf, Late
      <4>6. Queue!Accept
        BY <2>2, <3>1, <4>5 DEF Send, Queue!Accept, Buf, Late
      <4> QED BY <4>6 DEF Queue!QNext
    <3> QED BY <3>2, <3>3
  <2> QED BY <1>2, <2>1, <2>2 DEF Producer
<1>3. CASE Test \/ RecvTimeout \/ Wait
  BY <1>3 DEF Test, RecvTimeout, Wait, pvars, history, Queue!qvars, Drained
<1>4. CASE Recv \/ Drain
  <2>1. pending \in Seq(Events) /\ chan \in Seq(Events)
    BY DEF TypeOK
  <2>2. CASE chan # <<>>
    <3>1. /\ pending' = Append(pending, Head(chan)) /\ chan' = Tail(chan)
          /\ UNCHANGED <<taken, running, stopper>> /\ ~Drained /\ ~Drained'
      BY <1>4, <2>2 DEF Recv, Drain, history, Drained
    <3>2. pending' \o chan' = pending \o chan
      BY <2>1, <2>2, <3>1, MoveHead
    <3> QED BY <3>1, <3>2 DEF Queue!qvars
  <2>3. CASE chan = <<>>
    <3>1. /\ UNCHANGED <<pending, chan, taken, running, stopper>>
          /\ ~Drained /\ Drained'
      BY <1>4, <2>3 DEF Recv, Drain, history, Drained
    <3>2. pending \o chan = pending
      BY <2>1, <2>3, ConcatEmptySeq
    <3> QED BY <2>3, <3>1, <3>2 DEF Queue!qvars
  <2> QED BY <2>2, <2>3
<1>5. CASE Flush \/ (Finish /\ pending # <<>>)
  <2>1. /\ SendGroup /\ wpc # "exited" /\ Drained' = Drained
        /\ UNCHANGED <<running, chan, stopper>>
    BY <1>5 DEF Flush, Finish, Drained, pvars
  <2>2. CASE pending # <<>>
    BY <2>1, <2>2, HandsOver DEF Queue!QNext
  <2>3. CASE pending = <<>>
    <3>1. pending' = pending /\ taken' = taken
      <4>1. GroupLen = 0 /\ Len(pending) = 0
        BY <2>3, GroupMaxAssumption DEF GroupLen
      <4>2. pending' = SubSeq(pending, 1, 0) /\ taken' = taken \o SubSeq(pending, 1, 0)
        BY <2>1, <4>1 DEF SendGroup
      <4>3. SubSeq(pending, 1, 0) = <<>>
        BY SubSeqEmpty
      <4> QED BY <2>3, <4>2, <4>3, ConcatEmptySeq DEF TypeOK
    <3> QED BY <2>1, <3>1 DEF Queue!qvars
  <2> QED BY <2>2, <2>3
<1>6. CASE Finish /\ pending = <<>>
  <2>1. Queue!DropLate
    BY <1>6 DEF Finish, Shutdown, Drained, pvars, Queue!DropLate
  <2> QED BY <2>1 DEF Queue!QNext
<1>7. CASE StopRunner
  <2>1. CASE running
    BY <1>7, <2>1 DEF StopRunner, pvars, history, Drained, Queue!QNext, Queue!TellToStop
  <2>2. CASE ~running
    BY <1>7, <2>2 DEF StopRunner, pvars, history, Drained, Queue!qvars, TypeOK
  <2> QED BY <2>1, <2>2
<1>8. CASE Joined
  <2>1. Queue!ReturnFromStop
    BY <1>8 DEF Joined, pvars, history, Shutdown, Drained, Queue!ReturnFromStop
  <2> QED BY <2>1 DEF Queue!QNext
<1> QED BY <1>1, <1>2, <1>3, <1>4, <1>5, <1>6, <1>7, <1>8 DEF Next, Worker

-----------------------------------------------------------------------------
(* Theorems.                                                                *)

\* The runner's state keeps its types: the channel within its capacity, and a
\* producer inside send only with a call it has begun.
THEOREM TypeCorrect == Spec => []TypeOK
BY Invariant, PTL DEF IInv

\* Between enqueue and SendInput no event is lost, duplicated or overtaken, as
\* long as the worker lives.
THEOREM ConservedHolds == Spec => []Conserved
BY Invariant, PTL DEF IInv

\* While the runner runs, its worker never holds more than one group.
THEOREM PendingBoundedHolds == Spec => []PendingBounded
BY Invariant, PTL DEF IInv

\* The runner is a queue that hands over, in order and exactly once, whatever
\* it accepted before it was told to stop, and hands it over before stop
\* returns.
THEOREM Refinement == Spec => ImplementsQueue
<1>1. Init => Queue!QInit
  BY ConcatEmptySeq DEF Init, Queue!QInit, Drained
<1>2. IInv /\ [Next]_vars => [Queue!QNext]_(Queue!qvars)
  BY RefinementStep
<1> QED BY <1>1, <1>2, Invariant, PTL DEF Spec, ImplementsQueue, Queue!QSpec
=============================================================================

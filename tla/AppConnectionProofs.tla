------------------------ MODULE AppConnectionProofs ------------------------
(***************************************************************************)
(* Proofs about AppConnection: its types, the ownership of the host, what  *)
(* the core believes of the control, the order of the close sequence and   *)
(* that it goes on, for any hosts, any capacity of the channel and any     *)
(* requests.                                                               *)
(***************************************************************************)
EXTENDS AppConnection, TLAPS

-----------------------------------------------------------------------------
(* The channel.                                                             *)

EventsOK ==
  /\ queue \in Seq(Events) /\ Len(queue) <= QueueCap
  /\ cur \in Events \cup {NoEvent}

LEMMA EventsAre ==
  /\ \A k \in Plain : Event(k) \in Events /\ Event(k).step = 0
  /\ \A n \in Steps : Close(n) \in Events /\ Close(n).step = n
  /\ NoEvent.step = 0
  /\ \A e \in Events : e.step \in 0..8
BY DEF Events, Event, Close, NoEvent, Steps

\* A post leaves in the channel what was there, and at most the event posted.
LEMMA PostGives ==
  ASSUME queue \in Seq(Events), Len(queue) <= QueueCap, NEW e \in Events, Post(e)
  PROVE  /\ queue' \in Seq(Events) /\ Len(queue') <= QueueCap
         /\ InChannel' \subseteq InChannel \cup {e}
<1>1. CASE queue' = queue
  BY <1>1 DEF InChannel
<1>2. CASE queue' = Append(queue, e) /\ Len(queue) < QueueCap
  BY <1>2, QueueCapAssumption DEF InChannel
<1> QED
  BY <1>1, <1>2 DEF Post

\* The event loop takes one of the events that were posted.
LEMMA RecvGives ==
  ASSUME EventsOK, Recv
  PROVE  EventsOK' /\ Pending' \subseteq Pending
<1>1. queue \in Seq(Events) /\ queue # <<>> /\ cur' = queue[1] /\ queue' = Tail(queue)
  BY DEF EventsOK, Recv
<1>2. cur' \in Events /\ cur' \in InChannel
  BY <1>1 DEF InChannel
<1>3. queue' \in Seq(Events) /\ Len(queue') <= QueueCap
  BY <1>1, QueueCapAssumption DEF EventsOK
<1>4. InChannel' \subseteq InChannel
  BY <1>1 DEF InChannel
<1> QED
  BY <1>2, <1>3, <1>4 DEF EventsOK, Pending

\* What a step adds to the pending events: nothing, an event of a single step,
\* or the first or the next step of a close sequence.
LEMMA PendingStep ==
  ASSUME EventsOK, [Next]_vars
  PROVE  /\ EventsOK'
         /\ \A e \in Pending' :
              \/ e \in Pending \/ e.step \in {0, 1}
              \/ \E n \in Steps : OnClose(n) /\ n # 8 /\ e = Close(n + 1)
<1>1. CASE Recv
  BY <1>1, RecvGives
<1>2. ASSUME cur' \in {cur, NoEvent}, NoPost \/ UNCHANGED queue
      PROVE  EventsOK' /\ \A e \in Pending' : e \in Pending \/ e.step = 0
  BY <1>2, EventsAre DEF NoPost, EventsOK, Pending, InChannel
<1>3. ASSUME cur' \in {cur, NoEvent}, NEW e \in Events, Post(e)
      PROVE  EventsOK' /\ \A d \in Pending' : d \in Pending \/ d.step = 0 \/ d = e
  BY <1>3, PostGives, EventsAre DEF EventsOK, Pending
<1>4. ASSUME cur' \in {cur, NoEvent}, NEW k \in Plain, Post(Event(k))
      PROVE  EventsOK' /\ \A d \in Pending' : d \in Pending \/ d.step = 0
  BY <1>3, <1>4, EventsAre
<1>5. CASE Request \/ TickPost \/ OnConnect
  <2>1. /\ cur' \in {cur, NoEvent}
        /\ \E k \in Plain : Post(Event(k))
    BY <1>5, RequestsAssumption DEF Request, TickPost, OnConnect, Handle, Plain
  <2> QED
    BY <2>1, <1>4
<1>6. ASSUME NEW h \in Hosts, Control(h)
      PROVE  EventsOK' /\ \A d \in Pending' : d \in Pending \/ d.step = 0
  <2>1. cur' = cur /\ \E k \in Plain : Post(Event(k))
    BY <1>6 DEF Control, ControlConnected, ControlDisconnected, ControlFatal, Emits, Plain, Rdp
  <2> QED
    BY <2>1, <1>4
<1>7. CASE OnExit
  <2>1. Close(1) \in Events /\ Close(1).step = 1
    BY EventsAre DEF Steps
  <2> QED
    BY <1>3, <1>7, <2>1 DEF OnExit, Handle
<1>8. ASSUME NEW n \in Steps, OnClose(n)
      PROVE  /\ EventsOK'
             /\ \A e \in Pending' : e \in Pending \/ e.step = 0 \/ (n # 8 /\ e = Close(n + 1))
  <2>1. CASE n = 8
    BY <1>2, <1>8, <2>1 DEF OnClose, Handle
  <2>2. CASE n # 8
    <3>1. Close(n + 1) \in Events
      BY <2>2, EventsAre DEF Steps
    <3> QED
      BY <1>3, <1>8, <2>2, <3>1 DEF OnClose, Handle, NextStep
  <2> QED
    BY <2>1, <2>2
<1>9. CASE \/ TickTest \/ Ended \/ UNCHANGED vars
           \/ OnConnectBusy \/ OnDoConnectIdle \/ OnDoConnectOk \/ OnDoConnectFails
           \/ OnDisconnect \/ OnRdpConnected \/ OnRdpEnded \/ OnStatusTick \/ OnOther
  <2>1. cur' \in {cur, NoEvent} /\ (NoPost \/ UNCHANGED queue)
    BY <1>9 DEF TickTest, Ended, vars, OnConnectBusy, OnDoConnectIdle, OnDoConnectOk,
                OnDoConnectFails, OnDisconnect, OnRdpConnected, OnRdpEnded, OnStatusTick,
                OnOther, Handle
  <2> QED
    BY <1>2, <2>1
<1> QED
  BY <1>1, <1>5, <1>6, <1>7, <1>8, <1>9 DEF Next, EventLoop

-----------------------------------------------------------------------------
(* The close sequence.                                                      *)

ClosingFlags == tray \in BOOLEAN /\ tick \in BOOLEAN /\ quit \in BOOLEAN

\* What a step does to the tray, to the ticker's flag and to the message loop.
LEMMA ClosingStep ==
  ASSUME [Next]_vars
  PROVE  \/ UNCHANGED <<tray, tick, quit>>
         \/ \E n \in Steps : OnClose(n)
BY DEF Next, EventLoop, Control, Recv, Request, TickTest, TickPost, Ended, vars, closing,
       ticker, OnConnectBusy, OnConnect, OnDoConnectIdle, OnDoConnectOk, OnDoConnectFails,
       OnDisconnect, OnRdpConnected, OnRdpEnded, OnStatusTick, OnExit, OnOther,
       ControlConnected, ControlDisconnected, ControlFatal, Emits

LEMMA CloseInOrderStep ==
  ASSUME EventsOK, ClosingFlags, CloseInOrder, [Next]_vars
  PROVE  ClosingFlags' /\ CloseInOrder'
<1>1. \A e \in Pending' :
        \/ e \in Pending \/ e.step \in {0, 1}
        \/ \E n \in Steps : OnClose(n) /\ n # 8 /\ e = Close(n + 1)
  BY PendingStep
<1>2. CASE UNCHANGED <<tray, tick, quit>> /\ ~\E n \in Steps : OnClose(n)
  <2>1. ClosingFlags'
    BY Zenon, <1>2 DEF ClosingFlags
  <2>2. \A e \in Pending' : e \in Pending \/ ~(e.step > 2 \/ e.step > 3)
    BY <1>1, <1>2
  <2>3. CloseInOrder'
    BY Zenon, <1>2, <2>2 DEF CloseInOrder
  <2> QED
    BY <2>1, <2>3
<1>3. ASSUME NEW n \in Steps, OnClose(n) PROVE ClosingFlags' /\ CloseInOrder'
  <2>1. /\ cur \in Pending /\ cur.step = n
        /\ tray' = (tray /\ n # 2) /\ tick' = (tick /\ n # 3) /\ quit' = (quit \/ n = 8)
    BY <1>3 DEF OnClose, Pending
  <2>2. ClosingFlags'
    BY Zenon, <2>1 DEF ClosingFlags
  <2>3. (n > 2 => ~tray) /\ (n > 3 => ~tick)
    BY <2>1 DEF CloseInOrder
  <2>4. \A e \in Pending' : e \in Pending \/ ~(e.step > 2 \/ e.step > 3) \/ e = Close(n + 1)
    <3>1. \A m \in Steps : OnClose(m) => m = n
      BY <2>1 DEF OnClose
    <3> QED
      BY <1>1, <3>1
  <2>5. (n + 1 > 2 => n = 2 \/ n > 2) /\ (n + 1 > 3 => n = 3 \/ n > 3) /\ (n = 8 => n > 2 /\ n > 3)
    BY DEF Steps
  <2>6. Close(n + 1).step = n + 1
    BY DEF Close
  <2>7. (tray' => tray) /\ (tick' => tick) /\ (n = 2 => ~tray') /\ (n = 3 => ~tick')
    BY Zenon, <2>1
  <2>8. ASSUME NEW e \in Pending' PROVE (e.step > 2 => ~tray') /\ (e.step > 3 => ~tick')
    <3>1. CASE e \in Pending
      BY Zenon, <2>7, <3>1 DEF CloseInOrder
    <3>2. CASE e = Close(n + 1)
      BY Zenon, <2>3, <2>5, <2>6, <2>7, <3>2
    <3>3. CASE ~(e.step > 2 \/ e.step > 3)
      BY Zenon, <3>3
    <3> QED
      BY Zenon, <2>4, <3>1, <3>2, <3>3
  <2>9. quit' => ~tray' /\ ~tick'
    BY Zenon, <2>1, <2>3, <2>5, <2>7 DEF CloseInOrder
  <2> QED
    BY Zenon, <2>2, <2>8, <2>9 DEF CloseInOrder
<1> QED
  BY <1>2, <1>3, ClosingStep

-----------------------------------------------------------------------------
(* The host.                                                                *)

HostFlags ==
  /\ connecting \in BOOLEAN /\ params \in BOOLEAN /\ armed \in BOOLEAN
  /\ lost \in BOOLEAN /\ overlap \in BOOLEAN
HostValues ==
  /\ state \in States
  /\ host \in Hosts \cup {NoHost}
  /\ host # NoHost => kind[host] # "unborn"
  /\ snapshot \in Hosts \cup {NoHost}
  /\ kind \in [Hosts -> Kinds]
  /\ session \in [Hosts -> Sessions]
  /\ \A h \in Hosts : kind[h] # "native" => session[h] = "idle"
  /\ freed \subseteq {h \in Hosts : kind[h] # "unborn"}

AppInv ==
  /\ EventsOK /\ ClosingFlags /\ HostFlags /\ HostValues
  /\ OwnsHost /\ CloseInOrder

LEMMA AppInvTypes == AppInv => TypeOK
<1> SUFFICES ASSUME AppInv PROVE TypeOK
  OBVIOUS
<1>1. {connecting, params, tray, tick, armed, quit, lost, overlap} \subseteq BOOLEAN
  BY Zenon DEF AppInv, ClosingFlags, HostFlags
<1> QED
  BY Zenon, <1>1 DEF AppInv, EventsOK, HostValues, TypeOK

LEMMA AppInitInv == Init => AppInv
<1> SUFFICES ASSUME Init PROVE AppInv
  OBVIOUS
<1>1. ClosingFlags /\ HostFlags
  BY Zenon DEF Init, ClosingFlags, HostFlags
<1>2. EventsOK
  BY QueueCapAssumption DEF Init, EventsOK
<1>3. HostValues
  BY DEF Init, HostValues, States, Kinds, Sessions
<1>4. OwnsHost
  BY DEF Init, OwnsHost
<1>5. CloseInOrder
  BY DEF Init, CloseInOrder, Pending, InChannel, NoEvent, Event
<1> QED
  BY <1>1, <1>2, <1>3, <1>4, <1>5 DEF AppInv

LEMMA HostFlagsStep == ASSUME HostFlags, [Next]_vars PROVE HostFlags'
BY Zenon DEF HostFlags, Next, EventLoop, Control, Recv, Request, TickTest, TickPost, Ended,
             vars, conn, ptrs, ticker, OnConnectBusy, OnConnect, OnDoConnectIdle,
             OnDoConnectOk, OnDoConnectFails, OnDisconnect, OnRdpConnected, OnRdpEnded,
             OnStatusTick, OnExit, OnOther, OnClose, ControlConnected, ControlDisconnected,
             ControlFatal, Emits, Post, NoPost, TakeParams, NextStep

\* The parts of the state a host step looks at.
hostVars == <<state, host, params, snapshot, kind, session, freed>>
HostInv == HostValues /\ OwnsHost

\* RdpHost::disconnect touches the control in use, which was told to connect.
LEMMA DisconnectKeeps ==
  ASSUME HostValues, OwnsHost, DisconnectHost, UNCHANGED <<host, kind, params>>
  PROVE  /\ session' \in [Hosts -> Sessions]
         /\ \A h \in Hosts : kind'[h] # "native" => session'[h] = "idle"
         /\ params' /\ host' # NoHost => session'[host'] = "idle"
<1>1. CASE UNCHANGED session
  BY <1>1 DEF HostValues, OwnsHost
<1>2. CASE /\ host # NoHost /\ session[host] \in {"connecting", "live"}
           /\ session' = [session EXCEPT ![host] = "leaving"]
  <2>1. ~params
    BY <1>2 DEF OwnsHost
  <2>2. ~params'
    BY <2>1
  <2>3. /\ session' \in [Hosts -> Sessions]
        /\ \A h \in Hosts : kind'[h] # "native" => session'[h] = "idle"
    BY <1>2 DEF HostValues, Sessions, Active
  <2> QED
    BY Zenon, <2>2, <2>3
<1> QED
  BY <1>1, <1>2 DEF DisconnectHost

LEMMA HostStep == ASSUME HostInv, [Next]_vars PROVE HostInv'
<1> USE DEF HostInv
<1>1. CASE UNCHANGED hostVars
  BY <1>1 DEF hostVars, HostValues, OwnsHost
<1>2. CASE OnConnect
  <2>1. PICK h \in Hosts, k \in Kinds \ {"unborn"} :
          /\ kind[h] = "unborn"
          /\ kind' = [kind EXCEPT ![h] = k]
          /\ host' = h
    BY <1>2 DEF OnConnect
  <2>2. UNCHANGED <<snapshot, session, freed>> /\ state' = "Connecting"
    BY <1>2 DEF OnConnect, closing
  <2>3. session[h] = "idle" /\ h \notin freed
    BY <2>1 DEF HostValues
  <2>4. HostValues'
    BY <2>1, <2>2 DEF HostValues, States
  <2>5. OwnsHost'
    BY <2>1, <2>2, <2>3 DEF OwnsHost
  <2> QED
    BY <2>4, <2>5
<1>3. CASE OnDoConnectIdle
  <2> USE <1>3 DEF OnDoConnectIdle, conn, controls, closing
  <2>1. params' => host = NoHost \/ params
    OBVIOUS
  <2>2. HostValues'
    BY DEF HostValues
  <2>3. OwnsHost'
    BY <2>1 DEF OwnsHost
  <2> QED
    BY <2>2, <2>3
<1>4. CASE OnDoConnectOk
  <2> USE <1>4 DEF OnDoConnectOk, TakeParams, conn, closing
  <2>1. HostValues'
    BY DEF HostValues, Sessions, Active
  <2>2. OwnsHost'
    BY DEF OwnsHost
  <2> QED
    BY <2>1, <2>2
<1>5. CASE OnDoConnectFails
  <2> USE <1>5 DEF OnDoConnectFails, TakeParams, controls, closing
  <2>1. HostValues'
    BY DEF HostValues, States
  <2>2. OwnsHost'
    BY DEF OwnsHost
  <2> QED
    BY <2>1, <2>2
<1>6. CASE OnRdpConnected \/ OnRdpEnded
  <2> USE <1>6 DEF OnRdpConnected, OnRdpEnded, ptrs, controls, closing
  <2>1. HostValues'
    BY DEF HostValues, States
  <2>2. OwnsHost'
    BY DEF OwnsHost
  <2> QED
    BY <2>1, <2>2
<1>7. CASE OnStatusTick
  <2> USE <1>7 DEF OnStatusTick, ptrs, controls, closing
  <2>1. state' \in States
    BY DEF HostValues, States
  <2>2. HostValues'
    BY <2>1 DEF HostValues
  <2>3. OwnsHost'
    BY DEF OwnsHost
  <2> QED
    BY <2>1, <2>2, <2>3
<1>8. CASE OnDisconnect
  <2> USE <1>8 DEF OnDisconnect, ptrs, closing
  <2>1. HostValues' /\ OwnsHost'
    BY DisconnectKeeps DEF HostValues, OwnsHost, States
  <2> QED
    BY <2>1
<1>9. ASSUME NEW h \in Hosts, Control(h) PROVE HostInv'
  <2>1. PICK to \in Sessions :
          /\ session[h] # "idle" /\ session' = [session EXCEPT ![h] = to]
          /\ UNCHANGED <<state, host, params, snapshot, kind, freed>>
    BY <1>9 DEF Control, ControlConnected, ControlDisconnected, ControlFatal, Emits, Active,
                Sessions, conn, ptrs, closing
  <2>2. HostValues'
    BY <2>1 DEF HostValues
  <2>3. OwnsHost'
    BY <2>1 DEF OwnsHost, HostValues
  <2> QED
    BY <2>2, <2>3
<1>10. ASSUME NEW n \in Steps, OnClose(n) PROVE HostInv'
  <2>1. /\ UNCHANGED <<state, params, snapshot, kind>>
        /\ IF n = 1 THEN DisconnectHost ELSE UNCHANGED session
        /\ IF n = 6 THEN FreeHost ELSE UNCHANGED <<freed, host>>
    BY <1>10 DEF OnClose, conn
  <2>2. CASE n = 6
    BY <2>1, <2>2, NoHostAssumption DEF FreeHost, HostValues, OwnsHost
  <2>3. CASE n # 6
    BY <2>1, <2>3, DisconnectKeeps DEF HostValues, OwnsHost
  <2> QED
    BY <2>2, <2>3
<1>11. CASE \/ Recv \/ Request \/ TickTest \/ TickPost \/ OnConnectBusy \/ OnExit \/ OnOther
            \/ Ended \/ UNCHANGED vars
  <2>1. UNCHANGED hostVars
    BY <1>11 DEF Recv, Request, TickTest, TickPost, OnConnectBusy, OnExit, OnOther, Ended,
                 vars, conn, ptrs, controls, closing, hostVars
  <2> QED
    BY <1>1, <2>1
<1> HIDE DEF HostInv
<1> QED
  BY <1>2, <1>3, <1>4, <1>5, <1>6, <1>7, <1>8, <1>9, <1>10, <1>11 DEF Next, EventLoop

LEMMA AppStepInv == AppInv /\ [Next]_vars => AppInv'
BY PendingStep, CloseInOrderStep, HostFlagsStep, HostStep DEF AppInv, HostInv

LEMMA AppAlways == Spec => []AppInv
BY AppInitInv, AppStepInv, PTL DEF Spec

\* The core keeps its types.
THEOREM TypeCorrect == Spec => []TypeOK
BY AppAlways, AppInvTypes, PTL

\* No freed host is used and no control is told to connect twice, for any number
\* of hosts, any capacity of the channel and any order of the events.
THEOREM OwnsHostHolds == Spec => []OwnsHost
<1>1. AppInv => OwnsHost
  BY DEF AppInv
<1> QED
  BY <1>1, AppAlways, PTL

\* The close sequence runs in its order, however many exits are under way and
\* whatever the channel drops.
THEOREM CloseInOrderHolds == Spec => []CloseInOrder
<1>1. AppInv => CloseInOrder
  BY DEF AppInv
<1> QED
  BY <1>1, AppAlways, PTL

-----------------------------------------------------------------------------
(* What the core believes.  As long as nothing disturbs it, the RdpEvents   *)
(* on their way are those of the host in use, and the last of them tells    *)
(* what the control behind it is in.                                        *)

Endings == {"RdpDisconnected", "RdpFatalError"}

\* The last RdpEvent that is not handled yet is one of these kinds.
LastRdp(kinds) ==
  \/ \E i \in 1..Len(queue) :
       /\ queue[i].kind \in kinds
       /\ \A j \in (i + 1)..Len(queue) : queue[j].kind \notin Rdp
  \/ /\ cur.kind \in kinds
     /\ \A j \in 1..Len(queue) : queue[j].kind \notin Rdp

\* A control that was not told to connect, or has not answered, has told nothing.
Untold(h) ==
  session[h] \in {"idle", "connecting"} => Settled /\ state # "Connected"
\* That a control went live, or ended, is what the core believes or is about to be
\* told last.
TellsLive(h) ==
  session[h] = "live" =>
    LastRdp({"RdpConnected"}) \/ (Settled /\ state \in {"Connected", "Disconnecting"})
TellsEnd(h) ==
  session[h] = "ended" => LastRdp(Endings) \/ (Settled /\ state # "Connected")

TruthCore ==
  /\ \A h \in Hosts : h # host => session[h] \in {"idle", "ended"}
  /\ host = NoHost => Settled /\ state # "Connected"
  /\ host # NoHost => Untold(host) /\ TellsLive(host) /\ TellsEnd(host)
  /\ connecting /\ Settled => AttemptPending
TruthInv == Undisturbed => TruthCore

\* What a step does to the RdpEvents on their way, and to the DoConnect.
TellsSame ==
  /\ Settled' <=> Settled
  /\ LastRdp({"RdpConnected"}) => LastRdp({"RdpConnected"})'
  /\ LastRdp(Endings) => LastRdp(Endings)'
AttemptKept == Event("DoConnect") \in Pending => Event("DoConnect") \in Pending'

LEMMA NoEventIs ==
  /\ NoEvent.kind = "none" /\ "none" \notin Rdp /\ NoEvent # Event("DoConnect")
  /\ \A k \in Plain : Event(k).kind = k
  /\ \A n \in Steps : Close(n).kind = "CloseSequence"
BY DEF NoEvent, Event, Close, Rdp

LEMMA SettledIs ==
  ASSUME queue \in Seq(Events)
  PROVE  Settled <=> cur.kind \notin Rdp /\ \A i \in 1..Len(queue) : queue[i].kind \notin Rdp
BY DEF Settled, Pending, InChannel

\* An event that is lost leaves a trace.
LEMMA PostAppends ==
  ASSUME NEW e, Post(e), ~lost' PROVE queue' = Append(queue, e)
BY Zenon DEF Post

LEMMA InChannelAppends ==
  ASSUME queue \in Seq(Events), NEW e \in Events, queue' = Append(queue, e)
  PROVE  /\ queue' \in Seq(Events)
         /\ Len(queue') = Len(queue) + 1 /\ Len(queue) \in Nat /\ queue'[Len(queue) + 1] = e
         /\ \A i \in 1..Len(queue) : queue'[i] = queue[i]
         /\ InChannel' = InChannel \cup {e}
<1>1. /\ queue' \in Seq(Events)
      /\ Len(queue') = Len(queue) + 1 /\ Len(queue) \in Nat /\ queue'[Len(queue) + 1] = e
      /\ \A i \in 1..Len(queue) : queue'[i] = queue[i]
  OBVIOUS
<1>2. InChannel' = InChannel \cup {e}
  BY <1>1 DEF InChannel
<1> QED
  BY <1>1, <1>2

\* Handling, or posting, an event that is no RdpEvent.
LEMMA HandlesOther ==
  ASSUME EventsOK, cur' \in {cur, NoEvent}, cur'.kind \notin Rdp => cur.kind \notin Rdp,
         queue' = queue
  PROVE  TellsSame /\ (cur # Event("DoConnect") \/ cur' = cur => AttemptKept)
<1>1. cur'.kind \in Rdp <=> cur.kind \in Rdp
  BY NoEventIs
<1>2. cur.kind \in Rdp => cur' = cur
  BY NoEventIs
<1>3. Settled' <=> Settled
  <2>1. Settled' <=> cur'.kind \notin Rdp /\ \A i \in 1..Len(queue) : queue[i].kind \notin Rdp
    BY DEF Settled, Pending, InChannel, EventsOK
  <2> QED
    BY <1>1, <2>1, SettledIs DEF EventsOK
<1>4. ASSUME NEW K \in SUBSET Rdp, LastRdp(K) PROVE LastRdp(K)'
  BY <1>2, <1>4 DEF LastRdp
<1>5. LastRdp({"RdpConnected"}) => LastRdp({"RdpConnected"})'
  BY <1>4 DEF Rdp
<1>6. LastRdp(Endings) => LastRdp(Endings)'
  BY <1>4 DEF Rdp, Endings
<1>7. cur # Event("DoConnect") \/ cur' = cur => AttemptKept
  BY DEF AttemptKept, Pending, InChannel
<1> QED
  BY <1>3, <1>5, <1>6, <1>7 DEF TellsSame

LEMMA PostsOther ==
  ASSUME EventsOK, NEW e \in Events, e.kind \notin Rdp, queue' = Append(queue, e),
         cur' \in {cur, NoEvent}, cur'.kind \notin Rdp => cur.kind \notin Rdp
  PROVE  TellsSame /\ (cur # Event("DoConnect") \/ cur' = cur => AttemptKept)
<1> DEFINE m == Len(queue)
<1>1. cur'.kind \in Rdp <=> cur.kind \in Rdp
  BY NoEventIs
<1>2. cur.kind \in Rdp => cur' = cur
  BY NoEventIs
<1>3. /\ Len(queue') = m + 1 /\ m \in Nat /\ queue'[m + 1] = e /\ queue' \in Seq(Events)
      /\ \A i \in 1..m : queue'[i] = queue[i]
      /\ InChannel' = InChannel \cup {e}
  BY InChannelAppends DEF EventsOK
<1> HIDE DEF m
<1>4. (\A i \in 1..Len(queue') : queue'[i].kind \notin Rdp)
        <=> \A i \in 1..m : queue[i].kind \notin Rdp
  BY <1>3
<1>5. Settled' <=> Settled
  <2>1. Settled <=> cur.kind \notin Rdp /\ \A i \in 1..m : queue[i].kind \notin Rdp
    BY SettledIs DEF EventsOK, m
  <2>2. Settled' <=> cur'.kind \notin Rdp /\ \A i \in 1..Len(queue') : queue'[i].kind \notin Rdp
    BY <1>3 DEF Settled, Pending, InChannel
  <2> QED
    BY <1>1, <1>4, <2>1, <2>2
<1>6. ASSUME NEW K \in SUBSET Rdp, LastRdp(K) PROVE LastRdp(K)'
  <2>1. ASSUME NEW i \in 1..m, queue[i].kind \in K,
               \A j \in (i + 1)..m : queue[j].kind \notin Rdp
        PROVE  LastRdp(K)'
    <3>1. i \in 1..Len(queue') /\ queue'[i].kind \in K
      BY <1>3, <2>1
    <3>2. \A j \in (i + 1)..Len(queue') : queue'[j].kind \notin Rdp
      BY <1>3, <2>1
    <3> QED
      BY <3>1, <3>2 DEF LastRdp
  <2>2. CASE cur.kind \in K /\ \A j \in 1..m : queue[j].kind \notin Rdp
    BY <1>2, <1>4, <2>2 DEF LastRdp
  <2> QED
    BY <1>6, <2>1, <2>2 DEF LastRdp, m
<1>7. LastRdp({"RdpConnected"}) => LastRdp({"RdpConnected"})'
  BY <1>6 DEF Rdp
<1>8. LastRdp(Endings) => LastRdp(Endings)'
  BY <1>6 DEF Rdp, Endings
<1>9. cur # Event("DoConnect") \/ cur' = cur => AttemptKept
  BY <1>3 DEF AttemptKept, Pending
<1> QED
  BY <1>5, <1>7, <1>8, <1>9 DEF TellsSame

\* Taking an event from the channel.
LEMMA TakesNext == ASSUME EventsOK, Recv PROVE TellsSame /\ AttemptKept
<1> DEFINE m == Len(queue)
<1>1. /\ queue \in Seq(Events) /\ queue # <<>> /\ cur = NoEvent
      /\ cur' = queue[1] /\ queue' = Tail(queue)
  BY DEF EventsOK, Recv
<1>2. /\ m \in Nat \ {0} /\ Len(queue') = m - 1 /\ queue' \in Seq(Events)
      /\ \A i \in 1..(m - 1) : queue'[i] = queue[i + 1]
  BY <1>1
<1> HIDE DEF m
<1>3. cur.kind \notin Rdp /\ cur # Event("DoConnect")
  BY <1>1, NoEventIs
<1>4. Settled' <=> Settled
  <2>1. Settled <=> \A i \in 1..m : queue[i].kind \notin Rdp
    BY <1>1, <1>3, SettledIs DEF m
  <2>2. Settled' <=> cur'.kind \notin Rdp /\ \A i \in 1..(m - 1) : queue'[i].kind \notin Rdp
    BY <1>2 DEF Settled, Pending, InChannel
  <2>3. (\A i \in 1..m : queue[i].kind \notin Rdp)
          <=> queue[1].kind \notin Rdp /\ \A i \in 1..(m - 1) : queue[i + 1].kind \notin Rdp
    <3>1. \A i \in 1..m : i = 1 \/ (i - 1 \in 1..(m - 1) /\ (i - 1) + 1 = i)
      BY <1>2
    <3>2. 1 \in 1..m /\ \A i \in 1..(m - 1) : i + 1 \in 1..m
      BY <1>2
    <3> QED
      BY <3>1, <3>2
  <2> QED
    BY <1>1, <1>2, <2>1, <2>2, <2>3
<1>5. ASSUME NEW K \in SUBSET Rdp, LastRdp(K) PROVE LastRdp(K)'
  <2>1. PICK i \in 1..m : /\ queue[i].kind \in K
                          /\ \A j \in (i + 1)..m : queue[j].kind \notin Rdp
    BY <1>3, <1>5 DEF LastRdp, m
  <2>2. CASE i = 1
    <3>1. cur'.kind \in K
      BY <1>1, <2>1, <2>2
    <3>2. ASSUME NEW j \in 1..Len(queue') PROVE queue'[j].kind \notin Rdp
      <4>1. j \in 1..(m - 1) /\ j + 1 \in (i + 1)..m
        BY <1>2, <2>2
      <4> QED
        BY <1>2, <2>1, <4>1
    <3> QED
      BY <3>1, <3>2 DEF LastRdp
  <2>3. CASE i # 1
    <3>1. i - 1 \in 1..Len(queue') /\ queue'[i - 1] = queue[i]
      <4>1. i - 1 \in 1..(m - 1) /\ (i - 1) + 1 = i
        BY <1>2, <2>3
      <4> QED
        BY <1>2, <4>1
    <3>2. ASSUME NEW j \in ((i - 1) + 1)..Len(queue') PROVE queue'[j].kind \notin Rdp
      <4>1. j \in 1..(m - 1) /\ j + 1 \in (i + 1)..m
        BY <1>2
      <4> QED
        BY <1>2, <2>1, <4>1
    <3> QED
      BY <2>1, <3>1, <3>2 DEF LastRdp
  <2> QED
    BY <2>2, <2>3
<1>6. LastRdp({"RdpConnected"}) => LastRdp({"RdpConnected"})'
  BY <1>5 DEF Rdp
<1>7. LastRdp(Endings) => LastRdp(Endings)'
  BY <1>5 DEF Rdp, Endings
<1>8. AttemptKept
  <2>1. InChannel \subseteq InChannel' \cup {cur'}
    <3>1. \A i \in 1..m : i = 1 \/ (i - 1 \in 1..(m - 1) /\ (i - 1) + 1 = i)
      BY <1>2
    <3>2. \A i \in 1..m : i = 1 \/ (i - 1 \in 1..Len(queue') /\ queue[i] = queue'[i - 1])
      BY <1>2, <3>1
    <3>3. DOMAIN queue = 1..m /\ DOMAIN queue' = 1..Len(queue')
      BY <1>1, <1>2 DEF m
    <3> QED
      BY <1>1, <3>2, <3>3 DEF InChannel
  <2> QED
    BY <1>3, <2>1 DEF AttemptKept, Pending
<1> QED
  BY <1>4, <1>6, <1>7, <1>8 DEF TellsSame

\* A control tells something: it is the last thing told.
LEMMA TellsNews ==
  ASSUME EventsOK, NEW k \in Rdp, queue' = Append(queue, Event(k)), cur' = cur
  PROVE  ~Settled' /\ \A K \in SUBSET Rdp : k \in K => LastRdp(K)'
<1>1. Event(k) \in Events /\ Event(k).kind = k
  BY EventsAre, NoEventIs DEF Plain
<1>2. /\ Len(queue') = Len(queue) + 1 /\ Len(queue) \in Nat
      /\ queue'[Len(queue) + 1] = Event(k) /\ queue' \in Seq(Events)
  BY <1>1, InChannelAppends DEF EventsOK
<1>3. Len(queue) + 1 \in 1..Len(queue')
  BY <1>2
<1>4. ~Settled'
  BY <1>1, <1>2, <1>3 DEF Settled, Pending, InChannel
<1>5. ASSUME NEW K \in SUBSET Rdp, k \in K PROVE LastRdp(K)'
  <2>1. \A j \in ((Len(queue) + 1) + 1)..Len(queue') : FALSE
    BY <1>2
  <2> QED
    BY <1>1, <1>2, <1>3, <1>5, <2>1 DEF LastRdp
<1> QED
  BY <1>4, <1>5

\* The core is told something.  What was told last still is, or that was it.
LEMMA IsTold ==
  ASSUME EventsOK, cur.kind \in Rdp, cur' = NoEvent, queue' = queue
  PROVE  \A K \in SUBSET Rdp : LastRdp(K) => \/ LastRdp(K)' /\ ~Settled'
                                             \/ Settled' /\ cur.kind \in K
<1> SUFFICES ASSUME NEW K \in SUBSET Rdp, LastRdp(K)
             PROVE  (LastRdp(K)' /\ ~Settled') \/ (Settled' /\ cur.kind \in K)
  OBVIOUS
<1>1. Settled' <=> \A i \in 1..Len(queue) : queue[i].kind \notin Rdp
  BY NoEventIs DEF Settled, Pending, InChannel, EventsOK
<1>2. CASE \E i \in 1..Len(queue) :
             queue[i].kind \in K /\ \A j \in (i + 1)..Len(queue) : queue[j].kind \notin Rdp
  BY <1>1, <1>2 DEF LastRdp
<1>3. CASE cur.kind \in K /\ \A j \in 1..Len(queue) : queue[j].kind \notin Rdp
  BY <1>1, <1>3
<1> QED
  BY <1>2, <1>3 DEF LastRdp

LEMMA NothingLast == ASSUME EventsOK, Settled, NEW K \in SUBSET Rdp PROVE ~LastRdp(K)
<1>1. cur.kind \notin Rdp /\ \A i \in 1..Len(queue) : queue[i].kind \notin Rdp
  BY SettledIs DEF EventsOK
<1> QED
  BY <1>1 DEF LastRdp

LEMMA TruthImplies == ASSUME AppInv, TruthInv PROVE BelievesTruth
<1> SUFFICES ASSUME Undisturbed, Settled
             PROVE  /\ state = "Connected" => host # NoHost /\ session[host] \in {"live", "leaving"}
                    /\ \A h \in Hosts :
                         session[h] = "live" => h = host /\ state \in {"Connected", "Disconnecting"}
                    /\ connecting => AttemptPending
  BY DEF BelievesTruth
<1>1. TruthCore /\ EventsOK /\ HostValues
  BY DEF TruthInv, AppInv
<1>2. ~LastRdp({"RdpConnected"}) /\ ~LastRdp(Endings)
  BY <1>1, NothingLast DEF Rdp, Endings
<1>3. state = "Connected" => host # NoHost /\ session[host] \in {"live", "leaving"}
  BY <1>1, <1>2 DEF TruthCore, Untold, TellsEnd, HostValues, Sessions, Active
<1>4. ASSUME NEW h \in Hosts, session[h] = "live"
      PROVE  h = host /\ state \in {"Connected", "Disconnecting"}
  <2>1. h = host /\ h # NoHost
    BY <1>1, <1>4, NoHostAssumption DEF TruthCore
  <2> QED
    BY <1>1, <1>2, <1>4, <2>1 DEF TruthCore, TellsLive
<1>5. connecting => AttemptPending
  BY Zenon, <1>1 DEF TruthCore
<1> QED
  BY <1>3, <1>4, <1>5

\* Steps that tell the core nothing and change no control.
LEMMA QuietTruth ==
  ASSUME TruthCore, TellsSame, AttemptKept,
         UNCHANGED <<state, connecting, host, params, session>>
  PROVE  TruthCore'
<1>1. AttemptPending => AttemptPending'
  BY DEF AttemptPending, AttemptKept
<1>2. connecting' /\ Settled' => AttemptPending'
  BY Zenon, <1>1 DEF TruthCore, TellsSame
<1>3. host # NoHost => Untold(host)' /\ TellsLive(host)' /\ TellsEnd(host)'
  BY DEF TruthCore, TellsSame, Untold, TellsLive, TellsEnd
<1> QED
  BY <1>2, <1>3 DEF TruthCore, TellsSame

LEMMA DisconnectTruth ==
  ASSUME TruthCore, TellsSame, AttemptKept, DisconnectHost, HostValues,
         UNCHANGED <<connecting, host, params>>, state' \in {state, "Disconnecting"}
  PROVE  TruthCore'
<1>1. CASE UNCHANGED session
  <2>1. AttemptPending => AttemptPending'
    BY <1>1 DEF AttemptPending, AttemptKept
  <2>2. connecting' /\ Settled' => AttemptPending'
    BY Zenon, <2>1 DEF TruthCore, TellsSame
  <2>3. host # NoHost => Untold(host)' /\ TellsLive(host)' /\ TellsEnd(host)'
    BY <1>1 DEF TruthCore, TellsSame, Untold, TellsLive, TellsEnd
  <2> QED
    BY <1>1, <2>2, <2>3 DEF TruthCore, TellsSame
<1>2. CASE /\ host # NoHost /\ session[host] \in {"connecting", "live"}
           /\ session' = [session EXCEPT ![host] = "leaving"]
  <2>1. host \in Hosts /\ session'[host] = "leaving" /\ host' = host
    BY <1>2 DEF HostValues
  <2>2. AttemptPending'
    BY <1>2, <2>1 DEF AttemptPending
  <2>3. Untold(host)' /\ TellsLive(host)' /\ TellsEnd(host)'
    BY <2>1 DEF Untold, TellsLive, TellsEnd
  <2>4. \A h \in Hosts : h # host => session'[h] \in {"idle", "ended"}
    BY <1>2 DEF TruthCore, HostValues
  <2> QED
    BY <1>2, <2>1, <2>2, <2>3, <2>4 DEF TruthCore
<1> QED
  BY <1>1, <1>2 DEF DisconnectHost

LEMMA LostStays == [Next]_vars => (lost => lost')
BY Zenon DEF Next, EventLoop, Control, Recv, Request, TickTest, TickPost, Ended,
             vars, conn, ptrs, ticker, OnConnectBusy, OnConnect, OnDoConnectIdle,
             OnDoConnectOk, OnDoConnectFails, OnDisconnect, OnRdpConnected, OnRdpEnded,
             OnStatusTick, OnExit, OnOther, OnClose, ControlConnected, ControlDisconnected,
             ControlFatal, Emits, Post, NoPost, NextStep

LEMMA StaysDisturbed == ASSUME [Next]_vars, Undisturbed' PROVE Undisturbed /\ ~lost'
<1>1. lost => lost'
  BY Zenon, LostStays
<1>2. overlap => overlap'
  BY Zenon DEF Next, EventLoop, Control, Recv, Request, TickTest, TickPost, Ended,
             vars, OnConnectBusy, OnConnect, OnDoConnectIdle,
             OnDoConnectOk, OnDoConnectFails, OnDisconnect, OnRdpConnected, OnRdpEnded,
             OnStatusTick, OnExit, OnOther, OnClose, ControlConnected, ControlDisconnected,
             ControlFatal, Emits
<1>3. freed \subseteq freed'
  BY DEF Next, EventLoop, Control, Recv, Request, TickTest, TickPost, Ended,
             vars, closing, OnConnectBusy, OnConnect, OnDoConnectIdle,
             OnDoConnectOk, OnDoConnectFails, OnDisconnect, OnRdpConnected, OnRdpEnded,
             OnStatusTick, OnExit, OnOther, OnClose, ControlConnected, ControlDisconnected,
             ControlFatal, Emits, FreeHost
<1>4. freed' = {} => freed = {}
  BY <1>3
<1> QED
  BY Zenon, <1>1, <1>2, <1>4 DEF Undisturbed

LEMMA TruthStep ==
  ASSUME AppInv, TruthInv, [Next]_vars, Undisturbed' PROVE TruthCore'
<1> USE DEF AppInv
<1>1. TruthCore /\ ~lost'
  BY Zenon, StaysDisturbed DEF TruthInv
<1>2. CASE Recv
  BY <1>1, <1>2, TakesNext, QuietTruth DEF Recv, conn, ptrs, controls
<1>3. ASSUME cur' = cur, UNCHANGED <<state, connecting, host, params, session>>,
             UNCHANGED queue \/ \E k \in Plain \ Rdp : Post(Event(k))
      PROVE  TruthCore'
  <2>1. CASE UNCHANGED queue
    BY <1>1, <1>3, <2>1, HandlesOther, QuietTruth
  <2>2. ASSUME NEW k \in Plain \ Rdp, Post(Event(k)) PROVE TruthCore'
    <3>1. queue' = Append(queue, Event(k))
      BY <1>1, <2>2, PostAppends
    <3>2. Event(k) \in Events /\ Event(k).kind \notin Rdp
      BY EventsAre, NoEventIs
    <3>3. TellsSame /\ AttemptKept
      BY <1>3, <3>1, <3>2, PostsOther
    <3> QED
      BY <1>1, <1>3, <3>3, QuietTruth
  <2> QED
    BY <1>3, <2>1, <2>2
<1>4. CASE Request \/ TickTest \/ TickPost \/ Ended \/ UNCHANGED vars
  <2>1. cur' = cur /\ UNCHANGED <<state, connecting, host, params, session>>
    BY <1>4 DEF Request, TickTest, TickPost, Ended, vars, conn, ptrs, controls
  <2>2. UNCHANGED queue \/ \E k \in Plain \ Rdp : Post(Event(k))
    BY <1>4, RequestsAssumption DEF Request, TickTest, TickPost, Ended, vars, Plain, Rdp
  <2> QED
    BY <1>3, <2>1, <2>2
\* A handler of an event that is no RdpEvent and posts nothing.
<1>5. ASSUME NEW k \in {"Connect", "DoConnect", "Disconnect", "StatusTick", "Other", "CloseSequence"},
             Handle(k), NoPost
      PROVE  TellsSame /\ (k # "DoConnect" => AttemptKept)
  <2>1. cur.kind \notin Rdp /\ cur' = NoEvent /\ queue' = queue
    BY <1>5 DEF Handle, NoPost, Rdp
  <2>2. k # "DoConnect" => cur # Event("DoConnect")
    BY <1>5 DEF Handle, Event
  <2> QED
    BY <2>1, <2>2, HandlesOther
<1>6. ASSUME NEW k \in {"Connect", "Exit", "CloseSequence"}, Handle(k),
             NEW e \in Events, e.kind \notin Rdp, Post(e)
      PROVE  TellsSame /\ AttemptKept /\ queue' = Append(queue, e)
  <2>1. cur.kind \notin Rdp /\ cur' = NoEvent
    BY <1>6 DEF Handle, Rdp
  <2>2. cur # Event("DoConnect")
    BY <1>6 DEF Handle, Event
  <2>3. queue' = Append(queue, e)
    BY <1>1, <1>6, PostAppends
  <2> QED
    BY <1>6, <2>1, <2>2, <2>3, PostsOther
<1>7. CASE OnConnectBusy \/ OnOther
  <2>1. TellsSame /\ AttemptKept
    BY <1>5, <1>7 DEF OnConnectBusy, OnOther
  <2> QED
    BY <1>1, <1>7, <2>1, QuietTruth DEF OnConnectBusy, OnOther, conn, ptrs, controls
<1>8. CASE OnExit
  <2>1. Close(1) \in Events /\ Close(1).kind \notin Rdp
    BY EventsAre, NoEventIs DEF Steps, Rdp
  <2>2. TellsSame /\ AttemptKept
    BY <1>6, <1>8, <2>1 DEF OnExit
  <2> QED
    BY <1>1, <1>8, <2>2, QuietTruth DEF OnExit, conn, ptrs, controls
<1>9. CASE OnConnect
  <2>1. PICK h \in Hosts, k \in Kinds \ {"unborn"} :
          /\ kind[h] = "unborn"
          /\ kind' = [kind EXCEPT ![h] = k]
          /\ host' = h
    BY <1>9 DEF OnConnect
  <2>2. Event("DoConnect") \in Events /\ Event("DoConnect").kind \notin Rdp
    BY EventsAre, NoEventIs DEF Plain, Rdp
  <2>3. TellsSame /\ queue' = Append(queue, Event("DoConnect"))
    BY <1>6, <1>9, <2>2 DEF OnConnect
  <2>4. ~(host # NoHost /\ session[host] \in Active) /\ ~\E e \in InChannel : e.kind \in Rdp
    BY Zenon, <1>9 DEF OnConnect, Undisturbed
  <2>5. cur.kind \notin Rdp /\ state' = "Connecting" /\ params' /\ UNCHANGED session
    BY <1>9 DEF OnConnect, Handle, Rdp
  <2>6. Settled'
    BY <2>3, <2>4, <2>5 DEF Settled, Pending, TellsSame
  <2>7. h # NoHost /\ session[h] = "idle"
    BY <2>1, NoHostAssumption DEF HostValues
  <2>8. Event("DoConnect") \in Pending'
    BY <2>2, <2>3, InChannelAppends DEF EventsOK, Pending
  <2>9. AttemptPending'
    BY <2>1, <2>5, <2>7, <2>8 DEF AttemptPending
  <2>10. \A g \in Hosts : g # h => session'[g] \in {"idle", "ended"}
    <3>1. host # NoHost => session[host] \in {"idle", "ended"}
      BY <2>4 DEF HostValues, Sessions
    <3> QED
      BY <1>1, <2>5, <3>1, NoHostAssumption DEF TruthCore
  <2>11. Untold(host)' /\ TellsLive(host)' /\ TellsEnd(host)'
    BY <2>1, <2>5, <2>6, <2>7 DEF Untold, TellsLive, TellsEnd
  <2> QED
    BY <2>1, <2>6, <2>7, <2>9, <2>10, <2>11 DEF TruthCore
<1>10. CASE OnDoConnectIdle
  <2>1. TellsSame
    BY <1>5, <1>10 DEF OnDoConnectIdle
  <2>2. UNCHANGED <<state, connecting, host, session>>
    BY <1>10 DEF OnDoConnectIdle, conn, controls
  <2>3. ASSUME connecting', Settled' PROVE AttemptPending'
    <3>1. AttemptPending
      BY Zenon, <1>1, <2>1, <2>2, <2>3 DEF TruthCore, TellsSame
    <3>2. ~params
      BY <1>10, <3>1 DEF AttemptPending, OnDoConnectIdle
    <3> QED
      BY <2>2, <3>1, <3>2 DEF AttemptPending
  <2>4. host # NoHost => Untold(host)' /\ TellsLive(host)' /\ TellsEnd(host)'
    BY <1>1, <2>1, <2>2 DEF TruthCore, TellsSame, Untold, TellsLive, TellsEnd
  <2> QED
    BY <1>1, <2>1, <2>2, <2>3, <2>4 DEF TruthCore, TellsSame
<1>11. CASE OnDoConnectOk
  <2>1. TellsSame
    BY <1>5, <1>11 DEF OnDoConnectOk
  <2>2. /\ UNCHANGED <<state, connecting, host>> /\ host \in Hosts /\ host # NoHost
        /\ session[host] = "idle" /\ session' = [session EXCEPT ![host] = "connecting"]
        /\ session'[host] = "connecting"
    BY <1>11 DEF OnDoConnectOk, conn, HostValues
  <2>3. Settled' /\ state' # "Connected"
    BY <1>1, <2>1, <2>2 DEF TruthCore, TellsSame, Untold
  <2>4. AttemptPending'
    BY <2>2 DEF AttemptPending
  <2>5. Untold(host)' /\ TellsLive(host)' /\ TellsEnd(host)'
    BY <2>2, <2>3 DEF Untold, TellsLive, TellsEnd
  <2> QED
    BY <1>1, <2>2, <2>4, <2>5 DEF TruthCore, HostValues
<1>12. CASE OnDoConnectFails
  <2>1. TellsSame
    BY <1>5, <1>12 DEF OnDoConnectFails
  <2>2. /\ UNCHANGED <<host, session>> /\ host # NoHost /\ params
        /\ state' = "Disconnected" /\ ~connecting'
    BY <1>12 DEF OnDoConnectFails, TakeParams, controls
  <2>3. session[host] = "idle"
    BY <2>2 DEF OwnsHost
  <2>4. Untold(host)' /\ TellsLive(host)' /\ TellsEnd(host)'
    BY <1>1, <2>1, <2>2, <2>3 DEF TruthCore, TellsSame, Untold, TellsLive, TellsEnd
  <2> QED
    BY <1>1, <2>2, <2>4 DEF TruthCore
<1>13. CASE OnDisconnect
  <2>1. TellsSame /\ AttemptKept
    BY <1>5, <1>13 DEF OnDisconnect
  <2> QED
    BY <1>1, <1>13, <2>1, DisconnectTruth DEF OnDisconnect, ptrs
<1>14. CASE OnRdpConnected \/ OnRdpEnded
  <2>1. /\ cur.kind \in Rdp /\ cur' = NoEvent /\ queue' = queue
        /\ UNCHANGED <<host, session>> /\ ~connecting'
        /\ \/ cur.kind = "RdpConnected" /\ state' = "Connected"
           \/ cur.kind \in Endings /\ state' = "Disconnected"
    BY <1>14 DEF OnRdpConnected, OnRdpEnded, Handle, NoPost, Rdp, Endings, ptrs, controls
  <2>2. ~Settled
    BY <2>1 DEF Settled, Pending
  <2>3. host # NoHost /\ session[host] \notin {"idle", "connecting"}
    BY <1>1, <2>2 DEF TruthCore, Untold
  <2>4. TellsLive(host)'
    <3> SUFFICES ASSUME session[host] = "live"
                 PROVE  LastRdp({"RdpConnected"})' \/ (Settled' /\ state' = "Connected")
      BY <2>1 DEF TellsLive
    <3>1. LastRdp({"RdpConnected"})
      BY <1>1, <2>2, <2>3 DEF TruthCore, TellsLive
    <3>2. LastRdp({"RdpConnected"})' \/ (Settled' /\ cur.kind = "RdpConnected")
      BY <2>1, <3>1, IsTold DEF Rdp
    <3> QED
      BY <2>1, <3>2 DEF Endings
  <2>5. TellsEnd(host)'
    <3> SUFFICES ASSUME session[host] = "ended"
                 PROVE  LastRdp(Endings)' \/ (Settled' /\ state' = "Disconnected")
      BY <2>1 DEF TellsEnd
    <3>1. LastRdp(Endings)
      BY <1>1, <2>2, <2>3 DEF TruthCore, TellsEnd
    <3>2. LastRdp(Endings)' \/ (Settled' /\ cur.kind \in Endings)
      BY <2>1, <3>1, IsTold DEF Rdp, Endings
    <3> QED
      BY <2>1, <3>2 DEF Endings
  <2>6. Untold(host)'
    BY <2>1, <2>3 DEF Untold
  <2> QED
    BY <1>1, <2>1, <2>3, <2>4, <2>5, <2>6 DEF TruthCore
<1>15. CASE OnStatusTick
  <2>1. TellsSame /\ AttemptKept
    BY <1>5, <1>15 DEF OnStatusTick
  <2>2. UNCHANGED <<connecting, host, params, session>>
    BY <1>15 DEF OnStatusTick, ptrs, controls
  <2>3. CASE state' = state
    BY <1>1, <2>1, <2>2, <2>3, QuietTruth
  <2>4. CASE state' = "Disconnected" /\ ~HasWindow
    <3>1. host # NoHost => session[host] # "live"
      BY <2>4 DEF HasWindow, HostValues
    <3>2. AttemptPending => AttemptPending'
      BY <2>1, <2>2 DEF AttemptPending, AttemptKept
    <3>3. connecting' /\ Settled' => AttemptPending'
      BY Zenon, <1>1, <2>1, <2>2, <3>2 DEF TruthCore, TellsSame
    <3>4. host # NoHost => Untold(host)' /\ TellsLive(host)' /\ TellsEnd(host)'
      BY <1>1, <2>1, <2>2, <2>4, <3>1
         DEF TruthCore, TellsSame, Untold, TellsLive, TellsEnd
    <3> QED
      BY <1>1, <2>1, <2>2, <2>4, <3>3, <3>4 DEF TruthCore, TellsSame
  <2> QED
    BY <1>15, <2>3, <2>4 DEF OnStatusTick
<1>16. ASSUME NEW h \in Hosts, Control(h) PROVE TruthCore'
  <2>1. PICK k \in Rdp, to \in Sessions :
          /\ session[h] \in Active /\ session' = [session EXCEPT ![h] = to]
          /\ Post(Event(k)) /\ UNCHANGED <<cur, state, connecting, host, params>>
          /\ \/ to = "live" /\ k = "RdpConnected"
             \/ to = "ended" /\ k \in Endings
             \/ to = "leaving"
    BY <1>16 DEF Control, ControlConnected, ControlDisconnected, ControlFatal, Emits, Active,
                 Sessions, Rdp, Endings, conn, ptrs
  <2>2. h = host /\ h # NoHost
    BY <1>1, <2>1, NoHostAssumption DEF TruthCore, Active
  <2>3. queue' = Append(queue, Event(k))
    BY <1>1, <2>1, PostAppends
  <2>4. ~Settled' /\ \A K \in SUBSET Rdp : k \in K => LastRdp(K)'
    BY <2>1, <2>3, TellsNews
  <2>5. session'[h] = to
    BY <2>1 DEF HostValues
  <2>6. Untold(host)' /\ TellsLive(host)' /\ TellsEnd(host)'
    BY <2>1, <2>2, <2>4, <2>5 DEF Untold, TellsLive, TellsEnd, Endings, Rdp
  <2>7. \A g \in Hosts : g # h => session'[g] = session[g]
    BY <2>1 DEF HostValues
  <2> QED
    BY <1>1, <2>1, <2>2, <2>4, <2>6, <2>7 DEF TruthCore
<1>17. ASSUME NEW n \in Steps, OnClose(n) PROVE TruthCore'
  <2>1. /\ Handle("CloseSequence") /\ UNCHANGED <<state, connecting, params>>
        /\ IF n = 8 THEN NoPost ELSE Post(Close(n + 1))
        /\ IF n = 1 THEN DisconnectHost ELSE UNCHANGED session
        /\ IF n = 6 THEN FreeHost ELSE UNCHANGED <<freed, host>>
    BY <1>17 DEF OnClose, NextStep, conn
  <2>2. TellsSame /\ AttemptKept
    <3>1. CASE n = 8
      BY <1>5, <2>1, <3>1
    <3>2. CASE n # 8
      <4>1. Close(n + 1) \in Events /\ Close(n + 1).kind \notin Rdp
        BY <3>2, EventsAre, NoEventIs DEF Steps, Rdp
      <4> QED
        BY <1>6, <2>1, <3>2, <4>1
    <3> QED
      BY <3>1, <3>2
  <2>3. host' = host
    <3>1. n = 6 => freed' = freed \cup ({host} \ {NoHost}) /\ host' = NoHost
      BY <2>1 DEF FreeHost
    <3>2. freed' = {}
      BY Zenon DEF Undisturbed
    <3>3. n = 6 => host = NoHost
      BY <3>1, <3>2
    <3> QED
      BY <2>1, <3>1, <3>3
  <2>4. CASE n = 1
    BY <1>1, <2>1, <2>2, <2>3, <2>4, DisconnectTruth
  <2>5. CASE n # 1
    BY <1>1, <2>1, <2>2, <2>3, <2>5, QuietTruth
  <2> QED
    BY <2>4, <2>5
<1> HIDE DEF AppInv
<1> QED
  BY Zenon, <1>2, <1>4, <1>7, <1>8, <1>9, <1>10, <1>11, <1>12, <1>13, <1>14, <1>15, <1>16, <1>17
     DEF Next, EventLoop

LEMMA TruthInit == Init => TruthInv
<1> SUFFICES ASSUME Init PROVE TruthCore
  BY DEF TruthInv
<1>1. Settled
  BY NoEventIs DEF Init, Settled, Pending, InChannel
<1> QED
  BY <1>1 DEF Init, TruthCore

\* With no RdpEvent on its way the core believes what is true of the control,
\* as long as no event was lost, no host replaced before it was done, and none
\* freed: for any number of hosts, any capacity and any order of the events.
THEOREM BelievesTruthHolds == Spec => []BelievesTruth
<1>1. TruthInv /\ AppInv /\ [Next]_vars => TruthInv'
  BY Zenon, TruthStep DEF TruthInv
<1>2. Spec => []TruthInv
  BY <1>1, TruthInit, AppAlways, PTL DEF Spec
<1>3. AppInv /\ TruthInv => BelievesTruth
  BY Zenon, TruthImplies
<1> QED
  BY <1>2, <1>3, AppAlways, PTL

-----------------------------------------------------------------------------
(* An exit once begun goes on: the safety part of ExitCompletes.            *)

Begun == ~tray \/ ~tick \/ freed # {}
NextClose == \E e \in Pending : e.kind = "CloseSequence" /\ e.step > 2

\* Once a step of the close sequence took something down, a later step is on its
\* way until the last one was taken, unless an event was lost: no other handler,
\* request or control can stop an exit half way.
ExitGoesOn == Begun => quit \/ lost \/ NextClose

\* Only the handler of an event takes it away.
LEMMA NothingVanishes ==
  ASSUME EventsOK, [Next]_vars
  PROVE  /\ InChannel \subseteq Pending'
         /\ \/ cur' = cur \/ cur = NoEvent
            \/ \E k \in Plain : Handle(k)
            \/ \E n \in Steps : OnClose(n)
<1>1. CASE Recv
  <2>1. /\ queue \in Seq(Events) /\ queue # <<>> /\ cur = NoEvent
        /\ cur' = queue[1] /\ queue' = Tail(queue)
    BY <1>1 DEF EventsOK, Recv
  <2>2. DOMAIN queue = 1..Len(queue) /\ DOMAIN queue' = 1..(Len(queue) - 1) /\ Len(queue) \in Nat
    BY <2>1
  <2>3. \A i \in 1..Len(queue) : i = 1 \/ (i - 1 \in 1..(Len(queue) - 1) /\ queue[i] = queue'[i - 1])
    BY <2>1
  <2> QED
    BY <2>1, <2>2, <2>3 DEF InChannel, Pending
<1>2. ASSUME queue' = queue \/ \E e \in Events : Post(e) PROVE InChannel \subseteq Pending'
  <2>1. ASSUME NEW e \in Events, queue' = Append(queue, e) PROVE InChannel \subseteq Pending'
    BY <2>1, InChannelAppends DEF EventsOK, Pending
  <2>2. CASE queue' = queue
    BY <2>2 DEF InChannel, Pending
  <2> QED
    BY <1>2, <2>1, <2>2 DEF Post
<1>3. CASE Request \/ TickPost \/ OnConnect
  <2>1. \E k \in Plain : Post(Event(k))
    BY <1>3, RequestsAssumption DEF Request, TickPost, OnConnect, Plain
  <2>2. cur' = cur \/ \E k \in Plain : Handle(k)
    BY <1>3 DEF Request, TickPost, OnConnect, Plain
  <2> QED
    BY <1>2, <2>1, <2>2, EventsAre
<1>4. ASSUME NEW h \in Hosts, Control(h) PROVE InChannel \subseteq Pending' /\ cur' = cur
  <2>1. cur' = cur /\ \E k \in Plain : Post(Event(k))
    BY <1>4 DEF Control, ControlConnected, ControlDisconnected, ControlFatal, Emits, Plain, Rdp
  <2> QED
    BY <1>2, <2>1, EventsAre
<1>5. CASE OnExit
  <2>1. Post(Close(1)) /\ Handle("Exit") /\ "Exit" \in Plain
    BY <1>5 DEF OnExit, Plain
  <2>2. Close(1) \in Events
    BY EventsAre DEF Steps
  <2> QED
    BY <1>2, <2>1, <2>2
<1>6. ASSUME NEW n \in Steps, OnClose(n) PROVE InChannel \subseteq Pending'
  <2>1. CASE n = 8
    BY <1>2, <1>6, <2>1 DEF OnClose, NoPost
  <2>2. CASE n # 8
    <3>1. Close(n + 1) \in Events
      BY <2>2, EventsAre DEF Steps
    <3> QED
      BY <1>2, <1>6, <2>2, <3>1 DEF OnClose, NextStep
  <2> QED
    BY <2>1, <2>2
<1>7. CASE \/ TickTest \/ Ended \/ UNCHANGED vars
           \/ OnConnectBusy \/ OnDoConnectIdle \/ OnDoConnectOk \/ OnDoConnectFails
           \/ OnDisconnect \/ OnRdpConnected \/ OnRdpEnded \/ OnStatusTick \/ OnOther
  <2>1. queue' = queue /\ (cur' = cur \/ \E k \in Plain : Handle(k))
    BY <1>7 DEF TickTest, Ended, vars, OnConnectBusy, OnDoConnectIdle, OnDoConnectOk,
                OnDoConnectFails, OnDisconnect, OnRdpConnected, OnRdpEnded, OnStatusTick,
                OnOther, NoPost, Plain, Rdp
  <2> QED
    BY <1>2, <2>1
<1>8. CASE Recv \/ \E n \in Steps : OnClose(n)
  BY <1>1, <1>6, <1>8 DEF Recv
<1> QED
  BY <1>3, <1>4, <1>5, <1>7, <1>8 DEF Next, EventLoop

\* Nothing but the close sequence takes anything down.
LEMMA OnlyCloseFrees ==
  ASSUME [Next]_vars PROVE UNCHANGED freed \/ \E n \in Steps : OnClose(n)
BY DEF Next, EventLoop, Control, Recv, Request, TickTest, TickPost, Ended, vars, closing,
       OnConnectBusy, OnConnect, OnDoConnectIdle, OnDoConnectOk, OnDoConnectFails,
       OnDisconnect, OnRdpConnected, OnRdpEnded, OnStatusTick, OnExit, OnOther,
       ControlConnected, ControlDisconnected, ControlFatal, Emits

LEMMA ExitGoesOnStep ==
  ASSUME EventsOK, ExitGoesOn, [Next]_vars PROVE ExitGoesOn'
<1>1. quit => quit'
  BY Zenon, ClosingStep DEF OnClose
<1>2. lost => lost'
  BY Zenon, LostStays
<1>3. ASSUME NEW n \in Steps, OnClose(n) PROVE ExitGoesOn'
  <2>1. /\ cur.step = n /\ cur.kind = "CloseSequence"
        /\ tray' = (tray /\ n # 2) /\ tick' = (tick /\ n # 3) /\ quit' = (quit \/ n = 8)
    BY <1>3 DEF OnClose, Handle
  <2>2. CASE n = 8
    BY Zenon, <2>1, <2>2 DEF ExitGoesOn
  <2>3. CASE n # 8 /\ ~lost' /\ n > 1
    <3>1. queue' = Append(queue, Close(n + 1)) /\ Close(n + 1) \in Events
      BY <1>3, <2>3, PostAppends, EventsAre DEF OnClose, NextStep, Steps
    <3>2. Close(n + 1) \in Pending'
      BY <3>1, InChannelAppends DEF EventsOK, Pending
    <3>3. NextClose'
      BY <2>3, <3>2 DEF NextClose, Close, Steps
    <3> QED
      BY Zenon, <3>3 DEF ExitGoesOn
  <2>4. CASE n = 1
    <3>1. n # 2 /\ n # 3 /\ n # 8
      BY <2>4
    <3>2. (~tray' => ~tray) /\ (~tick' => ~tick)
      BY Zenon, <2>1, <3>1
    <3>3. freed' = freed
      BY <1>3, <2>4 DEF OnClose
    <3>4. NextClose => NextClose'
      BY <1>3, <2>1, <2>4, NothingVanishes DEF NextClose, Pending
    <3> QED
      BY Zenon, <1>1, <1>2, <3>2, <3>3, <3>4 DEF ExitGoesOn, Begun
  <2>5. CASE lost'
    BY Zenon, <2>5 DEF ExitGoesOn
  <2>6. n = 8 \/ n = 1 \/ (n # 8 /\ n > 1)
    BY DEF Steps
  <2> QED
    BY Zenon, <2>2, <2>3, <2>4, <2>5, <2>6
<1>4. CASE ~\E n \in Steps : OnClose(n)
  <2>1. UNCHANGED <<tray, tick, freed>>
    BY <1>4, ClosingStep, OnlyCloseFrees
  <2>2. NextClose => NextClose'
    <3>1. InChannel \subseteq Pending'
      BY NothingVanishes
    <3>2. cur' = cur \/ cur = NoEvent \/ \E k \in Plain : Handle(k)
      BY <1>4, NothingVanishes
    <3>3. cur.kind = "CloseSequence" => cur' = cur
      BY <3>2, NoEventIs DEF Handle, Plain, Rdp
    <3> QED
      BY <3>1, <3>3 DEF NextClose, Pending
  <2> QED
    BY Zenon, <1>1, <1>2, <2>1, <2>2 DEF ExitGoesOn, Begun
<1> QED
  BY <1>3, <1>4

\* The close sequence is never left half way, for any number of exits and hosts
\* and any capacity, but for events the channel has no room for.
THEOREM ExitGoesOnHolds == Spec => []ExitGoesOn
<1>1. Init => ExitGoesOn
  BY DEF Init, ExitGoesOn, Begun
<1>2. AppInv /\ ExitGoesOn /\ [Next]_vars => ExitGoesOn'
  BY Zenon, ExitGoesOnStep DEF AppInv
<1> QED
  BY <1>1, <1>2, AppAlways, PTL DEF Spec

-----------------------------------------------------------------------------
(* A connection attempt goes on: the safety part of ConnectSettles.         *)

\* While is_connecting is up, something that brings it down is on its way: the
\* DoConnect, an RdpEvent, or a control that has yet to answer; unless an event
\* was lost or the program is exiting.  Hosts may be replaced at any time.
AttemptGoesOn == connecting => lost \/ freed # {} \/ ~Settled \/ AttemptPending

\* The events an attempt waits for.
Awaited == Rdp \cup {"DoConnect"}

\* None of them goes away when another one is handled, or none.
LEMMA AwaitedKept ==
  ASSUME EventsOK, [Next]_vars, cur' = cur \/ cur.kind \notin Awaited
  PROVE  /\ ~Settled => ~Settled'
         /\ Event("DoConnect") \in Pending => Event("DoConnect") \in Pending'
<1>1. \A e \in Pending : e.kind \in Awaited => e \in Pending'
  BY NothingVanishes DEF Pending
<1>2. Event("DoConnect").kind = "DoConnect"
  BY NoEventIs DEF Plain
<1> QED
  BY <1>1, <1>2 DEF Settled, Awaited

\* What keeps host, parameters and the sessions an attempt waits for.
LEMMA AttemptKeeps ==
  ASSUME EventsOK, AttemptGoesOn, [Next]_vars, cur' = cur \/ cur.kind \notin Awaited,
         UNCHANGED <<connecting, params, host>>,
         host # NoHost => (session[host] \in {"connecting", "leaving"} =>
                             session'[host] \in {"connecting", "leaving"})
  PROVE  AttemptGoesOn'
<1>1. lost => lost'
  BY Zenon, LostStays
<1>2. freed # {} => freed' # {}
  BY OnlyCloseFrees DEF OnClose, FreeHost
<1>3. AttemptPending => AttemptPending'
  <2> SUFFICES ASSUME AttemptPending PROVE AttemptPending'
    OBVIOUS
  <2>1. host # NoHost /\ host' = host
    BY DEF AttemptPending
  <2>2. CASE session[host] \in {"connecting", "leaving"}
    BY <2>1, <2>2 DEF AttemptPending
  <2>3. CASE params /\ Event("DoConnect") \in Pending
    <3>1. params' /\ Event("DoConnect") \in Pending'
      BY Zenon, <2>3, AwaitedKept
    <3> QED
      BY Zenon, <2>1, <3>1 DEF AttemptPending
  <2> QED
    BY Zenon, <2>2, <2>3 DEF AttemptPending
<1>4. connecting' => connecting
  BY Zenon
<1> QED
  BY Zenon, <1>1, <1>2, <1>3, <1>4, AwaitedKept DEF AttemptGoesOn

LEMMA LeavingKeeps ==
  HostValues /\ DisconnectHost =>
    (host # NoHost => (session[host] \in {"connecting", "leaving"} =>
                         session'[host] \in {"connecting", "leaving"}))
<1> SUFFICES ASSUME HostValues, DisconnectHost, host # NoHost,
                    session[host] \in {"connecting", "leaving"}
             PROVE  session'[host] \in {"connecting", "leaving"}
  OBVIOUS
<1>1. host \in Hosts /\ session \in [Hosts -> Sessions]
  BY Zenon DEF HostValues
<1>2. session' = session \/ session' = [session EXCEPT ![host] = "leaving"]
  BY Zenon DEF DisconnectHost
<1> QED
  BY <1>1, <1>2

LEMMA AttemptStep ==
  ASSUME AppInv, AttemptGoesOn, [Next]_vars PROVE AttemptGoesOn'
<1> USE DEF AppInv
<1>1. CASE OnRdpConnected \/ OnRdpEnded \/ OnDoConnectFails
  BY Zenon, <1>1 DEF OnRdpConnected, OnRdpEnded, OnDoConnectFails, AttemptGoesOn
<1>2. CASE OnConnect
  <2>1. host' \in Hosts /\ params' = TRUE /\ Post(Event("DoConnect"))
    BY Zenon, <1>2 DEF OnConnect
  <2>2. CASE ~lost'
    <3>1. Event("DoConnect") \in Events /\ queue' = Append(queue, Event("DoConnect"))
      BY <2>1, <2>2, PostAppends, EventsAre DEF Plain
    <3>2. Event("DoConnect") \in Pending'
      BY <3>1, InChannelAppends DEF EventsOK, Pending
    <3>3. host' # NoHost
      BY <2>1, NoHostAssumption
    <3> QED
      BY Zenon, <2>1, <3>2, <3>3 DEF AttemptGoesOn, AttemptPending
  <2> QED
    BY Zenon, <2>2 DEF AttemptGoesOn
<1>3. CASE OnDoConnectOk
  <2>1. host # NoHost /\ host' = host /\ session' = [session EXCEPT ![host] = "connecting"]
    BY <1>3 DEF OnDoConnectOk, TakeParams
  <2>2. session'[host] = "connecting"
    BY <2>1 DEF HostValues
  <2> QED
    BY <2>1, <2>2 DEF AttemptGoesOn, AttemptPending
<1>4. CASE OnDoConnectIdle
  <2>1. UNCHANGED <<host, session>> /\ cur.kind = "DoConnect"
    BY <1>4 DEF OnDoConnectIdle, ptrs, controls, Handle
  <2>2. UNCHANGED <<connecting, lost, freed>> /\ (params => host = NoHost)
    BY Zenon, <1>4 DEF OnDoConnectIdle, conn, closing, NoPost
  <2>3. ~Settled => ~Settled'
    <3>1. InChannel \subseteq Pending'
      BY NothingVanishes
    <3> QED
      BY <2>1, <3>1 DEF Settled, Pending, Rdp
  <2>4. AttemptPending => AttemptPending'
    <3> SUFFICES ASSUME AttemptPending PROVE AttemptPending'
      OBVIOUS
    <3>1. host # NoHost /\ session[host] \in {"connecting", "leaving"}
      BY Zenon, <2>2 DEF AttemptPending
    <3> QED
      BY <2>1, <3>1 DEF AttemptPending
  <2> QED
    BY Zenon, <2>2, <2>3, <2>4 DEF AttemptGoesOn
<1>5. ASSUME NEW h \in Hosts, Control(h) PROVE AttemptGoesOn'
  <2>1. PICK k \in Rdp : Post(Event(k))
    BY <1>5 DEF Control, ControlConnected, ControlDisconnected, ControlFatal, Emits, Rdp
  <2>2. CASE ~lost'
    <3>1. Event(k) \in Events /\ Event(k).kind = k /\ queue' = Append(queue, Event(k))
      BY <2>1, <2>2, PostAppends, EventsAre, NoEventIs DEF Plain
    <3>2. Event(k) \in Pending'
      BY <3>1, InChannelAppends DEF EventsOK, Pending
    <3>3. ~Settled'
      BY <3>1, <3>2 DEF Settled
    <3> QED
      BY Zenon, <3>3 DEF AttemptGoesOn
  <2> QED
    BY Zenon, <2>2 DEF AttemptGoesOn
<1>6. CASE OnDisconnect
  <2>1. cur.kind = "Disconnect" /\ UNCHANGED <<params, host, connecting>>
    BY <1>6 DEF OnDisconnect, ptrs, Handle
  <2>2. cur.kind \notin Awaited
    BY <2>1 DEF Awaited, Rdp
  <2>3. host # NoHost => (session[host] \in {"connecting", "leaving"} =>
                            session'[host] \in {"connecting", "leaving"})
    BY Zenon, <1>6, LeavingKeeps DEF OnDisconnect
  <2> QED
    BY Zenon, <2>1, <2>2, <2>3, AttemptKeeps
<1>7. ASSUME NEW n \in Steps, OnClose(n) PROVE AttemptGoesOn'
  <2>1. cur.kind = "CloseSequence" /\ UNCHANGED <<params, connecting>>
    BY <1>7 DEF OnClose, conn, Handle
  <2>2. CASE n = 6 /\ host # NoHost
    <3>1. freed' # {}
      BY <1>7, <2>2 DEF OnClose, FreeHost
    <3> QED
      BY Zenon, <3>1 DEF AttemptGoesOn
  <2>3. CASE ~(n = 6 /\ host # NoHost)
    <3>1. host' = host
      BY <1>7, <2>3 DEF OnClose, FreeHost
    <3>2. DisconnectHost \/ session' = session
      BY <1>7 DEF OnClose
    <3>3. host # NoHost => (session[host] \in {"connecting", "leaving"} =>
                              session'[host] \in {"connecting", "leaving"})
      <4>1. session' = session => session'[host] = session[host]
        OBVIOUS
      <4> QED
        BY Zenon, <3>2, <4>1, LeavingKeeps
    <3> QED
      BY <2>1, <3>1, <3>3, AttemptKeeps DEF Awaited, Rdp
  <2> QED
    BY <2>2, <2>3
<1>8. CASE OnConnectBusy \/ OnStatusTick \/ OnExit \/ OnOther
  <2>1. cur.kind \in {"Connect", "StatusTick", "Exit", "Other"} /\ UNCHANGED <<host, session>>
    BY <1>8 DEF OnConnectBusy, OnStatusTick, OnExit, OnOther, Handle, ptrs, controls
  <2>2. UNCHANGED <<params, connecting>>
    BY Zenon, <1>8 DEF OnConnectBusy, OnStatusTick, OnExit, OnOther, conn, ptrs
  <2> QED
    BY <2>1, <2>2, AttemptKeeps DEF Awaited, Rdp
<1>9. CASE Recv \/ Request \/ TickTest \/ TickPost \/ Ended \/ UNCHANGED vars
  <2>1. cur' = cur \/ cur = NoEvent
    BY <1>9 DEF Recv, Request, TickTest, TickPost, Ended, vars
  <2>2. UNCHANGED <<host, session>>
    BY <1>9 DEF Recv, Request, TickTest, TickPost, Ended, vars, ptrs, controls
  <2>3. UNCHANGED <<params, connecting>>
    BY Zenon, <1>9 DEF Recv, Request, TickTest, TickPost, Ended, vars, conn, ptrs
  <2>4. cur' = cur \/ cur.kind \notin Awaited
    BY <2>1, NoEventIs DEF Awaited, Rdp
  <2> QED
    BY <2>2, <2>3, <2>4, AttemptKeeps
<1> QED
  BY Zenon, <1>1, <1>2, <1>3, <1>4, <1>5, <1>6, <1>7, <1>8, <1>9 DEF Next, EventLoop

\* No connection attempt is left hanging, for any hosts, requests and capacity,
\* but for events the channel has no room for.
THEOREM AttemptGoesOnHolds == Spec => []AttemptGoesOn
<1>1. Init => AttemptGoesOn
  BY Zenon DEF Init, AttemptGoesOn
<1>2. AppInv /\ AttemptGoesOn /\ [Next]_vars => AttemptGoesOn'
  BY Zenon, AttemptStep
<1> QED
  BY <1>1, <1>2, AppAlways, PTL DEF Spec
=============================================================================

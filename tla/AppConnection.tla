--------------------------- MODULE AppConnection ---------------------------
(***************************************************************************)
(* The application core (modules/app.rs): one event-loop thread that takes *)
(* events from a bounded channel and owns the RDP host, the threads that   *)
(* post to that channel without ever waiting (the Tauri commands of        *)
(* ipc.rs, the window procedure, the status ticker), and the RDP control   *)
(* behind each host (modules/rdp/host.rs), whose callbacks post events as  *)
(* well.  A post that finds the channel full is silently dropped.          *)
(*                                                                         *)
(* The event loop takes an event (Recv) and handles it; in between, other  *)
(* threads may refill the slot it freed, so that the event a handler posts *)
(* at its end can itself be dropped.  Each host is born in on_connect and  *)
(* never reused.  The control is external: it emits what a connection      *)
(* attempt can produce, at most one attempt per host, and nothing after    *)
(* its connection ended or its sink was unadvised.  When WM_QUIT is posted *)
(* the message loop returns and the process ends with all its threads, so  *)
(* nothing but stuttering follows.                                         *)
(***************************************************************************)
EXTENDS Naturals, Sequences, FiniteSets

CONSTANTS
  Hosts,      \* the RdpHost values on_connect may create
  NoHost,     \* Option::None in rdp_host_ptr and handle_snapshot
  QueueCap,   \* capacity of the event channel: bounded(128)
  Requests,   \* bound: the events posted by the other threads
  MaxExits    \* bound: close sequences under way at the same time

ASSUME NoHostAssumption == NoHost \notin Hosts
ASSUME QueueCapAssumption == QueueCap \in Nat \ {0}
ASSUME MaxExitsAssumption == MaxExits \in Nat
ASSUME RequestsAssumption ==
  Requests \subseteq {"Connect", "Disconnect", "Exit", "Other"}

VARIABLES
  queue,      \* event_tx/event_rx
  cur,        \* the event the event loop is handling
  state,      \* connection_state
  connecting, \* is_connecting
  host,       \* rdp_host_ptr
  params,     \* connect_params holds Some
  snapshot,   \* handle_snapshot, as the host whose window it names
  kind,       \* how each host came out of RdpHost::new
  session,    \* the connection of the control behind each host
  freed,      \* hosts whose Box was dropped
  tray,       \* the tray icon is still there
  tick,       \* status_tick_running
  armed,      \* the ticker passed its second test of the flag
  quit,       \* WM_QUIT was posted
  lost,       \* history: some event found the channel full
  overlap     \* history: a host was replaced before it was done

conn == <<state, connecting>>
ptrs == <<host, params>>
controls == <<kind, session>>
closing == <<freed, tray, quit>>
ticker == <<tick, armed>>
vars == <<queue, cur, conn, ptrs, snapshot, controls, closing, ticker,
          lost, overlap>>

-----------------------------------------------------------------------------
(* AppEvent.  "Other" stands for the events whose handlers touch none of    *)
(* this state: toasts, tray and window gestures, Terminate, EnvCheck,       *)
(* Settings, and the RdpEvents that are only shown as a toast or ignored.   *)

Rdp == {"RdpConnected", "RdpDisconnected", "RdpFatalError"}
Plain == {"Connect", "DoConnect", "Disconnect", "StatusTick", "Exit", "Other"}
           \cup Rdp
Steps == 1..8                                  \* of on_close_sequence
Event(k) == [kind |-> k, step |-> 0]
Close(n) == [kind |-> "CloseSequence", step |-> n]
NoEvent == Event("none")
Events == {Event(k) : k \in Plain} \cup {Close(n) : n \in Steps}

InChannel == {queue[i] : i \in DOMAIN queue}
Pending == InChannel \cup {cur}                \* posted and not handled yet

States == {"Disconnected", "Connecting", "Connected", "Disconnecting"}

\* A fallback host has a window of its own, or none at all ("blank").
Kinds == {"unborn", "native", "fallback", "blank"}
Active == {"connecting", "live", "leaving"}
Sessions == {"idle", "ended"} \cup Active

TypeOK ==
  /\ queue \in Seq(Events) /\ Len(queue) <= QueueCap
  /\ cur \in Events \cup {NoEvent}
  /\ state \in States
  /\ host \in Hosts \cup {NoHost}
  /\ host # NoHost => kind[host] # "unborn"
  /\ snapshot \in Hosts \cup {NoHost}
  /\ kind \in [Hosts -> Kinds]
  /\ session \in [Hosts -> Sessions]
  /\ \A h \in Hosts : kind[h] # "native" => session[h] = "idle"
  /\ freed \subseteq {h \in Hosts : kind[h] # "unborn"}
  /\ {connecting, params, tray, tick, armed, quit, lost, overlap}
       \subseteq BOOLEAN

Init ==
  /\ queue = <<>> /\ cur = NoEvent
  /\ state = "Disconnected" /\ connecting = FALSE
  /\ host = NoHost /\ params = FALSE /\ snapshot = NoHost
  /\ kind = [h \in Hosts |-> "unborn"]
  /\ session = [h \in Hosts |-> "idle"]
  /\ freed = {} /\ tray = TRUE /\ quit = FALSE
  /\ tick = TRUE /\ armed = FALSE
  /\ lost = FALSE /\ overlap = FALSE

-----------------------------------------------------------------------------
(* Posting and taking events.                                              *)

\* post_event, and every other use of try_send on the event channel.
Post(e) ==
  \/ /\ Len(queue) < QueueCap
     /\ queue' = Append(queue, e)
     /\ UNCHANGED lost
  \/ /\ Len(queue) = QueueCap
     /\ lost' = TRUE
     /\ UNCHANGED queue

NoPost == UNCHANGED <<queue, lost>>

Recv ==
  /\ ~quit /\ cur = NoEvent
  /\ queue # <<>>
  /\ cur' = Head(queue)
  /\ queue' = Tail(queue)
  /\ UNCHANGED <<conn, ptrs, snapshot, controls, closing, ticker, lost, overlap>>

Handle(k) == ~quit /\ cur.kind = k /\ cur' = NoEvent

\* The events of these kinds that are posted and not handled yet.
Count(kinds) == Cardinality({i \in DOMAIN queue : queue[i].kind \in kinds})
                  + (IF cur.kind \in kinds THEN 1 ELSE 0)

\* Bound: no more requests to connect than there are hosts left to create.
HostsLeft == Cardinality({h \in Hosts : kind[h] # "unborn"}) + Count({"Connect"})
               < Cardinality(Hosts)
ExitsLeft == Count({"Exit", "CloseSequence"}) < MaxExits

\* cmd_connect, cmd_disconnect and the other commands, wnd_proc, shutdown().
Request ==
  /\ ~quit
  /\ \E k \in Requests :
       /\ k = "Connect" => HostsLeft
       /\ k = "Exit" => ExitsLeft
       /\ Post(Event(k))
  /\ UNCHANGED <<cur, conn, ptrs, snapshot, controls, closing, ticker, overlap>>

TickTest ==
  /\ ~quit /\ tick /\ ~armed
  /\ armed' = TRUE
  /\ UNCHANGED <<queue, cur, conn, ptrs, snapshot, controls, closing, tick, lost,
                 overlap>>

TickPost ==
  /\ ~quit /\ armed
  /\ armed' = FALSE
  /\ Post(Event("StatusTick"))
  /\ UNCHANGED <<cur, conn, ptrs, snapshot, controls, closing, tick, overlap>>

-----------------------------------------------------------------------------
(* The control behind a host, through EventSink.                            *)

Emits(h, from, to, k) ==
  /\ ~quit /\ h \notin freed
  /\ session[h] \in from
  /\ session' = [session EXCEPT ![h] = to]
  /\ Post(Event(k))
  /\ UNCHANGED <<cur, conn, ptrs, snapshot, kind, closing, ticker, overlap>>

ControlConnected(h) == Emits(h, {"connecting"}, "live", "RdpConnected")
ControlDisconnected(h) == Emits(h, Active, "ended", "RdpDisconnected")
ControlFatal(h) ==
  \E to \in {"leaving", "ended"} :
    Emits(h, {"connecting", "live"}, to, "RdpFatalError")

-----------------------------------------------------------------------------
(* The handlers of the event loop.                                          *)

HasWindow == host # NoHost /\ kind[host] # "blank"   \* host.hwnd() is not null

\* is_connecting was up already.
OnConnectBusy ==
  /\ Handle("Connect")
  /\ connecting
  /\ NoPost
  /\ UNCHANGED <<conn, ptrs, snapshot, controls, closing, ticker, overlap>>

\* on_connect.  A previous host is forgotten, not freed.
OnConnect ==
  /\ Handle("Connect")
  /\ ~connecting
  /\ connecting' = TRUE
  /\ state' = "Connecting"
  /\ \E h \in Hosts, k \in Kinds \ {"unborn"} :
       /\ kind[h] = "unborn"
       /\ kind' = [kind EXCEPT ![h] = k]
       /\ host' = h
  /\ params' = TRUE
  /\ Post(Event("DoConnect"))
  /\ overlap' = \/ overlap
                \/ host # NoHost /\ session[host] \in Active
                \/ \E e \in InChannel : e.kind \in Rdp
  /\ UNCHANGED <<snapshot, session, closing, ticker>>

\* Mutant: the parameters are read, not taken.
TakeParamsByCopy == params /\ UNCHANGED params

\* connect_params.take() found some.
TakeParams == params /\ params' = FALSE

\* No parameters, or the host is gone: an early return of on_do_connect.
OnDoConnectIdle ==
  /\ Handle("DoConnect")
  /\ IF params THEN host = NoHost /\ params' = FALSE ELSE UNCHANGED params
  /\ NoPost
  /\ UNCHANGED <<conn, host, snapshot, controls, closing, ticker, overlap>>

\* on_do_connect, RdpHost::connect returned Ok.
OnDoConnectOk ==
  /\ Handle("DoConnect")
  /\ TakeParams
  /\ host # NoHost
  /\ kind[host] = "native" /\ session[host] = "idle"
  /\ session' = [session EXCEPT ![host] = "connecting"]
  /\ NoPost
  /\ UNCHANGED <<conn, host, snapshot, kind, closing, ticker, overlap>>

\* Mutant: the error path forgets to lower is_connecting.
OnDoConnectFailsStillConnecting ==
  /\ Handle("DoConnect")
  /\ TakeParams
  /\ host # NoHost
  /\ state' = "Disconnected"
  /\ NoPost
  /\ UNCHANGED <<connecting, host, snapshot, controls, closing, ticker, overlap>>

\* on_do_connect, RdpHost::connect returned an error: a fallback host, a
\* control that refuses a property, or Connect failing on its third attempt.
OnDoConnectFails ==
  /\ Handle("DoConnect")
  /\ TakeParams
  /\ host # NoHost
  /\ connecting' = FALSE
  /\ state' = "Disconnected"
  /\ NoPost
  /\ UNCHANGED <<host, snapshot, controls, closing, ticker, overlap>>

\* RdpHost::disconnect.  An active control starts to leave, or the call fails
\* and the error is dropped; any other host has nothing to disconnect.
DisconnectHost ==
  \/ UNCHANGED session
  \/ /\ host # NoHost
     /\ session[host] \in {"connecting", "live"}
     /\ session' = [session EXCEPT ![host] = "leaving"]

OnDisconnect ==
  /\ Handle("Disconnect")
  /\ DisconnectHost
  /\ state' = "Disconnecting"
  /\ NoPost
  /\ UNCHANGED <<connecting, ptrs, snapshot, kind, closing, ticker, overlap>>

OnRdpConnected ==
  /\ Handle("RdpConnected")
  /\ connecting' = FALSE
  /\ state' = "Connected"
  /\ NoPost
  /\ UNCHANGED <<ptrs, snapshot, controls, closing, ticker, overlap>>

\* Mutant: the end of a connection is taken for granted while disconnecting.
OnRdpEndedIgnored ==
  /\ Handle("RdpDisconnected") \/ Handle("RdpFatalError")
  /\ connecting' = FALSE
  /\ state' = IF state = "Disconnecting" THEN state ELSE "Disconnected"
  /\ NoPost
  /\ UNCHANGED <<ptrs, snapshot, controls, closing, ticker, overlap>>

OnRdpEnded ==
  /\ Handle("RdpDisconnected") \/ Handle("RdpFatalError")
  /\ connecting' = FALSE
  /\ state' = "Disconnected"
  /\ NoPost
  /\ UNCHANGED <<ptrs, snapshot, controls, closing, ticker, overlap>>

\* Mutant: the ticker's handler also downgrades a connection being opened.
OnStatusTickEager ==
  /\ Handle("StatusTick")
  /\ IF HasWindow THEN snapshot' = host ELSE UNCHANGED snapshot
  /\ IF state = "Connected" /\ ~HasWindow THEN state' = "Disconnected"
     ELSE IF HasWindow /\ kind[host] = "native" THEN state' = "Connected"
     ELSE UNCHANGED state
  /\ NoPost
  /\ UNCHANGED <<connecting, ptrs, controls, closing, ticker, overlap>>

\* on_status_tick: only a Connected state is ever corrected.
OnStatusTick ==
  /\ Handle("StatusTick")
  /\ IF HasWindow THEN snapshot' = host ELSE UNCHANGED snapshot
  /\ IF state = "Connected" /\ ~HasWindow THEN state' = "Disconnected"
     ELSE UNCHANGED state
  /\ NoPost
  /\ UNCHANGED <<connecting, ptrs, controls, closing, ticker, overlap>>

OnExit ==
  /\ Handle("Exit")
  /\ Post(Close(1))
  /\ UNCHANGED <<conn, ptrs, snapshot, controls, closing, ticker, overlap>>

OnOther ==
  /\ Handle("Other")
  /\ NoPost
  /\ UNCHANGED <<conn, ptrs, snapshot, controls, closing, ticker, overlap>>

\* Mutant: the step that stops the ticker is skipped.
NextStepSkipping(n) == Post(Close(IF n = 2 THEN 4 ELSE n + 1))

\* Mutant: the third step does not post the fourth.
NextStepStopping(n) == IF n = 3 THEN NoPost ELSE Post(Close(n + 1))

NextStep(n) == Post(Close(n + 1))

\* Box::from_raw of the pointer is dropped, and the pointer set to None.
FreeHost ==
  /\ freed' = freed \cup ({host} \ {NoHost})
  /\ host' = NoHost

\* on_close_sequence.  Steps 4 and 5 clear receivers the threads already took;
\* step 7 destroys the window.
OnClose(n) ==
  /\ Handle("CloseSequence") /\ cur.step = n
  /\ IF n = 8 THEN NoPost ELSE NextStep(n)
  /\ IF n = 1 THEN DisconnectHost ELSE UNCHANGED session
  /\ tray' = (tray /\ n # 2)
  /\ tick' = (tick /\ n # 3)
  /\ IF n = 6 THEN FreeHost ELSE UNCHANGED <<freed, host>>
  /\ quit' = (quit \/ n = 8)
  /\ UNCHANGED <<conn, params, snapshot, kind, armed, overlap>>

-----------------------------------------------------------------------------
EventLoop ==
  \/ Recv
  \/ OnConnectBusy \/ OnConnect
  \/ OnDoConnectIdle \/ OnDoConnectOk \/ OnDoConnectFails
  \/ OnDisconnect
  \/ OnRdpConnected \/ OnRdpEnded
  \/ OnStatusTick
  \/ OnExit
  \/ OnOther
  \/ \E n \in Steps : OnClose(n)

Control(h) == ControlConnected(h) \/ ControlDisconnected(h) \/ ControlFatal(h)

Ended == quit /\ UNCHANGED vars

Next ==
  \/ EventLoop
  \/ Request
  \/ TickTest \/ TickPost
  \/ \E h \in Hosts : Control(h)
  \/ Ended

Spec == Init /\ [][Next]_vars

\* The event-loop and ticker threads are scheduled, and a control that was told
\* to connect or to disconnect answers.  Nobody is obliged to use the program.
FairSpec ==
  /\ Spec
  /\ WF_vars(EventLoop)
  /\ WF_vars(TickTest \/ TickPost)
  /\ \A h \in Hosts : WF_vars(session[h] \in {"connecting", "leaving"} /\ Control(h))

-----------------------------------------------------------------------------
(* Safety.                                                                  *)

\* The pointer in rdp_host_ptr is never one that close step 6 freed, and the
\* parameters on_do_connect will take belong to a control that was not told to
\* connect: in whatever order the events come, no freed host is used and no
\* control is told to connect twice.
OwnsHost ==
  /\ host \notin freed
  /\ params /\ host # NoHost => session[host] = "idle"

\* The close sequence runs in its order, even when Exit is requested twice:
\* when a later step is pending the earlier ones have been taken.
CloseInOrder ==
  /\ \A e \in Pending : /\ e.step > 2 => ~tray
                        /\ e.step > 3 => ~tick
  /\ quit => ~tray /\ ~tick

\* With no RdpEvent on its way, what the core believes is what the control is
\* in, unless an event was lost to a full channel, a host was replaced before
\* it was done, or the program is exiting.
Undisturbed == ~lost /\ ~overlap /\ freed = {}
Settled == \A e \in Pending : e.kind \notin Rdp
AttemptPending ==
  /\ host # NoHost
  /\ \/ params /\ Event("DoConnect") \in Pending
     \/ session[host] \in {"connecting", "leaving"}
BelievesTruth ==
  Undisturbed /\ Settled =>
    /\ state = "Connected" => host # NoHost /\ session[host] \in {"live", "leaving"}
    /\ \A h \in Hosts :
         session[h] = "live" => h = host /\ state \in {"Connected", "Disconnecting"}
    /\ connecting => AttemptPending

-----------------------------------------------------------------------------
(* Liveness.                                                                *)

\* A connection attempt is decided one way or the other, and is_connecting
\* comes down so that the user can try again, unless an event was lost to a
\* full channel or the program is exiting.
ConnectSettles == connecting ~> (~connecting \/ lost \/ freed # {} \/ quit)

\* A disconnect that found an active control does not leave the core in the
\* Disconnecting state, which no tick corrects: the control's last event gets it
\* out, or a new attempt does, unless an event was lost to a full channel or the
\* program is exiting.
DisconnectSettles ==
  (state = "Disconnecting" /\ host # NoHost /\ session[host] = "leaving")
    ~> (state # "Disconnecting" \/ lost \/ freed # {} \/ quit)

\* Once an Exit is handled the close sequence reaches its last step, unless
\* one of the events that carry it was lost to a full channel.
ExitCompletes == (cur = Event("Exit")) ~> (quit \/ lost)
=============================================================================

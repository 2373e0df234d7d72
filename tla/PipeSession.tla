---------------------------- MODULE PipeSession ----------------------------
(***************************************************************************)
(* What the handshake between PipeServer and its clients promises, without *)
(* frames, timeouts, retries or buffers: a client is admitted only on the  *)
(* nonce the server asked for when it looked at that client's connection,  *)
(* the server serves at most one admitted client at a time, and a client   *)
(* believes it has a session only after it was admitted.                   *)
(***************************************************************************)
CONSTANTS Clients, Nonces, NoNonce, NoClient

VARIABLES
  expected,   \* the nonce the server asks for now, NoNonce before set_nonce
  cred,       \* the nonce each client holds
  asked,      \* the nonce the server asked of each client's connection
  admitted,   \* clients whose connection was admitted and not forgotten yet
  holder,     \* the client the server serves
  believers   \* clients that hold a session

svars == <<expected, cred, asked, admitted, holder, believers>>

Init ==
  /\ expected = NoNonce
  /\ cred = [c \in Clients |-> NoNonce]
  /\ asked = [c \in Clients |-> NoNonce]
  /\ admitted = {}
  /\ holder = NoClient
  /\ believers = {}

\* The owner of the server sets or rotates the nonce.
Rotate ==
  /\ \E n \in Nonces : expected' = n
  /\ UNCHANGED <<cred, asked, admitted, holder, believers>>

\* A client that is in no session takes up a credential.
Equip(c) ==
  /\ c # holder
  /\ c \notin admitted
  /\ \E n \in Nonces \cup {NoNonce} : cred' = [cred EXCEPT ![c] = n]
  /\ UNCHANGED <<expected, asked, admitted, holder, believers>>

\* The server takes up a client's connection: what counts from here on is the
\* nonce it expects at this moment, whatever set_nonce does later.
Ask(c) ==
  /\ holder = NoClient
  /\ c \notin admitted
  /\ asked' = [asked EXCEPT ![c] = expected]
  /\ UNCHANGED <<expected, cred, admitted, holder, believers>>

Admit(c) ==
  /\ holder = NoClient
  /\ asked[c] # NoNonce
  /\ cred[c] = asked[c]
  /\ holder' = c
  /\ admitted' = admitted \cup {c}
  /\ UNCHANGED <<expected, cred, asked, believers>>

\* The client learns that it was admitted, possibly after the server left.
Learn(c) ==
  /\ c \in admitted
  /\ believers' = believers \cup {c}
  /\ UNCHANGED <<expected, cred, asked, admitted, holder>>

\* The client gives its session up, or never learns of it.
Leave(c) ==
  /\ believers' = believers \ {c}
  /\ \/ admitted' = admitted \ {c}
     \/ c = holder /\ UNCHANGED admitted
  /\ UNCHANGED <<expected, cred, asked, holder>>

\* The server stops serving; a client that does not know yet may still believe.
Release ==
  /\ holder' = NoClient
  /\ \/ admitted' = admitted
     \/ holder \notin believers /\ admitted' = admitted \ {holder}
  /\ UNCHANGED <<expected, cred, asked, believers>>

Next ==
  \/ Rotate
  \/ Release
  \/ \E c \in Clients :
       Equip(c) \/ Ask(c) \/ Admit(c) \/ Learn(c) \/ Leave(c)

Spec == Init /\ [][Next]_svars
=============================================================================

--------------------------- MODULE RequestService ---------------------------
(***************************************************************************)
(* What a connection promises its callers after the handshake, without     *)
(* frames, pipes or readers.  Requests are numbered in the order of the    *)
(* calls.  The server answers those it owes an answer one after the other. *)
(* A call returns an answer that was given and comes after all those       *)
(* returned before it, its own as long as no call timed out, or no answer. *)
(* The promise ends with a read that a timeout cut short.                  *)
(***************************************************************************)
EXTENDS Naturals, Sequences

CONSTANTS
  Kinds,     \* of requests
  Answered,  \* the kinds that are owed an answer
  Form,      \* the form of answer that a call of each kind takes
  Numbers    \* what an answer may give as the number of its request

VARIABLES
  asked,     \* the kinds of the requests, in order
  given,     \* the numbers of the requests answered, in order
  returned,  \* the answers the calls returned, in order
  calling,   \* a call is under way, that of the last request
  late,      \* a call timed out
  cut        \* a timeout cut a read short

rvars == <<asked, given, returned, calling, late, cut>>

RInit ==
  /\ asked = <<>> /\ given = <<>> /\ returned = <<>>
  /\ calling = FALSE /\ late = FALSE /\ cut = FALSE

Unanswered ==
  {n \in 1..Len(asked) : asked[n] \in Answered} \ {given[i] : i \in 1..Len(given)}

Ask ==
  /\ ~calling
  /\ \E kind \in Kinds : asked' = Append(asked, kind)
  /\ calling' = TRUE
  /\ UNCHANGED <<given, returned, late, cut>>

\* The server answers the oldest request it owes an answer.
Give ==
  /\ \E n \in Unanswered :
       /\ \A m \in Unanswered : n <= m
       /\ given' = Append(given, n)
  /\ UNCHANGED <<asked, returned, calling, late, cut>>

\* The answer to request m may be returned by the call of request n.
Due(m, n) ==
  /\ \E i \in 1..Len(given) : given[i] = m
  /\ Form[asked[m]] = Form[asked[n]]
  /\ \A j \in 1..Len(returned) : returned[j].answer < m
  /\ ~late => m = n

Return ==
  /\ calling
  /\ calling' = FALSE
  /\ \E m \in Numbers :
       /\ cut \/ Due(m, Len(asked))
       /\ returned' = Append(returned, [asked |-> Len(asked), answer |-> m,
                                        clean |-> ~late, whole |-> ~cut])
  /\ UNCHANGED <<asked, given, late, cut>>

\* The call ends without an answer: it waits for none, fails or times out.
End ==
  /\ calling
  /\ calling' = FALSE
  /\ \/ UNCHANGED <<late, cut>>
     \/ late' = TRUE /\ cut' \in {cut, TRUE}
  /\ UNCHANGED <<asked, given, returned>>

RNext == Ask \/ Give \/ Return \/ End

RSpec == RInit /\ [][RNext]_rvars
=============================================================================

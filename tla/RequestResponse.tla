-------------------------- MODULE RequestResponse --------------------------
(***************************************************************************)
(* What a client may rely on, whatever threads and queues are behind the   *)
(* socket: a connection is answered at most once, with the response to     *)
(* something that was written on it, and is closed by the answer.  The     *)
(* server may go down at any moment, and then nothing happens any more.    *)
(* HttpServer implements this specification.                               *)
(***************************************************************************)
EXTENDS Naturals, Sequences

CONSTANTS Conns, MaxChunks

VARIABLES
  peer,    \* peer[c]: "absent", "open", "gone" by its client's decision,
           \* "closed" by the server's
  asked,   \* asked[c]: the chunks the client has written
  answer,  \* answer[c]: the responses the client has received
  down     \* the server has terminated

vars == <<peer, asked, answer, down>>

Init ==
  /\ peer   = [c \in Conns |-> "absent"]
  /\ asked  = [c \in Conns |-> 0]
  /\ answer = [c \in Conns |-> <<>>]
  /\ down   = FALSE

Connect(c) ==
  /\ peer[c] = "absent"
  /\ peer' = [peer EXCEPT ![c] = "open"]
  /\ UNCHANGED <<asked, answer, down>>

Ask(c) ==
  /\ peer[c] = "open"
  /\ asked[c] < MaxChunks
  /\ asked' = [asked EXCEPT ![c] = @ + 1]
  /\ UNCHANGED <<peer, answer, down>>

HangUp(c) ==
  /\ peer[c] = "open"
  /\ peer' = [peer EXCEPT ![c] = "gone"]
  /\ UNCHANGED <<asked, answer, down>>

\* The response to one chunk.  It ends the connection, unless its client ends
\* it first, which brings the server down.
Answer(c) ==
  /\ peer[c] = "open"
  /\ \E n \in 1..asked[c] :
       answer' = [answer EXCEPT ![c] = <<[conn |-> c, n |-> n]>>]
  /\ \/ peer' = [peer EXCEPT ![c] = "closed"] /\ down' = down
     \/ peer' = [peer EXCEPT ![c] = "gone"] /\ down' = TRUE
  /\ asked' = asked

\* A response whose client has left.
Forget(c) ==
  /\ peer[c] = "gone"
  /\ peer' = [peer EXCEPT ![c] = "closed"]
  /\ UNCHANGED <<asked, answer, down>>

GoDown == down' = TRUE /\ UNCHANGED <<peer, asked, answer>>

Next ==
  /\ ~ down
  /\ \/ \E c \in Conns : Connect(c) \/ Ask(c) \/ HangUp(c) \/ Answer(c) \/ Forget(c)
     \/ GoDown

Spec == Init /\ [][Next]_vars

=============================================================================

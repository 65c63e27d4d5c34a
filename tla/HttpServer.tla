----------------------------- MODULE HttpServer -----------------------------
(***************************************************************************)
(* The running server: the main thread's polling loop (http_server::run,   *)
(* forward_as_req, forward_as_stream), the worker threads                  *)
(* (http_worker::run, handle_status, handle_request) and the zmq sockets   *)
(* between them:                                                           *)
(*                                                                         *)
(*   clients <=TCP=> STREAM | main thread | DEALER <=inproc=> DEALER |     *)
(*   worker threads,   and   PUB =inproc=> SUB for the START signal.       *)
(*                                                                         *)
(* A connection stands for the identity the STREAM socket gives it.  What  *)
(* a client writes arrives in chunks, one zmq message per read of the TCP  *)
(* stream.  What a worker computes from a request is left to the service   *)
(* modules: here a response is the name of the chunk it answers.           *)
(***************************************************************************)
EXTENDS Naturals, Sequences, FiniteSets

CONSTANTS
  Conns,       \* identities of the TCP connections
  Workers,     \* the worker threads (run() launches four)
  HWM,         \* messages an inproc pipe holds at most
  Low,         \* a full inproc pipe may refuse messages until Low are left
  MaxChunks,   \* bound: chunks one client writes on its connection
  Impatient,   \* connections whose client may hang up without an answer
  Statuses,    \* "known": a status code reason_phrase() has a phrase for;
               \* "unknown": one it throws std::invalid_argument for
  MoreHigh     \* values the four bytes of the worker's int64_t `more' that
               \* ZMQ_RCVMORE, an int option, does not write may hold: 0, 1

ASSUME ServerAssumption ==
  /\ IsFiniteSet(Conns)
  /\ IsFiniteSet(Workers)
  /\ HWM \in Nat \ {0}
  /\ Low \in 0..(HWM - 1)
  /\ MaxChunks \in Nat
  /\ Impatient \subseteq Conns
  /\ Statuses \subseteq {"known", "unknown"}
  /\ MoreHigh \subseteq {0, 1}

(***************************************************************************)
(* The sizes for which the two directions of the inproc channel cannot     *)
(* block each other for good.  The code runs 4 workers over pipes with     *)
(* zmq's default high-water marks, 1000 on either end, so HWM = 2000 and   *)
(* Low = 1000.                                                             *)
(***************************************************************************)
ASSUME RoomAssumption ==
  2 * (Cardinality(Workers) * (Low + 1)) > Cardinality(Workers) * HWM + 1

VARIABLES
  peer,    \* peer[c]: "open", "gone" once the client hung up, "closed" once
           \* the server closed the connection
  rx,      \* rx[c]: messages of c the STREAM socket has not handed out yet
  sent,    \* sent[c]: chunks the client of c has written
  got,     \* got[c]: the responses the client of c has received
  srv,     \* where the main thread is; "dead" once the process terminated
  pollin,  \* poll_items[1].revents & ZMQ_POLLIN, as the last poll left it
  held,    \* the message forward_as_req has read and not yet sent
  wpc,     \* wpc[w]: where worker w is
  status,  \* status[w]: START is waiting in w's SUB socket
  inq,     \* inq[w]: the DEALER pipe from the main thread to w
  hand,    \* hand[w]: the request w is working on
  outq     \* outq[w]: the DEALER pipe from w to the main thread

net  == <<peer, rx, sent, got>>
main == <<srv, pollin, held>>
work == <<wpc, status, inq, hand, outq>>
vars == <<net, main, work>>

Notify  == 0                   \* the empty frame STREAM sends when a peer
                               \* connects or disconnects
Chunk   == [conn : Conns, n : 1..MaxChunks]
Message == [id : Conns, body : Chunk]   \* identity frame, data frame

TypeOK ==
  /\ peer   \in [Conns -> {"absent", "open", "gone", "closed"}]
  /\ rx     \in [Conns -> Seq(0..MaxChunks)]
  /\ sent   \in [Conns -> 0..MaxChunks]
  /\ got    \in [Conns -> Seq(Chunk)]
  /\ srv    \in {"launch", "poll", "req", "send", "rep", "dead"}
  /\ pollin \in BOOLEAN
  /\ held   \in Seq(Message) /\ Len(held) <= 1
  /\ wpc    \in [Workers -> {"off", "subscribe", "connect", "poll", "status",
                             "both", "request", "handle", "reply", "swallow"}]
  /\ status \in [Workers -> BOOLEAN]
  /\ inq    \in [Workers -> Seq(Message)]
  /\ hand   \in [Workers -> Seq(Message)]
  /\ outq   \in [Workers -> Seq(Message)]
  /\ \A w \in Workers : /\ Len(inq[w]) <= HWM
                        /\ Len(hand[w]) <= 1
                        /\ Len(outq[w]) <= HWM

Init ==
  /\ peer   = [c \in Conns |-> "absent"]
  /\ rx     = [c \in Conns |-> <<>>]
  /\ sent   = [c \in Conns |-> 0]
  /\ got    = [c \in Conns |-> <<>>]
  /\ srv    = "launch"
  /\ pollin = FALSE
  /\ held   = <<>>
  /\ wpc    = [w \in Workers |-> "off"]
  /\ status = [w \in Workers |-> FALSE]
  /\ inq    = [w \in Workers |-> <<>>]
  /\ hand   = [w \in Workers |-> <<>>]
  /\ outq   = [w \in Workers |-> <<>>]

Alive == srv # "dead"

-----------------------------------------------------------------------------
(* The clients and the STREAM socket's side of their connections.          *)

client_connect(c) ==
  /\ Alive
  /\ peer[c] = "absent"
  /\ peer' = [peer EXCEPT ![c] = "open"]
  /\ rx'   = [rx EXCEPT ![c] = <<Notify>>]
  /\ UNCHANGED <<sent, got, main, work>>

client_write(c) ==
  /\ Alive
  /\ peer[c] = "open"
  /\ sent[c] < MaxChunks
  /\ sent' = [sent EXCEPT ![c] = @ + 1]
  /\ rx'   = [rx EXCEPT ![c] = Append(@, sent[c] + 1)]
  /\ UNCHANGED <<peer, got, main, work>>

client_hang_up(c) ==
  /\ Alive
  /\ c \in Impatient
  /\ peer[c] = "open"
  /\ peer' = [peer EXCEPT ![c] = "gone"]
  /\ rx'   = [rx EXCEPT ![c] = Append(@, Notify)]
  /\ UNCHANGED <<sent, got, main, work>>

-----------------------------------------------------------------------------
(* The main thread: http_server::run.                                      *)

\* workers_.emplace_front(...); workers_.front().start();
start(w) ==
  /\ srv = "launch"
  /\ wpc[w] = "off"
  /\ wpc' = [wpc EXCEPT ![w] = "subscribe"]
  /\ UNCHANGED <<net, main, status, inq, hand, outq>>

\* START reaches only workers whose subscription the PUB socket has seen.
Subscribed == {w \in Workers : wpc[w] \notin {"off", "subscribe"}}

publish_start ==
  /\ srv = "launch"
  /\ \A w \in Workers : wpc[w] # "off"
  /\ \E seen \in SUBSET Subscribed : status' = [w \in Workers |-> w \in seen]
  /\ srv' = "poll"
  /\ UNCHANGED <<net, pollin, held, wpc, inq, hand, outq>>

RequestWaiting == \E c \in Conns : rx[c] # <<>>
ReplyWaiting   == \E w \in Workers : outq[w] # <<>>

\* Mutant: replies are looked at only when no request is waiting.
poll_else_if ==
  /\ srv = "poll"
  /\ RequestWaiting \/ ReplyWaiting
  /\ srv' = IF RequestWaiting THEN "req" ELSE "rep"
  /\ pollin' = (ReplyWaiting /\ ~ RequestWaiting)
  /\ UNCHANGED <<net, held, work>>

poll ==
  /\ srv = "poll"
  /\ RequestWaiting \/ ReplyWaiting
  /\ srv' = IF RequestWaiting THEN "req" ELSE "rep"
  /\ pollin' = ReplyWaiting
  /\ UNCHANGED <<net, held, work>>

\* The second test of the loop body, poll_items[1].
AfterRequest == IF pollin THEN "rep" ELSE "poll"

\* Mutant: the emptiness test is missing, notifications are forwarded.
forward_as_req_recv_empty(c) ==
  /\ srv = "req"
  /\ rx[c] # <<>>
  /\ rx' = [rx EXCEPT ![c] = Tail(@)]
  /\ srv' = "send"
  /\ held' = <<[id |-> c, body |-> [conn |-> c, n |-> Head(rx[c])]]>>
  /\ UNCHANGED <<peer, sent, got, pollin, work>>

\* forward_as_req, up to the emptiness test of step 3.
forward_as_req_recv(c) ==
  /\ srv = "req"
  /\ rx[c] # <<>>
  /\ rx' = [rx EXCEPT ![c] = Tail(@)]
  /\ IF Head(rx[c]) = Notify
       THEN srv' = AfterRequest /\ held' = held
       ELSE /\ srv' = "send"
            /\ held' = <<[id |-> c, body |-> [conn |-> c, n |-> Head(rx[c])]]>>
  /\ UNCHANGED <<peer, sent, got, pollin, work>>

Connected(w) == wpc[w] \notin {"off", "subscribe", "connect"}

\* The rest of forward_as_req: send() blocks until some worker's pipe takes
\* the message.
forward_as_req_send(w) ==
  /\ srv = "send"
  /\ Connected(w)
  /\ Len(inq[w]) < HWM
  /\ inq' = [inq EXCEPT ![w] = Append(@, Head(held))]
  /\ held' = <<>>
  /\ srv' = AfterRequest
  /\ UNCHANGED <<net, pollin, wpc, status, hand, outq>>

\* Mutant: the identity and the empty frame behind the response are missing.
deliver_keep_alive(c, body) ==
  /\ peer[c] = "open"
  /\ got' = [got EXCEPT ![c] = Append(@, body)]
  /\ srv' = "poll"
  /\ UNCHANGED <<peer, rx>>

\* forward_as_stream: identity and response, then identity and an empty
\* frame, on which the STREAM socket closes the connection and forgets what
\* it still had to read from it.  Sending to an identity that is no longer
\* routable throws zmq::error_t, which run() rethrows and main() does not
\* catch.
deliver(c, body) ==
  /\ peer[c] = "open"
  /\ got'  = [got EXCEPT ![c] = Append(@, body)]
  /\ peer' = [peer EXCEPT ![c] = "closed"]
  /\ rx'   = [rx EXCEPT ![c] = <<>>]
  /\ srv'  = "poll"

\* The client hung up and the socket has not noticed: the frames are lost.
deliver_nowhere(c) ==
  /\ peer[c] = "gone"
  /\ peer' = [peer EXCEPT ![c] = "closed"]
  /\ rx'   = [rx EXCEPT ![c] = <<>>]
  /\ srv'  = "poll"
  /\ got'  = got

unroutable(c) ==
  /\ peer[c] \in {"gone", "closed"}
  /\ srv' = "dead"
  /\ UNCHANGED <<peer, rx, got>>

\* The client hangs up between the response and the second identity frame.
deliver_unroutable(c, body) ==
  /\ peer[c] = "open"
  /\ c \in Impatient
  /\ got'  = [got EXCEPT ![c] = Append(@, body)]
  /\ peer' = [peer EXCEPT ![c] = "gone"]
  /\ srv'  = "dead"
  /\ rx'   = rx

forward_as_stream(w) ==
  /\ srv = "rep"
  /\ outq[w] # <<>>
  /\ outq' = [outq EXCEPT ![w] = Tail(@)]
  /\ LET m == Head(outq[w]) IN
       \/ deliver(m.id, m.body)
       \/ deliver_nowhere(m.id)
       \/ unroutable(m.id)
       \/ deliver_unroutable(m.id, m.body)
  /\ UNCHANGED <<sent, pollin, held, wpc, status, inq, hand>>

-----------------------------------------------------------------------------
(* A worker thread: http_worker::run.                                      *)

\* connect() and ZMQ_SUBSCRIBE on the SUB socket ...
subscribe(w) ==
  /\ Alive
  /\ wpc[w] = "subscribe"
  /\ wpc' = [wpc EXCEPT ![w] = "connect"]
  /\ UNCHANGED <<net, main, status, inq, hand, outq>>

\* Mutant: the worker waits for START before it connects.
connect_after_start(w) ==
  /\ Alive
  /\ wpc[w] = "connect"
  /\ status[w]
  /\ wpc' = [wpc EXCEPT ![w] = "poll"]
  /\ UNCHANGED <<net, main, status, inq, hand, outq>>

\* ... and connect() on the DEALER socket.
connect(w) ==
  /\ Alive
  /\ wpc[w] = "connect"
  /\ wpc' = [wpc EXCEPT ![w] = "poll"]
  /\ UNCHANGED <<net, main, status, inq, hand, outq>>

worker_poll(w) ==
  /\ Alive
  /\ wpc[w] = "poll"
  /\ status[w] \/ inq[w] # <<>>
  /\ wpc' = [wpc EXCEPT ![w] = IF ~ status[w] THEN "request"
                               ELSE IF inq[w] = <<>> THEN "status" ELSE "both"]
  /\ UNCHANGED <<net, main, status, inq, hand, outq>>

\* START is only logged.
handle_status(w) ==
  /\ Alive
  /\ wpc[w] \in {"status", "both"}
  /\ status' = [status EXCEPT ![w] = FALSE]
  /\ wpc' = [wpc EXCEPT ![w] = IF @ = "both" THEN "request" ELSE "poll"]
  /\ UNCHANGED <<net, main, inq, hand, outq>>

\* handle_request: the identity frame, then the data frames while `more'.
handle_request_recv(w) ==
  /\ Alive
  /\ wpc[w] = "request"
  /\ hand' = [hand EXCEPT ![w] = <<Head(inq[w])>>]
  /\ inq'  = [inq EXCEPT ![w] = Tail(@)]
  /\ \E high \in MoreHigh :
       wpc' = [wpc EXCEPT ![w] = IF high = 0 THEN "handle" ELSE "swallow"]
  /\ UNCHANGED <<net, main, status, outq>>

\* The same loop when `more' stays non-zero: the next messages, identities
\* included, are appended to the frame of the first one.
handle_request_swallow(w) ==
  /\ Alive
  /\ wpc[w] = "swallow"
  /\ inq[w] # <<>>
  /\ inq' = [inq EXCEPT ![w] = Tail(@)]
  /\ UNCHANGED <<net, main, wpc, status, hand, outq>>

\* Parsing, lookup and execution end in a response whatever they throw; the
\* response is then serialised outside the try block, where an exception
\* leaves the thread and terminates the process.
handle_request_execute(w) ==
  /\ Alive
  /\ wpc[w] = "handle"
  /\ \/ /\ "known" \in Statuses
        /\ wpc' = [wpc EXCEPT ![w] = "reply"]
        /\ srv' = srv
     \/ /\ "unknown" \in Statuses
        /\ srv' = "dead"
        /\ wpc' = wpc
  /\ UNCHANGED <<net, pollin, held, status, inq, hand, outq>>

\* Mutant: the workers share one identity_t buffer.
handle_request_send_static_id(w) ==
  /\ Alive
  /\ wpc[w] = "reply"
  /\ Len(outq[w]) < HWM
  /\ \E v \in {u \in Workers : hand[u] # <<>>} :
       outq' = [outq EXCEPT ![w] =
                  Append(@, [Head(hand[w]) EXCEPT !.id = Head(hand[v]).id])]
  /\ hand' = [hand EXCEPT ![w] = <<>>]
  /\ wpc'  = [wpc EXCEPT ![w] = "poll"]
  /\ UNCHANGED <<net, main, status, inq>>

\* Mutant: send() with ZMQ_DONTWAIT, its result ignored.
handle_request_send_dontwait(w) ==
  /\ Alive
  /\ wpc[w] = "reply"
  /\ outq' = [outq EXCEPT ![w] = IF Len(@) < HWM THEN Append(@, Head(hand[w]))
                                 ELSE @]
  /\ hand' = [hand EXCEPT ![w] = <<>>]
  /\ wpc'  = [wpc EXCEPT ![w] = "poll"]
  /\ UNCHANGED <<net, main, status, inq>>

\* The two send() calls of one message, which block until the pipe takes it.
handle_request_send(w) ==
  /\ Alive
  /\ wpc[w] = "reply"
  /\ Len(outq[w]) < HWM
  /\ outq' = [outq EXCEPT ![w] = Append(@, Head(hand[w]))]
  /\ hand' = [hand EXCEPT ![w] = <<>>]
  /\ wpc'  = [wpc EXCEPT ![w] = "poll"]
  /\ UNCHANGED <<net, main, status, inq>>

-----------------------------------------------------------------------------

Clients == \E c \in Conns : \/ client_connect(c)
                            \/ client_write(c)
                            \/ client_hang_up(c)

MainThread ==
  \/ \E w \in Workers : start(w)
  \/ publish_start
  \/ poll
  \/ \E c \in Conns : forward_as_req_recv(c)
  \/ \E w \in Workers : forward_as_req_send(w)
  \/ \E w \in Workers : forward_as_stream(w)

Worker(w) ==
  \/ subscribe(w)
  \/ connect(w)
  \/ worker_poll(w)
  \/ handle_status(w)
  \/ handle_request_recv(w)
  \/ handle_request_swallow(w)
  \/ handle_request_execute(w)
  \/ handle_request_send(w)

Next == Clients \/ MainThread \/ \E w \in Workers : Worker(w)

Spec == Init /\ [][Next]_vars

\* The operating system schedules every thread; no client owes anything.
Fairness == WF_vars(MainThread) /\ \A w \in Workers : WF_vars(Worker(w))

FairSpec == Spec /\ Fairness

-----------------------------------------------------------------------------
(* Properties.                                                             *)

\* A response reaches the client whose request it answers: the identity that
\* travels through forward_as_req, the worker and forward_as_stream never
\* parts from its data frame.
RightClient ==
  \A c \in Conns : \A i \in 1..Len(got[c]) : got[c][i].conn = c

\* A connection carries at most one response and is not open behind it, also
\* when several of its chunks were forwarded to different workers.
OneReplyPerConnection ==
  \A c \in Conns : Len(got[c]) <= 1 /\ (got[c] # <<>> => peer[c] # "open")

\* The server as its clients see it: the threads, pipes and identities behind
\* the STREAM socket implement RequestResponse, in which a connection gets at
\* most one response, to a chunk of its own, and is closed by it, and nothing
\* happens once the process is gone.
Client == INSTANCE RequestResponse
            WITH asked <- sent, answer <- got, down <- (srv = "dead")

ImplementsRequestResponse == Client!Spec

\* The places where chunk n of connection c is: waiting in the STREAM socket,
\* in forward_as_req's hands, or in a worker's queues or hands.
At(q, m) == {i \in DOMAIN q : q[i] = m}

Places(c, n) ==
  LET m == [id |-> c, body |-> [conn |-> c, n |-> n]] IN
    ({"rx"} \X {c} \X At(rx[c], n))
    \cup ({"held"} \X {c} \X At(held, m))
    \cup (UNION {{"in"} \X {w} \X At(inq[w], m) : w \in Workers})
    \cup (UNION {{"hand"} \X {w} \X At(hand[w], m) : w \in Workers})
    \cup (UNION {{"out"} \X {w} \X At(outq[w], m) : w \in Workers})

\* No thread duplicates a request, and while its connection is open and no
\* worker's read of `more' was off, none drops it either: it is in exactly one
\* place on its way from the socket and back.
NoLostRequest ==
  \A c \in Conns : \A n \in 1..sent[c] :
    /\ Cardinality(Places(c, n)) <= 1
    /\ peer[c] = "open" /\ (\A w \in Workers : wpc[w] # "swallow")
         => Cardinality(Places(c, n)) = 1

\* The main thread may be refused by every worker's pipe while every worker
\* is refused by the pipe back: nobody reads, and the server stands still.
Gridlock ==
  /\ srv = "send"
  /\ \A w \in Workers : /\ wpc[w] = "reply"
                        /\ Len(inq[w]) > Low
                        /\ Len(outq[w]) > Low

\* forward_as_req and the workers' replies, both blocking sends over bounded
\* pipes, never wait for each other: the loop of run() takes a reply whenever
\* one is waiting, so that the requests under way leave a pipe some room.
NoGridlock == ~ Gridlock

InSlots  == {s \in Workers \X (1..HWM) : s[2] <= Len(inq[s[1]])}
Busy     == {w \in Workers : hand[w] # <<>>}
OutSlots == {s \in Workers \X (1..HWM) : s[2] <= Len(outq[s[1]])}

\* The messages between the main thread's two sockets.
Load == Cardinality(InSlots) + Cardinality(Busy) + Cardinality(OutSlots)

\* What the workers hold when the pipes to them are full and no reply waits.
Full == Cardinality(Workers) * HWM + Cardinality(Workers)

\* A round of run() that takes no reply found none waiting; the load can pass
\* Full by one message at the poll and by two within a round.
LoadBound ==
  /\ srv \in {"launch", "poll"} => Load <= Full + 1
  /\ srv \in {"req", "send"} => Load <= (IF pollin THEN Full + 1 ELSE Full)
  /\ srv = "rep" => Load <= Full + 2

\* Forwarding a response does not bring the process down.
ServerSurvives == Alive

\* Every client that waits is answered once it has sent its request, whoever
\* else is connected and whichever worker the request went to.
Answered ==
  \A c \in Conns \ Impatient : sent[c] > 0 ~> got[c] # <<>>

=============================================================================

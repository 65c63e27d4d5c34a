-------------------------- MODULE HttpServerProofs --------------------------
(***************************************************************************)
(* Proofs about HttpServer, for every number of connections, workers and   *)
(* chunks and every pipe size the assumptions allow.                       *)
(***************************************************************************)
EXTENDS HttpServer, FiniteSetTheorems, TLAPS

-----------------------------------------------------------------------------
(* Facts about the queues.                                                 *)

\* Taking the first message off a non-empty queue.
LEMMA TakeFirst ==
  ASSUME NEW S, NEW q \in Seq(S), q # <<>>
  PROVE  /\ Head(q) \in S
         /\ Tail(q) \in Seq(S)
         /\ Len(Tail(q)) = Len(q) - 1
         /\ Len(q) \in Nat \ {0}
  OBVIOUS

\* Adding a message behind a queue.
LEMMA AddLast ==
  ASSUME NEW S, NEW q \in Seq(S), NEW e \in S
  PROVE  /\ Append(q, e) \in Seq(S)
         /\ Len(Append(q, e)) = Len(q) + 1
         /\ Append(q, e) # <<>>
         /\ Len(q) \in Nat
  OBVIOUS

\* A hand with one message in it.
LEMMA OneMessage ==
  ASSUME NEW S, NEW e \in S
  PROVE  /\ <<e>> \in Seq(S)
         /\ Len(<<e>>) = 1
         /\ <<e>> # <<>>
         /\ Head(<<e>>) = e
  OBVIOUS

\* No message at all.
LEMMA NoMessage ==
  ASSUME NEW S
  PROVE  <<>> \in Seq(S) /\ Len(<<>>) = 0
  OBVIOUS

\* A queue of members of S is a queue of members of a larger set.
LEMMA WiderQueue ==
  ASSUME NEW S, NEW T, S \subseteq T, NEW q \in Seq(S)
  PROVE  q \in Seq(T)
  OBVIOUS

-----------------------------------------------------------------------------
(* The inductive invariant behind TypeOK, RightClient and                  *)
(* OneReplyPerConnection: types in which no message has parted from its    *)
(* identity, and what the program counters say about the hands and queues. *)

\* Messages whose identity frame is that of the connection they came from.
Genuine == {m \in Message : m.id = m.body.conn}

\* The responses that belong to connection c.
Own(c) == {b \in Chunk : b.conn = c}

NetInv ==
  /\ peer \in [Conns -> {"absent", "open", "gone", "closed"}]
  /\ rx   \in [Conns -> Seq(0..MaxChunks)]
  /\ sent \in [Conns -> 0..MaxChunks]

GotInv ==
  /\ got \in [Conns -> Seq(Chunk)]
  /\ \A c \in Conns : /\ got[c] \in Seq(Own(c))
                      /\ Len(got[c]) <= 1
                      /\ peer[c] \in {"absent", "open"} => got[c] = <<>>

MainInv ==
  /\ srv    \in {"launch", "poll", "req", "send", "rep", "dead"}
  /\ pollin \in BOOLEAN
  /\ held   \in Seq(Genuine)
  /\ Len(held) <= 1
  /\ srv = "send" => held # <<>>

WorkInv ==
  /\ wpc    \in [Workers -> {"off", "subscribe", "connect", "poll", "status",
                             "both", "request", "handle", "reply", "swallow"}]
  /\ status \in [Workers -> BOOLEAN]
  /\ inq    \in [Workers -> Seq(Genuine)]
  /\ hand   \in [Workers -> Seq(Genuine)]
  /\ outq   \in [Workers -> Seq(Genuine)]
  /\ \A w \in Workers :
       /\ Len(inq[w]) <= HWM
       /\ Len(outq[w]) <= HWM
       /\ Len(hand[w]) <= 1
       /\ wpc[w] \in {"both", "request"} => inq[w] # <<>>
       /\ hand[w] # <<>> <=> wpc[w] \in {"handle", "reply", "swallow"}

IInv == NetInv /\ GotInv /\ MainInv /\ WorkInv

\* The program starts in the invariant.
LEMMA InitIInv == Init => IInv
<1> SUFFICES ASSUME Init PROVE IInv
  OBVIOUS
<1>1. NetInv
  BY ServerAssumption, NoMessage DEF Init, NetInv
<1>2. GotInv
  BY NoMessage DEF Init, GotInv
<1>3. MainInv
  <2>1. held \in Seq(Genuine) /\ Len(held) <= 1
    BY NoMessage DEF Init
  <2>2. pollin \in BOOLEAN /\ srv = "launch"
    BY DEF Init
  <2> QED
    BY <2>1, <2>2 DEF MainInv
<1>4. WorkInv
  BY ServerAssumption, NoMessage DEF Init, WorkInv
<1> QED
  BY <1>1, <1>2, <1>3, <1>4 DEF IInv

\* The clients' steps only touch the sockets' side of their connections.
LEMMA ClientsIInv == ASSUME IInv, Clients PROVE IInv'
<1> PICK c \in Conns : client_connect(c) \/ client_write(c) \/ client_hang_up(c)
  BY DEF Clients
<1>1. CASE client_connect(c)
  <2>1. NetInv'
    BY <1>1, ServerAssumption, OneMessage DEF client_connect, IInv, NetInv, Notify
  <2>2. GotInv'
    BY <1>1 DEF client_connect, IInv, NetInv, GotInv
  <2> QED
    BY <1>1, <2>1, <2>2 DEF client_connect, IInv, MainInv, WorkInv, main, work
<1>2. CASE client_write(c)
  <2>1. NetInv'
    BY <1>2, ServerAssumption, AddLast DEF client_write, IInv, NetInv
  <2>2. GotInv'
    BY <1>2 DEF client_write, IInv, GotInv
  <2> QED
    BY <1>2, <2>1, <2>2 DEF client_write, IInv, MainInv, WorkInv, main, work
<1>3. CASE client_hang_up(c)
  <2>1. NetInv'
    BY <1>3, ServerAssumption, AddLast DEF client_hang_up, IInv, NetInv, Notify
  <2>2. GotInv'
    BY <1>3 DEF client_hang_up, IInv, NetInv, GotInv
  <2> QED
    BY <1>3, <2>1, <2>2 DEF client_hang_up, IInv, MainInv, WorkInv, main, work
<1> QED
  BY <1>1, <1>2, <1>3

\* The main thread's steps: launching, polling and forwarding.
LEMMA MainThreadIInv == ASSUME IInv, MainThread PROVE IInv'
<1> USE DEF IInv
<1>1. CASE \E w \in Workers : start(w)
  <2> PICK w \in Workers : start(w)
    BY <1>1
  <2>1. WorkInv'
    BY DEF start, WorkInv
  <2> QED
    BY <2>1 DEF start, NetInv, GotInv, MainInv, net, main
<1>2. CASE publish_start
  <2>1. WorkInv'
    BY <1>2 DEF publish_start, WorkInv
  <2>2. MainInv'
    BY <1>2 DEF publish_start, MainInv
  <2> QED
    BY <1>2, <2>1, <2>2 DEF publish_start, NetInv, GotInv, net
<1>3. CASE poll
  <2>1. pollin' \in BOOLEAN
    BY <1>3 DEF poll, ReplyWaiting
  <2>2. srv' \in {"req", "rep"} /\ held' = held
    BY <1>3 DEF poll
  <2>3. MainInv'
    BY <2>1, <2>2 DEF MainInv
  <2> QED
    BY <1>3, <2>3 DEF poll, NetInv, GotInv, WorkInv, net, work
<1>4. CASE \E c \in Conns : forward_as_req_recv(c)
  <2> PICK c \in Conns : forward_as_req_recv(c)
    BY <1>4
  <2>1. /\ Head(rx[c]) \in 0..MaxChunks
        /\ Tail(rx[c]) \in Seq(0..MaxChunks)
    BY TakeFirst DEF forward_as_req_recv, NetInv
  <2>2. NetInv'
    BY <2>1 DEF forward_as_req_recv, NetInv
  <2>3. MainInv'
    <3>1. CASE Head(rx[c]) = Notify
      BY <3>1 DEF forward_as_req_recv, MainInv, AfterRequest
    <3>2. CASE Head(rx[c]) # Notify
      <4> DEFINE m == [id |-> c, body |-> [conn |-> c, n |-> Head(rx[c])]]
      <4>1. m \in Genuine
        BY <2>1, <3>2, ServerAssumption DEF Notify, Genuine, Message, Chunk
      <4>2. held' = <<m>> /\ srv' = "send" /\ pollin' = pollin
        BY <3>2 DEF forward_as_req_recv
      <4> HIDE DEF m
      <4> QED
        BY <4>1, <4>2, OneMessage DEF MainInv
    <3> QED
      BY <3>1, <3>2
  <2> QED
    BY <2>2, <2>3 DEF forward_as_req_recv, GotInv, WorkInv, work
<1>5. CASE \E w \in Workers : forward_as_req_send(w)
  <2> PICK w \in Workers : forward_as_req_send(w)
    BY <1>5
  <2>1. Head(held) \in Genuine
    BY TakeFirst DEF forward_as_req_send, MainInv
  <2>2. /\ Append(inq[w], Head(held)) \in Seq(Genuine)
        /\ Append(inq[w], Head(held)) # <<>>
        /\ Len(Append(inq[w], Head(held))) <= HWM
    BY <2>1, AddLast, ServerAssumption DEF forward_as_req_send, WorkInv
  <2>3. WorkInv'
    BY <2>2 DEF forward_as_req_send, WorkInv
  <2>4. MainInv'
    BY NoMessage DEF forward_as_req_send, MainInv, AfterRequest
  <2> QED
    BY <2>3, <2>4 DEF forward_as_req_send, NetInv, GotInv, net
<1>6. CASE \E w \in Workers : forward_as_stream(w)
  <2> PICK w \in Workers : forward_as_stream(w)
    BY <1>6
  <2> DEFINE m == Head(outq[w])
  <2>1. /\ m \in Genuine
        /\ Tail(outq[w]) \in Seq(Genuine)
        /\ Len(Tail(outq[w])) <= HWM
    BY TakeFirst, ServerAssumption DEF forward_as_stream, WorkInv
  <2>2. m.id \in Conns /\ m.body \in Own(m.id) /\ m.body \in Chunk
    BY <2>1 DEF Genuine, Message, Chunk, Own
  <2>3. \/ deliver(m.id, m.body)
        \/ deliver_nowhere(m.id)
        \/ unroutable(m.id)
        \/ deliver_unroutable(m.id, m.body)
    BY DEF forward_as_stream
  <2>4. WorkInv'
    BY <2>1 DEF forward_as_stream, WorkInv
  <2> HIDE DEF m
  <2>5. NetInv'
    <3>1. sent' = sent /\ <<>> \in Seq(0..MaxChunks)
      BY NoMessage DEF forward_as_stream
    <3>2. \/ peer' = peer
          \/ \E p \in {"closed", "gone"} : peer' = [peer EXCEPT ![m.id] = p]
      BY <2>3 DEF deliver, deliver_nowhere, unroutable, deliver_unroutable
    <3>3. rx' = rx \/ rx' = [rx EXCEPT ![m.id] = <<>>]
      BY <2>3 DEF deliver, deliver_nowhere, unroutable, deliver_unroutable
    <3>4. peer' \in [Conns -> {"absent", "open", "gone", "closed"}]
      BY <3>2 DEF NetInv
    <3>5. rx' \in [Conns -> Seq(0..MaxChunks)]
      BY <3>1, <3>3 DEF NetInv
    <3> QED
      BY <3>1, <3>4, <3>5 DEF NetInv
  <2>6. MainInv'
    BY <2>3 DEF MainInv, deliver, deliver_nowhere, unroutable,
                deliver_unroutable, forward_as_stream
  <2>7. GotInv'
    <3>1. CASE deliver(m.id, m.body) \/ deliver_unroutable(m.id, m.body)
      <4>1. got[m.id] = <<>> /\ got[m.id] \in Seq(Own(m.id))
        BY <2>2, <3>1 DEF deliver, deliver_unroutable, GotInv
      <4>2. /\ Append(got[m.id], m.body) \in Seq(Own(m.id))
            /\ Append(got[m.id], m.body) \in Seq(Chunk)
            /\ Len(Append(got[m.id], m.body)) <= 1
        BY <2>2, <4>1, AddLast DEF GotInv
      <4>3. /\ got' = [got EXCEPT ![m.id] = Append(got[m.id], m.body)]
            /\ \E p \in {"closed", "gone"} : peer' = [peer EXCEPT ![m.id] = p]
        BY <3>1 DEF deliver, deliver_unroutable
      <4> QED
        BY <2>2, <4>2, <4>3 DEF GotInv, NetInv
    <3>2. CASE deliver_nowhere(m.id) \/ unroutable(m.id)
      BY <2>2, <3>2 DEF deliver_nowhere, unroutable, GotInv, NetInv
    <3> QED
      BY <2>3, <3>1, <3>2
  <2> QED
    BY <2>4, <2>5, <2>6, <2>7
<1> QED
  BY <1>1, <1>2, <1>3, <1>4, <1>5, <1>6 DEF MainThread

\* The steps of a worker: starting up, polling, reading and answering.
LEMMA WorkerIInv ==
  ASSUME IInv, NEW w \in Workers, Worker(w) PROVE IInv'
<1> USE DEF IInv
<1>1. CASE subscribe(w) \/ connect(w) \/ worker_poll(w) \/ handle_status(w)
  <2>1. WorkInv'
    BY <1>1 DEF subscribe, connect, worker_poll, handle_status, WorkInv
  <2> QED
    BY <1>1, <2>1 DEF subscribe, connect, worker_poll, handle_status,
                      NetInv, GotInv, MainInv, net, main
<1>2. CASE handle_request_recv(w)
  <2>1. /\ <<Head(inq[w])>> \in Seq(Genuine)
        /\ <<Head(inq[w])>> # <<>>
        /\ Len(<<Head(inq[w])>>) <= 1
        /\ Tail(inq[w]) \in Seq(Genuine)
        /\ Len(Tail(inq[w])) <= HWM
    BY <1>2, TakeFirst, OneMessage, ServerAssumption
       DEF handle_request_recv, WorkInv
  <2>2. \E p \in {"handle", "swallow"} : wpc' = [wpc EXCEPT ![w] = p]
    BY <1>2 DEF handle_request_recv
  <2>3. WorkInv'
    BY <1>2, <2>1, <2>2 DEF handle_request_recv, WorkInv
  <2> QED
    BY <1>2, <2>3 DEF handle_request_recv, NetInv, GotInv, MainInv, net, main
<1>3. CASE handle_request_swallow(w)
  <2>1. Tail(inq[w]) \in Seq(Genuine) /\ Len(Tail(inq[w])) <= HWM
    BY <1>3, TakeFirst, ServerAssumption DEF handle_request_swallow, WorkInv
  <2>2. WorkInv'
    BY <1>3, <2>1 DEF handle_request_swallow, WorkInv
  <2> QED
    BY <1>3, <2>2 DEF handle_request_swallow, NetInv, GotInv, MainInv, net, main
<1>4. CASE handle_request_execute(w)
  <2>1. WorkInv'
    BY <1>4 DEF handle_request_execute, WorkInv
  <2>2. MainInv'
    BY <1>4 DEF handle_request_execute, MainInv
  <2> QED
    BY <1>4, <2>1, <2>2 DEF handle_request_execute, NetInv, GotInv, net
<1>5. CASE handle_request_send(w)
  <2>1. Head(hand[w]) \in Genuine
    BY <1>5, TakeFirst DEF handle_request_send, WorkInv
  <2>2. /\ Append(outq[w], Head(hand[w])) \in Seq(Genuine)
        /\ Len(Append(outq[w], Head(hand[w]))) <= HWM
    BY <1>5, <2>1, AddLast, ServerAssumption DEF handle_request_send, WorkInv
  <2>3. WorkInv'
    BY <1>5, <2>2, NoMessage DEF handle_request_send, WorkInv
  <2> QED
    BY <1>5, <2>3 DEF handle_request_send, NetInv, GotInv, MainInv, net, main
<1> QED
  BY <1>1, <1>2, <1>3, <1>4, <1>5 DEF Worker

\* Every step of the system keeps the invariant.
LEMMA NextIInv == IInv /\ [Next]_vars => IInv'
<1> SUFFICES ASSUME IInv, [Next]_vars PROVE IInv'
  OBVIOUS
<1>1. CASE Next
  BY <1>1, ClientsIInv, MainThreadIInv, WorkerIInv DEF Next
<1>2. CASE UNCHANGED vars
  BY <1>2 DEF IInv, NetInv, GotInv, MainInv, WorkInv, vars, net, main, work
<1> QED
  BY <1>1, <1>2

\* The invariant holds throughout every run of the server.
THEOREM Invariance == Spec => []IInv
  BY InitIInv, NextIInv, PTL DEF Spec

\* Every variable keeps its type: no pipe holds more than HWM messages, no
\* thread more than one.
THEOREM TypeCorrect == Spec => []TypeOK
<1>1. IInv => TypeOK
  <2> SUFFICES ASSUME IInv PROVE TypeOK
    OBVIOUS
  <2>1. Genuine \subseteq Message
    BY DEF Genuine
  <2>2. held \in Seq(Message)
    BY <2>1, WiderQueue DEF IInv, MainInv
  <2>3. \A w \in Workers : /\ inq[w] \in Seq(Message)
                           /\ hand[w] \in Seq(Message)
                           /\ outq[w] \in Seq(Message)
    BY <2>1, WiderQueue DEF IInv, WorkInv
  <2>4. /\ inq \in [Workers -> Seq(Message)]
        /\ hand \in [Workers -> Seq(Message)]
        /\ outq \in [Workers -> Seq(Message)]
    BY <2>3 DEF IInv, WorkInv
  <2> QED
    BY <2>2, <2>4 DEF IInv, NetInv, GotInv, MainInv, WorkInv, TypeOK
<1> QED
  BY <1>1, Invariance, PTL

\* The identity frame read in forward_as_req reaches forward_as_stream with
\* the response to its own data frame, however the workers interleave: a
\* client never receives another client's response.
THEOREM ResponsesReachTheirClient == Spec => []RightClient
<1>1. IInv => RightClient
  <2> SUFFICES ASSUME IInv, NEW c \in Conns, NEW i \in 1..Len(got[c])
               PROVE  got[c][i].conn = c
    BY DEF RightClient
  <2>1. got[c] \in Seq(Own(c))
    BY DEF IInv, GotInv
  <2>2. got[c][i] \in Own(c)
    BY <2>1
  <2> QED
    BY <2>2 DEF Own
<1> QED
  BY <1>1, Invariance, PTL

\* forward_as_stream sends at most one response on a connection, which is
\* never open afterwards, however many chunks of it the workers answer.
THEOREM AtMostOneResponse == Spec => []OneReplyPerConnection
<1>1. IInv => OneReplyPerConnection
  BY DEF IInv, GotInv, OneReplyPerConnection
<1> QED
  BY <1>1, Invariance, PTL

-----------------------------------------------------------------------------
(* No gridlock: the load of the inproc channel, counted in occupied slots. *)

\* What a queue's length does to the slots it occupies.
Slots(q) == {s \in Workers \X (1..HWM) : s[2] <= Len(q[s[1]])}

\* The slots are finitely many, at most HWM for each worker.
LEMMA SlotsFinite ==
  ASSUME NEW q
  PROVE  /\ IsFiniteSet(Slots(q))
         /\ Cardinality(Slots(q)) \in Nat
         /\ Cardinality(Slots(q)) <= Cardinality(Workers) * HWM
<1> DEFINE All == Workers \X (1..HWM)
<1>1. IsFiniteSet(1..HWM) /\ Cardinality(1..HWM) = HWM
  BY FS_Interval, ServerAssumption
<1>2. IsFiniteSet(All) /\ Cardinality(All) = Cardinality(Workers) * HWM
  BY <1>1, FS_Product, ServerAssumption
<1>3. Slots(q) \subseteq All
  BY DEF Slots
<1>4. IsFiniteSet(Slots(q)) /\ Cardinality(Slots(q)) <= Cardinality(All)
  BY <1>2, <1>3, FS_Subset
<1> QED
  BY <1>2, <1>4, FS_CardinalityType

\* A message added behind a queue occupies one more slot.
LEMMA SlotsAdd ==
  ASSUME NEW q \in [Workers -> Seq(Genuine)], NEW w \in Workers,
         NEW e \in Genuine, Len(q[w]) < HWM
  PROVE  Cardinality(Slots([q EXCEPT ![w] = Append(q[w], e)]))
           = Cardinality(Slots(q)) + 1
<1> DEFINE r == [q EXCEPT ![w] = Append(q[w], e)]
           t == <<w, Len(q[w]) + 1>>
<1>0. /\ Len(Append(q[w], e)) = Len(q[w]) + 1
      /\ Len(q[w]) \in Nat
  <2>1. q[w] \in Seq(Genuine)
    OBVIOUS
  <2> QED
    BY <2>1, AddLast
<1>1. /\ Len(r[w]) = Len(q[w]) + 1
      /\ Len(q[w]) \in Nat
      /\ \A v \in Workers : v # w => r[v] = q[v]
  <2>1. r[w] = Append(q[w], e)
    OBVIOUS
  <2>2. \A v \in Workers : v # w => r[v] = q[v]
    OBVIOUS
  <2> HIDE DEF r
  <2> QED
    BY <1>0, <2>1, <2>2
<1>2. t \in Workers \X (1..HWM) /\ t[1] = w /\ t[2] = Len(q[w]) + 1
  BY <1>1, ServerAssumption
<1> HIDE DEF r
<1>3. Slots(r) = Slots(q) \cup {t}
  <2>1. ASSUME NEW s \in Workers \X (1..HWM)
        PROVE  s \in Slots(r) <=> s \in Slots(q) \cup {t}
    <3>1. CASE s[1] = w
      BY <1>1, <1>2, <3>1, ServerAssumption DEF Slots
    <3>2. CASE s[1] # w
      BY <1>1, <1>2, <3>2 DEF Slots
    <3> QED
      BY <3>1, <3>2
  <2> QED
    BY <1>2, <2>1 DEF Slots
<1>4. t \notin Slots(q)
  BY <1>1, <1>2 DEF Slots
<1> QED
  BY <1>3, <1>4, SlotsFinite, FS_AddElement DEF r

\* A message taken off a queue frees one slot.
LEMMA SlotsTake ==
  ASSUME NEW q \in [Workers -> Seq(Genuine)], NEW w \in Workers,
         q[w] # <<>>, Len(q[w]) <= HWM
  PROVE  Cardinality(Slots([q EXCEPT ![w] = Tail(q[w])]))
           = Cardinality(Slots(q)) - 1
<1> DEFINE r == [q EXCEPT ![w] = Tail(q[w])]
           t == <<w, Len(q[w])>>
<1>1. /\ Len(r[w]) = Len(q[w]) - 1
      /\ Len(q[w]) \in Nat \ {0}
      /\ \A v \in Workers : v # w => r[v] = q[v]
  BY TakeFirst
<1>2. t \in Workers \X (1..HWM) /\ t[1] = w /\ t[2] = Len(q[w])
  BY <1>1, ServerAssumption
<1> HIDE DEF r
<1>3. Slots(r) = Slots(q) \ {t}
  <2>1. ASSUME NEW s \in Workers \X (1..HWM)
        PROVE  s \in Slots(r) <=> s \in Slots(q) \ {t}
    <3>1. CASE s[1] = w
      BY <1>1, <1>2, <3>1, ServerAssumption DEF Slots
    <3>2. CASE s[1] # w
      BY <1>1, <1>2, <3>2 DEF Slots
    <3> QED
      BY <3>1, <3>2
  <2> QED
    BY <1>2, <2>1 DEF Slots
<1>4. t \in Slots(q)
  BY <1>1, <1>2 DEF Slots
<1>5. Cardinality(Slots(q) \ {t}) = Cardinality(Slots(q)) - 1
  <2> HIDE DEF t
  <2>1. IsFiniteSet(Slots(q))
    BY SlotsFinite
  <2> QED
    BY <1>4, <2>1, FS_RemoveElement
<1> QED
  BY <1>3, <1>5 DEF r

\* Workers that hold a request are finitely many.
LEMMA BusyFinite ==
  /\ IsFiniteSet(Busy)
  /\ Cardinality(Busy) \in Nat
  /\ Cardinality(Busy) <= Cardinality(Workers)
  /\ Cardinality(Workers) \in Nat
<1>1. Busy \subseteq Workers
  BY DEF Busy
<1>2. IsFiniteSet(Busy) /\ Cardinality(Busy) <= Cardinality(Workers)
  BY <1>1, FS_Subset, ServerAssumption
<1> QED
  BY <1>2, FS_CardinalityType, ServerAssumption

\* A worker's hand is filled ...
LEMMA BusyAdd ==
  ASSUME NEW w \in Workers, hand[w] = <<>>, hand \in [Workers -> Seq(Genuine)],
         NEW e, hand' = [hand EXCEPT ![w] = <<e>>]
  PROVE  Cardinality(Busy') = Cardinality(Busy) + 1
<1>1. Busy' = Busy \cup {w} /\ w \notin Busy
  BY DEF Busy
<1> QED
  BY <1>1, BusyFinite, FS_AddElement

\* ... and emptied.
LEMMA BusyRemove ==
  ASSUME NEW w \in Workers, hand[w] # <<>>, hand \in [Workers -> Seq(Genuine)],
         hand' = [hand EXCEPT ![w] = <<>>]
  PROVE  Cardinality(Busy') = Cardinality(Busy) - 1
<1>1. Busy' = Busy \ {w} /\ w \in Busy
  BY DEF Busy
<1> QED
  BY <1>1, BusyFinite, FS_RemoveElement

\* The load is a number, and so is the load of the next state.
LEMMA LoadNat ==
  /\ InSlots = Slots(inq) /\ OutSlots = Slots(outq)
  /\ Load = Cardinality(Slots(inq)) + Cardinality(Busy) + Cardinality(Slots(outq))
  /\ Load \in Nat
  /\ Full = Cardinality(Workers) * HWM + Cardinality(Workers)
  /\ Full \in Nat
<1>1. InSlots = Slots(inq) /\ OutSlots = Slots(outq)
  BY DEF InSlots, OutSlots, Slots
<1>2. /\ Cardinality(Slots(inq)) \in Nat
      /\ Cardinality(Slots(outq)) \in Nat
      /\ Cardinality(Busy) \in Nat
      /\ Cardinality(Workers) * HWM \in Nat
      /\ Cardinality(Workers) \in Nat
  BY SlotsFinite, BusyFinite, ServerAssumption
<1> QED
  BY <1>1, <1>2 DEF Load, Full

\* The load after a step that leaves the pipes and the hands alone.
LEMMA LoadUnchanged ==
  ASSUME UNCHANGED <<inq, hand, outq>>
  PROVE  Load' = Load /\ Full' = Full
  BY DEF Load, InSlots, OutSlots, Busy, Full

\* A worker's steps move messages along or drop them; none adds one.
LEMMA WorkerLoad ==
  ASSUME IInv, NEW w \in Workers, Worker(w)
  PROVE  Load' <= Load /\ Load' \in Nat
<1> USE DEF IInv, WorkInv
<1>0. Load' = Cardinality(Slots(inq')) + Cardinality(Busy')
              + Cardinality(Slots(outq'))
  BY DEF Load, InSlots, OutSlots, Slots
<1>01. /\ Cardinality(Slots(inq)) \in Nat
       /\ Cardinality(Slots(outq)) \in Nat
       /\ Cardinality(Busy) \in Nat
  BY SlotsFinite, BusyFinite
<1>1. CASE \/ subscribe(w) \/ connect(w) \/ worker_poll(w) \/ handle_status(w)
           \/ handle_request_execute(w)
  <2>1. UNCHANGED <<inq, hand, outq>>
    BY <1>1 DEF subscribe, connect, worker_poll, handle_status,
                handle_request_execute
  <2> QED
    BY <2>1, LoadUnchanged, LoadNat
<1>2. CASE handle_request_recv(w)
  <2>1. hand[w] = <<>> /\ inq[w] # <<>>
    BY <1>2 DEF handle_request_recv
  <2>2. Cardinality(Busy') = Cardinality(Busy) + 1
    BY <1>2, <2>1, BusyAdd DEF handle_request_recv
  <2>3. Cardinality(Slots(inq')) = Cardinality(Slots(inq)) - 1
    BY <1>2, <2>1, SlotsTake DEF handle_request_recv
  <2>4. outq' = outq
    BY <1>2 DEF handle_request_recv
  <2> QED
    BY <1>0, <1>01, <2>2, <2>3, <2>4, LoadNat
<1>3. CASE handle_request_swallow(w)
  <2>1. Cardinality(Slots(inq')) = Cardinality(Slots(inq)) - 1
    BY <1>3, SlotsTake DEF handle_request_swallow
  <2>2. outq' = outq /\ Busy' = Busy
    BY <1>3 DEF handle_request_swallow, Busy
  <2>3. Cardinality(Slots(inq')) \in Nat
    BY SlotsFinite
  <2> QED
    BY <1>0, <1>01, <2>1, <2>2, <2>3, LoadNat
<1>4. CASE handle_request_send(w)
  <2>1. hand[w] # <<>> /\ Head(hand[w]) \in Genuine
    BY <1>4, TakeFirst DEF handle_request_send
  <2>2. Cardinality(Busy') = Cardinality(Busy) - 1
    BY <1>4, <2>1, BusyRemove DEF handle_request_send
  <2>3. Cardinality(Slots(outq')) = Cardinality(Slots(outq)) + 1
    <3> DEFINE e == Head(hand[w])
    <3>1. /\ outq \in [Workers -> Seq(Genuine)]
          /\ Len(outq[w]) < HWM
          /\ outq' = [outq EXCEPT ![w] = Append(outq[w], e)]
      BY <1>4 DEF handle_request_send
    <3>2. e \in Genuine
      BY <2>1
    <3> HIDE DEF e, IInv, WorkInv
    <3>3. Cardinality(Slots([outq EXCEPT ![w] = Append(outq[w], e)]))
            = Cardinality(Slots(outq)) + 1
      BY <3>1, <3>2, SlotsAdd
    <3> QED
      BY <3>1, <3>3
  <2>4. inq' = inq
    BY <1>4 DEF handle_request_send
  <2> QED
    BY <1>0, <1>01, <2>2, <2>3, <2>4, LoadNat
<1> QED
  BY <1>1, <1>2, <1>3, <1>4 DEF Worker

\* Nothing is under way when the program starts.
LEMMA InitLoad == Init => LoadBound
<1> SUFFICES ASSUME Init PROVE LoadBound
  OBVIOUS
<1>1. Slots(inq) = {} /\ Slots(outq) = {} /\ Busy = {}
  BY NoMessage DEF Init, Slots, Busy
<1>2. Load = 0
  BY <1>1, LoadNat, FS_EmptySet
<1>3. srv = "launch"
  BY DEF Init
<1> QED
  BY <1>2, <1>3, LoadNat DEF LoadBound

\* The main thread adds a message only in a round that takes one, or that
\* found no reply waiting: then the load is what fits into the pipes to the
\* workers and into their hands.
LEMMA MainThreadLoad ==
  ASSUME IInv, LoadBound, MainThread
  PROVE  LoadBound'
<1> USE DEF IInv, WorkInv, MainInv
<1>0. /\ Load' = Cardinality(Slots(inq')) + Cardinality(Busy')
                 + Cardinality(Slots(outq'))
      /\ Full' = Full
  BY DEF Load, InSlots, OutSlots, Slots, Full
<1>01. /\ Cardinality(Slots(inq)) \in Nat
       /\ Cardinality(Slots(outq)) \in Nat
       /\ Cardinality(Busy) \in Nat
       /\ Load \in Nat /\ Full \in Nat
  BY SlotsFinite, BusyFinite, LoadNat
<1>1. CASE (\E w \in Workers : start(w)) \/ publish_start
  <2>1. UNCHANGED <<inq, hand, outq>>
    BY <1>1 DEF start, publish_start
  <2>2. srv = "launch" /\ srv' \in {"launch", "poll"}
    BY <1>1 DEF start, publish_start, main
  <2> QED
    BY <1>01, <2>1, <2>2, LoadUnchanged DEF LoadBound
<1>2. CASE poll
  <2>1. UNCHANGED <<inq, hand, outq>>
    BY <1>2 DEF poll, work
  <2>2. Load <= Full + 1
    BY <1>2 DEF poll, LoadBound
  <2>3. CASE ReplyWaiting
    <3>1. pollin' = TRUE /\ srv' \in {"req", "rep"}
      BY <1>2, <2>3 DEF poll
    <3> QED
      BY <1>01, <2>1, <2>2, <3>1, LoadUnchanged DEF LoadBound
  <2>4. CASE ~ ReplyWaiting
    <3>1. srv' = "req"
      BY <1>2, <2>4 DEF poll
    <3>2. \A w \in Workers : Len(outq[w]) = 0
      BY <2>4, NoMessage DEF ReplyWaiting
    <3>3. Slots(outq) = {}
      BY <3>2 DEF Slots
    <3>4. Load <= Full
      BY <3>3, FS_EmptySet, SlotsFinite, BusyFinite, LoadNat, ServerAssumption
    <3> QED
      BY <1>01, <2>1, <3>1, <3>4, LoadUnchanged DEF LoadBound
  <2> QED
    BY <2>3, <2>4
<1>3. CASE \E c \in Conns : forward_as_req_recv(c)
  <2>1. UNCHANGED <<inq, hand, outq, pollin>>
    BY <1>3 DEF forward_as_req_recv, work
  <2>2. /\ srv = "req"
        /\ srv' \in {"send", "rep", "poll"}
        /\ srv' = "rep" => pollin
    BY <1>3 DEF forward_as_req_recv, AfterRequest
  <2>3. srv' = "poll" => ~ pollin
    BY <1>3 DEF forward_as_req_recv, AfterRequest
  <2> QED
    BY <1>01, <2>1, <2>2, <2>3, LoadUnchanged DEF LoadBound
<1>4. CASE \E w \in Workers : forward_as_req_send(w)
  <2> PICK w \in Workers : forward_as_req_send(w)
    BY <1>4
  <2> DEFINE e == Head(held)
  <2>1. /\ inq \in [Workers -> Seq(Genuine)]
        /\ Len(inq[w]) < HWM
        /\ inq' = [inq EXCEPT ![w] = Append(inq[w], e)]
        /\ srv = "send" /\ srv' = AfterRequest
        /\ UNCHANGED <<hand, outq, pollin>>
    BY DEF forward_as_req_send
  <2>2. e \in Genuine
    <3>1. held \in Seq(Genuine) /\ held # <<>>
      BY <2>1
    <3> HIDE DEF IInv, WorkInv, MainInv
    <3> QED
      BY <3>1, TakeFirst
  <2> HIDE DEF e
  <2>3. Cardinality(Slots(inq')) = Cardinality(Slots(inq)) + 1
    <3> HIDE DEF IInv, WorkInv, MainInv
    <3>1. Cardinality(Slots([inq EXCEPT ![w] = Append(inq[w], e)]))
            = Cardinality(Slots(inq)) + 1
      BY <2>1, <2>2, SlotsAdd
    <3> QED
      BY <2>1, <3>1
  <2>4. Load' = Load + 1
    BY <1>0, <1>01, <2>1, <2>3, LoadNat DEF Busy
  <2>5. Load <= (IF pollin THEN Full + 1 ELSE Full)
    BY <2>1 DEF LoadBound
  <2> QED
    BY <1>0, <1>01, <2>1, <2>4, <2>5 DEF LoadBound, AfterRequest
<1>5. CASE \E w \in Workers : forward_as_stream(w)
  <2> PICK w \in Workers : forward_as_stream(w)
    BY <1>5
  <2>1. /\ outq \in [Workers -> Seq(Genuine)]
        /\ outq[w] # <<>> /\ Len(outq[w]) <= HWM
        /\ outq' = [outq EXCEPT ![w] = Tail(outq[w])]
        /\ srv = "rep"
        /\ UNCHANGED <<inq, hand>>
    BY DEF forward_as_stream
  <2>2. srv' \in {"poll", "dead"}
    BY DEF forward_as_stream, deliver, deliver_nowhere, unroutable,
           deliver_unroutable
  <2>3. Cardinality(Slots(outq')) = Cardinality(Slots(outq)) - 1
    <3> HIDE DEF IInv, WorkInv, MainInv
    <3>1. Cardinality(Slots([outq EXCEPT ![w] = Tail(outq[w])]))
            = Cardinality(Slots(outq)) - 1
      BY <2>1, SlotsTake
    <3> QED
      BY <2>1, <3>1
  <2>4. Load' = Load - 1
    BY <1>0, <1>01, <2>1, <2>3, LoadNat DEF Busy
  <2>5. Load <= Full + 2
    BY <2>1 DEF LoadBound
  <2> QED
    BY <1>0, <1>01, <2>2, <2>4, <2>5 DEF LoadBound
<1> QED
  BY <1>1, <1>2, <1>3, <1>4, <1>5 DEF MainThread

\* Every step of the system keeps the load within its bound.
LEMMA NextLoad == IInv /\ LoadBound /\ [Next]_vars => LoadBound'
<1> SUFFICES ASSUME IInv, LoadBound, [Next]_vars PROVE LoadBound'
  OBVIOUS
<1>1. CASE Clients
  <2>1. UNCHANGED <<inq, hand, outq, srv, pollin>>
    BY <1>1 DEF Clients, client_connect, client_write, client_hang_up, main, work
  <2> QED
    BY <2>1, LoadUnchanged DEF LoadBound
<1>2. CASE MainThread
  BY <1>2, MainThreadLoad
<1>3. CASE \E w \in Workers : Worker(w)
  <2> PICK w \in Workers : Worker(w)
    BY <1>3
  <2>1. Load' <= Load /\ Load' \in Nat
    BY WorkerLoad
  <2>2. Full' = Full
    BY DEF Full
  <2>3. (srv' = srv /\ pollin' = pollin) \/ srv' = "dead"
    BY DEF Worker, subscribe, connect, worker_poll, handle_status,
           handle_request_recv, handle_request_swallow,
           handle_request_execute, handle_request_send, main
  <2> QED
    BY <2>1, <2>2, <2>3, LoadNat DEF LoadBound
<1>4. CASE UNCHANGED vars
  <2>1. UNCHANGED <<inq, hand, outq, srv, pollin>>
    BY <1>4 DEF vars, main, work
  <2> QED
    BY <2>1, LoadUnchanged DEF LoadBound
<1> QED
  BY <1>1, <1>2, <1>3, <1>4 DEF Next

\* Two full directions and a full hand in every worker are more messages than
\* the loop of run() ever lets in: the main thread and the workers never wait
\* for each other, for every number of workers and every pipe size allowed by
\* RoomAssumption.
THEOREM SendersNeverGridlocked == Spec => []NoGridlock
<1>1. IInv /\ LoadBound => NoGridlock
  <2> SUFFICES ASSUME IInv, LoadBound, Gridlock PROVE FALSE
    BY DEF NoGridlock
  <2> DEFINE Refused == Workers \X (1..(Low + 1))
             N == Cardinality(Workers)
  <2>1. N \in Nat /\ IsFiniteSet(Workers)
    BY BusyFinite, ServerAssumption
  <2>2. IsFiniteSet(Refused) /\ Cardinality(Refused) = N * (Low + 1)
    <3>1. IsFiniteSet(1..(Low + 1)) /\ Cardinality(1..(Low + 1)) = Low + 1
      BY FS_Interval, ServerAssumption
    <3> QED
      BY <2>1, <3>1, FS_Product
  <2>3. ASSUME NEW q \in [Workers -> Seq(Genuine)],
               \A w \in Workers : Len(q[w]) > Low
        PROVE  Cardinality(Slots(q)) >= N * (Low + 1)
    <3>1. Refused \subseteq Slots(q)
      <4> SUFFICES ASSUME NEW s \in Refused PROVE s \in Slots(q)
        OBVIOUS
      <4>1. s \in Workers \X (1..HWM) /\ s[1] \in Workers /\ s[2] <= Low + 1
        BY ServerAssumption
      <4>2. Len(q[s[1]]) > Low /\ Len(q[s[1]]) \in Nat
        BY <2>3, <4>1
      <4> QED
        BY <4>1, <4>2, ServerAssumption DEF Slots
    <3>2. Cardinality(Refused) <= Cardinality(Slots(q))
      BY <3>1, SlotsFinite, FS_Subset
    <3> QED
      BY <2>2, <3>2
  <2>4. Busy = Workers
    BY DEF Gridlock, Busy, IInv, WorkInv
  <2>5. /\ Cardinality(Slots(inq)) >= N * (Low + 1)
        /\ Cardinality(Slots(outq)) >= N * (Low + 1)
    BY <2>3 DEF Gridlock, IInv, WorkInv
  <2>6. Load <= Full + 1
    BY LoadNat DEF Gridlock, LoadBound
  <2> DEFINE a == N * (Low + 1)
             b == N * HWM
  <2>7. a \in Int /\ b \in Int /\ 2 * a > b + 1
    BY <2>1, RoomAssumption, ServerAssumption
  <2>8. Load >= a + N + a /\ Full = b + N
    BY <2>1, <2>4, <2>5, <2>7, LoadNat, SlotsFinite
  <2> HIDE DEF a, b, N
  <2> QED
    BY <2>1, <2>6, <2>7, <2>8, LoadNat
<1>2. Spec => [](IInv /\ LoadBound)
  BY InitIInv, NextIInv, InitLoad, NextLoad, PTL DEF Spec
<1> QED
  BY <1>1, <1>2, PTL

-----------------------------------------------------------------------------
(* HttpServer implements RequestResponse: the threads and pipes cannot be  *)
(* told, from the outside, from a server that answers in one step.  The    *)
(* invariant is strengthened by where the messages come from: everything   *)
(* in transit was written by its client.                                   *)

\* Messages that carry a chunk their client has written.
Written == {m \in Genuine : m.body.n <= sent[m.id]}

WrittenInv ==
  /\ \A c \in Conns : rx[c] \in Seq(0..sent[c])
  /\ held \in Seq(Written)
  /\ \A w \in Workers : /\ inq[w] \in Seq(Written)
                        /\ hand[w] \in Seq(Written)
                        /\ outq[w] \in Seq(Written)

\* Nothing is in transit at the start.
LEMMA InitWritten == Init => WrittenInv
  BY NoMessage, ServerAssumption DEF Init, WrittenInv

\* A client that writes adds to what may be in transit.
LEMMA ClientsWritten == ASSUME IInv, WrittenInv, Clients PROVE WrittenInv'
<1> USE DEF IInv, NetInv
<1> PICK c \in Conns : client_connect(c) \/ client_write(c) \/ client_hang_up(c)
  BY DEF Clients
<1>1. CASE client_connect(c)
  <2>1. Written' = Written
    BY <1>1 DEF client_connect, Written
  <2>2. \A d \in Conns : rx'[d] \in Seq(0..sent'[d])
    <3>1. \A d \in Conns : Notify \in 0..sent[d] /\ rx[d] \in Seq(0..sent[d])
      BY ServerAssumption DEF WrittenInv, Notify
    <3>2. <<Notify>> \in Seq(0..sent[c])
      BY <3>1, OneMessage
    <3> QED
      BY <1>1, <3>1, <3>2 DEF client_connect
  <2>3. held' = held /\ inq' = inq /\ hand' = hand /\ outq' = outq
    BY <1>1 DEF client_connect, main, work
  <2> QED
    BY <2>1, <2>2, <2>3 DEF WrittenInv
<1>2. CASE client_write(c)
  <2>1. /\ \A d \in Conns : sent[d] \in Nat /\ sent'[d] \in Nat /\ sent[d] <= sent'[d]
        /\ sent'[c] = sent[c] + 1
    BY <1>2, ServerAssumption DEF client_write
  <2>2. Written \subseteq Written'
    <3> SUFFICES ASSUME NEW m \in Written PROVE m \in Written'
      OBVIOUS
    <3>1. m.id \in Conns /\ m.body.n \in Nat /\ m \in Genuine /\ m.body.n <= sent[m.id]
      BY DEF Written, Genuine, Message, Chunk
    <3>2. m.body.n <= sent'[m.id]
      BY <2>1, <3>1
    <3> QED
      BY <3>1, <3>2 DEF Written, Genuine
  <2>3. \A d \in Conns : rx'[d] \in Seq(0..sent'[d])
    <3> TAKE d \in Conns
    <3>1. 0..sent[d] \subseteq 0..sent'[d] /\ sent[c] + 1 \in 0..sent'[c]
      BY <2>1
    <3>2. rx[d] \in Seq(0..sent[d])
      BY DEF WrittenInv
    <3>3. rx[d] \in Seq(0..sent'[d])
      BY <3>1, <3>2, WiderQueue
    <3>4. CASE d = c
      <4>1. rx'[d] = Append(rx[d], sent[c] + 1)
        BY <1>2, <3>4 DEF client_write
      <4> QED
        BY <3>1, <3>3, <3>4, <4>1, AddLast
    <3>5. CASE d # c
      BY <1>2, <3>3, <3>5 DEF client_write
    <3> QED
      BY <3>4, <3>5
  <2>4. held' = held /\ inq' = inq /\ hand' = hand /\ outq' = outq
    BY <1>2 DEF client_write, main, work
  <2>5. held \in Seq(Written')
    BY <2>2, WiderQueue DEF WrittenInv
  <2>6. \A w \in Workers : /\ inq[w] \in Seq(Written')
                           /\ hand[w] \in Seq(Written')
                           /\ outq[w] \in Seq(Written')
    BY <2>2, WiderQueue DEF WrittenInv
  <2> QED
    BY <2>3, <2>4, <2>5, <2>6 DEF WrittenInv
<1>3. CASE client_hang_up(c)
  <2>1. Written' = Written
    BY <1>3 DEF client_hang_up, Written
  <2>2. \A d \in Conns : rx'[d] \in Seq(0..sent'[d])
    <3>1. \A d \in Conns : Notify \in 0..sent[d] /\ rx[d] \in Seq(0..sent[d])
      BY ServerAssumption DEF WrittenInv, Notify
    <3>2. Append(rx[c], Notify) \in Seq(0..sent[c])
      BY <3>1, AddLast
    <3> QED
      BY <1>3, <3>1, <3>2 DEF client_hang_up
  <2>3. held' = held /\ inq' = inq /\ hand' = hand /\ outq' = outq
    BY <1>3 DEF client_hang_up, main, work
  <2> QED
    BY <2>1, <2>2, <2>3 DEF WrittenInv
<1> QED
  BY <1>1, <1>2, <1>3

\* What the main thread forwards, it has read; it adds nothing of its own.
LEMMA MainThreadWritten == ASSUME IInv, WrittenInv, MainThread PROVE WrittenInv'
<1> USE DEF IInv, NetInv
<1>1. CASE (\E w \in Workers : start(w)) \/ publish_start \/ poll
  BY <1>1 DEF start, publish_start, poll, WrittenInv, Written, net, main, work
<1>2. CASE \E c \in Conns : forward_as_req_recv(c)
  <2> PICK c \in Conns : forward_as_req_recv(c)
    BY <1>2
  <2>1. Written' = Written
    BY DEF forward_as_req_recv, Written
  <2>2. Head(rx[c]) \in 0..sent[c] /\ Tail(rx[c]) \in Seq(0..sent[c])
    BY TakeFirst DEF forward_as_req_recv, WrittenInv
  <2>3. \A d \in Conns : rx'[d] \in Seq(0..sent'[d])
    BY <2>2 DEF forward_as_req_recv, WrittenInv
  <2>4. held' \in Seq(Written)
    <3>1. CASE Head(rx[c]) = Notify
      BY <3>1 DEF forward_as_req_recv, WrittenInv
    <3>2. CASE Head(rx[c]) # Notify
      <4> DEFINE m == [id |-> c, body |-> [conn |-> c, n |-> Head(rx[c])]]
      <4>1. m \in Written
        BY <2>2, <3>2, ServerAssumption
           DEF Notify, Written, Genuine, Message, Chunk
      <4>2. held' = <<m>>
        BY <3>2 DEF forward_as_req_recv
      <4> HIDE DEF m
      <4> QED
        BY <4>1, <4>2, OneMessage
    <3> QED
      BY <3>1, <3>2
  <2> QED
    BY <2>1, <2>3, <2>4 DEF forward_as_req_recv, WrittenInv, work
<1>3. CASE \E w \in Workers : forward_as_req_send(w)
  <2> PICK w \in Workers : forward_as_req_send(w)
    BY <1>3
  <2>1. Written' = Written
    BY DEF forward_as_req_send, Written, net
  <2>2. Head(held) \in Written
    BY TakeFirst DEF forward_as_req_send, WrittenInv, MainInv
  <2>3. Append(inq[w], Head(held)) \in Seq(Written)
    BY <2>2, AddLast DEF WrittenInv
  <2>4. \A v \in Workers : inq'[v] \in Seq(Written)
    BY <2>3 DEF forward_as_req_send, WrittenInv, WorkInv
  <2>5. held' \in Seq(Written)
    BY NoMessage DEF forward_as_req_send
  <2> QED
    BY <2>1, <2>4, <2>5 DEF forward_as_req_send, WrittenInv, net
<1>4. CASE \E w \in Workers : forward_as_stream(w)
  <2> PICK w \in Workers : forward_as_stream(w)
    BY <1>4
  <2>1. Written' = Written
    BY DEF forward_as_stream, Written
  <2>2. \A v \in Workers : outq'[v] \in Seq(Written)
    BY TakeFirst DEF forward_as_stream, WrittenInv, WorkInv
  <2>3. rx' = rx \/ \E c \in Conns : rx' = [rx EXCEPT ![c] = <<>>]
    <3>1. Head(outq[w]) \in Genuine
      BY TakeFirst DEF forward_as_stream, WorkInv
    <3>2. Head(outq[w]).id \in Conns
      BY <3>1 DEF Genuine, Message
    <3> QED
      BY <3>2 DEF forward_as_stream, deliver, deliver_nowhere, unroutable,
                  deliver_unroutable
  <2>4. \A d \in Conns : rx'[d] \in Seq(0..sent'[d])
    BY <2>3, NoMessage DEF forward_as_stream, WrittenInv
  <2> QED
    BY <2>1, <2>2, <2>4 DEF forward_as_stream, WrittenInv
<1> QED
  BY <1>1, <1>2, <1>3, <1>4 DEF MainThread

\* What a worker reads it answers or drops.
LEMMA WorkerWritten ==
  ASSUME IInv, WrittenInv, NEW w \in Workers, Worker(w) PROVE WrittenInv'
<1> USE DEF IInv, NetInv
<1>1. rx' = rx /\ sent' = sent /\ held' = held
  BY DEF Worker, subscribe, connect, worker_poll, handle_status,
         handle_request_recv, handle_request_swallow, handle_request_execute,
         handle_request_send, net, main
<1>2. Written' = Written
  BY <1>1 DEF Written
<1>3. \A v \in Workers : /\ inq'[v] \in Seq(Written)
                         /\ hand'[v] \in Seq(Written)
                         /\ outq'[v] \in Seq(Written)
  <2>1. CASE \/ subscribe(w) \/ connect(w) \/ worker_poll(w)
             \/ handle_status(w) \/ handle_request_execute(w)
    BY <2>1 DEF subscribe, connect, worker_poll, handle_status,
                handle_request_execute, WrittenInv
  <2>2. CASE handle_request_recv(w)
    <3>1. <<Head(inq[w])>> \in Seq(Written) /\ Tail(inq[w]) \in Seq(Written)
      BY <2>2, TakeFirst, OneMessage DEF handle_request_recv, WrittenInv, WorkInv
    <3> QED
      BY <2>2, <3>1 DEF handle_request_recv, WrittenInv, WorkInv
  <2>3. CASE handle_request_swallow(w)
    <3>1. Tail(inq[w]) \in Seq(Written)
      BY <2>3, TakeFirst DEF handle_request_swallow, WrittenInv
    <3> QED
      BY <2>3, <3>1 DEF handle_request_swallow, WrittenInv, WorkInv
  <2>4. CASE handle_request_send(w)
    <3>1. hand[w] # <<>>
      BY <2>4 DEF handle_request_send, WorkInv
    <3>2. Append(outq[w], Head(hand[w])) \in Seq(Written) /\ <<>> \in Seq(Written)
      BY <3>1, TakeFirst, AddLast, NoMessage DEF WrittenInv
    <3> QED
      BY <2>4, <3>2 DEF handle_request_send, WrittenInv, WorkInv
  <2> QED
    BY <2>1, <2>2, <2>3, <2>4 DEF Worker
<1> QED
  BY <1>1, <1>2, <1>3 DEF WrittenInv

\* Everything in transit was written by its client, at all times.
LEMMA NextWritten == IInv /\ WrittenInv /\ [Next]_vars => WrittenInv'
<1> SUFFICES ASSUME IInv, WrittenInv, [Next]_vars PROVE WrittenInv'
  OBVIOUS
<1>1. CASE Next
  BY <1>1, ClientsWritten, MainThreadWritten, WorkerWritten DEF Next
<1>2. CASE UNCHANGED vars
  BY <1>2 DEF WrittenInv, Written, vars, net, main, work
<1> QED
  BY <1>1, <1>2

-----------------------------------------------------------------------------
(* The mapping, step by step.                                              *)

\* The server starts where RequestResponse does.
LEMMA InitMaps == Init => Client!Init
  BY DEF Init, Client!Init

\* A response that leaves the main thread is an answer of RequestResponse.
LEMMA ForwardMaps ==
  ASSUME IInv, WrittenInv, NEW w \in Workers, forward_as_stream(w)
  PROVE  [Client!Next]_(Client!vars)
<1> DEFINE m == Head(outq[w])
<1>1. m \in Written
  BY TakeFirst DEF forward_as_stream, WrittenInv
<1>2. /\ m.id \in Conns
      /\ m.body = [conn |-> m.id, n |-> m.body.n]
      /\ m.body.n \in 1..sent[m.id]
  <2>1. /\ m \in Message /\ m.id = m.body.conn /\ m.body.n <= sent[m.id]
    BY <1>1 DEF Written, Genuine
  <2>2. /\ m.id \in Conns /\ m.body \in Chunk
    BY <2>1 DEF Message
  <2>3. sent[m.id] \in Nat
    BY <2>2, ServerAssumption DEF IInv, NetInv
  <2> QED
    BY <2>1, <2>2, <2>3, ServerAssumption DEF Chunk
<1>3. /\ srv = "rep" /\ sent' = sent
      /\ \/ deliver(m.id, m.body)
         \/ deliver_nowhere(m.id)
         \/ unroutable(m.id)
         \/ deliver_unroutable(m.id, m.body)
  BY DEF forward_as_stream
<1> HIDE DEF m
<1>4. CASE deliver(m.id, m.body) \/ deliver_unroutable(m.id, m.body)
  <2>1. peer[m.id] = "open" /\ got[m.id] = <<>>
    BY <1>2, <1>4 DEF deliver, deliver_unroutable, IInv, GotInv
  <2>2. got' = [got EXCEPT ![m.id] = <<m.body>>]
    <3>1. got' = [got EXCEPT ![m.id] = Append(got[m.id], m.body)]
      BY <1>4 DEF deliver, deliver_unroutable
    <3>2. Append(got[m.id], m.body) = <<m.body>>
      BY <2>1
    <3> QED
      BY <3>1, <3>2
  <2>3. \E n \in 1..sent[m.id] :
          got' = [got EXCEPT ![m.id] = <<[conn |-> m.id, n |-> n]>>]
    BY <1>2, <2>2
  <2>4. \/ peer' = [peer EXCEPT ![m.id] = "closed"] /\ srv' = "poll"
        \/ peer' = [peer EXCEPT ![m.id] = "gone"] /\ srv' = "dead"
    BY <1>4 DEF deliver, deliver_unroutable
  <2>5. Client!Answer(m.id)
    BY <1>3, <2>1, <2>3, <2>4 DEF Client!Answer
  <2> QED
    BY <1>2, <1>3, <2>5 DEF Client!Next
<1>5. CASE deliver_nowhere(m.id)
  <2>1. Client!Forget(m.id)
    BY <1>3, <1>5 DEF deliver_nowhere, Client!Forget
  <2> QED
    BY <1>2, <1>3, <2>1 DEF Client!Next
<1>6. CASE unroutable(m.id)
  BY <1>3, <1>6 DEF unroutable, Client!Next, Client!GoDown
<1> QED
  BY <1>3, <1>4, <1>5, <1>6

\* Every step of the server is a step of RequestResponse or changes nothing
\* that a client could see.
LEMMA NextMaps == IInv /\ WrittenInv /\ [Next]_vars => [Client!Next]_(Client!vars)
<1> SUFFICES ASSUME IInv, WrittenInv, [Next]_vars
             PROVE  [Client!Next]_(Client!vars)
  OBVIOUS
<1>1. CASE Clients
  <2> PICK c \in Conns : client_connect(c) \/ client_write(c) \/ client_hang_up(c)
    BY <1>1 DEF Clients
  <2>1. srv # "dead" /\ srv' = srv
    BY DEF client_connect, client_write, client_hang_up, Alive, main
  <2>2. Client!Connect(c) \/ Client!Ask(c) \/ Client!HangUp(c)
    BY <2>1 DEF client_connect, client_write, client_hang_up,
                Client!Connect, Client!Ask, Client!HangUp
  <2> QED
    BY <2>1, <2>2 DEF Client!Next
<1>2. CASE \E w \in Workers : forward_as_stream(w)
  BY <1>2, ForwardMaps
<1>3. CASE MainThread /\ ~ \E w \in Workers : forward_as_stream(w)
  <2>1. peer' = peer /\ sent' = sent /\ got' = got
    BY <1>3 DEF MainThread, start, publish_start, poll, forward_as_req_recv,
                forward_as_req_send, net
  <2>2. srv # "dead" /\ srv' # "dead"
    BY <1>3 DEF MainThread, start, publish_start, poll, forward_as_req_recv,
                forward_as_req_send, AfterRequest, main
  <2> QED
    BY <2>1, <2>2 DEF Client!vars
<1>4. CASE \E w \in Workers : Worker(w)
  <2> PICK w \in Workers : Worker(w)
    BY <1>4
  <2>1. peer' = peer /\ sent' = sent /\ got' = got /\ srv # "dead"
    BY DEF Worker, subscribe, connect, worker_poll, handle_status,
           handle_request_recv, handle_request_swallow, handle_request_execute,
           handle_request_send, net, Alive
  <2>2. CASE srv' = "dead"
    BY <2>1, <2>2 DEF Client!Next, Client!GoDown
  <2>3. CASE srv' # "dead"
    BY <2>1, <2>3 DEF Client!vars
  <2> QED
    BY <2>2, <2>3
<1>5. CASE UNCHANGED vars
  BY <1>5 DEF vars, net, main, Client!vars
<1> QED
  BY <1>1, <1>2, <1>3, <1>4, <1>5 DEF Next

\* The server with its threads, pipes and identities implements the server a
\* client is promised.
THEOREM Refinement == Spec => ImplementsRequestResponse
<1>1. Init => WrittenInv
  BY InitWritten
<1>2. IInv /\ WrittenInv /\ [Next]_vars => WrittenInv'
  BY NextWritten
<1> QED
  BY <1>1, <1>2, InitMaps, NextMaps, Invariance, PTL
     DEF Spec, Client!Spec, ImplementsRequestResponse

-----------------------------------------------------------------------------
(* Delivery: a request is in one place at a time and is not lost while its *)
(* connection is open, and a server with patient clients stays up.         *)

-----------------------------------------------------------------------------
(* Queues, as a function from their keys, and what steps do to them.       *)

\* No two occurrences of m in the queues of Q.
Unique(Q, m) ==
  \A k, l \in DOMAIN Q : \A i \in 1..Len(Q[k]), j \in 1..Len(Q[l]) :
    Q[k][i] = m /\ Q[l][j] = m => k = l /\ i = j

\* Some queue of Q holds m.
Present(Q, m) == \E k \in DOMAIN Q : \E i \in 1..Len(Q[k]) : Q[k][i] = m

\* What a step does to the queues.
Loses(Q, R, k) == Q[k] # <<>> /\ R[k] = Tail(Q[k])

\* From Q to R no queue loses m.
Spares(Q, R, m) ==
  \A k \in DOMAIN Q : \/ R[k] = Q[k]
                      \/ Loses(Q, R, k) /\ Head(Q[k]) # m
                      \/ \A i \in 1..Len(Q[k]) : Q[k][i] # m

\* The head of the queue at a moves behind the queue at b.
Moves(Q, R, a, b) ==
  /\ a # b
  /\ Loses(Q, R, a)
  /\ R[b] = Append(Q[b], Head(Q[a]))
  /\ \A k \in DOMAIN Q \ {a, b} : R[k] = Q[k]

\* Message e enters behind the queue at b.
Adds(Q, R, b, e) ==
  /\ R[b] = Append(Q[b], e)
  /\ \A k \in DOMAIN Q \ {b} : R[k] = Q[k]

\* A letter that is not in the queues, or not e.
Fresh(Q, m, e) == e # m \/ ~ Present(Q, m)

\* Queues lose their head or all they hold.
Drops(Q, R) ==
  \A k \in DOMAIN Q : R[k] = Q[k] \/ Loses(Q, R, k) \/ R[k] = <<>>

\* The head of one queue moves behind another: where an occurrence was before.
LEMMA Moved ==
  ASSUME NEW K, NEW S, NEW Q \in [K -> Seq(S)], NEW R \in [K -> Seq(S)],
         NEW a \in K, NEW b \in K, Moves(Q, R, a, b), NEW m, Unique(Q, m)
  PROVE  Unique(R, m) /\ (Present(Q, m) <=> Present(R, m))
<1>0. DOMAIN Q = K /\ DOMAIN R = K
  OBVIOUS
<1> a # b /\ Q[a] # <<>> /\ R[a] = Tail(Q[a]) /\ R[b] = Append(Q[b], Head(Q[a]))
    /\ \A k \in K \ {a, b} : R[k] = Q[k]
  BY <1>0 DEF Moves, Loses
<1> DEFINE new(k, i) == k = b /\ i = Len(Q[b]) + 1
           key(k, i) == IF new(k, i) THEN a ELSE k
           pos(k, i) == IF new(k, i) THEN 1 ELSE IF k = a THEN i + 1 ELSE i
<1>1. /\ Len(Q[a]) \in Nat \ {0} /\ Len(Q[b]) \in Nat
      /\ Len(R[a]) = Len(Q[a]) - 1 /\ Len(R[b]) = Len(Q[b]) + 1
      /\ \A k \in K : Len(Q[k]) \in Nat /\ Len(R[k]) \in Nat
      /\ \A i \in 1..Len(R[a]) : R[a][i] = Q[a][i + 1]
      /\ \A i \in 1..Len(Q[b]) : R[b][i] = Q[b][i]
      /\ R[b][Len(Q[b]) + 1] = Q[a][1]
  <2>1. Q[a] \in Seq(S) /\ Q[b] \in Seq(S) /\ Head(Q[a]) \in S
    OBVIOUS
  <2> QED
    BY <2>1
<1>2. \A k \in K : \A i \in 1..Len(R[k]) :
        /\ key(k, i) \in K
        /\ pos(k, i) \in 1..Len(Q[key(k, i)])
        /\ R[k][i] = Q[key(k, i)][pos(k, i)]
  <2> TAKE k \in K
  <2> TAKE i \in 1..Len(R[k])
  <2>1. CASE k = a
    <3>1. key(k, i) = a /\ pos(k, i) = i + 1
      BY <2>1
    <3>2. i \in 1..Len(R[a]) /\ i + 1 \in 1..Len(Q[a])
      BY <1>1, <2>1
    <3> QED
      BY <1>1, <2>1, <3>1, <3>2
  <2>2. CASE k = b /\ i = Len(Q[b]) + 1
    <3>1. key(k, i) = a /\ pos(k, i) = 1 /\ 1 \in 1..Len(Q[a])
      BY <1>1, <2>2
    <3> QED
      BY <1>1, <2>2, <3>1
  <2>3. CASE k = b /\ i # Len(Q[b]) + 1
    <3>1. key(k, i) = b /\ pos(k, i) = i /\ i \in 1..Len(Q[b])
      BY <1>1, <2>3
    <3> QED
      BY <1>1, <2>3, <3>1
  <2>4. CASE k \notin {a, b}
    <3>1. key(k, i) = k /\ pos(k, i) = i /\ R[k] = Q[k]
      BY <2>4
    <3> QED
      BY <3>1
  <2> QED
    BY <2>1, <2>2, <2>3, <2>4
<1>3. \A k, l \in K : \A i \in 1..Len(R[k]), j \in 1..Len(R[l]) :
        key(k, i) = key(l, j) /\ pos(k, i) = pos(l, j) => k = l /\ i = j
  BY <1>1
<1>4. Unique(R, m)
  <2> SUFFICES ASSUME NEW k \in K, NEW l \in K,
                      NEW i \in 1..Len(R[k]), NEW j \in 1..Len(R[l]),
                      R[k][i] = m, R[l][j] = m
               PROVE  k = l /\ i = j
    BY <1>0 DEF Unique
  <2>1. key(k, i) = key(l, j) /\ pos(k, i) = pos(l, j)
    <3>1. /\ key(k, i) \in K /\ pos(k, i) \in 1..Len(Q[key(k, i)])
          /\ key(l, j) \in K /\ pos(l, j) \in 1..Len(Q[key(l, j)])
          /\ Q[key(k, i)][pos(k, i)] = m /\ Q[key(l, j)][pos(l, j)] = m
      BY <1>2
    <3> HIDE DEF key, pos
    <3> QED
      BY <1>0, <3>1 DEF Unique
  <2> QED
    BY <1>3, <2>1
<1>5. ASSUME Present(Q, m) PROVE Present(R, m)
  <2> PICK k \in K : \E i \in 1..Len(Q[k]) : Q[k][i] = m
    BY <1>0, <1>5 DEF Present
  <2> PICK i \in 1..Len(Q[k]) : Q[k][i] = m
    OBVIOUS
  <2>1. CASE k = a /\ i = 1
    <3>1. Len(Q[b]) + 1 \in 1..Len(R[b]) /\ R[b][Len(Q[b]) + 1] = m
      BY <1>1, <2>1
    <3> QED
      BY <1>0, <3>1 DEF Present
  <2>2. CASE k = a /\ i # 1
    <3>1. i - 1 \in 1..Len(R[a]) /\ R[a][i - 1] = m
      <4>1. i - 1 \in 1..Len(R[a]) /\ (i - 1) + 1 = i
        BY <1>1, <2>2
      <4> QED
        BY <1>1, <2>2, <4>1
    <3> QED
      BY <1>0, <3>1 DEF Present
  <2>3. CASE k # a
    <3>1. i \in 1..Len(R[k]) /\ R[k][i] = m
      <4>1. CASE k = b
        <5>1. i \in 1..Len(Q[b]) /\ Q[b][i] = m
          BY <4>1
        <5>2. i \in 1..Len(R[b]) /\ R[b][i] = m
          BY <1>1, <5>1
        <5> QED
          BY <4>1, <5>2
      <4>2. CASE k # b
        BY <2>3, <4>2
      <4> QED
        BY <4>1, <4>2
    <3> QED
      BY <1>0, <3>1 DEF Present
  <2> QED
    BY <2>1, <2>2, <2>3
<1>6. ASSUME Present(R, m) PROVE Present(Q, m)
  <2> PICK k \in K : \E i \in 1..Len(R[k]) : R[k][i] = m
    BY <1>0, <1>6 DEF Present
  <2> PICK i \in 1..Len(R[k]) : R[k][i] = m
    OBVIOUS
  <2>1. /\ key(k, i) \in K
        /\ pos(k, i) \in 1..Len(Q[key(k, i)])
        /\ Q[key(k, i)][pos(k, i)] = m
    BY <1>2
  <2> HIDE DEF key, pos
  <2> QED
    BY <1>0, <2>1 DEF Present
<1> QED
  BY <1>4, <1>5, <1>6

\* When queues only lose messages nothing appears, what is spared
\* stays, and a message that was at the head is gone.
LEMMA Fewer ==
  ASSUME NEW K, NEW S, NEW Q \in [K -> Seq(S)], NEW R \in [K -> Seq(S)],
         Drops(Q, R), NEW m, Unique(Q, m)
  PROVE  /\ Unique(R, m)
         /\ Present(R, m) => Present(Q, m)
         /\ Spares(Q, R, m) /\ Present(Q, m) => Present(R, m)
         /\ \A k \in K : Loses(Q, R, k) /\ Head(Q[k]) = m => ~ Present(R, m)
<1>0. DOMAIN Q = K /\ DOMAIN R = K
  OBVIOUS
<1> \A k \in K : R[k] = Q[k] \/ Loses(Q, R, k) \/ R[k] = <<>>
  BY <1>0 DEF Drops
<1>1. \A k \in K : Q[k] \in Seq(S) /\ Len(Q[k]) \in Nat /\ Len(R[k]) \in Nat
  OBVIOUS
<1>2. \A k \in K : Loses(Q, R, k) =>
        /\ Len(Q[k]) > 0 /\ Head(Q[k]) = Q[k][1]
        /\ Len(R[k]) = Len(Q[k]) - 1
        /\ \A i \in 1..Len(R[k]) : R[k][i] = Q[k][i + 1]
  <2> TAKE k \in K
  <2> QED
    BY <1>1 DEF Loses
<1> DEFINE pos(k, i) == IF Loses(Q, R, k) THEN i + 1 ELSE i
<1>3. \A k \in K : \A i \in 1..Len(R[k]) :
        pos(k, i) \in 1..Len(Q[k]) /\ Q[k][pos(k, i)] = R[k][i]
  <2> TAKE k \in K
  <2> TAKE i \in 1..Len(R[k])
  <2>1. CASE Loses(Q, R, k)
    BY <1>1, <1>2, <2>1
  <2>2. CASE ~ Loses(Q, R, k)
    <3>1. R[k] = Q[k]
      BY <2>2
    <3> QED
      BY <2>2, <3>1
  <2> QED
    BY <2>1, <2>2
<1>4. Unique(R, m)
  <2> SUFFICES ASSUME NEW k \in K, NEW l \in K,
                      NEW i \in 1..Len(R[k]), NEW j \in 1..Len(R[l]),
                      R[k][i] = m, R[l][j] = m
               PROVE  k = l /\ i = j
    BY <1>0 DEF Unique
  <2>1. k = l /\ pos(k, i) = pos(l, j)
    <3>1. /\ pos(k, i) \in 1..Len(Q[k]) /\ Q[k][pos(k, i)] = m
          /\ pos(l, j) \in 1..Len(Q[l]) /\ Q[l][pos(l, j)] = m
      BY <1>3
    <3> HIDE DEF pos
    <3> QED
      BY <1>0, <3>1 DEF Unique
  <2> QED
    BY <1>1, <2>1
<1>5. ASSUME Present(R, m) PROVE Present(Q, m)
  <2> HIDE DEF pos
  <2> QED
    BY <1>0, <1>3, <1>5 DEF Present
<1>6. ASSUME Spares(Q, R, m), Present(Q, m) PROVE Present(R, m)
  <2> PICK k \in K : \E i \in 1..Len(Q[k]) : Q[k][i] = m
    BY <1>0, <1>6 DEF Present
  <2> PICK i \in 1..Len(Q[k]) : Q[k][i] = m
    OBVIOUS
  <2>1. CASE R[k] = Q[k]
    BY <1>0, <2>1 DEF Present
  <2>2. CASE Loses(Q, R, k) /\ Head(Q[k]) # m
    <3>1. i # 1
      BY <1>2, <2>2
    <3>2. i - 1 \in 1..Len(R[k]) /\ (i - 1) + 1 = i
      BY <1>1, <1>2, <2>2, <3>1
    <3>3. R[k][i - 1] = m
      BY <1>2, <2>2, <3>2
    <3> QED
      BY <1>0, <3>2, <3>3 DEF Present
  <2> QED
    BY <1>0, <1>6, <2>1, <2>2 DEF Spares
<1>7. ASSUME NEW a \in K, Loses(Q, R, a), Head(Q[a]) = m, Present(R, m) PROVE FALSE
  <2> PICK k \in K : \E i \in 1..Len(R[k]) : R[k][i] = m
    BY <1>0, <1>7 DEF Present
  <2> PICK i \in 1..Len(R[k]) : R[k][i] = m
    OBVIOUS
  <2>1. 1 \in 1..Len(Q[a]) /\ Q[a][1] = m
    BY <1>1, <1>2, <1>7
  <2>2. pos(k, i) \in 1..Len(Q[k]) /\ Q[k][pos(k, i)] = m
    BY <1>3
  <2>3. k = a /\ pos(k, i) = 1
    <3> HIDE DEF pos
    <3> QED
      BY <1>0, <2>1, <2>2 DEF Unique
  <2> QED
    BY <1>7, <2>3
<1> QED
  BY <1>4, <1>5, <1>6, <1>7

\* m is in R where it was in Q, unless it is the message e that entered.
Gained(Q, R, m, e) ==
  /\ Unique(R, m)
  /\ Present(R, m) <=> Present(Q, m) \/ e = m

\* A message enters behind one queue.
LEMMA Added ==
  ASSUME NEW K, NEW S, NEW Q \in [K -> Seq(S)], NEW R \in [K -> Seq(S)],
         NEW b \in K, NEW e \in S, Adds(Q, R, b, e), NEW m, Unique(Q, m),
         Fresh(Q, m, e)
  PROVE  Gained(Q, R, m, e)
<1>0. DOMAIN Q = K /\ DOMAIN R = K
  OBVIOUS
<1> R[b] = Append(Q[b], e) /\ \A k \in K \ {b} : R[k] = Q[k]
  BY <1>0 DEF Adds
<1>1. /\ Len(R[b]) = Len(Q[b]) + 1
      /\ \A k \in K : Len(Q[k]) \in Nat /\ Len(R[k]) \in Nat
      /\ \A i \in 1..Len(Q[b]) : R[b][i] = Q[b][i]
      /\ R[b][Len(Q[b]) + 1] = e
  OBVIOUS
<1>2. \A k \in K : \A i \in 1..Len(R[k]) :
        \/ i \in 1..Len(Q[k]) /\ R[k][i] = Q[k][i]
        \/ k = b /\ i = Len(Q[b]) + 1 /\ R[k][i] = e
  <2> SUFFICES ASSUME NEW k \in K, NEW i \in 1..Len(R[k])
               PROVE  \/ i \in 1..Len(Q[k]) /\ R[k][i] = Q[k][i]
                      \/ k = b /\ i = Len(Q[b]) + 1 /\ R[k][i] = e
    OBVIOUS
  <2>1. CASE k = b
    BY <1>1, <2>1
  <2>2. CASE k # b
    BY <1>1, <2>2
  <2> QED
    BY <2>1, <2>2
<1>3. Unique(R, m)
  <2> SUFFICES ASSUME NEW k \in K, NEW l \in K,
                      NEW i \in 1..Len(R[k]), NEW j \in 1..Len(R[l]),
                      R[k][i] = m, R[l][j] = m
               PROVE  k = l /\ i = j
    BY <1>0 DEF Unique
  <2>1. CASE e # m
    <3>1. /\ i \in 1..Len(Q[k]) /\ Q[k][i] = m
          /\ j \in 1..Len(Q[l]) /\ Q[l][j] = m
      BY <1>2, <2>1
    <3> QED
      BY <1>0, <3>1 DEF Unique
  <2>2. CASE ~ Present(Q, m)
    <3>1. /\ ~ (i \in 1..Len(Q[k]) /\ Q[k][i] = m)
          /\ ~ (j \in 1..Len(Q[l]) /\ Q[l][j] = m)
      BY <1>0, <2>2 DEF Present
    <3> QED
      BY <1>2, <3>1
  <2> QED
    BY <2>1, <2>2 DEF Fresh
<1>4. ASSUME Present(Q, m) \/ e = m PROVE Present(R, m)
  <2>1. \A k \in K : \A i \in 1..Len(Q[k]) : i \in 1..Len(R[k]) /\ R[k][i] = Q[k][i]
    <3> TAKE k \in K
    <3>1. CASE k = b
      BY <1>1, <3>1
    <3>2. CASE k # b
      BY <3>2
    <3> QED
      BY <3>1, <3>2
  <2>2. Len(Q[b]) + 1 \in 1..Len(R[b])
    BY <1>1
  <2> QED
    BY <1>0, <1>1, <1>4, <2>1, <2>2 DEF Present
<1>5. ASSUME Present(R, m) PROVE Present(Q, m) \/ e = m
  BY <1>0, <1>2, <1>5 DEF Present
<1> QED
  BY <1>3, <1>4, <1>5 DEF Gained

-----------------------------------------------------------------------------
(* The queues and hands of the server.                                     *)

\* Chunk n of connection c, as it travels behind the STREAM socket.
Msg(c, n) == [id |-> c, body |-> [conn |-> c, n |-> n]]

\* What the queues hold: chunks and, in the STREAM socket, notifications.
Letter == [id : Conns, body : [conn : Conns, n : 0..MaxChunks]]

\* What connection c has sent, as the letters that will travel.
Letters(c, s) == [i \in 1..Len(s) |-> Msg(c, s[i])]

\* The queues and hands by name.
Keys == ({"rx"} \X Conns) \cup {<<"held", "main">>}
        \cup ({"in", "hand", "out"} \X Workers)

\* All queues and hands as one function.
QueuesOf(r, h, in, by, out) ==
  [k \in Keys |-> IF k[1] = "rx" THEN Letters(k[2], r[k[2]])
                  ELSE IF k[1] = "held" THEN h
                  ELSE IF k[1] = "in" THEN in[k[2]]
                  ELSE IF k[1] = "hand" THEN by[k[2]]
                  ELSE out[k[2]]]

\* The queues and hands as they are.
Queues == QueuesOf(rx, held, inq, hand, outq)

\* Some worker's read of `more' is off.
Swallowing == \E w \in Workers : wpc[w] = "swallow"

\* A connection that was never made has sent nothing, and the main thread
\* holds a message only on the way from forward_as_req's read to its send.
IdleInv ==
  /\ \A c \in Conns : peer[c] = "absent" => sent[c] = 0 /\ rx[c] = <<>>
  /\ srv \in {"launch", "poll", "req", "rep"} => held = <<>>

\* No chunk is in two places.
AllUnique(Q) == \A c \in Conns, n \in 1..MaxChunks : Unique(Q, Msg(c, n))

\* ... in the server.
UniqueInv == AllUnique(Queues)

\* Every chunk of an open connection is in some place.
PresentInv ==
  \A c \in Conns :
    peer[c] = "open" /\ ~ Swallowing
      => \A n \in 1..sent[c] : Present(Queues, Msg(c, n))

\* The inductive invariant behind NoLostRequest, together with IInv and
\* WrittenInv.
LostInv == IdleInv /\ UniqueInv /\ PresentInv

\* Queues of the same messages are the same.
LEMMA SameQueue ==
  ASSUME NEW S, NEW q \in Seq(S), NEW t \in Seq(S), Len(q) = Len(t),
         \A i \in 1..Len(q) : q[i] = t[i]
  PROVE  q = t
  OBVIOUS

\* What a queue holds.
LEMMA InQueue ==
  ASSUME NEW S, NEW q \in Seq(S)
  PROVE  Len(q) \in Nat /\ \A i \in 1..Len(q) : q[i] \in S
  OBVIOUS

\* The letters of a connection, message by message.
LEMMA LettersOf ==
  ASSUME NEW c \in Conns, NEW s \in Seq(0..MaxChunks)
  PROVE  /\ Letters(c, s) \in Seq(Letter)
         /\ Len(Letters(c, s)) = Len(s)
         /\ Letters(c, <<>>) = <<>>
         /\ \A n \in 0..MaxChunks :
              Letters(c, Append(s, n)) = Append(Letters(c, s), Msg(c, n))
         /\ s # <<>> => /\ Letters(c, s) # <<>>
                        /\ Letters(c, Tail(s)) = Tail(Letters(c, s))
                        /\ Head(Letters(c, s)) = Msg(c, Head(s))
<1>1. \A q \in Seq(0..MaxChunks) :
        /\ Letters(c, q) \in Seq(Letter)
        /\ Len(Letters(c, q)) = Len(q)
        /\ Len(q) \in Nat
  <2> TAKE q \in Seq(0..MaxChunks)
  <2>1. Len(q) \in Nat /\ \A i \in 1..Len(q) : q[i] \in 0..MaxChunks
    BY InQueue
  <2>2. \A i \in 1..Len(q) : Msg(c, q[i]) \in Letter
    BY <2>1 DEF Msg, Letter
  <2> DEFINE n == Len(q)
             f == [i \in 1..n |-> Msg(c, q[i])]
  <2>3. f \in [1..n -> Letter] /\ n \in Nat
    BY <2>1, <2>2
  <2>4. f \in Seq(Letter) /\ Len(f) = n
    <3> HIDE DEF f, n
    <3> QED
      BY <2>3
  <2> QED
    BY <2>1, <2>4 DEF Letters
<1>2. Letters(c, <<>>) = <<>>
  BY DEF Letters
<1>3. ASSUME NEW n \in 0..MaxChunks
      PROVE  Letters(c, Append(s, n)) = Append(Letters(c, s), Msg(c, n))
  <2>1. Append(s, n) \in Seq(0..MaxChunks) /\ Len(Append(s, n)) = Len(s) + 1
    OBVIOUS
  <2>2. /\ Letters(c, Append(s, n)) \in Seq(Letter)
        /\ Len(Letters(c, Append(s, n))) = Len(s) + 1
    BY <1>1, <2>1
  <2>3. /\ Append(Letters(c, s), Msg(c, n)) \in Seq(Letter)
        /\ Len(Append(Letters(c, s), Msg(c, n))) = Len(s) + 1
    <3>1. Msg(c, n) \in Letter
      BY DEF Msg, Letter
    <3> QED
      BY <1>1, <3>1
  <2>4. \A i \in 1..(Len(s) + 1) :
          Letters(c, Append(s, n))[i] = Append(Letters(c, s), Msg(c, n))[i]
    BY <1>1, <2>1 DEF Letters
  <2> QED
    BY <2>2, <2>3, <2>4, SameQueue
<1>4. ASSUME s # <<>>
      PROVE  /\ Letters(c, s) # <<>>
             /\ Letters(c, Tail(s)) = Tail(Letters(c, s))
             /\ Head(Letters(c, s)) = Msg(c, Head(s))
  <2>1. Len(s) > 0 /\ Len(Tail(s)) = Len(s) - 1
    BY <1>4
  <2>2. Letters(c, s) # <<>>
    BY <1>1, <2>1
  <2>3. /\ Tail(Letters(c, s)) \in Seq(Letter)
        /\ Len(Tail(Letters(c, s))) = Len(s) - 1
    BY <1>1, <2>2
  <2>4. /\ Letters(c, Tail(s)) \in Seq(Letter)
        /\ Len(Letters(c, Tail(s))) = Len(s) - 1
    BY <1>1, <1>4, <2>1, TakeFirst
  <2>5. \A i \in 1..(Len(s) - 1) : Letters(c, Tail(s))[i] = Tail(Letters(c, s))[i]
    BY <1>1, <2>1, <2>2 DEF Letters
  <2>6. Letters(c, Tail(s)) = Tail(Letters(c, s))
    BY <2>3, <2>4, <2>5, SameQueue
  <2>7. Head(Letters(c, s)) = Msg(c, Head(s))
    BY <1>1, <2>1, <2>2 DEF Letters
  <2> QED
    BY <2>2, <2>6, <2>7
<1> QED
  BY <1>1, <1>2, <1>3, <1>4

\* Queues and hands of the right types.
QueueTypes(r, h, in, by, out) ==
  /\ r \in [Conns -> Seq(0..MaxChunks)]
  /\ h \in Seq(Genuine)
  /\ \A q \in {in, by, out} : q \in [Workers -> Seq(Genuine)]

\* Q holds these queues and hands.
Holds(Q, r, h, in, by, out) ==
  /\ Q \in [Keys -> Seq(Letter)]
  /\ \A c \in Conns : Q[<<"rx", c>>] = Letters(c, r[c])
  /\ Q[<<"held", "main">>] = h
  /\ \A w \in Workers : /\ Q[<<"in", w>>] = in[w]
                        /\ Q[<<"hand", w>>] = by[w]
                        /\ Q[<<"out", w>>] = out[w]

\* The function holds the queues it is made of.
LEMMA QueuesAre ==
  ASSUME NEW r, NEW h, NEW in, NEW by, NEW out, QueueTypes(r, h, in, by, out)
  PROVE  Holds(QueuesOf(r, h, in, by, out), r, h, in, by, out)
<1> DEFINE Q == QueuesOf(r, h, in, by, out)
<1>1. \A c \in Conns : Letters(c, r[c]) \in Seq(Letter)
  BY LettersOf DEF QueueTypes
<1>2. Genuine \subseteq Letter
  BY ServerAssumption DEF Genuine, Message, Chunk, Letter
<1>3. /\ h \in Seq(Letter)
      /\ \A w \in Workers : in[w] \in Seq(Letter) /\ by[w] \in Seq(Letter)
                            /\ out[w] \in Seq(Letter)
  BY <1>2, WiderQueue DEF QueueTypes
<1>4. \A k \in Keys : Q[k] \in Seq(Letter)
  BY <1>1, <1>3 DEF Keys, QueuesOf
<1>5. Q \in [Keys -> Seq(Letter)]
  BY <1>4 DEF QueuesOf
<1> QED
  BY <1>5 DEF QueuesOf, Keys, Holds

\* The keys, one by one.
LEMMA KeysAre ==
  /\ \A c \in Conns : <<"rx", c>> \in Keys
  /\ <<"held", "main">> \in Keys
  /\ \A w \in Workers : <<"in", w>> \in Keys /\ <<"hand", w>> \in Keys
                        /\ <<"out", w>> \in Keys
  BY DEF Keys

\* There are no others.
LEMMA KeyCases ==
  \A k \in Keys : \/ \E c \in Conns : k = <<"rx", c>>
                  \/ k = <<"held", "main">>
                  \/ \E w \in Workers : k = <<"in", w>>
                  \/ \E w \in Workers : k = <<"hand", w>>
                  \/ \E w \in Workers : k = <<"out", w>>
  BY DEF Keys

\* The queues before a step ...
LEMMA QueuesNow == IInv => Holds(Queues, rx, held, inq, hand, outq)
<1>1. IInv => QueueTypes(rx, held, inq, hand, outq)
  BY DEF IInv, NetInv, MainInv, WorkInv, QueueTypes
<1> QED
  BY <1>1, QueuesAre DEF Queues

\* ... and after it.
LEMMA QueuesNext == IInv' => Holds(Queues', rx', held', inq', hand', outq')
<1>1. IInv' => QueueTypes(rx', held', inq', hand', outq')
  BY DEF IInv, NetInv, MainInv, WorkInv, QueueTypes
<1> QED
  BY <1>1, QueuesAre DEF Queues

\* A key at which nothing changes.
LEMMA SameAt ==
  ASSUME NEW Q, NEW r, NEW h, NEW in, NEW by, NEW out, Holds(Q, r, h, in, by, out),
         NEW R, NEW s, NEW g, NEW to, NEW at, NEW up, Holds(R, s, g, to, at, up),
         NEW k \in Keys,
         \A c \in Conns : k = <<"rx", c>> => s[c] = r[c],
         k = <<"held", "main">> => g = h,
         \A w \in Workers : /\ k = <<"in", w>> => to[w] = in[w]
                            /\ k = <<"hand", w>> => at[w] = by[w]
                            /\ k = <<"out", w>> => up[w] = out[w]
  PROVE  R[k] = Q[k]
<1>1. CASE \E c \in Conns : k = <<"rx", c>>
  <2> PICK c \in Conns : k = <<"rx", c>>
    BY <1>1
  <2>1. Q[<<"rx", c>>] = Letters(c, r[c]) /\ R[<<"rx", c>>] = Letters(c, s[c])
    BY DEF Holds
  <2>2. s[c] = r[c]
    OBVIOUS
  <2> QED
    BY <2>1, <2>2
<1>2. CASE k = <<"held", "main">>
  <2>1. Q[<<"held", "main">>] = h /\ R[<<"held", "main">>] = g
    BY DEF Holds
  <2> QED
    BY <1>2, <2>1
<1>3. CASE \E w \in Workers : k = <<"in", w>>
  <2> PICK w \in Workers : k = <<"in", w>>
    BY <1>3
  <2>1. Q[<<"in", w>>] = in[w] /\ R[<<"in", w>>] = to[w]
    BY DEF Holds
  <2>2. to[w] = in[w]
    OBVIOUS
  <2> QED
    BY <2>1, <2>2
<1>4. CASE \E w \in Workers : k = <<"hand", w>>
  <2> PICK w \in Workers : k = <<"hand", w>>
    BY <1>4
  <2>1. Q[<<"hand", w>>] = by[w] /\ R[<<"hand", w>>] = at[w]
    BY DEF Holds
  <2>2. at[w] = by[w]
    OBVIOUS
  <2> QED
    BY <2>1, <2>2
<1>5. CASE \E w \in Workers : k = <<"out", w>>
  <2> PICK w \in Workers : k = <<"out", w>>
    BY <1>5
  <2>1. Q[<<"out", w>>] = out[w] /\ R[<<"out", w>>] = up[w]
    BY DEF Holds
  <2>2. up[w] = out[w]
    OBVIOUS
  <2> QED
    BY <2>1, <2>2
<1> QED
  BY <1>1, <1>2, <1>3, <1>4, <1>5, KeyCases

\* Each step of forwarding a request or a response moves one message.
LEMMA RecvMoves ==
  ASSUME IInv, IInv', LostInv, NEW c \in Conns, forward_as_req_recv(c),
         Head(rx[c]) # Notify, NEW Q, Q = Queues, NEW R, R = Queues'
  PROVE  Moves(Q, R, <<"rx", c>>, <<"held", "main">>)
<1>0. /\ Holds(Q, rx, held, inq, hand, outq)
      /\ Holds(R, rx', held', inq', hand', outq')
  BY QueuesNow, QueuesNext
<1>1. /\ rx[c] \in Seq(0..MaxChunks) /\ rx[c] # <<>>
      /\ \A d \in Conns : rx'[d] = IF d = c THEN Tail(rx[c]) ELSE rx[d]
      /\ held = <<>> /\ held' = <<Msg(c, Head(rx[c]))>>
      /\ inq' = inq /\ hand' = hand /\ outq' = outq
  BY DEF IInv, NetInv, LostInv, IdleInv, forward_as_req_recv, Msg, work
<1>2. /\ Letters(c, rx[c]) # <<>>
      /\ Letters(c, Tail(rx[c])) = Tail(Letters(c, rx[c]))
      /\ Head(Letters(c, rx[c])) = Msg(c, Head(rx[c]))
  BY <1>1, LettersOf
<1>3. <<Msg(c, Head(rx[c]))>> = Append(<<>>, Msg(c, Head(rx[c])))
  OBVIOUS
<1>4. DOMAIN Q = Keys
  BY <1>0 DEF Holds
<1>5. \A k \in Keys \ {<<"rx", c>>, <<"held", "main">>} : R[k] = Q[k]
  BY <1>0, <1>1, SameAt
<1>6. Loses(Q, R, <<"rx", c>>)
  BY <1>1, <1>2, <1>0 DEF Loses, Holds
<1>7. R[<<"held", "main">>] = Append(Q[<<"held", "main">>], Head(Q[<<"rx", c>>]))
  BY <1>1, <1>2, <1>3, <1>0 DEF Holds
<1> QED
  BY <1>4, <1>5, <1>6, <1>7 DEF Moves

\* forward_as_req hands its message to a worker.
LEMMA SendMoves ==
  ASSUME IInv, IInv', NEW w \in Workers, forward_as_req_send(w),
         NEW Q, Q = Queues, NEW R, R = Queues'
  PROVE  Moves(Q, R, <<"held", "main">>, <<"in", w>>)
<1>0. /\ Holds(Q, rx, held, inq, hand, outq)
      /\ Holds(R, rx', held', inq', hand', outq')
  BY QueuesNow, QueuesNext
<1>1. /\ rx' = rx /\ held # <<>> /\ held' = Tail(held)
      /\ \A v \in Workers :
           inq'[v] = IF v = w THEN Append(inq[w], Head(held)) ELSE inq[v]
      /\ hand' = hand /\ outq' = outq
  <2>1. held # <<>> /\ held \in Seq(Genuine) /\ Len(held) <= 1
    BY DEF IInv, MainInv, forward_as_req_send
  <2>2. Tail(held) = <<>>
    BY <2>1
  <2> QED
    BY <2>1, <2>2 DEF IInv, WorkInv, forward_as_req_send, net
<1>2. DOMAIN Q = Keys
  BY <1>0 DEF Holds
<1>3. \A k \in Keys \ {<<"held", "main">>, <<"in", w>>} : R[k] = Q[k]
  BY <1>0, <1>1, SameAt
<1>4. Loses(Q, R, <<"held", "main">>)
  BY <1>1, <1>0 DEF Loses, Holds
<1>5. R[<<"in", w>>] = Append(Q[<<"in", w>>], Head(Q[<<"held", "main">>]))
  BY <1>1, <1>0 DEF Holds
<1> QED
  BY <1>2, <1>3, <1>4, <1>5 DEF Moves

\* The worker takes it into its hand.
LEMMA WorkerRecvMoves ==
  ASSUME IInv, IInv', NEW w \in Workers, handle_request_recv(w),
         NEW Q, Q = Queues, NEW R, R = Queues'
  PROVE  Moves(Q, R, <<"in", w>>, <<"hand", w>>)
<1>0. /\ Holds(Q, rx, held, inq, hand, outq)
      /\ Holds(R, rx', held', inq', hand', outq')
  BY QueuesNow, QueuesNext
<1>1. /\ rx' = rx /\ held' = held /\ outq' = outq
      /\ inq[w] # <<>> /\ hand[w] = <<>>
      /\ \A v \in Workers : inq'[v] = IF v = w THEN Tail(inq[w]) ELSE inq[v]
      /\ \A v \in Workers : hand'[v] = IF v = w THEN <<Head(inq[w])>> ELSE hand[v]
  BY DEF IInv, WorkInv, handle_request_recv, net, main
<1>2. <<Head(inq[w])>> = Append(<<>>, Head(inq[w]))
  OBVIOUS
<1>3. DOMAIN Q = Keys
  BY <1>0 DEF Holds
<1>4. \A k \in Keys \ {<<"in", w>>, <<"hand", w>>} : R[k] = Q[k]
  BY <1>0, <1>1, SameAt
<1>5. Loses(Q, R, <<"in", w>>)
  BY <1>1, <1>0 DEF Loses, Holds
<1>6. R[<<"hand", w>>] = Append(Q[<<"hand", w>>], Head(Q[<<"in", w>>]))
  BY <1>1, <1>2, <1>0 DEF Holds
<1> QED
  BY <1>3, <1>4, <1>5, <1>6 DEF Moves

\* The worker sends it back.
LEMMA WorkerSendMoves ==
  ASSUME IInv, IInv', NEW w \in Workers, handle_request_send(w),
         NEW Q, Q = Queues, NEW R, R = Queues'
  PROVE  Moves(Q, R, <<"hand", w>>, <<"out", w>>)
<1>0. /\ Holds(Q, rx, held, inq, hand, outq)
      /\ Holds(R, rx', held', inq', hand', outq')
  BY QueuesNow, QueuesNext
<1>1. /\ rx' = rx /\ held' = held /\ inq' = inq /\ hand[w] # <<>>
      /\ \A v \in Workers : hand'[v] = IF v = w THEN Tail(hand[w]) ELSE hand[v]
      /\ \A v \in Workers :
           outq'[v] = IF v = w THEN Append(outq[w], Head(hand[w])) ELSE outq[v]
  <2>1. hand[w] # <<>> /\ hand[w] \in Seq(Genuine) /\ Len(hand[w]) <= 1
    BY DEF IInv, WorkInv, handle_request_send
  <2>2. Tail(hand[w]) = <<>>
    BY <2>1
  <2> QED
    BY <2>1, <2>2 DEF IInv, WorkInv, handle_request_send, net, main
<1>2. DOMAIN Q = Keys
  BY <1>0 DEF Holds
<1>3. \A k \in Keys \ {<<"hand", w>>, <<"out", w>>} : R[k] = Q[k]
  BY <1>0, <1>1, SameAt
<1>4. Loses(Q, R, <<"hand", w>>)
  BY <1>1, <1>0 DEF Loses, Holds
<1>5. R[<<"out", w>>] = Append(Q[<<"out", w>>], Head(Q[<<"hand", w>>]))
  BY <1>1, <1>0 DEF Holds
<1> QED
  BY <1>2, <1>3, <1>4, <1>5 DEF Moves

\* What enters a connection's queue in the STREAM socket.
Enters(c, n) ==
  /\ rx' = [rx EXCEPT ![c] = Append(rx[c], n)]
  /\ UNCHANGED <<held, inq, hand, outq>>

\* Only the queue of the connection changes.
LEMMA ClientAdds ==
  ASSUME IInv, IInv', NEW c \in Conns, NEW n \in 0..MaxChunks,
         Enters(c, n), NEW Q, Q = Queues, NEW R, R = Queues'
  PROVE  Adds(Q, R, <<"rx", c>>, Msg(c, n))
<1>0. /\ Holds(Q, rx, held, inq, hand, outq)
      /\ Holds(R, rx', held', inq', hand', outq')
  BY QueuesNow, QueuesNext
<1>1. /\ rx[c] \in Seq(0..MaxChunks)
      /\ \A d \in Conns : rx'[d] = IF d = c THEN Append(rx[c], n) ELSE rx[d]
      /\ held' = held /\ inq' = inq /\ hand' = hand /\ outq' = outq
  BY DEF IInv, NetInv, Enters
<1>2. Letters(c, Append(rx[c], n)) = Append(Letters(c, rx[c]), Msg(c, n))
  BY <1>1, LettersOf
<1>3. DOMAIN Q = Keys
  BY <1>0 DEF Holds
<1>4. ASSUME NEW k \in Keys, k # <<"rx", c>> PROVE R[k] = Q[k]
  <2>1. \A d \in Conns : k = <<"rx", d>> => rx'[d] = rx[d]
    BY <1>1, <1>4
  <2> QED
    BY <1>0, <1>1, <2>1, SameAt
<1>5. R[<<"rx", c>>] = Append(Q[<<"rx", c>>], Msg(c, n))
  BY <1>0, <1>1, <1>2 DEF Holds
<1> QED
  BY <1>3, <1>4, <1>5 DEF Adds

\* A notification that is read leaves the queues.
LEMMA NotifyDrops ==
  ASSUME IInv, IInv', NEW c \in Conns, forward_as_req_recv(c),
         Head(rx[c]) = Notify, NEW Q, Q = Queues, NEW R, R = Queues'
  PROVE  /\ Drops(Q, R)
         /\ \A d \in Conns : \A n \in 1..MaxChunks : Spares(Q, R, Msg(d, n))
<1>0. /\ Holds(Q, rx, held, inq, hand, outq)
      /\ Holds(R, rx', held', inq', hand', outq')
  BY QueuesNow, QueuesNext
<1>1. /\ rx[c] \in Seq(0..MaxChunks) /\ rx[c] # <<>>
      /\ \A d \in Conns : rx'[d] = IF d = c THEN Tail(rx[c]) ELSE rx[d]
      /\ held' = held /\ inq' = inq /\ hand' = hand /\ outq' = outq
  BY DEF IInv, NetInv, forward_as_req_recv, work
<1>2. /\ Letters(c, rx[c]) # <<>>
      /\ Letters(c, Tail(rx[c])) = Tail(Letters(c, rx[c]))
      /\ Head(Letters(c, rx[c])) = Msg(c, Notify)
  BY <1>1, LettersOf
<1>3. DOMAIN Q = Keys
  BY <1>0 DEF Holds
<1>4. \A k \in Keys \ {<<"rx", c>>} : R[k] = Q[k]
  BY <1>0, <1>1, SameAt
<1>5. /\ Loses(Q, R, <<"rx", c>>)
      /\ Head(Q[<<"rx", c>>]) = Msg(c, Notify)
  BY <1>0, <1>1, <1>2 DEF Loses, Holds
<1>6. \A d \in Conns : \A n \in 1..MaxChunks : Msg(d, n) # Msg(c, Notify)
  BY ServerAssumption DEF Msg, Notify
<1> QED
  BY <1>3, <1>4, <1>5, <1>6 DEF Drops, Spares

\* A response that is delivered, or cannot be, leaves the queues, with what
\* its connection still had to say.
LEMMA StreamDrops ==
  ASSUME IInv, IInv', NEW w \in Workers, forward_as_stream(w),
         NEW Q, Q = Queues, NEW R, R = Queues'
  PROVE  /\ Drops(Q, R)
         /\ Loses(Q, R, <<"out", w>>) /\ Head(Q[<<"out", w>>]) = Head(outq[w])
         /\ \A d \in Conns : \A n \in 1..MaxChunks :
              d # Head(outq[w]).id => Spares(Q, R, Msg(d, n))
<1>0. /\ Holds(Q, rx, held, inq, hand, outq)
      /\ Holds(R, rx', held', inq', hand', outq')
  BY QueuesNow, QueuesNext
<1> DEFINE c == Head(outq[w]).id
<1>1. /\ outq[w] # <<>>
      /\ \A v \in Workers : outq'[v] = IF v = w THEN Tail(outq[w]) ELSE outq[v]
      /\ held' = held /\ inq' = inq /\ hand' = hand
  BY DEF IInv, WorkInv, forward_as_stream
<1>2. c \in Conns
  <2>1. Head(outq[w]) \in Genuine
    BY <1>1, TakeFirst DEF IInv, WorkInv
  <2> QED
    BY <2>1 DEF Genuine, Message
<1>3. /\ \A d \in Conns \ {c} : rx'[d] = rx[d]
      /\ rx'[c] = rx[c] \/ rx'[c] = <<>>
      /\ rx[c] \in Seq(0..MaxChunks)
  BY <1>2 DEF IInv, NetInv, forward_as_stream, deliver, deliver_nowhere,
              unroutable, deliver_unroutable
<1>4. DOMAIN Q = Keys
  BY <1>0 DEF Holds
<1> HIDE DEF c
<1>5. \A k \in Keys \ {<<"rx", c>>, <<"out", w>>} : R[k] = Q[k]
  BY <1>0, <1>1, <1>3, SameAt
<1>6. /\ Loses(Q, R, <<"out", w>>)
      /\ Head(Q[<<"out", w>>]) = Head(outq[w])
  BY <1>0, <1>1 DEF Loses, Holds
<1>7. /\ R[<<"rx", c>>] = Q[<<"rx", c>>] \/ R[<<"rx", c>>] = <<>>
      /\ \A d \in Conns \ {c} : \A n \in 1..MaxChunks :
           \A i \in 1..Len(Q[<<"rx", c>>]) : Q[<<"rx", c>>][i] # Msg(d, n)
  <2>1. Q[<<"rx", c>>] = Letters(c, rx[c]) /\ R[<<"rx", c>>] = Letters(c, rx'[c])
    BY <1>0, <1>2 DEF Holds
  <2>2. Letters(c, <<>>) = <<>> /\ Len(Letters(c, rx[c])) = Len(rx[c])
    BY <1>2, <1>3, LettersOf
  <2>3. \A i \in 1..Len(rx[c]) : Letters(c, rx[c])[i] = Msg(c, rx[c][i])
    BY DEF Letters
  <2>4. \A d \in Conns \ {c} : \A n, k : Msg(d, n) # Msg(c, k)
    BY DEF Msg
  <2> QED
    BY <1>3, <2>1, <2>2, <2>3, <2>4
<1>8. Drops(Q, R)
  BY <1>4, <1>5, <1>6, <1>7 DEF Drops
<1>9. ASSUME NEW d \in Conns, d # c, NEW n \in 1..MaxChunks
      PROVE  Spares(Q, R, Msg(d, n))
  <2>1. Head(outq[w]) # Msg(d, n)
    BY <1>9 DEF c, Msg
  <2> QED
    BY <1>4, <1>5, <1>6, <1>7, <1>9, <2>1 DEF Spares
<1> QED
  BY <1>6, <1>8, <1>9 DEF c

\* So does a message that a worker takes for the rest of another.
LEMMA SwallowDrops ==
  ASSUME IInv, IInv', NEW w \in Workers, handle_request_swallow(w),
         NEW Q, Q = Queues, NEW R, R = Queues'
  PROVE  Drops(Q, R)
<1>0. /\ Holds(Q, rx, held, inq, hand, outq)
      /\ Holds(R, rx', held', inq', hand', outq')
  BY QueuesNow, QueuesNext
<1>1. /\ inq[w] # <<>>
      /\ \A v \in Workers : inq'[v] = IF v = w THEN Tail(inq[w]) ELSE inq[v]
      /\ rx' = rx /\ held' = held /\ hand' = hand /\ outq' = outq
  BY DEF IInv, WorkInv, handle_request_swallow, net, main
<1>2. DOMAIN Q = Keys
  BY <1>0 DEF Holds
<1>3. \A k \in Keys \ {<<"in", w>>} : R[k] = Q[k]
  BY <1>0, <1>1, SameAt
<1>4. Loses(Q, R, <<"in", w>>)
  BY <1>0, <1>1 DEF Loses, Holds
<1> QED
  BY <1>2, <1>3, <1>4 DEF Drops

\* The other steps do not touch the queues.
LEMMA QueuesStay == UNCHANGED <<rx, held, inq, hand, outq>> => Queues' = Queues
  BY DEF Queues, QueuesOf, Letters

\* No queue holds a chunk its client has not written.
LEMMA NotYetWritten ==
  ASSUME IInv, WrittenInv, NEW c \in Conns, NEW Q, Q = Queues
  PROVE  ~ Present(Q, Msg(c, sent[c] + 1))
<1>0. Holds(Q, rx, held, inq, hand, outq)
  BY QueuesNow
<1> DEFINE e == sent[c] + 1
<1>1. sent[c] \in Nat
  BY ServerAssumption DEF IInv, NetInv
<1>2. \A m \in Written : m # Msg(c, e)
  BY <1>1 DEF Written, Msg
<1>3. \A d \in Conns : \A i \in 1..Len(rx[d]) : Letters(d, rx[d])[i] # Msg(c, e)
  <2> SUFFICES ASSUME NEW d \in Conns, NEW i \in 1..Len(rx[d])
               PROVE  Msg(d, rx[d][i]) # Msg(c, e)
    BY DEF Letters
  <2>1. rx[d][i] \in 0..sent[d]
    BY InQueue DEF WrittenInv
  <2> QED
    BY <1>1, <2>1 DEF Msg
<1>4. \A d \in Conns : Len(Letters(d, rx[d])) = Len(rx[d])
  BY LettersOf DEF IInv, NetInv
<1> HIDE DEF e
<1>5. ASSUME NEW q \in Seq(Written), NEW i \in 1..Len(q) PROVE q[i] # Msg(c, e)
  BY <1>2, InQueue
<1>6. \A k \in Keys : \A i \in 1..Len(Q[k]) : Q[k][i] # Msg(c, e)
  <2> TAKE k \in Keys
  <2>1. CASE \E d \in Conns : k = <<"rx", d>>
    BY <1>0, <1>3, <1>4, <2>1 DEF Holds
  <2>2. CASE \/ k = <<"held", "main">>
             \/ \E w \in Workers : k = <<"in", w>>
             \/ \E w \in Workers : k = <<"hand", w>>
             \/ \E w \in Workers : k = <<"out", w>>
    <3>1. Q[k] \in Seq(Written)
      BY <1>0, <2>2 DEF Holds, WrittenInv
    <3> QED
      BY <1>5, <3>1
  <2> QED
    BY <2>1, <2>2, KeyCases
<1> QED
  BY <1>0, <1>6 DEF Present, Holds, e

\* Steps after which every message is where it was, or in the next place.
LEMMA MovesLetters ==
  ASSUME IInv, IInv', UniqueInv,
         \/ Queues' = Queues
         \/ \E a, b \in Keys : Moves(Queues, Queues', a, b)
  PROVE  \A c \in Conns, n \in 1..MaxChunks :
           /\ Unique(Queues', Msg(c, n))
           /\ Present(Queues, Msg(c, n)) <=> Present(Queues', Msg(c, n))
<1> SUFFICES ASSUME NEW Q, Q = Queues, NEW R, R = Queues'
             PROVE  \A c \in Conns, n \in 1..MaxChunks :
                      /\ Unique(R, Msg(c, n))
                      /\ Present(Q, Msg(c, n)) <=> Present(R, Msg(c, n))
  OBVIOUS
<1>1. Q \in [Keys -> Seq(Letter)] /\ R \in [Keys -> Seq(Letter)]
  BY QueuesNow, QueuesNext DEF Holds
<1>2. AllUnique(Q)
  BY DEF UniqueInv
<1>3. CASE R = Q
  BY <1>2, <1>3 DEF AllUnique
<1>4. CASE \E a, b \in Keys : Moves(Q, R, a, b)
  BY <1>1, <1>2, <1>4, Moved DEF AllUnique
<1> QED
  BY <1>3, <1>4

\* Such steps keep the invariant.
LEMMA MovesLost ==
  ASSUME IInv, IInv', UniqueInv, PresentInv,
         \/ Queues' = Queues
         \/ \E a, b \in Keys : Moves(Queues, Queues', a, b),
         peer' = peer, sent' = sent, Swallowing => Swallowing'
  PROVE  UniqueInv' /\ PresentInv'
<1>1. \A c \in Conns, n \in 1..MaxChunks :
        /\ Unique(Queues', Msg(c, n))
        /\ Present(Queues, Msg(c, n)) <=> Present(Queues', Msg(c, n))
  BY MovesLetters
<1>2. \A c \in Conns : \A n \in 1..sent[c] : n \in 1..MaxChunks
  BY ServerAssumption DEF IInv, NetInv
<1> QED
  BY <1>1, <1>2 DEF UniqueInv, AllUnique, PresentInv

\* e is none of the letters that are followed here, or not there yet.
NewIn(Q, e) == \A d \in Conns, n \in 1..MaxChunks : Fresh(Q, Msg(d, n), e)

AllGained(Q, R, e) ==
  \A d \in Conns, n \in 1..MaxChunks : Gained(Q, R, Msg(d, n), e)

\* A new letter disturbs no other.
LEMMA AddsOn ==
  ASSUME NEW Q \in [Keys -> Seq(Letter)], NEW R \in [Keys -> Seq(Letter)],
         NEW k \in Keys, NEW e \in Letter, Adds(Q, R, k, e),
         AllUnique(Q), NewIn(Q, e)
  PROVE  AllGained(Q, R, e)
<1> SUFFICES ASSUME NEW d \in Conns, NEW n \in 1..MaxChunks
             PROVE  Gained(Q, R, Msg(d, n), e)
  BY DEF AllGained
<1> DEFINE m == Msg(d, n)
<1>1. Unique(Q, m) /\ Fresh(Q, m, e)
  BY DEF AllUnique, NewIn
<1> HIDE DEF m
<1>2. Gained(Q, R, m, e)
  BY <1>1, Added
<1> QED
  BY <1>2 DEF m

\* What a client adds disturbs nothing that is under way.
LEMMA EntersLetters ==
  ASSUME IInv, IInv', UniqueInv, NEW c \in Conns, NEW e \in 0..MaxChunks,
         Enters(c, e), e = 0 \/ ~ Present(Queues, Msg(c, e))
  PROVE  AllGained(Queues, Queues', Msg(c, e))
<1> DEFINE k == <<"rx", c>>
           f == Msg(c, e)
<1> SUFFICES ASSUME NEW Q, Q = Queues, NEW R, R = Queues'
             PROVE  AllGained(Q, R, f)
  OBVIOUS
<1>1. Q \in [Keys -> Seq(Letter)] /\ R \in [Keys -> Seq(Letter)]
  BY QueuesNow, QueuesNext DEF Holds
<1>2. k \in Keys /\ AllUnique(Q)
  BY KeysAre DEF UniqueInv
<1>3. Adds(Q, R, k, f)
  BY ClientAdds
<1>4. f \in Letter
  BY DEF Msg, Letter
<1>5. NewIn(Q, f)
  BY ServerAssumption DEF Msg, Fresh, NewIn
<1> HIDE DEF f, k
<1> QED
  BY <1>1, <1>2, <1>3, <1>4, <1>5, AddsOn

\* What a client writes is new.
LEMMA ClientsLost ==
  ASSUME IInv, IInv', WrittenInv, LostInv, Clients PROVE LostInv'
<1> SUFFICES ASSUME NEW Q, Q = Queues, NEW R, R = Queues'
             PROVE  LostInv'
  OBVIOUS
<1> PICK c \in Conns : client_connect(c) \/ client_write(c) \/ client_hang_up(c)
  BY DEF Clients
<1>0. /\ Holds(Q, rx, held, inq, hand, outq)
      /\ Holds(R, rx', held', inq', hand', outq')
  BY QueuesNow, QueuesNext
<1>1. /\ sent \in [Conns -> 0..MaxChunks]
      /\ \A d \in Conns : sent[d] \in Nat
      /\ \A d \in Conns : rx[d] \in Seq(0..MaxChunks)
      /\ MaxChunks \in Nat
  BY ServerAssumption DEF IInv, NetInv
<1>2. /\ srv' = srv /\ held' = held /\ inq' = inq /\ hand' = hand /\ outq' = outq
      /\ wpc' = wpc
  BY DEF client_connect, client_write, client_hang_up, main, work
<1>3. IdleInv'
  <2>1. \A d \in Conns : peer'[d] = "absent" =>
          peer[d] = "absent" /\ rx'[d] = rx[d] /\ sent'[d] = sent[d]
    BY DEF IInv, NetInv, client_connect, client_write, client_hang_up
  <2> QED
    BY <1>2, <2>1 DEF LostInv, IdleInv
<1>4. ASSUME NEW e \in 0..MaxChunks, Enters(c, e),
             e = 0 \/ ~ Present(Q, Msg(c, e)),
             \A d \in Conns : \A n \in 1..sent'[d] :
               peer'[d] = "open" =>
                 \/ peer[d] = "open" /\ n <= sent[d]
                 \/ d = c /\ n = e,
             \A d \in Conns : sent'[d] <= MaxChunks
      PROVE  LostInv'
  <2>1. \A d \in Conns, n \in 1..MaxChunks :
          /\ Unique(R, Msg(d, n))
          /\ Present(R, Msg(d, n)) <=> Present(Q, Msg(d, n)) \/ Msg(c, e) = Msg(d, n)
    BY <1>4, EntersLetters DEF LostInv, AllGained, Gained
  <2>2. UniqueInv'
    BY <2>1 DEF UniqueInv, AllUnique
  <2>3. PresentInv'
    <3> SUFFICES ASSUME NEW d \in Conns, peer'[d] = "open", ~ Swallowing',
                        NEW n \in 1..sent'[d]
                 PROVE  Present(R, Msg(d, n))
      BY DEF PresentInv
    <3>1. n \in 1..MaxChunks
      BY <1>1, <1>4
    <3>2. ~ Swallowing
      BY <1>2 DEF Swallowing
    <3>3. CASE peer[d] = "open" /\ n <= sent[d]
      <4>1. n \in 1..sent[d]
        BY <1>1, <3>3
      <4> QED
        BY <2>1, <3>1, <3>2, <3>3, <4>1 DEF LostInv, PresentInv
    <3>4. CASE d = c /\ n = e
      BY <2>1, <3>1, <3>4
    <3> QED
      BY <1>4, <3>3, <3>4
  <2> QED
    BY <1>3, <2>2, <2>3 DEF LostInv
<1>5. CASE client_connect(c)
  <2>1. rx[c] = <<>> /\ sent[c] = 0
    BY <1>5 DEF client_connect, LostInv, IdleInv
  <2>2. Enters(c, 0)
    BY <1>2, <1>5, <2>1 DEF client_connect, Enters, Notify
  <2>3. \A d \in Conns : \A n \in 1..sent'[d] :
          peer'[d] = "open" => peer[d] = "open" /\ n <= sent[d]
    BY <1>1, <1>5, <2>1 DEF client_connect, IInv, NetInv
  <2> QED
    BY <1>1, <1>4, <1>5, <2>2, <2>3 DEF client_connect
<1>6. CASE client_hang_up(c)
  <2>1. Enters(c, 0)
    BY <1>2, <1>6 DEF client_hang_up, Enters, Notify
  <2>2. \A d \in Conns : \A n \in 1..sent'[d] :
          peer'[d] = "open" => peer[d] = "open" /\ n <= sent[d]
    BY <1>1, <1>6 DEF client_hang_up, IInv, NetInv
  <2> QED
    BY <1>1, <1>4, <1>6, <2>1, <2>2 DEF client_hang_up
<1>7. CASE client_write(c)
  <2> DEFINE e == sent[c] + 1
  <2>1. /\ e \in 0..MaxChunks /\ Enters(c, e)
        /\ peer' = peer /\ sent' = [sent EXCEPT ![c] = e]
    BY <1>1, <1>2, <1>7 DEF client_write, Enters
  <2>2. ~ Present(Q, Msg(c, e))
    BY <1>0, <1>1, NotYetWritten
  <2>3. /\ \A d \in Conns : \A n \in 1..sent'[d] :
             peer'[d] = "open" => \/ peer[d] = "open" /\ n <= sent[d]
                                  \/ d = c /\ n = e
        /\ \A d \in Conns : sent'[d] <= MaxChunks
    BY <1>1, <2>1
  <2> QED
    BY <1>4, <2>1, <2>2, <2>3
<1> QED
  BY <1>5, <1>6, <1>7

\* Steps after which some messages are gone.
LEMMA DropsLetters ==
  ASSUME IInv, IInv', UniqueInv, Drops(Queues, Queues'),
         NEW c \in Conns, NEW n \in 1..MaxChunks
  PROVE  LET Q == Queues
             R == Queues'
             m == Msg(c, n)
         IN  /\ Unique(R, m)
             /\ Present(R, m) => Present(Q, m)
             /\ Spares(Q, R, m) /\ Present(Q, m) => Present(R, m)
             /\ \A k \in Keys : Loses(Q, R, k) /\ Head(Q[k]) = m => ~ Present(R, m)
<1> SUFFICES ASSUME NEW Q, Q = Queues, NEW R, R = Queues', NEW m, m = Msg(c, n)
             PROVE  /\ Unique(R, m)
                    /\ Present(R, m) => Present(Q, m)
                    /\ Spares(Q, R, m) /\ Present(Q, m) => Present(R, m)
                    /\ \A k \in Keys :
                         Loses(Q, R, k) /\ Head(Q[k]) = m => ~ Present(R, m)
  OBVIOUS
<1>1. Q \in [Keys -> Seq(Letter)] /\ R \in [Keys -> Seq(Letter)] /\ Drops(Q, R)
  BY QueuesNow, QueuesNext DEF Holds
<1>2. Unique(Q, m)
  BY DEF UniqueInv, AllUnique
<1> QED
  BY <1>1, <1>2, Fewer

\* What the queues lose was a notification, belongs to a connection that is
\* closed by it, or is swallowed.
LEMMA DropsLost ==
  ASSUME IInv, IInv', UniqueInv, PresentInv, Drops(Queues, Queues'),
         sent' = sent, Swallowing => Swallowing',
         \A d \in Conns : peer'[d] = "open" /\ ~ Swallowing' =>
           /\ peer[d] = "open"
           /\ \A n \in 1..MaxChunks : Spares(Queues, Queues', Msg(d, n))
  PROVE  UniqueInv' /\ PresentInv'
<1>1. \A c \in Conns, n \in 1..MaxChunks :
        /\ Unique(Queues', Msg(c, n))
        /\ Spares(Queues, Queues', Msg(c, n)) /\ Present(Queues, Msg(c, n))
             => Present(Queues', Msg(c, n))
  BY DropsLetters
<1>2. \A c \in Conns : \A n \in 1..sent[c] : n \in 1..MaxChunks
  BY ServerAssumption DEF IInv, NetInv
<1> QED
  BY <1>1, <1>2 DEF UniqueInv, AllUnique, PresentInv

\* The main thread loses nothing of an open connection.
LEMMA MainThreadLost ==
  ASSUME IInv, IInv', LostInv, MainThread PROVE LostInv'
<1> USE DEF LostInv
<1>1. CASE (\E w \in Workers : start(w)) \/ publish_start \/ poll
  <2>1. /\ UNCHANGED <<rx, held, inq, hand, outq>>
        /\ peer' = peer /\ sent' = sent
        /\ srv \in {"launch", "poll"}
        /\ Swallowing => Swallowing'
    BY <1>1 DEF start, publish_start, poll, net, main, work, IInv, WorkInv, Swallowing
  <2>2. UniqueInv' /\ PresentInv'
    BY <2>1, QueuesStay, MovesLost
  <2>3. IdleInv'
    BY <2>1 DEF IdleInv
  <2> QED
    BY <2>2, <2>3
<1>2. CASE \E c \in Conns : forward_as_req_recv(c)
  <2> PICK c \in Conns : forward_as_req_recv(c)
    BY <1>2
  <2>1. /\ peer' = peer /\ sent' = sent /\ wpc' = wpc
        /\ Swallowing => Swallowing'
    BY DEF forward_as_req_recv, work, Swallowing
  <2>2. IdleInv'
    <3>1. \A d \in Conns : rx'[d] = IF d = c THEN Tail(rx[c]) ELSE rx[d]
      BY DEF IInv, NetInv, forward_as_req_recv
    <3>2. peer[c] # "absent"
      BY DEF IdleInv, forward_as_req_recv
    <3>3. srv' = "send" \/ held' = <<>>
      BY DEF IdleInv, forward_as_req_recv
    <3> QED
      BY <2>1, <3>1, <3>2, <3>3 DEF IdleInv
  <2>3. CASE Head(rx[c]) = Notify
    <3>1. /\ Drops(Queues, Queues')
          /\ \A d \in Conns : \A n \in 1..MaxChunks :
               Spares(Queues, Queues', Msg(d, n))
      BY <2>3, NotifyDrops
    <3> QED
      BY <2>1, <2>2, <3>1, DropsLost
  <2>4. CASE Head(rx[c]) # Notify
    <3>1. Moves(Queues, Queues', <<"rx", c>>, <<"held", "main">>)
      BY <2>4, RecvMoves
    <3>2. UniqueInv' /\ PresentInv'
      BY <2>1, <3>1, KeysAre, MovesLost
    <3> QED
      BY <2>2, <3>2
  <2> QED
    BY <2>3, <2>4
<1>3. CASE \E w \in Workers : forward_as_req_send(w)
  <2> PICK w \in Workers : forward_as_req_send(w)
    BY <1>3
  <2>1. /\ peer' = peer /\ sent' = sent /\ rx' = rx /\ held' = <<>>
        /\ Swallowing => Swallowing'
    BY DEF forward_as_req_send, net, Swallowing
  <2>2. Moves(Queues, Queues', <<"held", "main">>, <<"in", w>>)
    BY SendMoves
  <2>3. UniqueInv' /\ PresentInv'
    BY <2>1, <2>2, KeysAre, MovesLost
  <2> QED
    BY <2>1, <2>3 DEF IdleInv
<1>4. CASE \E w \in Workers : forward_as_stream(w)
  <2> PICK w \in Workers : forward_as_stream(w)
    BY <1>4
  <2> DEFINE c == Head(outq[w]).id
  <2>1. c \in Conns
    <3>1. Head(outq[w]) \in Genuine
      BY TakeFirst DEF IInv, WorkInv, forward_as_stream
    <3> QED
      BY <3>1 DEF Genuine, Message
  <2>2. /\ sent' = sent /\ held' = held /\ held = <<>> /\ wpc' = wpc
        /\ \/ deliver(c, Head(outq[w]).body)
           \/ deliver_nowhere(c)
           \/ unroutable(c)
           \/ deliver_unroutable(c, Head(outq[w]).body)
    BY DEF forward_as_stream, IdleInv
  <2> HIDE DEF c
  <2>3. /\ peer'[c] \in {"gone", "closed"}
        /\ \A d \in Conns \ {c} : peer'[d] = peer[d] /\ rx'[d] = rx[d]
        /\ Swallowing => Swallowing'
    BY <2>1, <2>2 DEF deliver, deliver_nowhere, unroutable, deliver_unroutable,
                      IInv, NetInv, Swallowing
  <2>4. IdleInv'
    BY <2>2, <2>3 DEF IdleInv
  <2>5. /\ Drops(Queues, Queues')
        /\ \A d \in Conns : \A n \in 1..MaxChunks :
             d # c => Spares(Queues, Queues', Msg(d, n))
    BY StreamDrops DEF c
  <2>6. \A d \in Conns : peer'[d] = "open" => d # c /\ peer[d] = "open"
    BY <2>3
  <2>7. UniqueInv' /\ PresentInv'
    BY <2>2, <2>3, <2>5, <2>6, DropsLost
  <2> QED
    BY <2>4, <2>7
<1> QED
  BY <1>1, <1>2, <1>3, <1>4 DEF MainThread

\* Nor does a worker, unless its read of `more' is off.
LEMMA WorkerLost ==
  ASSUME IInv, IInv', LostInv, NEW w \in Workers, Worker(w) PROVE LostInv'
<1> USE DEF LostInv
<1>1. /\ peer' = peer /\ rx' = rx /\ sent' = sent /\ held' = held
      /\ srv' = srv \/ srv' = "dead"
  BY DEF Worker, subscribe, connect, worker_poll, handle_status,
         handle_request_recv, handle_request_swallow, handle_request_execute,
         handle_request_send, net, main
<1>2. IdleInv'
  BY <1>1 DEF IdleInv
<1>3. Swallowing => Swallowing'
  BY DEF Worker, subscribe, connect, worker_poll, handle_status,
         handle_request_recv, handle_request_swallow, handle_request_execute,
         handle_request_send, Swallowing, IInv, WorkInv
<1>4. CASE \/ subscribe(w) \/ connect(w) \/ worker_poll(w) \/ handle_status(w)
           \/ handle_request_execute(w)
  <2>1. UNCHANGED <<rx, held, inq, hand, outq>>
    BY <1>1, <1>4 DEF subscribe, connect, worker_poll, handle_status,
                      handle_request_execute
  <2> QED
    BY <1>1, <1>2, <1>3, <2>1, QueuesStay, MovesLost
<1>5. CASE handle_request_recv(w)
  <2>1. Moves(Queues, Queues', <<"in", w>>, <<"hand", w>>)
    BY <1>5, WorkerRecvMoves
  <2> QED
    BY <1>1, <1>2, <1>3, <2>1, KeysAre, MovesLost
<1>6. CASE handle_request_swallow(w)
  <2>1. Drops(Queues, Queues')
    BY <1>6, SwallowDrops
  <2>2. Swallowing'
    BY <1>6 DEF handle_request_swallow, Swallowing
  <2> QED
    BY <1>1, <1>2, <1>3, <2>1, <2>2, DropsLost
<1>7. CASE handle_request_send(w)
  <2>1. Moves(Queues, Queues', <<"hand", w>>, <<"out", w>>)
    BY <1>7, WorkerSendMoves
  <2> QED
    BY <1>1, <1>2, <1>3, <2>1, KeysAre, MovesLost
<1> QED
  BY <1>4, <1>5, <1>6, <1>7 DEF Worker

\* At the start there is nothing in the queues.
LEMMA InitEmpty ==
  ASSUME Init, NEW Q, Q = Queues PROVE \A k \in Keys : Q[k] = <<>>
<1>1. Holds(Q, rx, held, inq, hand, outq)
  BY InitIInv, QueuesNow
<1>2. \A c \in Conns : Letters(c, <<>>) = <<>>
  BY DEF Letters
<1>3. /\ \A c \in Conns : Q[<<"rx", c>>] = <<>>
      /\ Q[<<"held", "main">>] = <<>>
      /\ \A w \in Workers : /\ Q[<<"in", w>>] = <<>>
                            /\ Q[<<"hand", w>>] = <<>>
                            /\ Q[<<"out", w>>] = <<>>
  BY <1>1, <1>2 DEF Holds, Init
<1> TAKE k \in Keys
<1> QED
  BY <1>3, KeyCases

\* The program starts in the invariant.
LEMMA InitLost == Init => LostInv
<1> SUFFICES ASSUME Init, NEW Q, Q = Queues PROVE LostInv
  OBVIOUS
<1>1. DOMAIN Q = Keys /\ \A k \in Keys : Q[k] = <<>>
  BY InitEmpty, InitIInv, QueuesNow DEF Holds
<1>2. UniqueInv
  BY <1>1 DEF UniqueInv, AllUnique, Unique
<1> QED
  BY <1>2, ServerAssumption DEF LostInv, IdleInv, PresentInv, Init

\* Every step of the program keeps it.
LEMMA NextLost ==
  IInv /\ IInv' /\ WrittenInv /\ LostInv /\ [Next]_vars => LostInv'
<1> SUFFICES ASSUME IInv, IInv', WrittenInv, LostInv, [Next]_vars PROVE LostInv'
  OBVIOUS
<1>1. CASE Next
  BY <1>1, ClientsLost, MainThreadLost, WorkerLost DEF Next
<1>2. CASE UNCHANGED vars
  <2>1. /\ UNCHANGED <<rx, held, inq, hand, outq>>
        /\ peer' = peer /\ sent' = sent /\ srv' = srv /\ wpc' = wpc
    BY <1>2 DEF vars, net, main, work
  <2>2. Queues' = Queues
    BY <2>1, QueuesStay
  <2> QED
    BY <2>1, <2>2 DEF LostInv, IdleInv, UniqueInv, AllUnique, PresentInv, Swallowing
<1> QED
  BY <1>1, <1>2

\* The places of a chunk are those of its letter in the queues.
KeyOf(p) == IF p[1] = "held" THEN <<"held", "main">> ELSE <<p[1], p[2]>>

\* The places NoLostRequest counts are the occurrences in the queues.
LEMMA PlacesAre ==
  ASSUME IInv, NEW c \in Conns, NEW n \in 1..MaxChunks, NEW Q, Q = Queues
  PROVE  /\ \A p \in Places(c, n) :
              /\ KeyOf(p) \in Keys
              /\ p[3] \in 1..Len(Q[KeyOf(p)])
              /\ Q[KeyOf(p)][p[3]] = Msg(c, n)
         /\ \A p, q \in Places(c, n) :
              KeyOf(p) = KeyOf(q) /\ p[3] = q[3] => p = q
         /\ Present(Q, Msg(c, n)) => Places(c, n) # {}
<1>0. Holds(Q, rx, held, inq, hand, outq)
  BY QueuesNow
<1>1. \A d \in Conns : /\ Len(Letters(d, rx[d])) = Len(rx[d])
                       /\ DOMAIN rx[d] = 1..Len(rx[d])
                       /\ \A i \in 1..Len(rx[d]) : Letters(d, rx[d])[i] = Msg(d, rx[d][i])
  <2> TAKE d \in Conns
  <2>1. rx[d] \in Seq(0..MaxChunks)
    BY DEF IInv, NetInv
  <2>2. DOMAIN rx[d] = 1..Len(rx[d])
    BY <2>1
  <2> QED
    BY <2>1, <2>2, LettersOf DEF Letters
<1>2. /\ DOMAIN held = 1..Len(held)
      /\ \A w \in Workers : /\ DOMAIN inq[w] = 1..Len(inq[w])
                            /\ DOMAIN hand[w] = 1..Len(hand[w])
                            /\ DOMAIN outq[w] = 1..Len(outq[w])
  <2>1. \A q \in Seq(Genuine) : DOMAIN q = 1..Len(q)
    OBVIOUS
  <2> QED
    BY <2>1 DEF IInv, MainInv, WorkInv
<1> DEFINE m == Msg(c, n)
<1>3. \A p : p \in Places(c, n) <=>
        \/ \E i \in DOMAIN rx[c] : rx[c][i] = n /\ p = <<"rx", c, i>>
        \/ \E i \in DOMAIN held : held[i] = m /\ p = <<"held", c, i>>
        \/ \E w \in Workers : \E i \in DOMAIN inq[w] :
             inq[w][i] = m /\ p = <<"in", w, i>>
        \/ \E w \in Workers : \E i \in DOMAIN hand[w] :
             hand[w][i] = m /\ p = <<"hand", w, i>>
        \/ \E w \in Workers : \E i \in DOMAIN outq[w] :
             outq[w][i] = m /\ p = <<"out", w, i>>
  BY DEF Places, At, Msg
<1>4. \A d \in Conns : \A k : Msg(d, k) = m <=> d = c /\ k = n
  BY DEF Msg
<1> HIDE DEF m
<1>5. \A p \in Places(c, n) :
        /\ KeyOf(p) \in Keys
        /\ p[3] \in 1..Len(Q[KeyOf(p)])
        /\ Q[KeyOf(p)][p[3]] = m
  <2> TAKE p \in Places(c, n)
  <2>1. CASE \E i \in DOMAIN rx[c] : rx[c][i] = n /\ p = <<"rx", c, i>>
    BY <1>0, <1>1, <1>4, <2>1, KeysAre DEF KeyOf, Holds
  <2>2. CASE \E i \in DOMAIN held : held[i] = m /\ p = <<"held", c, i>>
    BY <1>0, <1>2, <2>2, KeysAre DEF KeyOf, Holds
  <2>3. CASE \E w \in Workers : \E i \in DOMAIN inq[w] :
               inq[w][i] = m /\ p = <<"in", w, i>>
    <3> PICK w \in Workers : \E i \in DOMAIN inq[w] :
                inq[w][i] = m /\ p = <<"in", w, i>>
      BY <2>3
    <3>1. KeyOf(p) = <<"in", w>> /\ KeyOf(p) \in Keys
      <4>1. KeyOf(p) = <<"in", w>>
        BY DEF KeyOf
      <4>2. <<"in", w>> \in Keys
        BY KeysAre
      <4> QED
        BY <4>1, <4>2
    <3>2. p[3] \in DOMAIN inq[w] /\ inq[w][p[3]] = m
      OBVIOUS
    <3>3. Q[KeyOf(p)] = inq[w]
      BY <1>0, <3>1 DEF Holds
    <3> QED
      BY <1>2, <3>1, <3>2, <3>3
  <2>4. CASE \E w \in Workers : \E i \in DOMAIN hand[w] :
               hand[w][i] = m /\ p = <<"hand", w, i>>
    <3> PICK w \in Workers : \E i \in DOMAIN hand[w] :
                hand[w][i] = m /\ p = <<"hand", w, i>>
      BY <2>4
    <3>1. KeyOf(p) = <<"hand", w>> /\ KeyOf(p) \in Keys
      <4>1. KeyOf(p) = <<"hand", w>>
        BY DEF KeyOf
      <4>2. <<"hand", w>> \in Keys
        BY KeysAre
      <4> QED
        BY <4>1, <4>2
    <3>2. p[3] \in DOMAIN hand[w] /\ hand[w][p[3]] = m
      OBVIOUS
    <3>3. Q[KeyOf(p)] = hand[w]
      BY <1>0, <3>1 DEF Holds
    <3> QED
      BY <1>2, <3>1, <3>2, <3>3
  <2>5. CASE \E w \in Workers : \E i \in DOMAIN outq[w] :
               outq[w][i] = m /\ p = <<"out", w, i>>
    <3> PICK w \in Workers : \E i \in DOMAIN outq[w] :
                outq[w][i] = m /\ p = <<"out", w, i>>
      BY <2>5
    <3>1. KeyOf(p) = <<"out", w>> /\ KeyOf(p) \in Keys
      <4>1. KeyOf(p) = <<"out", w>>
        BY DEF KeyOf
      <4>2. <<"out", w>> \in Keys
        BY KeysAre
      <4> QED
        BY <4>1, <4>2
    <3>2. p[3] \in DOMAIN outq[w] /\ outq[w][p[3]] = m
      OBVIOUS
    <3>3. Q[KeyOf(p)] = outq[w]
      BY <1>0, <3>1 DEF Holds
    <3> QED
      BY <1>2, <3>1, <3>2, <3>3
  <2> QED
    BY <1>3, <2>1, <2>2, <2>3, <2>4, <2>5
<1>6. ASSUME NEW p \in Places(c, n), NEW q \in Places(c, n),
             KeyOf(p) = KeyOf(q), p[3] = q[3]
      PROVE  p = q
  <2>1. \A r \in Places(c, n) : /\ r = <<r[1], r[2], r[3]>>
                                /\ r[1] = "held" => r[2] = c
    BY <1>3
  <2>2. p[1] = q[1] /\ p[2] = q[2]
    BY <1>6, <2>1 DEF KeyOf
  <2> QED
    BY <1>6, <2>1, <2>2
<1>7. ASSUME Present(Q, m) PROVE Places(c, n) # {}
  <2> PICK k \in Keys : \E i \in 1..Len(Q[k]) : Q[k][i] = m
    BY <1>0, <1>7 DEF Present, Holds
  <2> PICK i \in 1..Len(Q[k]) : Q[k][i] = m
    OBVIOUS
  <2>1. CASE \E d \in Conns : k = <<"rx", d>>
    <3> PICK d \in Conns : k = <<"rx", d>>
      BY <2>1
    <3>1. i \in 1..Len(rx[d]) /\ Msg(d, rx[d][i]) = m
      BY <1>0, <1>1 DEF Holds
    <3>2. d = c /\ rx[d][i] = n
      BY <1>4, <3>1
    <3>3. <<"rx", c, i>> \in Places(c, n)
      BY <1>1, <1>3, <3>1, <3>2
    <3> QED
      BY <3>3
  <2>2. CASE k = <<"held", "main">>
    <3>1. <<"held", c, i>> \in Places(c, n)
      BY <1>0, <1>2, <1>3, <2>2 DEF Holds
    <3> QED
      BY <3>1
  <2>3. CASE \E w \in Workers : k \in {<<"in", w>>, <<"hand", w>>, <<"out", w>>}
    <3> PICK w \in Workers : k \in {<<"in", w>>, <<"hand", w>>, <<"out", w>>}
      BY <2>3
    <3>1. CASE k = <<"in", w>>
      <4>1. i \in DOMAIN inq[w] /\ inq[w][i] = m
        BY <1>0, <1>2, <3>1 DEF Holds
      <4>2. <<"in", w, i>> \in Places(c, n)
        BY <1>3, <4>1
      <4> QED
        BY <4>2
    <3>2. CASE k = <<"hand", w>>
      <4>1. i \in DOMAIN hand[w] /\ hand[w][i] = m
        BY <1>0, <1>2, <3>2 DEF Holds
      <4>2. <<"hand", w, i>> \in Places(c, n)
        BY <1>3, <4>1
      <4> QED
        BY <4>2
    <3>3. CASE k = <<"out", w>>
      <4>1. i \in DOMAIN outq[w] /\ outq[w][i] = m
        BY <1>0, <1>2, <3>3 DEF Holds
      <4>2. <<"out", w, i>> \in Places(c, n)
        BY <1>3, <4>1
      <4> QED
        BY <4>2
    <3> QED
      BY <3>1, <3>2, <3>3
  <2> QED
    BY <2>1, <2>2, <2>3, KeyCases
<1> QED
  BY <1>5, <1>6, <1>7 DEF m

\* A request is in one place at most, and in one as long as it is wanted.
LEMMA LostInvImplies == IInv /\ LostInv => NoLostRequest
<1> SUFFICES ASSUME IInv, LostInv, NEW c \in Conns, NEW n \in 1..sent[c]
             PROVE  /\ Cardinality(Places(c, n)) <= 1
                    /\ peer[c] = "open" /\ (\A w \in Workers : wpc[w] # "swallow")
                         => Cardinality(Places(c, n)) = 1
  BY DEF NoLostRequest
<1> SUFFICES ASSUME NEW Q, Q = Queues
             PROVE  /\ Cardinality(Places(c, n)) <= 1
                    /\ peer[c] = "open" /\ (\A w \in Workers : wpc[w] # "swallow")
                         => Cardinality(Places(c, n)) = 1
  OBVIOUS
<1>1. n \in 1..MaxChunks
  BY ServerAssumption DEF IInv, NetInv
<1>2. /\ Unique(Q, Msg(c, n))
      /\ DOMAIN Q = Keys
  BY <1>1, QueuesNow DEF LostInv, UniqueInv, AllUnique, Holds
<1>3. \A p, q \in Places(c, n) : p = q
  <2> TAKE p, q \in Places(c, n)
  <2>1. KeyOf(p) = KeyOf(q) /\ p[3] = q[3]
    BY <1>1, <1>2, PlacesAre DEF Unique
  <2> QED
    BY <1>1, <2>1, PlacesAre
<1>4. CASE Places(c, n) = {}
  <2>1. Cardinality(Places(c, n)) = 0
    BY <1>4, FS_EmptySet
  <2>2. ~ Present(Q, Msg(c, n))
    BY <1>1, <1>4, PlacesAre
  <2> QED
    BY <2>1, <2>2 DEF LostInv, PresentInv, Swallowing
<1>5. CASE Places(c, n) # {}
  <2> PICK p : p \in Places(c, n)
    BY <1>5
  <2>1. Places(c, n) = {p}
    BY <1>3
  <2>2. Cardinality({p}) = 1
    BY FS_Singleton
  <2> QED
    BY <2>1, <2>2
<1> QED
  BY <1>4, <1>5

\* No thread duplicates a request, and none drops one whose connection is
\* open as long as no worker's read of `more' is off: forward_as_req, the
\* worker and forward_as_stream pass each message on exactly once.
THEOREM RequestsAreNotLost == Spec => []NoLostRequest
<1>1. Spec => []IInv
  BY Invariance
<1>2. Init => WrittenInv /\ LostInv
  BY InitWritten, InitLost
<1>3. IInv /\ IInv' /\ WrittenInv /\ LostInv /\ [Next]_vars => WrittenInv' /\ LostInv'
  BY NextWritten, NextLost
<1>4. IInv /\ LostInv => NoLostRequest
  BY LostInvImplies
<1> QED
  BY <1>1, <1>2, <1>3, <1>4, PTL DEF Spec

-----------------------------------------------------------------------------
(* The process goes down by itself only when a response cannot be routed   *)
(* or has no phrase.  Neither happens when no client hangs up, a request   *)
(* is read in one piece and the services answer with statuses that exist.  *)

\* Clients that wait for their answer and services whose statuses exist.
Patient == Impatient = {} /\ MaxChunks <= 1 /\ Statuses \subseteq {"known"}

\* Whatever is under way has a client that waits for it.
AliveInv ==
  /\ srv # "dead"
  /\ \A c \in Conns : peer[c] # "gone"
  /\ \A c \in Conns, n \in 1..MaxChunks :
       Present(Queues, Msg(c, n)) => peer[c] = "open"

\* Only an open connection is written to.
LEMMA ClientsAlive ==
  ASSUME Patient, IInv, IInv', WrittenInv, LostInv, AliveInv, Clients
  PROVE  AliveInv'
<1> PICK c \in Conns : client_connect(c) \/ client_write(c) \/ client_hang_up(c)
  BY DEF Clients
<1>1. /\ srv' = srv /\ held' = held /\ inq' = inq /\ hand' = hand /\ outq' = outq
      /\ peer \in [Conns -> {"absent", "open", "gone", "closed"}]
      /\ sent[c] \in 0..MaxChunks /\ MaxChunks \in Nat
  BY ServerAssumption DEF client_connect, client_write, client_hang_up, main, work,
                          IInv, NetInv
<1>2. \A d \in Conns : \/ peer'[d] = peer[d]
                       \/ peer'[d] = "open"
  BY <1>1 DEF client_connect, client_write, client_hang_up, Patient
<1>3. PICK e \in 0..MaxChunks : /\ Enters(c, e)
                                /\ e = 0 \/ ~ Present(Queues, Msg(c, e))
                                /\ peer'[c] = "open"
  <2>1. CASE client_connect(c)
    <3>1. rx[c] = <<>>
      BY <2>1 DEF client_connect, LostInv, IdleInv
    <3>2. Enters(c, 0) /\ peer'[c] = "open" /\ 0 \in 0..MaxChunks
      BY <1>1, <2>1, <3>1 DEF client_connect, Enters, Notify
    <3> QED
      BY <3>2
  <2>2. CASE client_write(c)
    <3>1. /\ sent[c] + 1 \in 0..MaxChunks
          /\ Enters(c, sent[c] + 1)
          /\ peer'[c] = "open"
      BY <1>1, <2>2 DEF client_write, Enters
    <3>2. ~ Present(Queues, Msg(c, sent[c] + 1))
      BY NotYetWritten
    <3> QED
      BY <3>1, <3>2
  <2> QED
    BY <2>1, <2>2 DEF client_hang_up, Patient
<1>4. \A d \in Conns, n \in 1..MaxChunks :
        Present(Queues', Msg(d, n))
          <=> Present(Queues, Msg(d, n)) \/ Msg(c, e) = Msg(d, n)
  BY <1>3, EntersLetters DEF LostInv, AllGained, Gained
<1>5. \A d \in Conns, n \in 1..MaxChunks : Msg(c, e) = Msg(d, n) => d = c
  BY DEF Msg
<1> QED
  BY <1>1, <1>2, <1>3, <1>4, <1>5 DEF AliveInv

\* A response finds its connection open, and closes it behind itself: as
\* the request was in one place, nothing of it is left under way.
LEMMA MainThreadAlive ==
  ASSUME Patient, IInv, IInv', LostInv, AliveInv, MainThread
  PROVE  AliveInv'
<1> USE DEF LostInv
<1>1. CASE (\E w \in Workers : start(w)) \/ publish_start \/ poll
  <2>1. /\ UNCHANGED <<rx, held, inq, hand, outq>> /\ peer' = peer
        /\ srv' # "dead"
    BY <1>1 DEF start, publish_start, poll, net, main, work, AliveInv
  <2> QED
    BY <2>1, QueuesStay DEF AliveInv
<1>2. CASE \E c \in Conns : forward_as_req_recv(c)
  <2> PICK c \in Conns : forward_as_req_recv(c)
    BY <1>2
  <2>1. peer' = peer /\ srv' # "dead"
    BY DEF forward_as_req_recv, AfterRequest
  <2>2. CASE Head(rx[c]) = Notify
    <3>1. Drops(Queues, Queues')
      BY <2>2, NotifyDrops
    <3> QED
      BY <2>1, <3>1, DropsLetters DEF AliveInv
  <2>3. CASE Head(rx[c]) # Notify
    <3>1. Moves(Queues, Queues', <<"rx", c>>, <<"held", "main">>)
      BY <2>3, RecvMoves
    <3> QED
      BY <2>1, <3>1, KeysAre, MovesLetters DEF AliveInv
  <2> QED
    BY <2>2, <2>3
<1>3. CASE \E w \in Workers : forward_as_req_send(w)
  <2> PICK w \in Workers : forward_as_req_send(w)
    BY <1>3
  <2>1. peer' = peer /\ srv' # "dead"
    BY DEF forward_as_req_send, AfterRequest, net
  <2>2. Moves(Queues, Queues', <<"held", "main">>, <<"in", w>>)
    BY SendMoves
  <2> QED
    BY <2>1, <2>2, KeysAre, MovesLetters DEF AliveInv
<1>4. CASE \E w \in Workers : forward_as_stream(w)
  <2> PICK w \in Workers : forward_as_stream(w)
    BY <1>4
  <2> DEFINE m == Head(outq[w])
             c == m.id
             n == m.body.n
  <2>1. c \in Conns /\ n \in 1..MaxChunks /\ m = Msg(c, n)
    <3>1. m \in Genuine
      BY TakeFirst DEF IInv, WorkInv, forward_as_stream
    <3>2. m \in Message /\ m.id = m.body.conn
      BY <3>1 DEF Genuine
    <3> QED
      BY <3>2 DEF Message, Chunk, Msg
  <2>2. /\ Drops(Queues, Queues')
        /\ Loses(Queues, Queues', <<"out", w>>)
        /\ Head(Queues[<<"out", w>>]) = m
        /\ <<"out", w>> \in Keys
    BY StreamDrops, KeysAre
  <2>3. Present(Queues, Msg(c, n))
    <3>1. /\ DOMAIN Queues = Keys /\ Queues[<<"out", w>>] = outq[w]
          /\ outq[w] \in Seq(Genuine) /\ outq[w] # <<>>
      BY QueuesNow DEF Holds, IInv, WorkInv, forward_as_stream
    <3>2. 1 \in 1..Len(outq[w]) /\ outq[w][1] = Msg(c, n)
      BY <2>1, <3>1
    <3> QED
      BY <2>2, <3>1, <3>2 DEF Present
  <2>4. peer[c] = "open"
    BY <2>1, <2>3 DEF AliveInv
  <2>5. peer' = [peer EXCEPT ![c] = "closed"] /\ srv' = "poll"
    BY <2>1, <2>4 DEF forward_as_stream, deliver, deliver_nowhere, unroutable,
                      deliver_unroutable, Patient
  <2>6. \A d \in Conns : peer'[d] = IF d = c THEN "closed" ELSE peer[d]
    BY <2>5 DEF IInv, NetInv
  <2>7. ~ Present(Queues', Msg(c, n))
    BY <2>1, <2>2, DropsLetters
  <2>8. \A k \in 1..MaxChunks : k = n
    BY <2>1, ServerAssumption DEF Patient
  <2>9. \A d \in Conns, k \in 1..MaxChunks :
          Present(Queues', Msg(d, k)) => Present(Queues, Msg(d, k)) /\ d # c
    BY <2>2, <2>7, <2>8, DropsLetters
  <2> HIDE DEF c, n
  <2> QED
    BY <2>5, <2>6, <2>9 DEF AliveInv
<1> QED
  BY <1>1, <1>2, <1>3, <1>4 DEF MainThread

\* A worker passes on what it has, or drops it.
LEMMA WorkerAlive ==
  ASSUME Patient, IInv, IInv', LostInv, AliveInv, NEW w \in Workers, Worker(w)
  PROVE  AliveInv'
<1> USE DEF LostInv
<1>1. /\ peer' = peer /\ rx' = rx /\ held' = held /\ srv' = srv
  BY DEF Worker, subscribe, connect, worker_poll, handle_status,
         handle_request_recv, handle_request_swallow, handle_request_execute,
         handle_request_send, net, main, Patient
<1>2. CASE \/ subscribe(w) \/ connect(w) \/ worker_poll(w) \/ handle_status(w)
           \/ handle_request_execute(w)
  <2>1. UNCHANGED <<rx, held, inq, hand, outq>>
    BY <1>1, <1>2 DEF subscribe, connect, worker_poll, handle_status,
                      handle_request_execute
  <2> QED
    BY <1>1, <2>1, QueuesStay DEF AliveInv
<1>3. CASE handle_request_recv(w)
  <2>1. Moves(Queues, Queues', <<"in", w>>, <<"hand", w>>)
    BY <1>3, WorkerRecvMoves
  <2> QED
    BY <1>1, <2>1, KeysAre, MovesLetters DEF AliveInv
<1>4. CASE handle_request_swallow(w)
  <2>1. Drops(Queues, Queues')
    BY <1>4, SwallowDrops
  <2> QED
    BY <1>1, <2>1, DropsLetters DEF AliveInv
<1>5. CASE handle_request_send(w)
  <2>1. Moves(Queues, Queues', <<"hand", w>>, <<"out", w>>)
    BY <1>5, WorkerSendMoves
  <2> QED
    BY <1>1, <2>1, KeysAre, MovesLetters DEF AliveInv
<1> QED
  BY <1>2, <1>3, <1>4, <1>5 DEF Worker

\* The program starts in the invariant.
LEMMA InitAlive == Init => AliveInv
<1> SUFFICES ASSUME Init, NEW Q, Q = Queues PROVE AliveInv
  OBVIOUS
<1>1. DOMAIN Q = Keys /\ \A k \in Keys : Q[k] = <<>>
  BY InitEmpty, InitIInv, QueuesNow DEF Holds
<1>2. \A m : ~ Present(Q, m)
  BY <1>1 DEF Present
<1> QED
  BY <1>2 DEF AliveInv, Init

\* Every step of the program keeps it.
LEMMA NextAlive ==
  ASSUME Patient
  PROVE  IInv /\ IInv' /\ WrittenInv /\ LostInv /\ AliveInv /\ [Next]_vars => AliveInv'
<1> SUFFICES ASSUME IInv, IInv', WrittenInv, LostInv, AliveInv, [Next]_vars
             PROVE  AliveInv'
  OBVIOUS
<1>1. CASE Next
  BY <1>1, ClientsAlive, MainThreadAlive, WorkerAlive DEF Next
<1>2. CASE UNCHANGED vars
  <2>1. UNCHANGED <<rx, held, inq, hand, outq>> /\ peer' = peer /\ srv' = srv
    BY <1>2 DEF vars, net, main, work
  <2> QED
    BY <2>1, QueuesStay DEF AliveInv
<1> QED
  BY <1>1, <1>2

\* run() never rethrows and no exception leaves a worker: with patient
\* clients every response is routable, whoever else is connected and
\* whichever worker sends it.
THEOREM PatientClientsAreServed == ASSUME Patient PROVE Spec => []ServerSurvives
<1>1. Spec => []IInv
  BY Invariance
<1>2. Init => WrittenInv /\ LostInv /\ AliveInv
  BY InitWritten, InitLost, InitAlive
<1>3. IInv /\ IInv' /\ WrittenInv /\ LostInv /\ AliveInv /\ [Next]_vars
        => WrittenInv' /\ LostInv' /\ AliveInv'
  BY NextWritten, NextLost, NextAlive
<1>4. AliveInv => ServerSurvives
  BY DEF AliveInv, ServerSurvives, Alive
<1> QED
  BY <1>1, <1>2, <1>3, <1>4, PTL DEF Spec

=============================================================================

----------------------------- MODULE MpmcQueue ------------------------------
(***************************************************************************)
(* spdlog's lock-free queue (details/mpmc_bounded_q.h): a ring of cells,   *)
(* each with a sequence number that tells whose turn it is.  A thread      *)
(* reads a position, looks at the cell's sequence number, claims the       *)
(* position with a compare-and-swap and only then touches the data; every  *)
(* one of these is a step of its own.  Positions and sequence numbers are  *)
(* size_t in the code and wrap after 2^64 operations: here they are        *)
(* natural numbers, as large as the calls made.                            *)
(***************************************************************************)
EXTENDS Naturals, Sequences

CONSTANTS
  Pushers,   \* threads that enqueue
  Poppers,   \* threads that dequeue
  Message,   \* what they pass on
  None,      \* no message
  Size       \* buffer_size; the constructor throws unless it is a power of two

ASSUME QueueAssumption ==
  /\ Size \in Nat \ {0, 1}
  /\ Pushers \cap Poppers = {}
  /\ None \notin Message

VARIABLES
  sequence,     \* sequence[i]: cell i's sequence_
  data,         \* data[i]: cell i's data_
  enqueue_pos,
  dequeue_pos,
  op            \* op[t]: where thread t is in a call: at, pos, msg

qvars == <<sequence, data, enqueue_pos, dequeue_pos, op>>

Idle == [at |-> "idle", pos |-> 0, msg |-> None]

\* The mask keeps the low bits of a position, as the size is a power of two.
Cell(pos) == pos % Size

FreshSequence == [i \in 0..(Size - 1) |-> i]
FreshData == [i \in 0..(Size - 1) |-> None]
AllIdle == [t \in Pushers \cup Poppers |-> Idle]

QueueInit ==
  /\ sequence = FreshSequence /\ data = FreshData
  /\ enqueue_pos = 0 /\ dequeue_pos = 0
  /\ op = AllIdle

\* The queue is destroyed, with what is in it.
QueueReset ==
  /\ sequence' = FreshSequence /\ data' = FreshData
  /\ enqueue_pos' = 0 /\ dequeue_pos' = 0
  /\ op' = AllIdle

Goto(t, at) == op' = [op EXCEPT ![t].at = at]

-----------------------------------------------------------------------------
\* enqueue: `dif' compares the cell's sequence number with the position.
enqueue(t, m) ==
  /\ op[t].at = "idle"
  /\ op' = [op EXCEPT ![t] = [at |-> "look", pos |-> enqueue_pos, msg |-> m]]
  /\ UNCHANGED <<sequence, data, enqueue_pos, dequeue_pos>>

\* As enqueue_look, with the comparison off by one: a full ring is not seen.
enqueue_look_full(t) ==
  /\ op[t].at = "look"
  /\ LET seq == sequence[Cell(op[t].pos)]
     IN  \/ seq <= op[t].pos /\ Goto(t, "claim")
         \/ seq > op[t].pos /\ op' = [op EXCEPT ![t].pos = enqueue_pos]
  /\ UNCHANGED <<sequence, data, enqueue_pos, dequeue_pos>>

enqueue_look(t) ==
  /\ op[t].at = "look"
  /\ LET seq == sequence[Cell(op[t].pos)]
     IN  \/ seq = op[t].pos /\ Goto(t, "claim")
         \/ seq > op[t].pos /\ op' = [op EXCEPT ![t].pos = enqueue_pos]
         \/ seq < op[t].pos /\ Goto(t, "full")
  /\ UNCHANGED <<sequence, data, enqueue_pos, dequeue_pos>>

\* compare_exchange_weak: it hands back the position it found, and may fail
\* for no reason.
enqueue_claim(t) ==
  /\ op[t].at = "claim"
  /\ \/ /\ enqueue_pos = op[t].pos
        /\ enqueue_pos' = enqueue_pos + 1
        /\ Goto(t, "write")
     \/ /\ op' = [op EXCEPT ![t].at = "look", ![t].pos = enqueue_pos]
        /\ UNCHANGED enqueue_pos
  /\ UNCHANGED <<sequence, data, dequeue_pos>>

enqueue_write(t) ==
  /\ op[t].at = "write"
  /\ data' = [data EXCEPT ![Cell(op[t].pos)] = op[t].msg]
  /\ Goto(t, "publish")
  /\ UNCHANGED <<sequence, enqueue_pos, dequeue_pos>>

enqueue_publish(t) ==
  /\ op[t].at = "publish"
  /\ sequence' = [sequence EXCEPT ![Cell(op[t].pos)] = op[t].pos + 1]
  /\ Goto(t, "done")
  /\ UNCHANGED <<data, enqueue_pos, dequeue_pos>>

-----------------------------------------------------------------------------
\* dequeue: a cell that was claimed and is not published yet looks empty.
dequeue(t) ==
  /\ op[t].at = "idle"
  /\ op' = [op EXCEPT ![t].at = "look", ![t].pos = dequeue_pos]
  /\ UNCHANGED <<sequence, data, enqueue_pos, dequeue_pos>>

dequeue_look(t) ==
  /\ op[t].at = "look"
  /\ LET seq == sequence[Cell(op[t].pos)]
     IN  \/ seq = op[t].pos + 1 /\ Goto(t, "claim")
         \/ seq > op[t].pos + 1 /\ op' = [op EXCEPT ![t].pos = dequeue_pos]
         \/ seq < op[t].pos + 1 /\ Goto(t, "empty")
  /\ UNCHANGED <<sequence, data, enqueue_pos, dequeue_pos>>

dequeue_claim(t) ==
  /\ op[t].at = "claim"
  /\ \/ /\ dequeue_pos = op[t].pos
        /\ dequeue_pos' = dequeue_pos + 1
        /\ Goto(t, "read")
     \/ /\ op' = [op EXCEPT ![t].at = "look", ![t].pos = dequeue_pos]
        /\ UNCHANGED dequeue_pos
  /\ UNCHANGED <<sequence, data, enqueue_pos>>

dequeue_read(t) ==
  /\ op[t].at = "read"
  /\ op' = [op EXCEPT ![t].at = "release", ![t].msg = data[Cell(op[t].pos)]]
  /\ UNCHANGED <<sequence, data, enqueue_pos, dequeue_pos>>

\* As dequeue_release, without the length of a round.
dequeue_release_same_round(t) ==
  /\ op[t].at = "release"
  /\ sequence' = [sequence EXCEPT ![Cell(op[t].pos)] = op[t].pos + 1]
  /\ Goto(t, "done")
  /\ UNCHANGED <<data, enqueue_pos, dequeue_pos>>

dequeue_release(t) ==
  /\ op[t].at = "release"
  /\ sequence' = [sequence EXCEPT ![Cell(op[t].pos)] = op[t].pos + Size]
  /\ Goto(t, "done")
  /\ UNCHANGED <<data, enqueue_pos, dequeue_pos>>

-----------------------------------------------------------------------------
Pushing(t) ==
  \/ enqueue_look(t) \/ enqueue_claim(t)
  \/ enqueue_write(t) \/ enqueue_publish(t)

Popping(t) ==
  \/ dequeue_look(t) \/ dequeue_claim(t)
  \/ dequeue_read(t) \/ dequeue_release(t)

\* The caller takes the result and may call again.
return(t) ==
  /\ op[t].at \in {"full", "empty", "done"}
  /\ op' = [op EXCEPT ![t].at = "idle", ![t].pos = 0]
  /\ UNCHANGED <<sequence, data, enqueue_pos, dequeue_pos>>

QueueNext ==
  \/ \E t \in Pushers : Pushing(t) \/ (\E m \in Message : enqueue(t, m))
  \/ \E t \in Poppers : Popping(t) \/ dequeue(t)
  \/ \E t \in Pushers \cup Poppers : return(t)

QueueSpec == QueueInit /\ [][QueueNext]_qvars

-----------------------------------------------------------------------------
(***************************************************************************)
(* The queue implements BoundedQueue: a put takes place when the position  *)
(* is claimed, although the message is written later, and a take when its  *)
(* position is claimed.                                                    *)
(***************************************************************************)

\* The thread that has claimed a position and not written its message yet.
Writer(pos) == {t \in Pushers : op[t].at = "write" /\ op[t].pos = pos}

MessageAt(pos) ==
  IF Writer(pos) = {} THEN data[Cell(pos)]
                      ELSE op[CHOOSE t \in Writer(pos) : TRUE].msg

Items == [i \in 1..(enqueue_pos - dequeue_pos) |-> MessageAt(dequeue_pos + i - 1)]

Taken == [t \in Poppers |-> IF op[t].at = "read" THEN data[Cell(op[t].pos)]
                                                 ELSE op[t].msg]

Fifo == INSTANCE BoundedQueue WITH Takers <- Poppers, items <- Items, taken <- Taken

\* Messages leave the queue once and in the order of the successful claims,
\* never more than Size are inside, and a slow writer or reader of one cell
\* is never overtaken by the next user of that cell.
ImplementsBoundedQueue == Fifo!Spec
=============================================================================

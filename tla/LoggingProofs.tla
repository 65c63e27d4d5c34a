--------------------------- MODULE LoggingProofs ----------------------------
(***************************************************************************)
(* The lock-free queue is a bounded FIFO queue, for every number of        *)
(* threads on either side, every size of the ring and all interleavings of *)
(* the atomic operations.  Within a life the logger's queue is that queue, *)
(* and what it has taken is written and flushed when its helper is         *)
(* destroyed, and the rotated files are bounded and hold the end of the    *)
(* log: for every number of threads, calls, lives, cells and files, all    *)
(* choices of faults, and both policies.  And a log call gives each sink   *)
(* one line, whose format string is never left, whatever it is.            *)
(***************************************************************************)
EXTENDS Logging, Loggers, SequenceTheorems, WellFoundedInduction, NaturalsInduction, TLAPS


-----------------------------------------------------------------------------
(* The ring: positions closer than a round have cells of their own.        *)

LEMMA CellOfRing == ASSUME NEW p \in Nat PROVE Cell(p) \in 0..(Size - 1)
BY QueueAssumption DEF Cell

LEMMA CellDivision ==
  ASSUME NEW p \in Nat
  PROVE  \E a \in Nat : p = Size * a + Cell(p)
<1>1. p = Size * (p \div Size) + Cell(p) /\ p \div Size \in Nat
  BY QueueAssumption DEF Cell
<1> QED
  BY <1>1

LEMMA ProductGrows ==
  ASSUME NEW a \in Nat, NEW b \in Nat, a < b
  PROVE  Size * a + Size <= Size * b
<1>1. a + 1 <= b
  OBVIOUS
<1>2. Size * (a + 1) <= Size * b
  BY <1>1, QueueAssumption
<1> QED
  BY <1>2, QueueAssumption

LEMMA OwnCells ==
  ASSUME NEW p \in Nat, NEW q \in Nat, p # q, p < q + Size, q < p + Size
  PROVE  Cell(p) # Cell(q)
<1>1. ASSUME NEW r \in Nat, NEW k \in Nat, r < k, k < r + Size, Cell(r) = Cell(k) PROVE FALSE
  <2>1. Cell(r) \in Nat /\ k \in Nat
    BY <1>1, CellOfRing, QueueAssumption
  <2> PICK a \in Nat : r = Size * a + Cell(r)
    BY <1>1, CellDivision
  <2> PICK b \in Nat : k = Size * b + Cell(k)
    BY <1>1, CellDivision
  <2>2. Size * a < Size * b /\ Size * b < Size * a + Size
    BY <1>1, <2>1, QueueAssumption
  <2>3. a < b
    BY <2>1, <2>2, QueueAssumption
  <2> QED
    BY <2>1, <2>2, <2>3, ProductGrows, QueueAssumption
<1>2. p < q \/ q < p
  OBVIOUS
<1> QED
  BY <1>1, <1>2

LEMMA SameCell == ASSUME NEW p \in Nat PROVE Cell(p + Size) = Cell(p)
<1>1. /\ p + Size \in Nat
      /\ Cell(p) \in 0..(Size - 1) /\ Cell(p + Size) \in 0..(Size - 1)
  BY CellOfRing, QueueAssumption
<1> PICK a \in Nat : p = Size * a + Cell(p)
  BY CellDivision
<1> PICK b \in Nat : p + Size = Size * b + Cell(p + Size)
  BY <1>1, CellDivision
<1>2. ~ (b < a + 1)
  <2> SUFFICES ASSUME b <= a PROVE FALSE
    BY <1>1
  <2>1. Size * b <= Size * a
    BY <1>1, ProductGrows, QueueAssumption
  <2> QED
    BY <1>1, <2>1, QueueAssumption
<1>3. ~ (a + 1 < b)
  <2> SUFFICES ASSUME a + 1 < b PROVE FALSE
    OBVIOUS
  <2>1. Size * (a + 1) + Size <= Size * b
    BY <1>1, ProductGrows
  <2>2. Size * (a + 1) = Size * a + Size
    BY <1>1, QueueAssumption
  <2> QED
    BY <1>1, <2>1, <2>2, QueueAssumption
<1>4. b = a + 1
  BY <1>1, <1>2, <1>3
<1>5. Size * b = Size * a + Size
  BY <1>1, <1>4, QueueAssumption
<1> QED
  BY <1>1, <1>5, QueueAssumption

-----------------------------------------------------------------------------
(***************************************************************************)
(* The inductive invariant.  The positions from dequeue_pos on, one round  *)
(* of them, have a cell each; its sequence number tells whether the cell   *)
(* waits for a writer, is written, or is still read in the round before.   *)
(***************************************************************************)

Slot == Message \cup {None}
Op == [at : {"idle", "look", "claim", "write", "publish", "read", "release",
             "done", "full", "empty"},
       pos : Nat, msg : Slot]

TypeInv ==
  /\ sequence \in [0..(Size - 1) -> Nat]
  /\ data \in [0..(Size - 1) -> Slot]
  /\ enqueue_pos \in Nat /\ dequeue_pos \in Nat
  /\ op \in [Pushers \cup Poppers -> Op]

RingInv ==
  /\ dequeue_pos <= enqueue_pos /\ enqueue_pos <= dequeue_pos + Size
  /\ \A p \in Nat : dequeue_pos <= p /\ p < dequeue_pos + Size =>
       \/ sequence[Cell(p)] = p
       \/ p < enqueue_pos /\ sequence[Cell(p)] = p + 1
       \/ p >= enqueue_pos /\ sequence[Cell(p)] + Size = p + 1

\* A position has been claimed for t and its cell has not been handed on.
Writing(t) == op[t].at \in {"write", "publish"}
Reading(t) == op[t].at \in {"read", "release"}

PushInv(t) ==
  /\ op[t].at \notin {"read", "release", "empty"}
  /\ op[t].at # "idle" => op[t].msg \in Message
  /\ op[t].at \in {"look", "claim"} => op[t].pos <= enqueue_pos
  /\ op[t].at = "claim" /\ op[t].pos = enqueue_pos => sequence[Cell(op[t].pos)] = op[t].pos
  /\ Writing(t) =>
       /\ dequeue_pos <= op[t].pos /\ op[t].pos < enqueue_pos
       /\ sequence[Cell(op[t].pos)] = op[t].pos
       /\ \A u \in Pushers : u # t /\ Writing(u) => op[u].pos # op[t].pos

PopInv(t) ==
  /\ op[t].at \notin {"write", "publish", "full"}
  /\ op[t].at \in {"look", "claim"} => op[t].pos <= dequeue_pos
  /\ op[t].at = "claim" /\ op[t].pos = dequeue_pos =>
       sequence[Cell(op[t].pos)] = op[t].pos + 1
  /\ Reading(t) =>
       /\ op[t].pos < dequeue_pos /\ enqueue_pos <= op[t].pos + Size
       /\ sequence[Cell(op[t].pos)] = op[t].pos + 1
       /\ \A u \in Poppers : u # t /\ Reading(u) => op[u].pos # op[t].pos

QueueInv ==
  /\ TypeInv /\ RingInv
  /\ \A t \in Pushers : PushInv(t)
  /\ \A t \in Poppers : PopInv(t)

LEMMA InitQueueInv == QueueInit => QueueInv
<1> SUFFICES ASSUME QueueInit PROVE QueueInv
  OBVIOUS
<1>1. Idle \in Op
  BY DEF Idle, Op, Slot
<1>2. /\ op \in [Pushers \cup Poppers -> Op] /\ \A t \in Pushers \cup Poppers : op[t].at = "idle"
      /\ \A t \in Pushers \cup Poppers : op[t].pos = 0
  BY <1>1 DEF QueueInit, AllIdle, Idle
<1>3. TypeInv
  BY <1>2, QueueAssumption DEF QueueInit, TypeInv, FreshSequence, FreshData, Slot
<1>4. RingInv
  <2>1. ASSUME NEW p \in Nat, p < Size PROVE sequence[Cell(p)] = p
    <3>1. Cell(p) = p
      <4>1. Cell(p) \in 0..(Size - 1) /\ p < Cell(p) + Size /\ Cell(p) < p + Size
        BY <2>1, CellOfRing, QueueAssumption
      <4> QED
        BY <2>1, QueueAssumption DEF Cell
    <3> QED
      BY <2>1, <3>1, QueueAssumption DEF QueueInit, FreshSequence
  <2> QED
    BY <2>1, QueueAssumption DEF QueueInit, RingInv
<1>5. \A t \in Pushers : PushInv(t)
  BY <1>2 DEF PushInv, Writing
<1>6. \A t \in Poppers : PopInv(t)
  BY <1>2 DEF PopInv, Reading
<1> QED
  BY <1>3, <1>4, <1>5, <1>6 DEF QueueInv

-----------------------------------------------------------------------------
(* Every step preserves the invariant.                                     *)

\* t's call goes on to `place', perhaps with another position or message.
Moves(t, place, pos, msg) ==
  /\ op' \in [Pushers \cup Poppers -> Op]
  /\ op'[t].at = place /\ op'[t].pos = pos /\ op'[t].msg = msg
  /\ \A u \in Pushers \cup Poppers : u # t => op'[u] = op[u]

LEMMA GotoMoves ==
  ASSUME TypeInv, NEW t \in Pushers \cup Poppers, NEW place, [at |-> place, pos |-> 0, msg |-> None] \in Op,
         Goto(t, place)
  PROVE  Moves(t, place, op[t].pos, op[t].msg)
<1>1. op[t] \in Op
  BY DEF TypeInv
<1>2. [op[t] EXCEPT !.at = place] \in Op
  BY <1>1 DEF Op
<1>3. op' = [op EXCEPT ![t] = [op[t] EXCEPT !.at = place]]
  BY DEF Goto
<1> QED
  BY <1>1, <1>2, <1>3 DEF TypeInv, Moves, Op

\* As long as nothing is claimed, written or released, the other threads do
\* not notice.
LEMMA QuietStep ==
  ASSUME QueueInv, NEW t \in Pushers \cup Poppers, NEW place, NEW pos, NEW msg, Moves(t, place, pos, msg),
         UNCHANGED <<sequence, enqueue_pos, dequeue_pos>>,
         data' \in [0..(Size - 1) -> Slot],
         (Writing(t) \/ Reading(t)) <=> place \in {"write", "publish", "read", "release"},
         Writing(t) \/ Reading(t) => pos = op[t].pos,
         t \in Pushers => PushInv(t)',
         t \in Poppers => PopInv(t)'
  PROVE  QueueInv'
<1>1. TypeInv' /\ RingInv'
  BY DEF QueueInv, TypeInv, RingInv, Moves
<1>2. ASSUME NEW u \in Pushers \cup Poppers PROVE u # t => op'[u] = op[u]
  BY DEF Moves
<1>3. ASSUME NEW u \in Pushers PROVE PushInv(u)'
  <2>1. CASE u # t
    <3>1. PushInv(u) /\ op'[u] = op[u]
      BY <1>2, <2>1 DEF QueueInv
    <3>2. ASSUME NEW v \in Pushers, v # u, Writing(u), Writing(v)' PROVE op'[v].pos # op'[u].pos
      <4>1. CASE v = t
        <5>1. op'[v].pos = op[v].pos /\ Writing(v)
          BY <3>2, <4>1, QueueAssumption DEF QueueInv, Moves, Writing, Reading, PushInv
        <5> QED
          BY <3>1, <3>2, <5>1 DEF PushInv
      <4>2. CASE v # t
        BY <1>2, <3>1, <3>2, <4>2 DEF PushInv, Writing
      <4> QED
        BY <4>1, <4>2
    <3> QED
      BY <3>1, <3>2 DEF PushInv, Writing
  <2> QED
    BY <2>1
<1>4. ASSUME NEW u \in Poppers PROVE PopInv(u)'
  <2>1. CASE u # t
    <3>1. PopInv(u) /\ op'[u] = op[u]
      BY <1>2, <2>1 DEF QueueInv
    <3>2. ASSUME NEW v \in Poppers, v # u, Reading(u), Reading(v)' PROVE op'[v].pos # op'[u].pos
      <4>1. CASE v = t
        <5>1. op'[v].pos = op[v].pos /\ Reading(v)
          BY <3>2, <4>1, QueueAssumption DEF QueueInv, Moves, Writing, Reading, PopInv
        <5> QED
          BY <3>1, <3>2, <5>1 DEF PopInv
      <4>2. CASE v # t
        BY <1>2, <3>1, <3>2, <4>2 DEF PopInv, Reading
      <4> QED
        BY <4>1, <4>2
    <3> QED
      BY <3>1, <3>2 DEF PopInv, Reading
  <2> QED
    BY <2>1
<1> QED
  BY <1>1, <1>3, <1>4 DEF QueueInv

\* Reading a position, looking at its cell and going home are quiet, for a
\* pusher ...
LEMMA QuietPush ==
  ASSUME QueueInv, NEW t \in Pushers, ~ Writing(t),
         NEW place \in {"idle", "look", "claim", "full", "done"}, NEW pos, NEW msg,
         Moves(t, place, pos, msg), UNCHANGED <<sequence, data, enqueue_pos, dequeue_pos>>,
         place # "idle" => msg \in Message,
         place \in {"look", "claim"} => pos <= enqueue_pos,
         place = "claim" => sequence[Cell(pos)] = pos
  PROVE  QueueInv'
<1>1. PushInv(t) /\ ~ Reading(t)
  BY DEF QueueInv, PushInv, Reading
<1>2. PushInv(t)'
  BY DEF PushInv, Writing, Moves
<1>3. t \notin Poppers
  BY QueueAssumption
<1> QED
  BY <1>1, <1>2, <1>3, QuietStep DEF QueueInv, TypeInv

\* ... and for a popper.
LEMMA QuietPop ==
  ASSUME QueueInv, NEW t \in Poppers, ~ Reading(t),
         NEW place \in {"idle", "look", "claim", "empty", "done"}, NEW pos, NEW msg,
         Moves(t, place, pos, msg), UNCHANGED <<sequence, data, enqueue_pos, dequeue_pos>>,
         place \in {"look", "claim"} => pos <= dequeue_pos,
         place = "claim" => sequence[Cell(pos)] = pos + 1
  PROVE  QueueInv'
<1>1. PopInv(t) /\ ~ Writing(t)
  BY DEF QueueInv, PopInv, Writing
<1>2. PopInv(t)'
  BY DEF PopInv, Reading, Moves
<1>3. t \notin Pushers
  BY QueueAssumption
<1> QED
  BY <1>1, <1>2, <1>3, QuietStep DEF QueueInv, TypeInv

LEMMA RingCell ==
  ASSUME QueueInv, NEW p \in Nat, dequeue_pos <= p, p < dequeue_pos + Size
  PROVE  \/ sequence[Cell(p)] = p
         \/ p < enqueue_pos /\ sequence[Cell(p)] = p + 1
         \/ p >= enqueue_pos /\ sequence[Cell(p)] + Size = p + 1
BY DEF QueueInv, RingInv

LEMMA Positions ==
  ASSUME QueueInv
  PROVE  /\ enqueue_pos \in Nat /\ dequeue_pos \in Nat
         /\ dequeue_pos <= enqueue_pos /\ enqueue_pos <= dequeue_pos + Size
BY DEF QueueInv, TypeInv, RingInv

\* A claimed position is the next of the ring's round: the ring is not full.
LEMMA ClaimedFits ==
  ASSUME QueueInv, sequence[Cell(enqueue_pos)] = enqueue_pos
  PROVE  enqueue_pos < dequeue_pos + Size
<1> SUFFICES ASSUME enqueue_pos = dequeue_pos + Size PROVE FALSE
  BY QueueAssumption DEF QueueInv, TypeInv, RingInv
<1>1. Cell(enqueue_pos) = Cell(dequeue_pos)
  BY SameCell DEF QueueInv, TypeInv
<1>2. sequence[Cell(dequeue_pos)] \in {dequeue_pos, dequeue_pos + 1}
  BY QueueAssumption DEF QueueInv, TypeInv, RingInv
<1> QED
  BY <1>1, <1>2, QueueAssumption DEF QueueInv, TypeInv

\* And the position a popper can claim has been written: it is not empty.
LEMMA ClaimedFilled ==
  ASSUME QueueInv, sequence[Cell(dequeue_pos)] = dequeue_pos + 1
  PROVE  dequeue_pos < enqueue_pos
<1>1. \/ sequence[Cell(dequeue_pos)] = dequeue_pos
      \/ dequeue_pos < enqueue_pos
      \/ sequence[Cell(dequeue_pos)] + Size = dequeue_pos + 1
  BY Positions, RingCell, QueueAssumption
<1> QED
  BY <1>1, Positions, QueueAssumption

\* The cell of a reader is that of a position still to come.
LEMMA ReadersCell ==
  ASSUME QueueInv, NEW u \in Poppers, Reading(u)
  PROVE  /\ op[u].pos \in Nat /\ op[u].pos + Size \in Nat
         /\ Cell(op[u].pos) = Cell(op[u].pos + Size)
         /\ enqueue_pos <= op[u].pos + Size /\ op[u].pos + Size < dequeue_pos + Size
<1>1. op[u].pos \in Nat
  BY DEF QueueInv, TypeInv, Op
<1>2. Cell(op[u].pos) = Cell(op[u].pos + Size)
  BY <1>1, SameCell
<1>3. op[u].pos < dequeue_pos /\ enqueue_pos <= op[u].pos + Size
  BY DEF QueueInv, PopInv
<1> QED
  BY <1>1, <1>2, <1>3, Positions, QueueAssumption

LEMMA EnqueueClaimInv ==
  ASSUME QueueInv, NEW t \in Pushers, op[t].at = "claim", enqueue_pos = op[t].pos,
         enqueue_pos' = enqueue_pos + 1, Moves(t, "write", op[t].pos, op[t].msg),
         UNCHANGED <<sequence, data, dequeue_pos>>
  PROVE  QueueInv'
<1>1. sequence[Cell(enqueue_pos)] = enqueue_pos /\ op[t].msg \in Message
  BY DEF QueueInv, PushInv
<1>2. enqueue_pos < dequeue_pos + Size
  BY <1>1, ClaimedFits
<1>3. TypeInv'
  BY DEF QueueInv, TypeInv, Moves
<1>4. RingInv'
  <2>1. ASSUME NEW p \in Nat, dequeue_pos <= p, p < dequeue_pos + Size
        PROVE  \/ sequence[Cell(p)] = p
               \/ p < enqueue_pos + 1 /\ sequence[Cell(p)] = p + 1
               \/ p >= enqueue_pos + 1 /\ sequence[Cell(p)] + Size = p + 1
    BY <1>1, <2>1, RingCell, Positions, QueueAssumption
  <2> QED
    BY <1>2, <2>1, Positions, QueueAssumption DEF RingInv
<1>5. ASSUME NEW u \in Pushers PROVE PushInv(u)'
  <2>1. CASE u = t
    BY <1>1, <2>1 DEF QueueInv, TypeInv, RingInv, PushInv, Writing, Moves
  <2>2. CASE u # t
    <3>1. PushInv(u) /\ op'[u] = op[u] /\ op[u] \in Op
      BY <2>2 DEF QueueInv, Moves, TypeInv
    <3>2. op'[u].at = "claim" => op'[u].pos # enqueue_pos'
      BY <3>1 DEF PushInv, Op, QueueInv, TypeInv
    <3>3. Writing(u) => op[u].pos # op[t].pos
      BY <3>1 DEF PushInv, Op, QueueInv, TypeInv
    <3>4. ASSUME NEW v \in Pushers, v # u, Writing(u), Writing(v)' PROVE op'[v].pos # op'[u].pos
      BY <3>1, <3>3, <3>4 DEF PushInv, Writing, Moves
    <3> QED
      BY <3>1, <3>2, <3>4 DEF PushInv, Writing, Op, QueueInv, TypeInv
  <2> QED
    BY <2>1, <2>2
<1>6. ASSUME NEW u \in Poppers PROVE PopInv(u)'
  <2>1. PopInv(u) /\ op'[u] = op[u] /\ u # t
    BY QueueAssumption DEF QueueInv, Moves
  <2>2. \A v \in Poppers : op'[v] = op[v]
    BY QueueAssumption DEF Moves
  <2>3. Reading(u) => enqueue_pos' <= op[u].pos + Size
    <3> SUFFICES ASSUME Reading(u) PROVE enqueue_pos' <= op[u].pos + Size
      OBVIOUS
    <3>1. sequence[Cell(op[u].pos + Size)] = op[u].pos + 1 /\ op[u].pos \in Nat
      BY <2>1, ReadersCell DEF PopInv
    <3>2. enqueue_pos # op[u].pos + Size
      BY <1>1, <3>1, QueueAssumption
    <3> QED
      BY <3>1, <3>2, ReadersCell, Positions, QueueAssumption
  <2> QED
    BY <2>1, <2>2, <2>3 DEF PopInv, Reading
<1> QED
  BY <1>3, <1>4, <1>5, <1>6 DEF QueueInv

LEMMA DequeueClaimInv ==
  ASSUME QueueInv, NEW t \in Poppers, op[t].at = "claim", dequeue_pos = op[t].pos,
         dequeue_pos' = dequeue_pos + 1, Moves(t, "read", op[t].pos, op[t].msg),
         UNCHANGED <<sequence, data, enqueue_pos>>
  PROVE  QueueInv'
<1>1. sequence[Cell(dequeue_pos)] = dequeue_pos + 1
  BY DEF QueueInv, PopInv
<1>2. dequeue_pos < enqueue_pos
  BY <1>1, ClaimedFilled
<1>3. TypeInv'
  BY DEF QueueInv, TypeInv, Moves
<1>4. RingInv'
  <2>1. sequence[Cell(dequeue_pos + Size)] = dequeue_pos + 1
    BY <1>1, SameCell DEF QueueInv, TypeInv
  <2>2. ASSUME NEW p \in Nat, dequeue_pos' <= p, p < dequeue_pos' + Size
        PROVE  \/ sequence[Cell(p)] = p
               \/ p < enqueue_pos /\ sequence[Cell(p)] = p + 1
               \/ p >= enqueue_pos /\ sequence[Cell(p)] + Size = p + 1
    <3>1. CASE p = dequeue_pos + Size
      BY <2>1, <3>1, Positions, QueueAssumption
    <3>2. CASE p # dequeue_pos + Size
      BY <2>2, <3>2, RingCell, Positions, QueueAssumption
    <3> QED
      BY <3>1, <3>2
  <2> QED
    BY <1>2, <2>2, Positions, QueueAssumption DEF RingInv
<1>5. ASSUME NEW u \in Poppers PROVE PopInv(u)'
  <2>1. CASE u = t
    <3>1. \A v \in Poppers : v # t /\ Reading(v) => op[v].pos # op[t].pos
      BY DEF QueueInv, PopInv, TypeInv, Op
    <3> QED
      BY <1>1, <2>1, <3>1, QueueAssumption DEF QueueInv, TypeInv, RingInv, PopInv, Reading, Moves
  <2>2. CASE u # t
    <3>1. PopInv(u) /\ op'[u] = op[u] /\ op[u] \in Op
      BY <2>2 DEF QueueInv, Moves, TypeInv
    <3>2. op'[u].at = "claim" => op'[u].pos # dequeue_pos'
      BY <3>1 DEF PopInv, Op, QueueInv, TypeInv
    <3>3. Reading(u) => op[u].pos # op[t].pos
      BY <3>1 DEF PopInv, Op, QueueInv, TypeInv
    <3>4. ASSUME NEW v \in Poppers, v # u, Reading(u), Reading(v)' PROVE op'[v].pos # op'[u].pos
      BY <3>1, <3>3, <3>4 DEF PopInv, Reading, Moves
    <3> QED
      BY <3>1, <3>2, <3>4 DEF PopInv, Reading, Op, QueueInv, TypeInv
  <2> QED
    BY <2>1, <2>2
<1>6. ASSUME NEW u \in Pushers PROVE PushInv(u)'
  <2>1. PushInv(u) /\ op'[u] = op[u] /\ op[u] \in Op
    BY QueueAssumption DEF QueueInv, Moves, TypeInv
  <2>2. Writing(u) => op[u].pos # dequeue_pos
    BY <1>1, <2>1 DEF PushInv, QueueInv, TypeInv
  <2>3. \A v \in Pushers : op'[v] = op[v]
    BY QueueAssumption DEF Moves
  <2> QED
    BY <2>1, <2>2, <2>3 DEF PushInv, Writing, QueueInv, TypeInv, Op
<1> QED
  BY <1>3, <1>4, <1>5, <1>6 DEF QueueInv

\* Handing a cell on changes the sequence number of one position of the round.
LEMMA OtherCells ==
  ASSUME QueueInv, NEW p \in Nat, dequeue_pos <= p, p < dequeue_pos + Size, NEW n,
         sequence' = [sequence EXCEPT ![Cell(p)] = n]
  PROVE  /\ sequence'[Cell(p)] = n
         /\ \A q \in Nat : q # p /\ dequeue_pos <= q /\ q < dequeue_pos + Size =>
              sequence'[Cell(q)] = sequence[Cell(q)]
<1>1. sequence'[Cell(p)] = n
  BY CellOfRing DEF QueueInv, TypeInv
<1>2. ASSUME NEW q \in Nat, q # p, dequeue_pos <= q, q < dequeue_pos + Size
      PROVE  sequence'[Cell(q)] = sequence[Cell(q)]
  <2>1. Cell(p) # Cell(q)
    BY <1>2, OwnCells, Positions, QueueAssumption
  <2> QED
    BY <2>1, CellOfRing DEF QueueInv, TypeInv
<1> QED
  BY <1>1, <1>2

LEMMA EnqueuePublishInv ==
  ASSUME QueueInv, NEW t \in Pushers, op[t].at = "publish",
         sequence' = [sequence EXCEPT ![Cell(op[t].pos)] = op[t].pos + 1],
         Moves(t, "done", op[t].pos, op[t].msg),
         UNCHANGED <<data, enqueue_pos, dequeue_pos>>
  PROVE  QueueInv'
<1> DEFINE p == op[t].pos
<1>1. /\ p \in Nat /\ dequeue_pos <= p /\ p < enqueue_pos /\ p < dequeue_pos + Size
      /\ sequence[Cell(p)] = p /\ op[t].msg \in Message
      /\ \A u \in Pushers : u # t /\ Writing(u) => op[u].pos # p
  BY Positions, QueueAssumption DEF QueueInv, TypeInv, Op, PushInv, Writing
<1>2. /\ sequence'[Cell(p)] = p + 1
      /\ \A q \in Nat : q # p /\ dequeue_pos <= q /\ q < dequeue_pos + Size =>
           sequence'[Cell(q)] = sequence[Cell(q)]
  BY <1>1, OtherCells
<1> HIDE DEF p
<1>3. TypeInv'
  <2>1. sequence' \in [0..(Size - 1) -> Nat]
    <3>1. op[t].pos + 1 \in Nat
      BY <1>1 DEF p
    <3> QED
      BY <3>1 DEF QueueInv, TypeInv
  <2> QED
    BY <2>1 DEF QueueInv, TypeInv, Moves
<1>4. RingInv'
  BY <1>1, <1>2 DEF QueueInv, RingInv
<1>5. ASSUME NEW u \in Pushers PROVE PushInv(u)'
  <2>1. CASE u = t
    BY <1>1, <2>1 DEF PushInv, Writing, Moves
  <2>2. CASE u # t
    <3>1. PushInv(u) /\ op'[u] = op[u] /\ op[u].pos \in Nat
      BY <2>2 DEF QueueInv, Moves, TypeInv, Op
    <3>2. op[u].at = "claim" /\ op[u].pos = enqueue_pos => sequence'[Cell(op[u].pos)] = op[u].pos
      <4> SUFFICES ASSUME op[u].at = "claim", op[u].pos = enqueue_pos
                   PROVE  sequence'[Cell(op[u].pos)] = op[u].pos
        OBVIOUS
      <4>1. sequence[Cell(enqueue_pos)] = enqueue_pos
        BY <3>1 DEF PushInv
      <4> QED
        BY <1>1, <1>2, <4>1, ClaimedFits, Positions
    <3>3. Writing(u) => sequence'[Cell(op[u].pos)] = op[u].pos
      BY <1>1, <1>2, <2>2, <3>1, Positions, QueueAssumption DEF PushInv
    <3>4. \A v \in Pushers : v # u /\ Writing(v)' => v # t /\ Writing(v) /\ op'[v] = op[v]
      BY DEF Moves, Writing
    <3> QED
      BY <3>1, <3>2, <3>3, <3>4 DEF PushInv, Writing
  <2> QED
    BY <2>1, <2>2
<1>6. ASSUME NEW u \in Poppers PROVE PopInv(u)'
  <2>1. PopInv(u) /\ op'[u] = op[u] /\ op[u].pos \in Nat
    BY QueueAssumption DEF QueueInv, Moves, TypeInv, Op
  <2>2. \A v \in Poppers : op'[v] = op[v]
    BY QueueAssumption DEF Moves
  <2>3. op[u].at = "claim" /\ op[u].pos = dequeue_pos => sequence'[Cell(op[u].pos)] = op[u].pos + 1
    BY <1>1, <1>2, <2>1, Positions, QueueAssumption DEF PopInv
  <2>4. Reading(u) => sequence'[Cell(op[u].pos)] = op[u].pos + 1
    BY <1>1, <1>2, <2>1, ReadersCell, Positions DEF PopInv
  <2> QED
    BY <2>1, <2>2, <2>3, <2>4 DEF PopInv, Reading
<1> QED
  BY <1>3, <1>4, <1>5, <1>6 DEF QueueInv

LEMMA DequeueReleaseInv ==
  ASSUME QueueInv, NEW t \in Poppers, op[t].at = "release",
         sequence' = [sequence EXCEPT ![Cell(op[t].pos)] = op[t].pos + Size],
         Moves(t, "done", op[t].pos, op[t].msg),
         UNCHANGED <<data, enqueue_pos, dequeue_pos>>
  PROVE  QueueInv'
<1> DEFINE p == op[t].pos + Size
<1>1. /\ op[t].pos \in Nat /\ p \in Nat /\ Cell(p) = Cell(op[t].pos)
      /\ enqueue_pos <= p /\ p < dequeue_pos + Size /\ dequeue_pos <= p
      /\ sequence[Cell(p)] + Size = p + 1
      /\ \A u \in Poppers : u # t /\ Reading(u) => op[u].pos + Size # p
  <2>1. Reading(t)
    BY DEF Reading
  <2>2. \A u \in Poppers : u # t /\ Reading(u) => op[u].pos # op[t].pos /\ op[u].pos \in Nat
    BY <2>1, ReadersCell DEF QueueInv, PopInv
  <2>3. sequence[Cell(op[t].pos)] = op[t].pos + 1
    BY <2>1 DEF QueueInv, PopInv
  <2> QED
    BY <2>1, <2>2, <2>3, ReadersCell, Positions, QueueAssumption
<1> HIDE DEF p
<1>2. /\ sequence'[Cell(p)] = p
      /\ \A q \in Nat : q # p /\ dequeue_pos <= q /\ q < dequeue_pos + Size =>
           sequence'[Cell(q)] = sequence[Cell(q)]
  <2>1. sequence' = [sequence EXCEPT ![Cell(p)] = p]
    BY <1>1 DEF p
  <2> QED
    BY <1>1, <2>1, OtherCells
<1>3. TypeInv'
  <2>1. sequence' \in [0..(Size - 1) -> Nat]
    BY <1>1, QueueAssumption DEF QueueInv, TypeInv, p
  <2> QED
    BY <2>1 DEF QueueInv, TypeInv, Moves
<1>4. RingInv'
  BY <1>1, <1>2 DEF QueueInv, RingInv
<1>5. ASSUME NEW u \in Poppers PROVE PopInv(u)'
  <2>1. CASE u = t
    BY <1>1, <2>1 DEF PopInv, Reading, Moves
  <2>2. CASE u # t
    <3>1. PopInv(u) /\ op'[u] = op[u] /\ op[u].pos \in Nat
      BY <2>2 DEF QueueInv, Moves, TypeInv, Op
    <3>2. op[u].at = "claim" /\ op[u].pos = dequeue_pos =>
            sequence'[Cell(op[u].pos)] = op[u].pos + 1
      <4> SUFFICES ASSUME op[u].at = "claim", op[u].pos = dequeue_pos
                   PROVE  sequence'[Cell(op[u].pos)] = op[u].pos + 1
        OBVIOUS
      <4>1. sequence[Cell(dequeue_pos)] = dequeue_pos + 1
        BY <3>1 DEF PopInv
      <4>2. dequeue_pos < enqueue_pos
        BY <4>1, ClaimedFilled
      <4> QED
        BY <1>1, <1>2, <4>1, <4>2, Positions, QueueAssumption
    <3>3. Reading(u) => sequence'[Cell(op[u].pos)] = op[u].pos + 1
      <4> SUFFICES ASSUME Reading(u) PROVE sequence'[Cell(op[u].pos)] = op[u].pos + 1
        OBVIOUS
      <4>1. sequence[Cell(op[u].pos + Size)] = op[u].pos + 1
        BY <3>1, ReadersCell DEF PopInv
      <4>2. sequence'[Cell(op[u].pos + Size)] = sequence[Cell(op[u].pos + Size)]
        BY <1>1, <1>2, <2>2, ReadersCell, Positions, QueueAssumption
      <4> QED
        BY <4>1, <4>2, ReadersCell
    <3>4. \A v \in Poppers : v # u /\ Reading(v)' => v # t /\ Reading(v) /\ op'[v] = op[v]
      BY DEF Moves, Reading
    <3> QED
      BY <3>1, <3>2, <3>3, <3>4 DEF PopInv, Reading
  <2> QED
    BY <2>1, <2>2
<1>6. ASSUME NEW u \in Pushers PROVE PushInv(u)'
  <2>1. PushInv(u) /\ op'[u] = op[u] /\ op[u].pos \in Nat
    BY QueueAssumption DEF QueueInv, Moves, TypeInv, Op
  <2>2. \A v \in Pushers : op'[v] = op[v]
    BY QueueAssumption DEF Moves
  <2>3. op[u].at = "claim" /\ op[u].pos = enqueue_pos => sequence'[Cell(op[u].pos)] = op[u].pos
    <3> SUFFICES ASSUME op[u].at = "claim", op[u].pos = enqueue_pos
                 PROVE  sequence'[Cell(op[u].pos)] = op[u].pos
      OBVIOUS
    <3>1. sequence[Cell(enqueue_pos)] = enqueue_pos
      BY <2>1 DEF PushInv
    <3> QED
      BY <1>1, <1>2, <3>1, ClaimedFits, Positions, QueueAssumption
  <2>4. Writing(u) => sequence'[Cell(op[u].pos)] = op[u].pos
    BY <1>1, <1>2, <2>1, Positions, QueueAssumption DEF PushInv
  <2> QED
    BY <2>1, <2>2, <2>3, <2>4 DEF PushInv, Writing
<1> QED
  BY <1>3, <1>4, <1>5, <1>6 DEF QueueInv

-----------------------------------------------------------------------------
(***************************************************************************)
(* The refinement.                                                         *)
(***************************************************************************)

\* What the ring holds from position dequeue_pos on, before and after a step.
LEMMA ItemsAreMessages ==
  ASSUME QueueInv
  PROVE  /\ Items \in Seq(Slot) /\ Len(Items) = enqueue_pos - dequeue_pos
         /\ \A i \in 1..(enqueue_pos - dequeue_pos) : Items[i] = MessageAt(dequeue_pos + i - 1)
<1>1. ASSUME NEW p \in Nat PROVE MessageAt(p) \in Slot
  <2>1. data[Cell(p)] \in Slot
    BY CellOfRing DEF QueueInv, TypeInv
  <2>2. ASSUME Writer(p) # {} PROVE op[CHOOSE t \in Writer(p) : TRUE].msg \in Slot
    <3>1. (CHOOSE t \in Writer(p) : TRUE) \in Pushers
      BY <2>2 DEF Writer
    <3> QED
      BY <3>1 DEF QueueInv, TypeInv, Op
  <2> QED
    BY <2>1, <2>2 DEF MessageAt
<1>2. enqueue_pos - dequeue_pos \in Nat
  BY Positions
<1>3. \A i \in 1..(enqueue_pos - dequeue_pos) :
        dequeue_pos + i - 1 \in Nat /\ MessageAt(dequeue_pos + i - 1) \in Slot
  BY <1>1, Positions
<1> QED
  BY <1>2, <1>3 DEF Items

LEMMA OnlyOne == ASSUME NEW u, NEW W, W = {u} PROVE W # {} /\ (CHOOSE t \in W : TRUE) = u
  OBVIOUS

\* Of the threads that write, each has a position of its own.
LEMMA OneWriter ==
  ASSUME QueueInv, NEW t \in Pushers, op[t].at = "write"
  PROVE  Writer(op[t].pos) = {t} /\ MessageAt(op[t].pos) = op[t].msg
<1>1. Writer(op[t].pos) = {t}
  <2>1. \A u \in Pushers : u # t /\ Writing(u) => op[u].pos # op[t].pos
    BY DEF QueueInv, PushInv, Writing
  <2> QED
    BY <2>1 DEF Writer, Writing
<1> QED
  BY <1>1, OnlyOne DEF MessageAt

\* A position whose writer and whose cell are as before holds the same message.
LEMMA SameMessage ==
  ASSUME QueueInv, NEW p, Writer(p)' = Writer(p), data'[Cell(p)] = data[Cell(p)],
         \A u \in Writer(p) : op'[u] = op[u]
  PROVE  MessageAt(p)' = MessageAt(p)
<1>1. CASE Writer(p) = {}
  BY <1>1 DEF MessageAt
<1>2. CASE Writer(p) # {}
  <2> PICK u \in Writer(p) : TRUE
    BY <1>2
  <2>1. u \in Pushers /\ op[u].at = "write" /\ op[u].pos = p
    BY DEF Writer
  <2>2. Writer(p) = {u} /\ MessageAt(p) = op[u].msg
    BY <2>1, OneWriter
  <2>3. MessageAt(p)' = op'[u].msg
    BY <2>2, OnlyOne DEF MessageAt
  <2> QED
    BY <2>2, <2>3
<1> QED
  BY <1>1, <1>2

\* A quiet step, or one that hands a cell on, is not seen from outside.
LEMMA UnseenStep ==
  ASSUME QueueInv, QueueInv', NEW t \in Pushers \cup Poppers, NEW place, NEW pos, NEW msg,
         Moves(t, place, pos, msg), UNCHANGED <<data, enqueue_pos, dequeue_pos>>,
         op[t].at \notin {"write", "read"}, place \notin {"write", "read"},
         t \in Poppers => msg = op[t].msg
  PROVE  UNCHANGED Fifo!vars
<1>1. \A p : Writer(p)' = Writer(p)
  BY DEF Writer, Moves
<1>2. ASSUME NEW p PROVE MessageAt(p)' = MessageAt(p)
  BY <1>1, SameMessage DEF Writer, Moves
<1>3. Items' = Items
  BY <1>2 DEF Items
<1>4. Taken' = Taken
  BY DEF Taken, Moves
<1> QED
  BY <1>3, <1>4 DEF Fifo!vars

LEMMA AppendedFunction ==
  ASSUME NEW S, NEW q \in Seq(S), NEW m \in S, NEW r \in [1..(Len(q) + 1) -> S],
         \A i \in 1..Len(q) : r[i] = q[i], r[Len(q) + 1] = m
  PROVE  r = Append(q, m)
<1>1. Append(q, m) \in [1..(Len(q) + 1) -> S] /\ Len(q) \in Nat
  <2>1. Append(q, m) \in Seq(S) /\ Len(Append(q, m)) = Len(q) + 1
    OBVIOUS
  <2> QED
    BY <2>1, LenProperties
<1>2. \A i \in 1..(Len(q) + 1) : r[i] = Append(q, m)[i]
  OBVIOUS
<1> QED
  BY <1>1, <1>2

LEMMA TailFunction ==
  ASSUME NEW S, NEW q \in Seq(S), q # <<>>, NEW r \in [1..(Len(q) - 1) -> S],
         \A i \in 1..(Len(q) - 1) : r[i] = q[i + 1]
  PROVE  r = Tail(q) /\ Head(q) = q[1]
<1>1. Tail(q) \in [1..(Len(q) - 1) -> S] /\ Len(q) \in Nat \ {0}
  <2>1. Tail(q) \in Seq(S) /\ Len(Tail(q)) = Len(q) - 1
    OBVIOUS
  <2> QED
    BY <2>1, LenProperties, EmptySeq
<1>2. \A i \in 1..(Len(q) - 1) : r[i] = Tail(q)[i]
  OBVIOUS
<1> QED
  BY <1>1, <1>2

\* A successful claim is where a message is put, though it is written later.
LEMMA ClaimPuts ==
  ASSUME QueueInv, NEW t \in Pushers, op[t].at = "claim", enqueue_pos = op[t].pos,
         enqueue_pos' = enqueue_pos + 1, Moves(t, "write", op[t].pos, op[t].msg),
         UNCHANGED <<sequence, data, dequeue_pos>>
  PROVE  Fifo!Put(op[t].msg) /\ op[t].msg \in Message
<1> SUFFICES ASSUME NEW d \in Nat, NEW e \in Nat, NEW m, d = dequeue_pos, e = enqueue_pos, m = op[t].msg
             PROVE  Fifo!Put(m) /\ m \in Message
  BY Positions DEF Fifo!Put
<1>1. sequence[Cell(enqueue_pos)] = enqueue_pos /\ m \in Message
  BY DEF QueueInv, PushInv
<1>2. e - d \in Nat /\ e - d < Size
  BY <1>1, ClaimedFits, Positions, QueueAssumption
<1>3. Items \in Seq(Slot) /\ Len(Items) = e - d /\ \A i \in 1..(e - d) : Items[i] = MessageAt(d + i - 1)
  BY ItemsAreMessages
<1>4. \A u \in Pushers : Writing(u) => op[u].pos # e
  BY Positions DEF QueueInv, PushInv, TypeInv, Op
<1>5. ASSUME NEW q \in Nat, q < e PROVE MessageAt(q)' = MessageAt(q)
  <2>1. Writer(q)' = Writer(q) /\ \A u \in Writer(q) : op'[u] = op[u]
    BY <1>5 DEF Writer, Moves
  <2> QED
    BY <2>1, SameMessage
<1>6. MessageAt(e)' = m
  <2>1. Writer(e)' = {t}
    BY <1>4 DEF Writer, Writing, Moves
  <2>2. MessageAt(e)' = op'[t].msg
    BY <2>1, OnlyOne DEF MessageAt
  <2> QED
    BY <2>2 DEF Moves
<1>7. Items' = Append(Items, m)
  <2>1. Items' = [i \in 1..(e - d + 1) |-> MessageAt(d + i - 1)']
    <3>1. enqueue_pos' - dequeue_pos' = e - d + 1 /\ dequeue_pos' = d
      BY <1>2
    <3> QED
      BY <3>1 DEF Items
  <2>2. \A i \in 1..(e - d) : Items'[i] = Items[i]
    <3> SUFFICES ASSUME NEW i \in 1..(e - d) PROVE Items'[i] = Items[i]
      OBVIOUS
    <3>1. d + i - 1 \in Nat /\ d + i - 1 < e /\ i \in 1..(e - d + 1)
      BY <1>2
    <3>2. MessageAt(d + i - 1)' = MessageAt(d + i - 1)
      BY <1>5, <3>1
    <3> QED
      BY <1>3, <2>1, <3>1, <3>2
  <2>3. Items'[e - d + 1] = m
    <3>1. d + (e - d + 1) - 1 = e /\ e - d + 1 \in 1..(e - d + 1)
      BY <1>2
    <3> QED
      BY <1>6, <2>1, <3>1
  <2>4. \A i \in 1..(e - d + 1) : Items'[i] \in Slot
    <3>1. m \in Slot
      BY <1>1 DEF Slot
    <3>2. \A i \in 1..(e - d) : Items[i] \in Slot
      BY <1>3, ElementOfSeq
    <3> QED
      BY <1>2, <2>2, <2>3, <3>1, <3>2
  <2>5. Items' \in [1..(Len(Items) + 1) -> Slot]
    BY <1>3, <2>1, <2>4
  <2>6. m \in Slot
    BY <1>1 DEF Slot
  <2>7. (\A i \in 1..Len(Items) : Items'[i] = Items[i]) /\ Items'[Len(Items) + 1] = m
    BY <1>3, <2>2, <2>3
  <2>8. ASSUME NEW r \in [1..(Len(Items) + 1) -> Slot], r = Items'
        PROVE  r = Append(Items, m)
    <3>1. (\A i \in 1..Len(Items) : r[i] = Items[i]) /\ r[Len(Items) + 1] = m
      BY <2>7, <2>8
    <3> QED
      BY <1>3, <2>6, <3>1, AppendedFunction
  <2> QED
    BY <2>5, <2>8
<1>8. Taken' = Taken
  BY QueueAssumption DEF Taken, Moves
<1> QED
  BY <1>1, <1>2, <1>3, <1>7, <1>8 DEF Fifo!Put

\* And a popper's is where it takes the oldest message, though it reads it later.
LEMMA ClaimTakes ==
  ASSUME QueueInv, NEW t \in Poppers, op[t].at = "claim", dequeue_pos = op[t].pos,
         dequeue_pos' = dequeue_pos + 1, Moves(t, "read", op[t].pos, op[t].msg),
         UNCHANGED <<sequence, data, enqueue_pos>>
  PROVE  Fifo!Take(t)
<1> SUFFICES ASSUME NEW d \in Nat, NEW e \in Nat, d = dequeue_pos, e = enqueue_pos
             PROVE  Fifo!Take(t)
  BY Positions
<1>1. sequence[Cell(d)] = d + 1
  BY DEF QueueInv, PopInv
<1>2. d < e
  BY <1>1, ClaimedFilled
<1>3. Items \in Seq(Slot) /\ Len(Items) = e - d /\ \A i \in 1..(e - d) : Items[i] = MessageAt(d + i - 1)
  BY ItemsAreMessages
<1>4. ASSUME NEW q PROVE MessageAt(q)' = MessageAt(q)
  <2>1. Writer(q)' = Writer(q) /\ \A u \in Writer(q) : op'[u] = op[u]
    BY QueueAssumption DEF Writer, Moves
  <2> QED
    BY <2>1, SameMessage
<1>5. Items' = Tail(Items) /\ Head(Items) = Items[1]
  <2>1. Items' = [i \in 1..(e - d - 1) |-> MessageAt(d + 1 + i - 1)']
    <3>1. enqueue_pos' - dequeue_pos' = e - d - 1 /\ dequeue_pos' = d + 1
      BY <1>2
    <3> QED
      BY <3>1 DEF Items
  <2>2. \A i \in 1..(e - d - 1) : Items'[i] = Items[i + 1]
    <3> SUFFICES ASSUME NEW i \in 1..(e - d - 1) PROVE Items'[i] = Items[i + 1]
      OBVIOUS
    <3>1. i + 1 \in 1..(e - d) /\ d + 1 + i - 1 = d + (i + 1) - 1
      BY <1>2
    <3>2. Items'[i] = MessageAt(d + (i + 1) - 1)
      BY <1>4, <2>1, <3>1
    <3> QED
      BY <1>3, <3>1, <3>2
  <2>3. \A i \in 1..(e - d - 1) : Items'[i] \in Slot
    <3>1. \A j \in 1..(e - d) : Items[j] \in Slot
      BY <1>3, ElementOfSeq
    <3>2. \A i \in 1..(e - d - 1) : i + 1 \in 1..(e - d)
      BY <1>2
    <3> QED
      BY <2>2, <3>1, <3>2
  <2>4. Items' \in [1..(Len(Items) - 1) -> Slot]
    BY <1>3, <2>1, <2>3
  <2>5. Items # <<>>
    BY <1>2, <1>3
  <2>6. \A i \in 1..(Len(Items) - 1) : Items'[i] = Items[i + 1]
    BY <1>3, <2>2
  <2>7. ASSUME NEW r \in [1..(Len(Items) - 1) -> Slot], r = Items'
        PROVE  r = Tail(Items) /\ Head(Items) = Items[1]
    <3>1. \A i \in 1..(Len(Items) - 1) : r[i] = Items[i + 1]
      BY <2>6, <2>7
    <3> QED
      BY <1>3, <2>5, <3>1, TailFunction
  <2> QED
    BY <2>4, <2>7
<1>6. Items[1] = data[Cell(d)]
  <2>1. Writer(d) = {}
    BY <1>1 DEF Writer, QueueInv, PushInv, Writing
  <2>2. 1 \in 1..(e - d) /\ d + 1 - 1 = d
    BY <1>2
  <2> QED
    BY <1>3, <2>1, <2>2 DEF MessageAt
<1>7. Taken' = [Taken EXCEPT ![t] = data[Cell(d)]]
  <2>1. Taken'[t] = data[Cell(d)]
    BY DEF Taken, Moves
  <2>2. \A u \in Poppers : u # t => Taken'[u] = Taken[u]
    BY DEF Taken, Moves
  <2>3. Taken = [u \in Poppers |-> Taken[u]] /\ Taken' = [u \in Poppers |-> Taken'[u]]
    BY DEF Taken
  <2> QED
    BY <2>1, <2>2, <2>3
<1>8. Items # <<>>
  BY <1>2, <1>3
<1>9. Taken' = [Taken EXCEPT ![t] = Head(Items)]
  BY <1>5, <1>6, <1>7
<1> QED
  BY <1>5, <1>8, <1>9 DEF Fifo!Take

\* The message is written into a cell that nobody else looks at.
LEMMA WriteUnseen ==
  ASSUME QueueInv, NEW t \in Pushers, op[t].at = "write",
         data' = [data EXCEPT ![Cell(op[t].pos)] = op[t].msg],
         Moves(t, "publish", op[t].pos, op[t].msg),
         UNCHANGED <<sequence, enqueue_pos, dequeue_pos>>
  PROVE  QueueInv' /\ UNCHANGED Fifo!vars
<1> SUFFICES ASSUME NEW p \in Nat, p = op[t].pos PROVE QueueInv' /\ UNCHANGED Fifo!vars
  BY DEF QueueInv, TypeInv, Op
<1>1. /\ PushInv(t) /\ Writing(t) /\ op[t].msg \in Message
      /\ dequeue_pos <= p /\ p < enqueue_pos
  BY DEF QueueInv, PushInv, Writing
<1>2. /\ data' \in [0..(Size - 1) -> Slot] /\ data'[Cell(p)] = op[t].msg
      /\ \A q \in Nat : Cell(q) # Cell(p) => data'[Cell(q)] = data[Cell(q)]
  BY <1>1, CellOfRing DEF QueueInv, TypeInv, Slot
<1>3. QueueInv'
  <2>1. PushInv(t)'
    <3>1. \A u \in Pushers : u # t => op'[u] = op[u]
      BY DEF Moves
    <3> QED
      BY <1>1, <3>1 DEF PushInv, Writing, Moves
  <2>2. t \notin Poppers
    BY QueueAssumption
  <2> QED
    BY <1>1, <1>2, <2>1, <2>2, QuietStep
<1>4. ASSUME NEW q \in Nat, dequeue_pos <= q, q < enqueue_pos PROVE MessageAt(q)' = MessageAt(q)
  <2>1. CASE q = p
    <3>1. Writer(q)' = {}
      BY <1>1, <2>1 DEF Writer, Moves, PushInv, Writing
    <3>2. MessageAt(q) = op[t].msg
      BY <2>1, OneWriter
    <3>3. MessageAt(q)' = data'[Cell(q)]
      BY <3>1 DEF MessageAt
    <3> QED
      BY <1>2, <2>1, <3>2, <3>3
  <2>2. CASE q # p
    <3>1. Cell(q) # Cell(p)
      BY <1>1, <1>4, <2>2, OwnCells, Positions, QueueAssumption
    <3>2. Writer(q)' = Writer(q)
      BY <2>2 DEF Writer, Moves
    <3>3. \A u \in Writer(q) : op'[u] = op[u]
      BY <2>2 DEF Writer, Moves
    <3>4. data'[Cell(q)] = data[Cell(q)]
      BY <1>2, <3>1
    <3> QED
      BY <3>2, <3>3, <3>4, SameMessage
  <2> QED
    BY <2>1, <2>2
<1>5. Items' = Items
  <2>1. ASSUME NEW i \in 1..(enqueue_pos - dequeue_pos)
        PROVE  MessageAt(dequeue_pos + i - 1)' = MessageAt(dequeue_pos + i - 1)
    <3> SUFFICES ASSUME NEW q, q = dequeue_pos + i - 1 PROVE MessageAt(q)' = MessageAt(q)
      OBVIOUS
    <3>1. q \in Nat /\ dequeue_pos <= q /\ q < enqueue_pos
      BY Positions
    <3> QED
      BY <1>4, <3>1
  <2> QED
    BY <2>1 DEF Items
<1>6. Taken' = Taken
  <2>1. ASSUME NEW u \in Poppers PROVE Taken'[u] = Taken[u]
    <3>1. op'[u] = op[u]
      BY QueueAssumption DEF Moves
    <3>2. CASE op[u].at = "read"
      <4>1. Reading(u)
        BY <3>2 DEF Reading
      <4>2. Cell(op[u].pos) # Cell(p)
        BY <1>1, <4>1, ReadersCell, OwnCells, Positions, QueueAssumption
      <4>3. data'[Cell(op[u].pos)] = data[Cell(op[u].pos)]
        BY <1>2, <4>1, <4>2, ReadersCell
      <4> QED
        BY <3>1, <3>2, <4>3 DEF Taken
    <3>3. CASE op[u].at # "read"
      BY <3>1, <3>3 DEF Taken
    <3> QED
      BY <3>2, <3>3
  <2>2. Taken = [u \in Poppers |-> Taken[u]] /\ Taken' = [u \in Poppers |-> Taken'[u]]
    BY DEF Taken
  <2> QED
    BY <2>1, <2>2
<1> QED
  BY <1>3, <1>5, <1>6 DEF Fifo!vars

\* What a popper reads is the message it has taken.
LEMMA ReadUnseen ==
  ASSUME QueueInv, NEW t \in Poppers, op[t].at = "read",
         Moves(t, "release", op[t].pos, data[Cell(op[t].pos)]),
         UNCHANGED <<sequence, data, enqueue_pos, dequeue_pos>>
  PROVE  QueueInv' /\ UNCHANGED Fifo!vars
<1>1. t \notin Pushers /\ PopInv(t) /\ Reading(t)
  BY QueueAssumption DEF QueueInv, Reading
<1>2. QueueInv'
  <2>1. PopInv(t)'
    <3>1. \A u \in Poppers : u # t => op'[u] = op[u]
      BY DEF Moves
    <3> QED
      BY <1>1, <3>1 DEF PopInv, Reading, Moves
  <2> QED
    BY <1>1, <2>1, QuietStep DEF QueueInv, TypeInv
<1>3. ASSUME NEW q PROVE MessageAt(q)' = MessageAt(q)
  <2>1. Writer(q)' = Writer(q) /\ \A u \in Writer(q) : op'[u] = op[u]
    BY <1>1 DEF Writer, Moves
  <2> QED
    BY <2>1, SameMessage
<1>4. Items' = Items
  BY <1>3 DEF Items
<1>5. Taken' = Taken
  BY DEF Taken, Moves
<1> QED
  BY <1>2, <1>4, <1>5 DEF Fifo!vars

-----------------------------------------------------------------------------
(* The actions, one by one: each preserves QueueInv and is a step of the   *)
(* abstract queue, or is not seen.                                         *)

LEMMA SetMoves ==
  ASSUME TypeInv, NEW t \in Pushers \cup Poppers, NEW r \in Op, op' = [op EXCEPT ![t] = r]
  PROVE  Moves(t, r.at, r.pos, r.msg)
BY DEF TypeInv, Moves

LEMMA FieldsMove ==
  ASSUME TypeInv, NEW t \in Pushers \cup Poppers,
         NEW place, [at |-> place, pos |-> 0, msg |-> None] \in Op, NEW pos \in Nat,
         op' = [op EXCEPT ![t].at = place, ![t].pos = pos]
  PROVE  Moves(t, place, pos, op[t].msg)
<1>1. op[t] \in Op
  BY DEF TypeInv
<1>2. PICK r \in Op : r = [op[t] EXCEPT !.at = place]
  BY <1>1 DEF Op
<1>3. r.at = place /\ r.msg = op[t].msg
  BY <1>1, <1>2 DEF Op
<1>4. [r EXCEPT !.pos = pos] \in Op
  BY DEF Op
<1>5. [r EXCEPT !.pos = pos].pos = pos /\ [r EXCEPT !.pos = pos].at = r.at
      /\ [r EXCEPT !.pos = pos].msg = r.msg
  BY DEF Op
<1>6. op' = [op EXCEPT ![t] = [r EXCEPT !.pos = pos]]
  BY <1>2 DEF TypeInv
<1> QED
  BY <1>3, <1>4, <1>5, <1>6 DEF TypeInv, Moves

LEMMA Enqueue ==
  ASSUME QueueInv, NEW t \in Pushers, NEW m \in Message, enqueue(t, m)
  PROVE  QueueInv' /\ UNCHANGED Fifo!vars
<1>1. [at |-> "look", pos |-> enqueue_pos, msg |-> m] \in Op
  BY Positions DEF Op, Slot
<1>2. Moves(t, "look", enqueue_pos, m)
  BY <1>1, SetMoves DEF enqueue, QueueInv
<1>3. QueueInv'
  BY <1>2, QuietPush, Positions DEF enqueue, Writing
<1> QED
  BY <1>2, <1>3, UnseenStep, QueueAssumption DEF enqueue

LEMMA EnqueueLook ==
  ASSUME QueueInv, NEW t \in Pushers, enqueue_look(t)
  PROVE  QueueInv' /\ UNCHANGED Fifo!vars
<1>1. /\ PushInv(t) /\ TypeInv /\ op[t] \in Op /\ t \notin Poppers /\ op[t].at = "look"
      /\ UNCHANGED <<sequence, data, enqueue_pos, dequeue_pos>>
  BY QueueAssumption DEF QueueInv, TypeInv, enqueue_look
<1>2. op[t].msg \in Message /\ op[t].pos \in Nat /\ op[t].pos <= enqueue_pos /\ ~ Writing(t)
  BY <1>1 DEF PushInv, Writing, Op
<1>3. CASE sequence[Cell(op[t].pos)] = op[t].pos /\ Goto(t, "claim")
  <2>1. Moves(t, "claim", op[t].pos, op[t].msg)
    BY <1>1, <1>3, GotoMoves DEF Op, Slot
  <2>2. QueueInv'
    BY <1>1, <1>2, <1>3, <2>1, QuietPush
  <2> QED
    BY <1>1, <2>1, <2>2, UnseenStep
<1>4. CASE op' = [op EXCEPT ![t].pos = enqueue_pos]
  <2>1. [op[t] EXCEPT !.pos = enqueue_pos] \in Op /\ [op[t] EXCEPT !.pos = enqueue_pos].at = "look"
    BY <1>1, Positions DEF Op
  <2>2. Moves(t, "look", enqueue_pos, op[t].msg)
    <3>1. op' = [op EXCEPT ![t] = [op[t] EXCEPT !.pos = enqueue_pos]]
      BY <1>4
    <3> QED
      BY <1>1, <2>1, <3>1 DEF Moves, TypeInv, Op
  <2>3. QueueInv'
    BY <1>1, <1>2, <2>2, QuietPush, Positions
  <2> QED
    BY <1>1, <2>2, <2>3, UnseenStep
<1>5. CASE Goto(t, "full")
  <2>1. Moves(t, "full", op[t].pos, op[t].msg)
    BY <1>1, <1>5, GotoMoves DEF Op, Slot
  <2>2. QueueInv'
    BY <1>1, <1>2, <2>1, QuietPush
  <2> QED
    BY <1>1, <2>1, <2>2, UnseenStep
<1> QED
  BY <1>3, <1>4, <1>5 DEF enqueue_look

LEMMA EnqueueClaim ==
  ASSUME QueueInv, NEW t \in Pushers, enqueue_claim(t)
  PROVE  /\ QueueInv'
         /\ \/ op'[t].at = "write" /\ Fifo!Put(op[t].msg) /\ op[t].msg \in Message
            \/ op'[t].at = "look" /\ UNCHANGED Fifo!vars
<1>1. /\ PushInv(t) /\ TypeInv /\ t \notin Poppers /\ op[t].at = "claim"
      /\ UNCHANGED <<sequence, data, dequeue_pos>>
  BY QueueAssumption DEF QueueInv, enqueue_claim
<1>2. op[t].msg \in Message /\ ~ Writing(t)
  BY <1>1 DEF PushInv, Writing
<1>3. CASE enqueue_pos = op[t].pos /\ enqueue_pos' = enqueue_pos + 1 /\ Goto(t, "write")
  <2>1. Moves(t, "write", op[t].pos, op[t].msg)
    BY <1>1, <1>3, GotoMoves DEF Op, Slot
  <2> QED
    BY <1>1, <1>3, <2>1, EnqueueClaimInv, ClaimPuts DEF Moves
<1>4. CASE op' = [op EXCEPT ![t].at = "look", ![t].pos = enqueue_pos] /\ UNCHANGED enqueue_pos
  <2>1. Moves(t, "look", enqueue_pos, op[t].msg)
    BY <1>1, <1>4, FieldsMove, Positions DEF Op, Slot
  <2>2. QueueInv'
    BY <1>1, <1>2, <1>4, <2>1, QuietPush, Positions
  <2> QED
    BY <1>1, <1>4, <2>1, <2>2, UnseenStep DEF Moves
<1> QED
  BY <1>3, <1>4 DEF enqueue_claim

LEMMA EnqueueWrite ==
  ASSUME QueueInv, NEW t \in Pushers, enqueue_write(t)
  PROVE  QueueInv' /\ UNCHANGED Fifo!vars
<1>1. Moves(t, "publish", op[t].pos, op[t].msg)
  BY GotoMoves DEF enqueue_write, QueueInv, Op, Slot
<1> QED
  BY <1>1, WriteUnseen DEF enqueue_write

LEMMA EnqueuePublish ==
  ASSUME QueueInv, NEW t \in Pushers, enqueue_publish(t)
  PROVE  QueueInv' /\ UNCHANGED Fifo!vars
<1>1. Moves(t, "done", op[t].pos, op[t].msg)
  BY GotoMoves DEF enqueue_publish, QueueInv, Op, Slot
<1>2. QueueInv'
  BY <1>1, EnqueuePublishInv DEF enqueue_publish
<1> QED
  BY <1>1, <1>2, UnseenStep, QueueAssumption DEF enqueue_publish

LEMMA Dequeue ==
  ASSUME QueueInv, NEW t \in Poppers, dequeue(t)
  PROVE  QueueInv' /\ UNCHANGED Fifo!vars
<1>1. /\ TypeInv /\ op[t].at = "idle" /\ ~ Reading(t)
      /\ UNCHANGED <<sequence, data, enqueue_pos, dequeue_pos>>
  BY DEF dequeue, QueueInv, Reading
<1>2. Moves(t, "look", dequeue_pos, op[t].msg)
  BY <1>1, FieldsMove, Positions DEF dequeue, Op, Slot
<1>3. QueueInv'
  BY <1>1, <1>2, QuietPop, Positions
<1> QED
  BY <1>1, <1>2, <1>3, UnseenStep

LEMMA DequeueLook ==
  ASSUME QueueInv, NEW t \in Poppers, dequeue_look(t)
  PROVE  QueueInv' /\ UNCHANGED Fifo!vars
<1>1. /\ PopInv(t) /\ TypeInv /\ op[t] \in Op /\ op[t].at = "look"
      /\ UNCHANGED <<sequence, data, enqueue_pos, dequeue_pos>>
  BY DEF QueueInv, TypeInv, dequeue_look
<1>2. op[t].pos \in Nat /\ op[t].pos <= dequeue_pos /\ ~ Reading(t)
  BY <1>1 DEF PopInv, Reading, Op
<1>3. CASE sequence[Cell(op[t].pos)] = op[t].pos + 1 /\ Goto(t, "claim")
  <2>1. Moves(t, "claim", op[t].pos, op[t].msg)
    BY <1>1, <1>3, GotoMoves DEF Op, Slot
  <2>2. QueueInv'
    BY <1>1, <1>2, <1>3, <2>1, QuietPop
  <2> QED
    BY <1>1, <2>1, <2>2, UnseenStep
<1>4. CASE op' = [op EXCEPT ![t].pos = dequeue_pos]
  <2>1. [op[t] EXCEPT !.pos = dequeue_pos] \in Op /\ [op[t] EXCEPT !.pos = dequeue_pos].at = "look"
    BY <1>1, Positions DEF Op
  <2>2. Moves(t, "look", dequeue_pos, op[t].msg)
    <3>1. op' = [op EXCEPT ![t] = [op[t] EXCEPT !.pos = dequeue_pos]]
      BY <1>4
    <3> QED
      BY <1>1, <2>1, <3>1 DEF Moves, TypeInv, Op
  <2>3. QueueInv'
    BY <1>1, <1>2, <2>2, QuietPop, Positions
  <2> QED
    BY <1>1, <2>2, <2>3, UnseenStep
<1>5. CASE Goto(t, "empty")
  <2>1. Moves(t, "empty", op[t].pos, op[t].msg)
    BY <1>1, <1>5, GotoMoves DEF Op, Slot
  <2>2. QueueInv'
    BY <1>1, <1>2, <2>1, QuietPop
  <2> QED
    BY <1>1, <2>1, <2>2, UnseenStep
<1> QED
  BY <1>3, <1>4, <1>5 DEF dequeue_look

LEMMA DequeueClaim ==
  ASSUME QueueInv, NEW t \in Poppers, dequeue_claim(t)
  PROVE  /\ QueueInv'
         /\ \/ op'[t].at = "read" /\ Fifo!Take(t)
            \/ op'[t].at = "look" /\ UNCHANGED Fifo!vars
<1>1. /\ PopInv(t) /\ TypeInv /\ op[t].at = "claim" /\ ~ Reading(t)
      /\ UNCHANGED <<sequence, data, enqueue_pos>>
  BY DEF QueueInv, dequeue_claim, Reading
<1>2. CASE dequeue_pos = op[t].pos /\ dequeue_pos' = dequeue_pos + 1 /\ Goto(t, "read")
  <2>1. Moves(t, "read", op[t].pos, op[t].msg)
    BY <1>1, <1>2, GotoMoves DEF Op, Slot
  <2> QED
    BY <1>1, <1>2, <2>1, DequeueClaimInv, ClaimTakes DEF Moves
<1>3. CASE op' = [op EXCEPT ![t].at = "look", ![t].pos = dequeue_pos] /\ UNCHANGED dequeue_pos
  <2>1. Moves(t, "look", dequeue_pos, op[t].msg)
    BY <1>1, <1>3, FieldsMove, Positions DEF Op, Slot
  <2>2. QueueInv'
    BY <1>1, <1>3, <2>1, QuietPop, Positions
  <2> QED
    BY <1>1, <1>3, <2>1, <2>2, UnseenStep DEF Moves
<1> QED
  BY <1>2, <1>3 DEF dequeue_claim

LEMMA DequeueRead ==
  ASSUME QueueInv, NEW t \in Poppers, dequeue_read(t)
  PROVE  QueueInv' /\ UNCHANGED Fifo!vars
<1>1. op[t] \in Op /\ data[Cell(op[t].pos)] \in Slot
  BY CellOfRing DEF QueueInv, TypeInv, Op
<1> DEFINE m == data[Cell(op[t].pos)]
           r == [at |-> "release", pos |-> op[t].pos, msg |-> m]
<1>2. r \in Op
  BY <1>1 DEF Op
<1>3. op' = [op EXCEPT ![t] = r]
  <2>1. op'[t] = [op[t] EXCEPT !.at = "release", !.msg = m]
    BY DEF dequeue_read, QueueInv, TypeInv
  <2>2. op'[t] = r
    BY <1>1, <2>1 DEF Op
  <2> QED
    BY <2>2 DEF dequeue_read, QueueInv, TypeInv
<1>4. Moves(t, "release", op[t].pos, m)
  BY <1>2, <1>3, SetMoves DEF QueueInv
<1> QED
  BY <1>4, ReadUnseen DEF dequeue_read

LEMMA DequeueRelease ==
  ASSUME QueueInv, NEW t \in Poppers, dequeue_release(t)
  PROVE  QueueInv' /\ UNCHANGED Fifo!vars
<1>1. Moves(t, "done", op[t].pos, op[t].msg)
  BY GotoMoves DEF dequeue_release, QueueInv, Op, Slot
<1>2. QueueInv'
  BY <1>1, DequeueReleaseInv DEF dequeue_release
<1> QED
  BY <1>1, <1>2, UnseenStep DEF dequeue_release

LEMMA Return ==
  ASSUME QueueInv, NEW t \in Pushers \cup Poppers, return(t)
  PROVE  QueueInv' /\ UNCHANGED Fifo!vars
<1>1. /\ TypeInv /\ op[t].at \in {"full", "empty", "done"} /\ ~ Reading(t) /\ ~ Writing(t)
      /\ UNCHANGED <<sequence, data, enqueue_pos, dequeue_pos>>
  BY DEF return, QueueInv, Reading, Writing
<1>2. Moves(t, "idle", 0, op[t].msg)
  BY <1>1, FieldsMove DEF return, Op, Slot
<1>3. QueueInv'
  BY <1>1, <1>2, QuietPush, QuietPop
<1> QED
  BY <1>1, <1>2, <1>3, UnseenStep

\* A step inside a call of enqueue: the claim is the put.
LEMMA PushStep ==
  ASSUME QueueInv, NEW t \in Pushers, Pushing(t)
  PROVE  /\ QueueInv' /\ op'[t].msg = op[t].msg
         /\ \A u \in Pushers \cup Poppers : u # t => op'[u] = op[u]
         /\ \/ /\ op[t].at = "claim" /\ op'[t].at = "write"
               /\ Fifo!Put(op[t].msg) /\ op[t].msg \in Message
            \/ /\ op[t].at \in {"look", "claim"} /\ op'[t].at \in {"look", "claim", "full"}
               /\ UNCHANGED Fifo!vars
            \/ /\ op[t].at \in {"write", "publish"} /\ op'[t].at \in {"publish", "done"}
               /\ UNCHANGED Fifo!vars
<1>1. op \in [Pushers \cup Poppers -> Op]
  BY DEF QueueInv, TypeInv
<1>2. CASE enqueue_look(t)
  BY <1>1, <1>2, EnqueueLook DEF enqueue_look, Goto, Op
<1>3. CASE enqueue_claim(t)
  BY <1>1, <1>3, EnqueueClaim DEF enqueue_claim, Goto, Op
<1>4. CASE enqueue_write(t)
  BY <1>1, <1>4, EnqueueWrite DEF enqueue_write, Goto, Op
<1>5. CASE enqueue_publish(t)
  BY <1>1, <1>5, EnqueuePublish DEF enqueue_publish, Goto, Op
<1> QED
  BY <1>2, <1>3, <1>4, <1>5 DEF Pushing

\* And inside a call of dequeue.
LEMMA PopStep ==
  ASSUME QueueInv, NEW t \in Poppers, Popping(t)
  PROVE  /\ QueueInv'
         /\ \A u \in Pushers \cup Poppers : u # t => op'[u] = op[u]
         /\ \/ op[t].at = "claim" /\ op'[t].at = "read" /\ Fifo!Take(t)
            \/ /\ op[t].at \in {"look", "claim"} /\ op'[t].at \in {"look", "claim", "empty"}
               /\ UNCHANGED Fifo!vars
            \/ /\ op[t].at \in {"read", "release"} /\ op'[t].at \in {"release", "done"}
               /\ UNCHANGED Fifo!vars
<1>1. op \in [Pushers \cup Poppers -> Op]
  BY DEF QueueInv, TypeInv
<1>2. CASE dequeue_look(t)
  BY <1>1, <1>2, DequeueLook DEF dequeue_look, Goto, Op
<1>3. CASE dequeue_claim(t)
  BY <1>1, <1>3, DequeueClaim DEF dequeue_claim, Goto, Op
<1>4. CASE dequeue_read(t)
  BY <1>1, <1>4, DequeueRead DEF dequeue_read, Op
<1>5. CASE dequeue_release(t)
  BY <1>1, <1>5, DequeueRelease DEF dequeue_release, Goto, Op
<1> QED
  BY <1>2, <1>3, <1>4, <1>5 DEF Popping

LEMMA QueueStep ==
  ASSUME QueueInv, [QueueNext]_qvars
  PROVE  QueueInv' /\ [Fifo!Next]_(Fifo!vars)
<1>1. ASSUME NEW t \in Pushers, Pushing(t) PROVE QueueInv' /\ [Fifo!Next]_(Fifo!vars)
  BY <1>1, PushStep DEF Fifo!Next
<1>2. ASSUME NEW t \in Poppers, Popping(t) PROVE QueueInv' /\ [Fifo!Next]_(Fifo!vars)
  BY <1>2, PopStep DEF Fifo!Next
<1>3. CASE UNCHANGED qvars
  <2>1. QueueInv'
    BY <1>3 DEF qvars, QueueInv, TypeInv, RingInv, PushInv, PopInv, Writing, Reading
  <2>2. UNCHANGED Fifo!vars
    BY <1>3 DEF qvars, Fifo!vars, Items, Taken, MessageAt, Writer
  <2> QED
    BY <2>1, <2>2
<1> QED
  BY <1>1, <1>2, <1>3, Enqueue, Dequeue, Return DEF QueueNext

LEMMA InitFifo == QueueInit => Fifo!Init
<1> SUFFICES ASSUME QueueInit PROVE Fifo!Init
  OBVIOUS
<1>1. Items = <<>>
  BY DEF QueueInit, Items
<1>2. Taken = [t \in Poppers |-> None]
  BY DEF QueueInit, Taken, AllIdle, Idle
<1> QED
  BY <1>1, <1>2 DEF Fifo!Init

(***************************************************************************)
(* Whatever the interleaving of the threads' atomic operations, the        *)
(* sequence numbers tell the truth about the cells: no two threads are in  *)
(* the same cell for the same round, and nobody waits for a cell that is   *)
(* his (mpmc_bounded_q.h, enqueue and dequeue).                            *)
(***************************************************************************)
THEOREM QueueInvariance == QueueSpec => []QueueInv
<1>1. QueueInv /\ [QueueNext]_qvars => QueueInv'
  BY QueueStep
<1> QED
  BY InitQueueInv, <1>1, PTL DEF QueueSpec

(***************************************************************************)
(* The queue implements BoundedQueue: every message it took leaves it      *)
(* once, in the order of the successful claims, unmangled, and at most     *)
(* Size of them wait.                                                      *)
(***************************************************************************)
THEOREM QueueIsABoundedQueue == QueueSpec => ImplementsBoundedQueue
<1>1. QueueInv /\ [QueueNext]_qvars => [Fifo!Next]_(Fifo!vars)
  BY QueueStep
<1> QED
  BY InitFifo, QueueInvariance, <1>1, PTL DEF QueueSpec, ImplementsBoundedQueue, Fifo!Spec


-----------------------------------------------------------------------------
(***************************************************************************)
(* The inductive invariant, on top of the queue's own.  It sees the queue  *)
(* as the abstract one: Items wait, Taken[Worker] is the message the       *)
(* worker took last.                                                       *)
(***************************************************************************)

LifeInv ==
  /\ call \in [Threads -> 0..MaxCalls]
  /\ mode \in {"none", "sync", "async"}
  /\ mode # "async" =>
       /\ worker = "off" /\ closing = "no" /\ ~terminate_requested /\ accepted = {}
       /\ Items = <<>> /\ \A t \in Threads \cup {Worker} : op[t].at = "idle"
  /\ mode = "none" => holder = None

SinkCall ==
  [at : {"ready", "rotate", "write", "throw"}, i : 0..MaxFiles, rec : Slot \cup {NoCall.rec}]

SinkInv ==
  /\ sink \in SinkCall
  /\ holder \in Threads \cup {Worker, None}
  /\ sink.at = "ready" <=> holder = None
  /\ holder \in Threads => mode = "sync"
  /\ holder = Worker <=> worker = "log"
  /\ holder # None => sink.rec \in Slot
  /\ written \in Seq(Slot)

\* The worker has a message that it has not passed to the sink yet.
InHand == op[Worker].at \in {"read", "release", "done"}

WorkerInv ==
  /\ worker \in {"off", "loop", "log", "ended", "failed"}
  /\ worker # "loop" => op[Worker].at = "idle"
  /\ worker = "ended" => terminate_requested /\ buffered = 0
  /\ terminate_requested =>
       /\ worker \in {"loop", "ended"} /\ ~InHand /\ Items = <<>>
       /\ worker = "loop" => flush_requested

\* The destructor's message has been put in the queue.
Terminating ==
  \/ \E i \in DOMAIN Items : Items[i].kind = "terminate"
  \/ InHand /\ Taken[Worker].kind = "terminate"
  \/ terminate_requested

ClosingInv ==
  /\ closing \in {"no", "push", "join", "closed"}
  /\ closing = "no" =>
       ~Terminating /\ \A t \in Threads : op[t].at # "idle" => op[t].msg.kind # "terminate"
  /\ closing = "push" => \A t \in Threads \ {Owner} : op[t].at = "idle"
  /\ closing \in {"join", "closed"} => \A t \in Threads : op[t].at = "idle"
  /\ closing = "closed" => worker \in {"ended", "failed"}

\* The destructor's message is the last one.
LastInv ==
  /\ Terminating => \A t \in Threads : op[t].at \in {"idle", "write", "publish", "done"}
  /\ \A i \in DOMAIN Items : Items[i].kind = "terminate" => i = Len(Items)
  /\ InHand /\ Taken[Worker].kind = "terminate" => Items = <<>>

\* A message to log is written, or on its way, unless the worker has failed.
Settled(m) ==
  m.kind = "log" =>
    \/ \E i \in DOMAIN Items : Items[i] = m
    \/ InHand /\ Taken[Worker] = m
    \/ holder = Worker /\ sink.rec = m
    \/ \E i \in DOMAIN written : written[i] = m
    \/ worker = "failed"

DeliveryInv ==
  /\ \A m \in accepted : Settled(m)
  /\ \A t \in Threads : op[t].at \in {"write", "publish", "done"} => Settled(op[t].msg)

LogInv == LifeInv /\ SinkInv /\ WorkerInv /\ ClosingInv /\ LastInv /\ DeliveryInv

-----------------------------------------------------------------------------
LEMMA Roles ==
  /\ Pushers = Threads /\ Poppers = {Worker} /\ Owner \in Threads /\ Worker \notin Threads
  /\ None \notin Threads /\ None # Worker /\ MaxCalls \in Nat
BY LoggingAssumption, MessageAssumption, QueueAssumption

LEMMA NoCallTyped ==
  NoCall \in SinkCall
BY FileAssumption DEF NoCall, SinkCall

LEMMA SinkCalled ==
  ASSUME NEW rec \in Slot, sink_it(rec)
  PROVE  sink' \in SinkCall /\ sink'.at # "ready" /\ sink'.rec = rec
BY FileAssumption DEF sink_it, SinkCall

LEMMA Appended ==
  ASSUME NEW S, NEW q \in Seq(S), NEW m \in S
  PROVE  /\ Append(q, m) \in Seq(S) /\ Len(Append(q, m)) = Len(q) + 1
         /\ DOMAIN q \subseteq DOMAIN Append(q, m) /\ Len(q) + 1 \in DOMAIN Append(q, m)
         /\ Append(q, m)[Len(q) + 1] = m
         /\ \A i \in DOMAIN q : Append(q, m)[i] = q[i] /\ i # Len(q) + 1
         /\ \A i \in DOMAIN Append(q, m) : i \in DOMAIN q \/ i = Len(q) + 1
<1>1. /\ Append(q, m) \in Seq(S) /\ Len(Append(q, m)) = Len(q) + 1 /\ Len(q) \in Nat
      /\ \A i \in 1..Len(q) : Append(q, m)[i] = q[i]
      /\ Append(q, m)[Len(q) + 1] = m
  OBVIOUS
<1>2. DOMAIN q = 1..Len(q) /\ DOMAIN Append(q, m) = 1..(Len(q) + 1)
  BY <1>1, LenProperties
<1> QED
  BY <1>1, <1>2

LEMMA Shifted ==
  ASSUME NEW S, NEW q \in Seq(S), q # <<>>
  PROVE  /\ Len(Tail(q)) = Len(q) - 1 /\ Len(q) \in Nat /\ Head(q) = q[1] /\ 1 \in DOMAIN q
         /\ \A i \in DOMAIN Tail(q) : i + 1 \in DOMAIN q /\ Tail(q)[i] = q[i + 1]
         /\ \A i \in DOMAIN q : i = 1 \/ (i - 1 \in DOMAIN Tail(q) /\ Tail(q)[i - 1] = q[i])
         /\ \A i \in DOMAIN q : i \in 1..Len(q)
         /\ Len(q) = 1 => Tail(q) = <<>>
<1>1. /\ Tail(q) \in Seq(S) /\ Len(Tail(q)) = Len(q) - 1 /\ Len(q) \in Nat \ {0}
      /\ Head(q) = q[1] /\ \A i \in 1..(Len(q) - 1) : Tail(q)[i] = q[i + 1]
  BY HeadTailProperties, EmptySeq
<1>2. DOMAIN q = 1..Len(q) /\ DOMAIN Tail(q) = 1..(Len(q) - 1)
  BY <1>1, LenProperties
<1>3. Len(q) = 1 => Tail(q) = <<>>
  <2>1. Tail(q) \in Seq(S) /\ (Len(q) = 1 => Len(Tail(q)) = 0)
    BY <1>1
  <2> QED
    BY <2>1, EmptySeq
<1> QED
  BY <1>1, <1>2, <1>3

\* The queue as Logging sees it.
LEMMA TheQueue ==
  ASSUME QueueInv
  PROVE  /\ Items \in Seq(Slot) /\ Worker \in Poppers
         /\ op \in [Threads \cup {Worker} -> Op]
         /\ op[Worker].at = "done" => Taken[Worker] = op[Worker].msg
         /\ \A m : Fifo!Put(m) => Items' = Append(Items, m) /\ Taken' = Taken
         /\ Fifo!Take(Worker) =>
              /\ Items # <<>> /\ Items' = Tail(Items) /\ Taken'[Worker] = Head(Items)
         /\ UNCHANGED Fifo!vars => Items' = Items /\ Taken' = Taken
<1>1. Worker \in Poppers /\ op \in [Threads \cup {Worker} -> Op]
  BY Roles DEF QueueInv, TypeInv
<1>2. op[Worker].at = "done" => Taken[Worker] = op[Worker].msg
  BY <1>1 DEF Taken
<1>3. Fifo!Take(Worker) => Taken'[Worker] = Head(Items)
  <2>1. Taken = [t \in Poppers |-> Taken[t]]
    BY DEF Taken
  <2> QED
    BY <1>1, <2>1 DEF Fifo!Take
<1> QED
  BY <1>1, <1>2, <1>3, ItemsAreMessages DEF Fifo!Put, Fifo!Take, Fifo!vars

\* Nothing that is settled is lost by a put ...
LEMMA PutSettles ==
  ASSUME QueueInv, NEW m \in Slot, Items' = Append(Items, m), Taken' = Taken, InHand' <=> InHand,
         UNCHANGED <<holder, sink, written, worker>>
  PROVE  Settled(m)' /\ \A msg : Settled(msg) => Settled(msg)'
<1>1. /\ DOMAIN Items \subseteq DOMAIN Items' /\ \E i \in DOMAIN Items' : Items'[i] = m
      /\ \A i \in DOMAIN Items : Items'[i] = Items[i]
  BY TheQueue, Appended
<1> QED
  BY <1>1 DEF Settled

\* ... nor by a take.
LEMMA TakeSettles ==
  ASSUME QueueInv, Fifo!Take(Worker), ~InHand, InHand',
         UNCHANGED <<holder, sink, written, worker>>
  PROVE  \A msg : Settled(msg) => Settled(msg)'
<1>1. /\ Taken'[Worker] = Items[1]
      /\ \A i \in DOMAIN Items : i = 1 \/ \E j \in DOMAIN Items' : Items'[j] = Items[i]
  <2>1. Items \in Seq(Slot) /\ Items # <<>> /\ Items' = Tail(Items) /\ Taken'[Worker] = Head(Items)
    BY TheQueue
  <2>2. Head(Items) = Items[1]
    BY <2>1, Shifted
  <2>3. \A i \in DOMAIN Items : i = 1 \/ (i - 1 \in DOMAIN Tail(Items) /\ Tail(Items)[i - 1] = Items[i])
    BY <2>1, Shifted
  <2> QED
    BY <2>1, <2>2, <2>3
<1> SUFFICES ASSUME NEW msg, Settled(msg), msg.kind = "log" PROVE Settled(msg)'
  BY DEF Settled
<1>2. CASE \E i \in DOMAIN Items : Items[i] = msg
  BY <1>1, <1>2 DEF Settled
<1>3. CASE ~ \E i \in DOMAIN Items : Items[i] = msg
  BY <1>3 DEF Settled
<1> QED
  BY <1>2, <1>3

\* A step inside push_msg.
LEMMA PushKeeps ==
  ASSUME QueueInv, LogInv, NEW t \in Threads, push_step(t)
  PROVE  LogInv' /\ QueueInv' /\ [Fifo!Next]_(Fifo!vars)
<1>1. /\ QueueInv' /\ op'[t].msg = op[t].msg
      /\ \A u \in Threads \cup {Worker} : u # t => op'[u] = op[u]
      /\ \/ /\ op[t].at = "claim" /\ op'[t].at = "write"
            /\ Fifo!Put(op[t].msg) /\ op[t].msg \in Message
         \/ /\ op[t].at \in {"look", "claim"} /\ op'[t].at \in {"look", "claim", "full"}
            /\ UNCHANGED Fifo!vars
         \/ /\ op[t].at \in {"write", "publish"} /\ op'[t].at \in {"publish", "done"}
            /\ UNCHANGED Fifo!vars
  BY PushStep, Roles DEF push_step
<1>2. /\ UNCHANGED <<fvars, mode, lives, call, holder, dying, helper, accepted, written>>
      /\ op'[Worker] = op[Worker] /\ (InHand' <=> InHand) /\ t # Worker
      /\ mode = "async" /\ op[t].at # "idle" /\ op'[t].at # "idle"
  BY <1>1, Roles DEF push_step, InHand, LogInv, LifeInv
<1>3. SinkInv'
  BY <1>2 DEF LogInv, SinkInv, fvars, helper
<1>4. [Fifo!Next]_(Fifo!vars)
  BY <1>1 DEF Fifo!Next
<1>5. CASE UNCHANGED Fifo!vars /\ (op'[t].at \in {"write", "publish", "done"}
             => op[t].at \in {"write", "publish", "done"})
  <2>1. Items' = Items /\ Taken' = Taken
    BY <1>5, TheQueue
  <2>2. LifeInv' /\ WorkerInv'
    BY <1>2, <2>1 DEF LogInv, LifeInv, WorkerInv, fvars, helper, InHand
  <2>3. Terminating' <=> Terminating
    BY <1>2, <2>1 DEF Terminating, helper
  <2>4. ClosingInv' /\ LastInv'
    BY <1>1, <1>2, <2>1, <2>3, Roles DEF LogInv, ClosingInv, LastInv, helper
  <2>5. \A m : Settled(m) => Settled(m)'
    BY <1>2, <2>1 DEF Settled, fvars, helper
  <2>6. DeliveryInv'
    BY <1>1, <1>2, <1>5, <2>5, Roles DEF LogInv, DeliveryInv
  <2> QED
    BY <1>1, <1>3, <1>4, <2>2, <2>4, <2>6 DEF LogInv
<1>6. CASE op[t].at = "claim" /\ op'[t].at = "write" /\ Fifo!Put(op[t].msg) /\ op[t].msg \in Message
  <2> SUFFICES ASSUME NEW m \in Message, m = op[t].msg PROVE LogInv'
    BY <1>1, <1>4, <1>6
  <2>1. Items \in Seq(Slot) /\ m \in Slot /\ Items' = Append(Items, m) /\ Taken' = Taken
    BY <1>6, TheQueue DEF Slot
  <2>2. /\ Len(Items') = Len(Items) + 1
        /\ \A i \in DOMAIN Items' : i = Len(Items') \/ (i \in DOMAIN Items /\ Items'[i] = Items[i])
        /\ Items'[Len(Items')] = m
    BY <2>1, Appended
  <2>3. ~Terminating /\ ~terminate_requested
    BY <1>6 DEF LogInv, LastInv, Terminating
  <2>4. LifeInv' /\ WorkerInv'
    BY <1>2, <2>3 DEF LogInv, LifeInv, WorkerInv, fvars, helper, InHand
  <2>5. \A i \in DOMAIN Items' : Items'[i].kind = "terminate" => i = Len(Items') /\ m.kind = "terminate"
    BY <2>2, <2>3 DEF Terminating
  <2>6. Terminating' => m.kind = "terminate"
    BY <1>2, <2>1, <2>3, <2>5 DEF Terminating, helper
  <2>7. ClosingInv'
    BY <1>1, <1>2, <2>6, Roles DEF LogInv, ClosingInv, helper
  <2>8. m.kind = "terminate" => \A u \in Threads : u # t => op[u].at = "idle"
    BY <1>2 DEF LogInv, ClosingInv
  <2>9. LastInv'
    <3>1. ~ (InHand' /\ Taken'[Worker].kind = "terminate")
      BY <1>2, <2>1, <2>3 DEF Terminating
    <3> QED
      BY <1>1, <1>6, <2>5, <2>6, <2>8, <3>1, Roles DEF LastInv
  <2>10. Settled(m)' /\ \A msg : Settled(msg) => Settled(msg)'
    BY <1>2, <2>1, PutSettles DEF fvars, helper
  <2>11. DeliveryInv'
    BY <1>1, <1>2, <2>10, Roles DEF LogInv, DeliveryInv
  <2> QED
    BY <1>3, <2>4, <2>7, <2>9, <2>11 DEF LogInv
<1> QED
  BY <1>1, <1>5, <1>6

\* A call of the logger begins, or its destructor's: the message is a new one.
LEMMA CallKeeps ==
  ASSUME QueueInv, LogInv, NEW t \in Threads, NEW kind \in {"log", "flush", "terminate"},
         mode = "async", closing = "no", call[t] < MaxCalls, enqueue(t, Next1(t, kind)),
         NEW n \in {call[t] + 1, MaxCalls}, call' = [call EXCEPT ![t] = n],
         \/ kind # "terminate" /\ closing' = "no"
         \/ kind = "terminate" /\ closing' = "push" /\ t = Owner
              /\ \A u \in Threads : op[u].at = "idle",
         UNCHANGED <<fvars, mode, holder, bad, worker, flush_requested, terminate_requested,
                     accepted, written>>
  PROVE  LogInv' /\ QueueInv' /\ [Fifo!Next]_(Fifo!vars)
<1>1. call[t] \in 0..MaxCalls /\ call[t] + 1 \in 1..MaxCalls /\ n \in 0..MaxCalls
  BY Roles DEF LogInv, LifeInv
<1> DEFINE m == Next1(t, kind)
<1>2. m \in Message /\ m.kind = kind
  BY <1>1, MessageAssumption DEF Next1, Msg
<1> HIDE DEF m
<1>3. QueueInv' /\ Items' = Items /\ Taken' = Taken /\ UNCHANGED Fifo!vars
  BY <1>2, Enqueue, TheQueue, Roles DEF m
<1>4. /\ op'[t].at = "look" /\ op'[t].msg = m /\ t # Worker
      /\ \A u \in Threads \cup {Worker} : u # t => op'[u] = op[u]
  BY TheQueue, Roles DEF enqueue, m
<1>5. (InHand' <=> InHand) /\ op'[Worker] = op[Worker]
  BY <1>4 DEF InHand
<1>6. LifeInv'
  BY <1>1 DEF LogInv, LifeInv
<1>7. SinkInv' /\ WorkerInv'
  BY <1>3, <1>5 DEF LogInv, SinkInv, WorkerInv, fvars
<1>8. ~Terminating /\ ~Terminating'
  BY <1>3, <1>5 DEF LogInv, ClosingInv, Terminating
<1>9. ClosingInv'
  BY <1>2, <1>4, <1>8 DEF LogInv, ClosingInv
<1>10. LastInv'
  BY <1>3, <1>5, <1>8 DEF LogInv, LastInv
<1>11. \A msg : Settled(msg) => Settled(msg)'
  BY <1>3, <1>5 DEF Settled, fvars
<1>12. DeliveryInv'
  BY <1>4, <1>11 DEF LogInv, DeliveryInv
<1> QED
  BY <1>3, <1>6, <1>7, <1>9, <1>10, <1>12 DEF LogInv

LEMMA LogAsyncKeeps ==
  ASSUME QueueInv, LogInv, NEW t \in Threads, log_async(t)
  PROVE  LogInv' /\ QueueInv' /\ [Fifo!Next]_(Fifo!vars)
<1> PICK kind \in {"log", "flush"} : push_msg(t, Next1(t, kind))
  BY DEF log_async
<1>1. call' = [call EXCEPT ![t] = call[t] + 1]
  BY DEF log_async
<1> QED
  BY <1>1, CallKeeps DEF log_async, push_msg, helper

LEMMA DestroyKeeps ==
  ASSUME QueueInv, LogInv, destroy
  PROVE  LogInv' /\ QueueInv' /\ [Fifo!Next]_(Fifo!vars)
BY CallKeeps, Roles DEF destroy, push_msg

\* The message of a call that returns was settled when it was put.
LEMMA ReturnKeeps ==
  ASSUME QueueInv, LogInv, NEW t \in Threads, push_returns(t)
  PROVE  LogInv' /\ QueueInv' /\ [Fifo!Next]_(Fifo!vars)
<1>1. QueueInv' /\ Items' = Items /\ Taken' = Taken /\ UNCHANGED Fifo!vars
  BY Return, TheQueue, Roles DEF push_returns
<1>2. /\ op'[t].at = "idle" /\ t # Worker
      /\ \A u \in Threads \cup {Worker} : u # t => op'[u] = op[u]
      /\ op[t].at # "idle"
  BY TheQueue, Roles DEF push_returns, return, Op
<1>3. (InHand' <=> InHand) /\ op'[Worker] = op[Worker] /\ mode = "async"
  BY <1>2 DEF InHand, LogInv, LifeInv
<1>4. /\ UNCHANGED <<fvars, mode, lives, call, holder, dying, bad, worker, flush_requested,
                     terminate_requested, written>>
      /\ closing' = IF op[t].msg.kind = "terminate" THEN "join" ELSE closing
  BY DEF push_returns
<1>5. LifeInv' /\ SinkInv' /\ WorkerInv'
  BY <1>1, <1>3, <1>4 DEF LogInv, LifeInv, SinkInv, WorkerInv, fvars
<1>6. Terminating' <=> Terminating
  BY <1>1, <1>3, <1>4 DEF Terminating
<1>7. ClosingInv'
  <2>1. closing \in {"no", "push"}
    BY <1>2 DEF LogInv, ClosingInv
  <2>2. CASE op[t].msg.kind = "terminate"
    BY <1>2, <1>4, <2>1, <2>2, Roles DEF LogInv, ClosingInv
  <2>3. CASE op[t].msg.kind # "terminate"
    BY <1>2, <1>4, <1>6, <2>1, <2>3 DEF LogInv, ClosingInv
  <2> QED
    BY <2>2, <2>3
<1>8. LastInv'
  BY <1>1, <1>2, <1>3, <1>6 DEF LogInv, LastInv
<1>9. \A m : Settled(m) => Settled(m)'
  BY <1>1, <1>3, <1>4 DEF Settled, fvars
<1>10. DeliveryInv'
  <2>1. \A m \in accepted' : Settled(m)
    BY DEF push_returns, LogInv, DeliveryInv
  <2> QED
    BY <1>2, <1>9, <2>1 DEF LogInv, DeliveryInv
<1> QED
  BY <1>1, <1>5, <1>7, <1>8, <1>10 DEF LogInv

\* The queue was full, and the caller looks again.
LEMMA RetryKeeps ==
  ASSUME QueueInv, LogInv, NEW t \in Threads, push_retries(t)
  PROVE  LogInv' /\ QueueInv' /\ [Fifo!Next]_(Fifo!vars)
<1>1. /\ op[t].at = "full" /\ t \in Pushers /\ t \notin Poppers /\ TypeInv /\ PushInv(t)
      /\ UNCHANGED <<sequence, data, enqueue_pos, dequeue_pos>>
  BY Roles DEF push_retries, QueueInv
<1>2. Moves(t, "look", enqueue_pos, op[t].msg)
  BY <1>1, FieldsMove, Positions DEF push_retries, Op, Slot
<1>3. QueueInv'
  BY <1>1, <1>2, QuietPush, Positions DEF PushInv, Writing
<1>4. Items' = Items /\ Taken' = Taken /\ UNCHANGED Fifo!vars
  BY <1>1, <1>2, <1>3, UnseenStep, TheQueue
<1>5. /\ op'[t].at = "look" /\ op'[t].msg = op[t].msg /\ t # Worker
      /\ \A u \in Threads \cup {Worker} : u # t => op'[u] = op[u]
  BY <1>2, Roles DEF Moves
<1>6. (InHand' <=> InHand) /\ op'[Worker] = op[Worker] /\ mode = "async"
  BY <1>1, <1>5 DEF InHand, LogInv, LifeInv
<1>7. UNCHANGED <<fvars, mode, lives, call, holder, dying, helper, accepted, written>>
  BY DEF push_retries
<1>8. LifeInv' /\ SinkInv' /\ WorkerInv'
  BY <1>4, <1>6, <1>7 DEF LogInv, LifeInv, SinkInv, WorkerInv, fvars, helper
<1>9. Terminating' <=> Terminating
  BY <1>4, <1>6, <1>7 DEF Terminating, helper
<1>10. ClosingInv' /\ LastInv'
  BY <1>1, <1>4, <1>5, <1>6, <1>7, <1>9 DEF LogInv, ClosingInv, LastInv, helper
<1>11. \A m : Settled(m) => Settled(m)'
  BY <1>4, <1>6, <1>7 DEF Settled, fvars, helper
<1>12. DeliveryInv'
  BY <1>5, <1>7, <1>11 DEF LogInv, DeliveryInv
<1> QED
  BY <1>3, <1>4, <1>8, <1>10, <1>12 DEF LogInv

\* The callers are where they were when the worker moves.
LEMMA WorkersMove ==
  ASSUME QueueInv, LogInv, worker = "loop", \A u \in Threads : op'[u] = op[u],
         UNCHANGED <<mode, call, accepted>>
  PROVE  /\ mode' = "async" /\ mode = "async" /\ LifeInv'
         /\ (\A m : Settled(m) => Settled(m)') => DeliveryInv'
<1>1. mode = "async"
  BY DEF LogInv, LifeInv
<1>2. LifeInv'
  BY <1>1 DEF LogInv, LifeInv
<1> QED
  BY <1>1, <1>2 DEF LogInv, DeliveryInv

LEMMA DequeueKeeps ==
  ASSUME QueueInv, LogInv, process_next_msg
  PROVE  LogInv' /\ QueueInv' /\ [Fifo!Next]_(Fifo!vars)
<1>1. QueueInv' /\ Items' = Items /\ Taken' = Taken /\ UNCHANGED Fifo!vars
  BY Dequeue, TheQueue, Roles DEF process_next_msg
<1>2. /\ op'[Worker].at = "look" /\ op[Worker].at = "idle" /\ worker = "loop"
      /\ \A u \in Threads : op'[u] = op[u]
  BY TheQueue, Roles DEF process_next_msg, dequeue, Op
<1>3. UNCHANGED <<fvars, mode, lives, call, holder, dying, helper, accepted, written>>
  BY DEF process_next_msg
<1>4. ~InHand /\ ~InHand'
  BY <1>2 DEF InHand
<1>5. Terminating' <=> Terminating
  BY <1>1, <1>3, <1>4 DEF Terminating, helper
<1>6. SinkInv' /\ WorkerInv'
  BY <1>1, <1>2, <1>3, <1>4 DEF LogInv, SinkInv, WorkerInv, fvars, helper
<1>7. ClosingInv' /\ LastInv'
  BY <1>1, <1>2, <1>3, <1>4, <1>5 DEF LogInv, ClosingInv, LastInv, helper
<1>8. \A m : Settled(m) => Settled(m)'
  BY <1>1, <1>3, <1>4 DEF Settled, fvars, helper
<1> QED
  BY <1>1, <1>2, <1>3, <1>6, <1>7, <1>8, WorkersMove DEF LogInv

LEMMA PopKeeps ==
  ASSUME QueueInv, LogInv, pop_step
  PROVE  LogInv' /\ QueueInv' /\ [Fifo!Next]_(Fifo!vars)
<1>1. /\ QueueInv' /\ \A u \in Threads : op'[u] = op[u]
      /\ \/ op[Worker].at = "claim" /\ op'[Worker].at = "read" /\ Fifo!Take(Worker)
         \/ /\ op[Worker].at \in {"look", "claim"} /\ op'[Worker].at \in {"look", "claim", "empty"}
            /\ UNCHANGED Fifo!vars
         \/ /\ op[Worker].at \in {"read", "release"} /\ op'[Worker].at \in {"release", "done"}
            /\ UNCHANGED Fifo!vars
  BY PopStep, Roles DEF pop_step
<1>2. UNCHANGED <<fvars, mode, lives, call, holder, dying, helper, accepted, written>>
  BY DEF pop_step
<1>3. worker = "loop"
  BY <1>1 DEF LogInv, WorkerInv
<1>4. SinkInv'
  BY <1>2 DEF LogInv, SinkInv, fvars, helper
<1>5. [Fifo!Next]_(Fifo!vars)
  BY <1>1, Roles DEF Fifo!Next
<1>6. CASE UNCHANGED Fifo!vars /\ (InHand' <=> InHand)
  <2>1. Items' = Items /\ Taken' = Taken
    BY <1>6, TheQueue
  <2>2. WorkerInv'
    BY <1>2, <1>3, <1>6, <2>1 DEF LogInv, WorkerInv, fvars, helper
  <2>3. Terminating' <=> Terminating
    BY <1>2, <1>6, <2>1 DEF Terminating, helper
  <2>4. ClosingInv' /\ LastInv'
    BY <1>1, <1>2, <1>6, <2>1, <2>3 DEF LogInv, ClosingInv, LastInv, helper
  <2>5. \A m : Settled(m) => Settled(m)'
    BY <1>2, <1>6, <2>1 DEF Settled, fvars, helper
  <2> QED
    BY <1>1, <1>2, <1>3, <1>4, <1>5, <2>2, <2>4, <2>5, WorkersMove DEF LogInv
<1>7. CASE op[Worker].at = "claim" /\ op'[Worker].at = "read" /\ Fifo!Take(Worker)
  <2>1. ~InHand /\ InHand'
    BY <1>7 DEF InHand
  <2>2. Items \in Seq(Slot) /\ Items # <<>> /\ Items' = Tail(Items) /\ Taken'[Worker] = Head(Items)
    BY <1>7, TheQueue
  <2>3. /\ Len(Items') = Len(Items) - 1 /\ Len(Items) \in Nat /\ Head(Items) = Items[1]
        /\ 1 \in DOMAIN Items /\ (Len(Items) = 1 => Items' = <<>>)
        /\ \A i \in DOMAIN Items' : i + 1 \in DOMAIN Items /\ Items'[i] = Items[i + 1]
        /\ \A i \in DOMAIN Items : i \in 1..Len(Items)
    BY <2>2, Shifted
  <2>4. ~terminate_requested /\ ~terminate_requested'
    BY <1>2, <2>2 DEF LogInv, WorkerInv, helper
  <2>5. WorkerInv'
    BY <1>2, <1>3, <2>4 DEF LogInv, WorkerInv, fvars, helper
  <2>6. Terminating' => Terminating
    BY <2>2, <2>3, <2>4 DEF Terminating
  <2>7. ClosingInv'
    BY <1>1, <1>2, <2>6 DEF LogInv, ClosingInv, helper
  <2>8. LastInv'
    <3>1. Terminating' => \A t \in Threads : op'[t].at \in {"idle", "write", "publish", "done"}
      BY <1>1, <2>6 DEF LogInv, LastInv
    <3>2. \A i \in DOMAIN Items' : Items'[i].kind = "terminate" => i = Len(Items')
      <4> SUFFICES ASSUME NEW i \in DOMAIN Items', Items'[i].kind = "terminate"
                   PROVE  i = Len(Items')
        OBVIOUS
      <4>1. i + 1 \in DOMAIN Items /\ Items[i + 1].kind = "terminate"
        BY <2>3
      <4>2. i + 1 = Len(Items)
        BY <4>1 DEF LogInv, LastInv
      <4>3. i \in Nat
        <5>1. Items' \in Seq(Slot)
          BY <1>1, TheQueue, ItemsAreMessages, <2>2, HeadTailProperties
        <5> QED
          BY <5>1, LenProperties
      <4> QED
        BY <2>3, <4>2, <4>3
    <3>3. Taken'[Worker].kind = "terminate" => Items' = <<>>
      BY <2>2, <2>3 DEF LogInv, LastInv
    <3> QED
      BY <3>1, <3>2, <3>3 DEF LastInv
  <2>9. \A m : Settled(m) => Settled(m)'
    BY <1>2, <1>7, <2>1, TakeSettles DEF fvars, helper
  <2> QED
    BY <1>1, <1>2, <1>3, <1>4, <1>5, <2>5, <2>7, <2>8, <2>9, WorkersMove DEF LogInv
<1> QED
  BY <1>1, <1>6, <1>7 DEF InHand

\* The worker takes the result of dequeue_msg.
LEMMA WorkerReturns ==
  ASSUME QueueInv, LogInv, return(Worker)
  PROVE  /\ QueueInv' /\ Items' = Items /\ Taken' = Taken /\ UNCHANGED Fifo!vars
         /\ \A u \in Threads : op'[u] = op[u]
         /\ op'[Worker].at = "idle" /\ ~InHand'
         /\ worker = "loop" /\ holder = None
<1>1. /\ \A u \in Threads : op'[u] = op[u]
      /\ op'[Worker].at = "idle" /\ op[Worker].at # "idle"
  BY TheQueue, Roles DEF return, Op
<1>2. worker = "loop" /\ holder = None
  BY <1>1 DEF LogInv, WorkerInv, SinkInv, LifeInv
<1> QED
  BY <1>1, <1>2, Return, TheQueue DEF InHand

LEMMA RequestKeeps ==
  ASSUME QueueInv, LogInv, process_request
  PROVE  LogInv' /\ QueueInv' /\ [Fifo!Next]_(Fifo!vars)
<1> DEFINE kind == op[Worker].msg.kind
<1>1. /\ QueueInv' /\ Items' = Items /\ Taken' = Taken /\ UNCHANGED Fifo!vars
      /\ \A u \in Threads : op'[u] = op[u]
      /\ op'[Worker].at = "idle" /\ ~InHand' /\ worker = "loop"
  BY WorkerReturns DEF process_request
<1>2. /\ UNCHANGED <<fvars, mode, lives, call, holder, dying, bad, worker, closing, accepted,
                     written>>
      /\ flush_requested' = TRUE
      /\ terminate_requested' = (terminate_requested \/ kind = "terminate")
      /\ InHand /\ Taken[Worker].kind = kind /\ kind # "log"
  BY TheQueue DEF process_request, InHand
<1> HIDE DEF kind
<1>3. ~terminate_requested /\ (kind = "terminate" => Items = <<>>)
  BY <1>2 DEF LogInv, WorkerInv, LastInv
<1>4. SinkInv' /\ WorkerInv'
  BY <1>1, <1>2, <1>3 DEF LogInv, SinkInv, WorkerInv, fvars
<1>5. Terminating' => Terminating
  BY <1>1, <1>2, <1>3 DEF Terminating
<1>6. ClosingInv' /\ LastInv'
  BY <1>1, <1>2, <1>5 DEF LogInv, ClosingInv, LastInv
<1>7. \A m : Settled(m) => Settled(m)'
  BY <1>1, <1>2 DEF Settled, fvars
<1> QED
  BY <1>1, <1>2, <1>4, <1>6, <1>7, WorkersMove DEF LogInv

LEMMA ProcessLogKeeps ==
  ASSUME QueueInv, LogInv, process_log
  PROVE  LogInv' /\ QueueInv' /\ [Fifo!Next]_(Fifo!vars)
<1>1. /\ QueueInv' /\ Items' = Items /\ Taken' = Taken /\ UNCHANGED Fifo!vars
      /\ \A u \in Threads : op'[u] = op[u]
      /\ op'[Worker].at = "idle" /\ ~InHand' /\ worker = "loop" /\ holder = None
  BY WorkerReturns DEF process_log
<1>2. /\ InHand /\ Taken[Worker] = op[Worker].msg /\ op[Worker].msg \in Slot
      /\ op[Worker].msg.kind = "log"
  BY TheQueue, Roles DEF process_log, InHand, Op
<1>3. /\ sink' \in SinkCall /\ sink'.at # "ready" /\ sink'.rec = op[Worker].msg
      /\ UNCHANGED <<mode, lives, call, dying, bad, flush_requested, terminate_requested,
                     closing, accepted, written>>
      /\ holder' = Worker /\ worker' = "log"
  BY <1>2, SinkCalled DEF process_log
<1>4. ~terminate_requested
  BY <1>2 DEF LogInv, WorkerInv
<1>5. WorkerInv'
  BY <1>1, <1>3, <1>4 DEF WorkerInv
<1>6. SinkInv'
  BY <1>1, <1>2, <1>3, Roles DEF LogInv, SinkInv
<1>7. Terminating' => Terminating
  BY <1>1, <1>3 DEF Terminating
<1>8. ClosingInv' /\ LastInv'
  BY <1>1, <1>3, <1>7 DEF LogInv, ClosingInv, LastInv
<1>9. \A m : Settled(m) => Settled(m)'
  BY <1>1, <1>2, <1>3, Roles DEF Settled
<1> QED
  BY <1>1, <1>3, <1>5, <1>6, <1>8, <1>9, WorkersMove DEF LogInv

LEMMA EmptyKeeps ==
  ASSUME QueueInv, LogInv, process_empty
  PROVE  LogInv' /\ QueueInv' /\ [Fifo!Next]_(Fifo!vars)
<1>1. /\ QueueInv' /\ Items' = Items /\ Taken' = Taken /\ UNCHANGED Fifo!vars
      /\ \A u \in Threads : op'[u] = op[u]
      /\ op'[Worker].at = "idle" /\ ~InHand' /\ worker = "loop" /\ holder = None
  BY WorkerReturns DEF process_empty
<1>2. ~InHand
  BY DEF process_empty, InHand
<1>3. /\ UNCHANGED <<sink, mode, lives, call, holder, dying, bad, terminate_requested, closing,
                     accepted, written>>
      /\ flush_requested => buffered' = 0
      /\ worker' = IF terminate_requested THEN "ended" ELSE "loop"
  <2>1. CASE flush_requested /\ flush_file
    BY <2>1 DEF process_empty, flush_file, WriteOut
  <2>2. CASE ~flush_requested /\ UNCHANGED fvars
    BY <2>2 DEF process_empty, fvars
  <2> QED
    BY <2>1, <2>2 DEF process_empty
<1>4. SinkInv' /\ WorkerInv'
  BY <1>1, <1>3 DEF LogInv, SinkInv, WorkerInv
<1>5. Terminating' <=> Terminating
  BY <1>1, <1>2, <1>3 DEF Terminating
<1>6. ClosingInv' /\ LastInv'
  BY <1>1, <1>3, <1>5 DEF LogInv, ClosingInv, LastInv
<1>7. \A m : Settled(m) => Settled(m)'
  BY <1>1, <1>2, <1>3 DEF Settled
<1> QED
  BY <1>1, <1>3, <1>4, <1>6, <1>7, WorkersMove DEF LogInv

LEMMA WorkerFailsKeeps ==
  ASSUME QueueInv, LogInv, worker_fails
  PROVE  LogInv' /\ QueueInv' /\ [Fifo!Next]_(Fifo!vars)
<1>1. /\ UNCHANGED <<buffered, mode, lives, call, flush_requested, terminate_requested, closing,
                     accepted, written>>
      /\ worker' = "failed" /\ holder' = None /\ sink'.at = "ready" /\ sink' \in SinkCall
  <2>1. CASE return(Worker) /\ UNCHANGED sink
    BY <2>1, WorkerReturns DEF worker_fails, LogInv, SinkInv
  <2>2. CASE sink' = NoCall
    BY <2>2, NoCallTyped DEF worker_fails, NoCall
  <2> QED
    BY <2>1, <2>2 DEF worker_fails
<1>2. /\ QueueInv' /\ Items' = Items /\ Taken' = Taken /\ UNCHANGED Fifo!vars
      /\ \A u \in Threads : op'[u] = op[u]
      /\ op'[Worker].at = "idle" /\ ~InHand' /\ worker \in {"loop", "log"}
      /\ ~terminate_requested
  <2>1. CASE op[Worker].at = "done" /\ return(Worker)
    BY <2>1, WorkerReturns DEF LogInv, WorkerInv, InHand
  <2>2. CASE sink.at = "throw" /\ holder = Worker /\ UNCHANGED qvars
    <3>1. worker = "log" /\ op[Worker].at = "idle" /\ ~terminate_requested
      BY <2>2 DEF LogInv, SinkInv, WorkerInv
    <3>2. QueueInv'
      BY <2>2 DEF qvars, QueueInv, TypeInv, RingInv, PushInv, PopInv, Writing, Reading
    <3>3. UNCHANGED Fifo!vars
      BY <2>2 DEF qvars, Fifo!vars, Items, Taken, MessageAt, Writer
    <3> QED
      BY <2>2, <3>1, <3>2, <3>3, TheQueue DEF qvars, InHand
  <2> QED
    BY <2>1, <2>2 DEF worker_fails
<1>3. mode = "async" /\ LifeInv'
  BY <1>1, <1>2 DEF LogInv, LifeInv
<1>4. SinkInv' /\ WorkerInv'
  BY <1>1, <1>2, Roles DEF LogInv, SinkInv, WorkerInv
<1>5. Terminating' => Terminating
  BY <1>1, <1>2 DEF Terminating
<1>6. ClosingInv' /\ LastInv'
  BY <1>1, <1>2, <1>5 DEF LogInv, ClosingInv, LastInv
<1>7. DeliveryInv'
  BY <1>1 DEF DeliveryInv, Settled
<1> QED
  BY <1>2, <1>3, <1>4, <1>6, <1>7 DEF LogInv

-----------------------------------------------------------------------------
(* The steps in which the queue is left alone.                             *)

LEMMA QueueStays ==
  ASSUME QueueInv, UNCHANGED qvars
  PROVE  /\ QueueInv' /\ UNCHANGED Fifo!vars /\ Items' = Items /\ Taken' = Taken
         /\ op' = op /\ (InHand' <=> InHand)
<1>1. QueueInv'
  BY DEF qvars, QueueInv, TypeInv, RingInv, PushInv, PopInv, Writing, Reading
<1>2. UNCHANGED Fifo!vars
  BY DEF qvars, Fifo!vars, Items, Taken, MessageAt, Writer
<1> QED
  BY <1>1, <1>2, TheQueue DEF qvars, InHand

LEMMA LogSyncKeeps ==
  ASSUME QueueInv, LogInv, NEW t \in Threads, log_sync(t)
  PROVE  LogInv' /\ QueueInv' /\ [Fifo!Next]_(Fifo!vars)
<1>1. /\ QueueInv' /\ UNCHANGED Fifo!vars /\ Items' = Items /\ Taken' = Taken
      /\ op' = op /\ (InHand' <=> InHand)
  BY QueueStays DEF log_sync
<1>2. call[t] \in 0..MaxCalls /\ call[t] + 1 \in 1..MaxCalls
  BY Roles DEF log_sync, LogInv, LifeInv
<1>3. Next1(t, "log") \in Slot
  BY <1>2, MessageAssumption DEF Next1, Msg, Slot
<1>4. /\ UNCHANGED <<mode, lives, dying, helper, accepted, written>>
      /\ mode = "sync" /\ holder = None /\ holder' = t
      /\ sink' \in SinkCall /\ sink'.at # "ready" /\ sink'.rec = Next1(t, "log") /\ call' = [call EXCEPT ![t] = call[t] + 1]
  BY <1>3, SinkCalled DEF log_sync
<1>5. LifeInv'
  BY <1>1, <1>2, <1>4 DEF LogInv, LifeInv, helper
<1>6. SinkInv' /\ WorkerInv'
  BY <1>1, <1>3, <1>4, Roles DEF LogInv, LifeInv, SinkInv, WorkerInv, helper
<1>7. ClosingInv' /\ LastInv'
  BY <1>1, <1>4 DEF LogInv, ClosingInv, LastInv, Terminating, helper
<1>8. DeliveryInv'
  BY <1>1, <1>4 DEF LogInv, LifeInv, DeliveryInv, helper
<1> QED
  BY <1>1, <1>5, <1>6, <1>7, <1>8 DEF LogInv

LEMMA SinkKeeps ==
  ASSUME QueueInv, LogInv, sink_step
  PROVE  LogInv' /\ QueueInv' /\ [Fifo!Next]_(Fifo!vars)
<1>1. /\ QueueInv' /\ UNCHANGED Fifo!vars /\ Items' = Items /\ Taken' = Taken
      /\ op' = op /\ (InHand' <=> InHand)
  BY QueueStays DEF sink_step
<1>2. UNCHANGED <<mode, lives, call, dying, bad, flush_requested, terminate_requested, closing,
                  accepted>>
  BY DEF sink_step
<1>3. holder # None /\ sink.rec \in Slot /\ written \in Seq(Slot) /\ worker # "ended"
  <2>1. sink.at \in {"rotate", "write"}
    BY DEF sink_step, Sinking, remove, rename, reopen, write
  <2> QED
    BY <2>1 DEF LogInv, LifeInv, SinkInv, WorkerInv
<1>4. sink' \in SinkCall /\ (sink'.at # "ready" => sink'.rec = sink.rec)
  <2> USE FileAssumption DEF LogInv, SinkInv, SinkCall
  <2>1. CASE remove
    BY <2>1 DEF remove, Throw
  <2>2. CASE rename
    <3>1. CASE sink' = [sink EXCEPT !.i = sink.i - 1]
      BY <2>2, <3>1 DEF rename
    <3>2. CASE Throw
      BY <3>2 DEF Throw
    <3> QED
      BY <2>2, <3>1, <3>2 DEF rename
  <2>3. CASE reopen
    BY <2>3 DEF reopen, Throw
  <2>4. CASE write
    BY <2>4, NoCallTyped DEF write, Throw, NoCall
  <2> HIDE DEF SinkCall
  <2> QED
    BY <2>1, <2>2, <2>3, <2>4 DEF sink_step, Sinking
<1>5. CASE /\ sink'.at = "ready" /\ written' = Append(written, sink.rec) /\ holder' = None
           /\ worker' = IF holder = Worker THEN "loop" ELSE worker
  <2>1. /\ written' \in Seq(Slot) /\ \E i \in DOMAIN written' : written'[i] = sink.rec
        /\ \A i \in DOMAIN written : i \in DOMAIN written' /\ written'[i] = written[i]
    BY <1>3, <1>5, Appended
  <2>2. LifeInv'
    BY <1>1, <1>2, <1>5, Roles DEF LogInv, LifeInv, SinkInv
  <2>3. SinkInv' /\ WorkerInv'
    BY <1>1, <1>2, <1>3, <1>4, <1>5, <2>1, Roles DEF LogInv, SinkInv, WorkerInv
  <2>4. ClosingInv' /\ LastInv'
    BY <1>1, <1>2, <1>5 DEF LogInv, ClosingInv, LastInv, Terminating, SinkInv
  <2>5. \A m : Settled(m) => Settled(m)'
    BY <1>1, <1>2, <1>5, <2>1 DEF Settled, LogInv, SinkInv
  <2>6. DeliveryInv'
    BY <1>1, <1>2, <2>5 DEF LogInv, DeliveryInv
  <2> QED
    BY <1>1, <2>2, <2>3, <2>4, <2>6 DEF LogInv
<1>6. CASE sink'.at # "ready" /\ UNCHANGED <<written, holder, worker>>
  <2>1. sink'.rec = sink.rec
    BY <1>4, <1>6
  <2>2. LifeInv' /\ ClosingInv' /\ LastInv'
    BY <1>1, <1>2, <1>6 DEF LogInv, LifeInv, ClosingInv, LastInv, Terminating
  <2>3. SinkInv' /\ WorkerInv'
    BY <1>1, <1>2, <1>3, <1>4, <1>6, <2>1 DEF LogInv, SinkInv, WorkerInv
  <2>4. \A m : Settled(m) => Settled(m)'
    BY <1>1, <1>2, <1>6, <2>1 DEF Settled
  <2>5. DeliveryInv'
    BY <1>1, <1>2, <2>4 DEF LogInv, DeliveryInv
  <2> QED
    BY <1>1, <2>2, <2>3, <2>5 DEF LogInv
<1> QED
  BY <1>5, <1>6 DEF sink_step

LEMMA SyncThrowsKeeps ==
  ASSUME QueueInv, LogInv, sync_throws
  PROVE  LogInv' /\ QueueInv' /\ [Fifo!Next]_(Fifo!vars)
<1>1. /\ QueueInv' /\ UNCHANGED Fifo!vars /\ Items' = Items /\ Taken' = Taken
      /\ op' = op /\ (InHand' <=> InHand)
  BY QueueStays DEF sync_throws
<1>2. /\ UNCHANGED <<buffered, mode, call, helper, accepted, written>>
      /\ holder \in Threads /\ holder' = None /\ mode = "sync"
      /\ sink'.at = "ready" /\ sink' \in SinkCall
  BY NoCallTyped DEF sync_throws, NoCall, LogInv, SinkInv
<1>3. LifeInv' /\ SinkInv' /\ WorkerInv'
  BY <1>1, <1>2, Roles DEF LogInv, LifeInv, SinkInv, WorkerInv, helper
<1>4. ClosingInv' /\ LastInv' /\ DeliveryInv'
  BY <1>1, <1>2 DEF LogInv, LifeInv, ClosingInv, LastInv, Terminating, DeliveryInv, helper
<1> QED
  BY <1>1, <1>3, <1>4 DEF LogInv

\* The process is created.
LEMMA CreateKeeps ==
  ASSUME QueueInv, LogInv, create
  PROVE  LogInv' /\ QueueInv' /\ [Fifo!Next]_(Fifo!vars)
<1>1. /\ QueueInv' /\ UNCHANGED Fifo!vars /\ Items' = Items /\ Taken' = Taken
      /\ op' = op /\ (InHand' <=> InHand)
  BY QueueStays DEF create
<1>2. /\ UNCHANGED <<buffered, sink, call, holder, dying, bad, flush_requested,
                     terminate_requested, closing, accepted, written>>
      /\ mode = "none" /\ mode' \in {"sync", "async"}
      /\ worker' = IF mode' = "async" THEN "loop" ELSE "off"
  BY LoggingAssumption DEF create, open_sink
<1>3. /\ holder = None /\ worker = "off" /\ closing = "no" /\ ~terminate_requested
      /\ accepted = {} /\ Items = <<>> /\ \A t \in Threads \cup {Worker} : op[t].at = "idle"
  BY <1>2 DEF LogInv, LifeInv
<1>4. LifeInv' /\ SinkInv' /\ WorkerInv'
  BY <1>1, <1>2, <1>3, Roles DEF LogInv, LifeInv, SinkInv, WorkerInv
<1>5. ClosingInv' /\ LastInv' /\ DeliveryInv'
  BY <1>1, <1>2, <1>3 DEF LogInv, ClosingInv, LastInv, Terminating, DeliveryInv
<1> QED
  BY <1>1, <1>4, <1>5 DEF LogInv

\* And it ends, with everything that is not in a file.
LEMMA EndKeeps ==
  ASSUME LogInv, QueueReset, HelperReset, mode' = "none", holder' = None, sink' = NoCall,
         accepted' = {}, UNCHANGED <<call, written>>
  PROVE  LogInv' /\ QueueInv'
<1>1. QueueInv'
  <2>1. (QueueInit => QueueInv)'
    BY InitQueueInv, PTL
  <2> QED
    BY <2>1 DEF QueueReset, QueueInit
<1>2. Items' = <<>> /\ \A t \in Threads \cup {Worker} : op'[t].at = "idle"
  BY Roles DEF QueueReset, Items, AllIdle, Idle
<1>3. sink'.at = "ready" /\ sink' \in SinkCall
  BY NoCallTyped DEF NoCall
<1>4. ~InHand' /\ ~Terminating'
  BY <1>2 DEF InHand, Terminating, HelperReset
<1> QED
  BY <1>1, <1>2, <1>3, <1>4, Roles
  DEF LogInv, LifeInv, SinkInv, WorkerInv, ClosingInv, LastInv, DeliveryInv, HelperReset

LEMMA DownKeeps == ASSUME LogInv, Down PROVE LogInv' /\ QueueInv' /\ mode' = "none"
  BY EndKeeps DEF Down, end_file

LEMMA DropKeeps == ASSUME LogInv, drop PROVE LogInv' /\ QueueInv' /\ mode' = "none"
<1>1. holder = None
  BY DEF drop, LogInv, LifeInv, SinkInv, ClosingInv
<1> QED
  BY <1>1, EndKeeps DEF drop, end_file

\* The exception of the worker comes out of flush(), and the helper is joined.
LEMMA HelperKeeps ==
  ASSUME QueueInv, LogInv, (\E t \in Threads : flush_throws(t)) \/ join
  PROVE  LogInv' /\ QueueInv' /\ [Fifo!Next]_(Fifo!vars)
<1>1. /\ QueueInv' /\ UNCHANGED Fifo!vars /\ Items' = Items /\ Taken' = Taken
      /\ op' = op /\ (InHand' <=> InHand)
  BY QueueStays DEF flush_throws, join
<1>2. /\ UNCHANGED <<fvars, mode, holder, worker, flush_requested, terminate_requested, accepted,
                     written>>
      /\ \/ UNCHANGED closing
         \/ closing = "join" /\ closing' = "closed" /\ worker \in {"ended", "failed"}
  BY DEF flush_throws, join
<1>3. call' \in [Threads -> 0..MaxCalls]
  <2>1. CASE UNCHANGED call
    BY <2>1 DEF LogInv, LifeInv
  <2>2. ASSUME NEW t \in Threads, flush_throws(t) PROVE call' \in [Threads -> 0..MaxCalls]
    <3>1. call[t] + 1 \in 0..MaxCalls /\ call' = [call EXCEPT ![t] = call[t] + 1]
      BY <2>2, Roles DEF flush_throws, LogInv, LifeInv
    <3> QED
      BY <3>1 DEF LogInv, LifeInv
  <2> QED
    BY <2>1, <2>2 DEF join
<1>4. LifeInv' /\ SinkInv' /\ WorkerInv'
  BY <1>1, <1>2, <1>3 DEF LogInv, LifeInv, SinkInv, WorkerInv, fvars
<1>5. ClosingInv' /\ LastInv'
  BY <1>1, <1>2 DEF LogInv, ClosingInv, LastInv, Terminating
<1>6. DeliveryInv'
  <2>1. \A m : Settled(m) => Settled(m)'
    BY <1>1, <1>2 DEF Settled, fvars
  <2> QED
    BY <1>1, <1>2, <2>1 DEF LogInv, DeliveryInv
<1> QED
  BY <1>1, <1>4, <1>5, <1>6 DEF LogInv

-----------------------------------------------------------------------------
LEMMA InitLogInv == LoggingInit => QueueInv /\ LogInv /\ Fifo!Init
<1> SUFFICES ASSUME LoggingInit PROVE QueueInv /\ LogInv /\ Fifo!Init
  OBVIOUS
<1>1. QueueInv /\ Fifo!Init
  BY InitQueueInv, InitFifo DEF LoggingInit
<1>2. Items = <<>> /\ \A t \in Threads \cup {Worker} : op[t].at = "idle"
  BY <1>1, Roles DEF LoggingInit, QueueInit, AllIdle, Idle, Fifo!Init
<1>3. sink.at = "ready" /\ sink \in SinkCall /\ <<>> \in Seq(Slot)
  BY NoCallTyped DEF LoggingInit, FileInit, NoCall
<1>4. ~InHand /\ ~Terminating
  BY <1>2 DEF InHand, Terminating, LoggingInit, HelperInit
<1>5. call \in [Threads -> 0..MaxCalls]
  BY Roles DEF LoggingInit
<1> QED
  BY <1>1, <1>2, <1>3, <1>4, <1>5, Roles
  DEF LogInv, LifeInv, SinkInv, WorkerInv, ClosingInv, LastInv, DeliveryInv, LoggingInit, HelperInit

LEMMA LoggingStep ==
  ASSUME QueueInv, LogInv, [LoggingNext]_lvars
  PROVE  LogInv' /\ QueueInv' /\ [Fifo!Next \/ mode' = "none"]_(Fifo!vars)
<1>1. ASSUME NEW t \in Threads, Caller(t)
      PROVE  LogInv' /\ QueueInv' /\ [Fifo!Next \/ mode' = "none"]_(Fifo!vars)
  <2>1. CASE log_sync_throws(t) \/ log_async_throws(t)
    BY <2>1, DownKeeps DEF log_sync_throws, log_async_throws
  <2> QED
    BY <1>1, <2>1, LogSyncKeeps, LogAsyncKeeps, HelperKeeps, PushKeeps, ReturnKeeps, RetryKeeps
    DEF Caller
<1>2. CASE WorkerThread
  BY <1>2, DequeueKeeps, PopKeeps, RequestKeeps, ProcessLogKeeps, WorkerFailsKeeps, EmptyKeeps
  DEF WorkerThread
<1>3. CASE killed \/ terminate \/ destroy_throws
  BY <1>3, DownKeeps DEF killed, terminate, destroy_throws
<1>4. CASE UNCHANGED lvars
  <2>1. QueueInv' /\ UNCHANGED Fifo!vars /\ Items' = Items /\ Taken' = Taken
    BY <1>4, QueueStays DEF lvars
  <2>2. LogInv'
    BY <1>4, <2>1 DEF lvars, fvars, qvars, helper, LogInv, LifeInv, SinkInv, WorkerInv,
                      ClosingInv, LastInv, DeliveryInv, Settled, Terminating, InHand
  <2> QED
    BY <2>1, <2>2
<1> QED
  BY <1>1, <1>2, <1>3, <1>4, CreateKeeps, SinkKeeps, SyncThrowsKeeps, DestroyKeeps, HelperKeeps,
     DropKeeps
  DEF LoggingNext

(***************************************************************************)
(* The invariant of the logger and its queue, whatever threads log, and    *)
(* whenever its destructor's message is put.                               *)
(***************************************************************************)
THEOREM LoggingInvariance == LoggingSpec => [](QueueInv /\ LogInv)
<1>1. QueueInv /\ LogInv /\ [LoggingNext]_lvars => (QueueInv /\ LogInv)'
  BY LoggingStep
<1> QED
  BY InitLogInv, <1>1, PTL DEF LoggingSpec

(***************************************************************************)
(* Within one life the queue of async_log_helper is a FIFO queue of at     *)
(* most Size messages, although callers retry and the worker may fail.     *)
(***************************************************************************)
THEOREM LoggersQueueIsFifo == LoggingSpec => QueueIsFifo
<1>1. QueueInv /\ LogInv /\ [LoggingNext]_lvars => [Fifo!Next \/ mode' = "none"]_(Fifo!vars)
  BY LoggingStep
<1> QED
  BY InitLogInv, LoggingInvariance, <1>1, PTL DEF LoggingSpec, QueueIsFifo

(***************************************************************************)
(* ~async_log_helper: when the worker it joined has returned, all messages *)
(* the queue had taken are written and nothing is buffered any more.       *)
(***************************************************************************)
THEOREM ShutdownDeliversAll == LoggingSpec => []ShutdownDelivers
<1>1. QueueInv /\ LogInv => ShutdownDelivers
  <2> SUFFICES ASSUME QueueInv, LogInv, closing = "closed", worker = "ended"
               PROVE  /\ \A m \in accepted : m.kind = "log" => \E i \in DOMAIN written : written[i] = m
                      /\ buffered = 0
    BY DEF ShutdownDelivers
  <2>1. /\ terminate_requested /\ Items = <<>> /\ ~InHand /\ buffered = 0
        /\ holder # Worker
    BY DEF LogInv, WorkerInv, SinkInv
  <2> QED
    BY <2>1 DEF LogInv, DeliveryInv, Settled
<1> QED
  BY LoggingInvariance, <1>1, PTL

-----------------------------------------------------------------------------
(***************************************************************************)
(* The files.  That what the files hold is the end of the log needs every  *)
(* message to be passed on once: each is numbered by its thread, and waits *)
(* in the queue, is in the worker's hand, is the sink's or is written, but *)
(* only one of these (MsgInv).  The files then are in the order of the log *)
(* and newer than all that is missing, and the stream's size counts what   *)
(* file 0 holds (FileInv).                                                 *)
(***************************************************************************)

\* A message m that has been put is older than what its thread logs next.
Used(m) ==
  /\ m \in Message /\ m.from \in Threads /\ m.n \in Nat /\ m.n <= call[m.from]
  /\ op[m.from].at \in {"look", "claim", "full"} => m.n < op[m.from].msg.n

Queued(m) ==
  \/ \E i \in DOMAIN Items : Items[i] = m
  \/ InHand /\ Taken[Worker] = m

Logged(m) == \E i \in DOMAIN written : written[i] = m

CallInv ==
  \A t \in Threads : op[t].at # "idle" =>
    op[t].msg.from = t /\ op[t].msg.n \in Nat /\ op[t].msg.n <= call[t]

UsedInv ==
  /\ \A m : Queued(m) \/ Logged(m) => Used(m)
  /\ holder # None => Used(sink.rec)

OnceInv ==
  /\ \A i, j \in DOMAIN Items : Items[i] = Items[j] => i = j
  /\ InHand => \A i \in DOMAIN Items : Items[i] # Taken[Worker]
  /\ \A i, j \in DOMAIN written : written[i] = written[j] => i = j
  /\ \A m : ~ (Queued(m) /\ Logged(m))
  /\ holder # None => ~ Queued(sink.rec) /\ ~ Logged(sink.rec)

\* A file consists of records and of parts that are left of records.
Stored == Message \cup UNION {Parts(m) : m \in Message}

\* The files, and what the stream's size promises for file 0.
DiskInv ==
  /\ DOMAIN file \subseteq 0..MaxFiles
  /\ \A f \in DOMAIN file : file[f] \in Seq(Stored)
  /\ fd => 0 \in DOMAIN file /\ buffered <= Len(file[0])
  /\ ~fd => buffered = 0
  /\ buffered \in Nat /\ size \in Nat
  /\ lost \subseteq {written[i] : i \in DOMAIN written}
  /\ mode = "none" => ~fd
  /\ sink.at = "write" => fd
  /\ sink.at = "rotate" => ~fd /\ (sink.i < MaxFiles => sink.i \notin DOMAIN file)

\* What stdio buffers is whole, and nothing when every record is flushed.
BufferInv ==
  /\ force \in BOOLEAN /\ (force => buffered = 0)
  /\ buffered # 0 => \A k \in DOMAIN file[0] :
       k + buffered > Len(file[0]) => file[0][k] \in Message

SizeInv ==
  /\ mode # "none" /\ ~fd => size > MaxSize
  /\ fd => TotalBytes(file[0]) + (IF sink.at = "write" THEN Bytes(sink.rec) ELSE 0) <= size
  /\ sink.at = "write" => Len(file[0]) = 0 \/ size <= MaxSize

\* The whole records of the files are written, and not lost; a file's records are
\* older than the next one's; and what is newer than a kept record is kept.
KeptInv ==
  \A f \in DOMAIN file : \A k \in DOMAIN file[f] : file[f][k] \in Message =>
    Logged(file[f][k]) /\ file[f][k] \notin lost

OrderInv ==
  \A f, g \in DOMAIN file : \A k \in DOMAIN file[f] : \A l \in DOMAIN file[g] :
    Older(f, k, g, l) => \A i, j \in DOMAIN written :
      written[i] = file[f][k] /\ written[j] = file[g][l] => i < j

TailInv ==
  \A f \in DOMAIN file : \A k \in DOMAIN file[f] : \A i, j \in DOMAIN written :
    written[i] = file[f][k] /\ i < j /\ written[j] \notin lost =>
      \E g \in DOMAIN file : \E l \in DOMAIN file[g] : file[g][l] = written[j]

MsgInv == CallInv /\ UsedInv /\ OnceInv

Waiting == {"look", "claim", "full"}

-----------------------------------------------------------------------------
\* Calls are only added, and a message on its way is a new one.
LEMMA UsedStays ==
  ASSUME LogInv, LogInv', \A u \in Threads : call[u] <= call'[u],
         \A u \in Threads : op'[u].at \in Waiting =>
           \/ op[u].at \in Waiting /\ op'[u].msg = op[u].msg
           \/ op'[u].msg.n \in Nat /\ call[u] < op'[u].msg.n
  PROVE  \A m : Used(m) => Used(m)'
<1> SUFFICES ASSUME NEW m, Used(m) PROVE Used(m)'
  OBVIOUS
<1> DEFINE u == m.from
<1>1. u \in Threads /\ m \in Message /\ m.n \in Nat /\ m.n <= call[u] /\ call[u] \in Nat /\ call'[u] \in Nat
  BY DEF Used, LogInv, LifeInv
<1>2. m.n <= call'[u]
  BY <1>1
<1>3. op'[u].at \in Waiting => m.n < op'[u].msg.n
  BY <1>1 DEF Used, Waiting
<1> QED
  BY <1>1, <1>2, <1>3 DEF Used, Waiting

\* Messages are where they were, or have been dropped by the worker.
LEMMA QuietMsgInv ==
  ASSUME LogInv, MsgInv, LogInv', CallInv', \A u \in Threads : call[u] <= call'[u],
         \A u \in Threads : op'[u].at \in Waiting =>
           \/ op[u].at \in Waiting /\ op'[u].msg = op[u].msg
           \/ op'[u].msg.n \in Nat /\ call[u] < op'[u].msg.n,
         Items' = Items, Taken' = Taken, InHand' => InHand, written' = written,
         holder' # None => holder # None /\ sink'.rec = sink.rec
  PROVE  MsgInv'
<1>1. \A m : (Queued(m)' => Queued(m)) /\ (Logged(m)' => Logged(m))
  BY DEF Queued, Logged
<1>2. UsedInv'
  BY <1>1, UsedStays DEF MsgInv, UsedInv
<1>3. OnceInv'
  BY <1>1 DEF MsgInv, OnceInv
<1> QED
  BY <1>2, <1>3 DEF MsgInv

\* A put adds a message that is newer than all others of its thread.
LEMMA PutMsgInv ==
  ASSUME QueueInv, LogInv, MsgInv, LogInv', NEW t \in Threads,
         op[t].at = "claim", op'[t].at = "write", op'[t].msg = op[t].msg,
         op[t].msg \in Message, Fifo!Put(op[t].msg),
         \A u \in Threads : u # t => op'[u] = op[u],
         InHand' <=> InHand, UNCHANGED <<call, holder, sink, written>>
  PROVE  MsgInv'
<1> PICK m : m = op[t].msg
  OBVIOUS
<1>1. Items \in Seq(Slot) /\ m \in Slot /\ Items' = Append(Items, m) /\ Taken' = Taken
  BY TheQueue DEF Slot
<1>2. CallInv'
  BY DEF MsgInv, CallInv
<1>3. m.from = t /\ m.n \in Nat /\ m.n <= call[t]
  BY DEF MsgInv, CallInv
<1>4. ~ Used(m)
  BY <1>3 DEF Used
<1>5. Used(m)'
  BY <1>3 DEF Used
<1>6. \A u \in Threads : call[u] <= call'[u]
  BY DEF LogInv, LifeInv
<1>7. \A msg : Used(msg) => Used(msg)'
  BY <1>6, UsedStays DEF Waiting
<1>8. /\ Len(Items) + 1 \in DOMAIN Items' /\ Items'[Len(Items) + 1] = m
      /\ \A i \in DOMAIN Items' : i = Len(Items) + 1 \/ (i \in DOMAIN Items /\ Items'[i] = Items[i])
  BY <1>1, Appended
<1>9. \A msg : Queued(msg)' => Queued(msg) \/ msg = m
  BY <1>1, <1>8 DEF Queued
<1>10. \A msg : Logged(msg)' <=> Logged(msg)
  BY DEF Logged
<1>11. ~ Queued(m) /\ ~ Logged(m) /\ (holder # None => sink.rec # m)
  BY <1>4 DEF MsgInv, UsedInv
<1>12. UsedInv'
  <2>1. \A msg : Queued(msg)' \/ Logged(msg)' => Used(msg)'
    <3> SUFFICES ASSUME NEW msg, Queued(msg) \/ Logged(msg) \/ msg = m PROVE Used(msg)'
      BY <1>9, <1>10
    <3>1. CASE msg = m
      BY <1>5, <3>1
    <3>2. CASE Queued(msg) \/ Logged(msg)
      BY <1>7, <3>2 DEF MsgInv, UsedInv
    <3> QED
      BY <3>1, <3>2
  <2>2. (holder # None => Used(sink.rec))'
    BY <1>7 DEF MsgInv, UsedInv
  <2> QED
    BY <2>1, <2>2 DEF UsedInv
<1>13. \A i \in DOMAIN Items : Items[i] # m
  BY <1>11 DEF Queued
<1>14. InHand => Taken[Worker] # m
  BY <1>11 DEF Queued
<1>15. OnceInv'
  BY <1>1, <1>8, <1>9, <1>10, <1>11, <1>13, <1>14 DEF MsgInv, OnceInv
<1> QED
  BY <1>2, <1>12, <1>15 DEF MsgInv

\* The worker takes the oldest message.
LEMMA TakeMsgInv ==
  ASSUME QueueInv, LogInv, MsgInv, LogInv', Fifo!Take(Worker), ~InHand,
         \A u \in Threads : op'[u] = op[u], UNCHANGED <<call, holder, sink, written>>
  PROVE  MsgInv'
<1>1. Items \in Seq(Slot) /\ Items # <<>> /\ Items' = Tail(Items) /\ Taken'[Worker] = Head(Items)
  BY TheQueue
<1>2. /\ Taken'[Worker] = Items[1] /\ 1 \in DOMAIN Items
      /\ \A i \in DOMAIN Items' : i + 1 \in DOMAIN Items /\ Items'[i] = Items[i + 1]
      /\ DOMAIN Items' \subseteq Nat \ {0}
  <2>1. Tail(Items) \in Seq(Slot)
    BY <1>1, HeadTailProperties
  <2> QED
    BY <1>1, <2>1, Shifted, LenProperties
<1>3. CallInv'
  BY DEF MsgInv, CallInv
<1>4. \A m : Used(m) => Used(m)'
  <2>1. \A u \in Threads : call[u] <= call'[u]
    BY DEF LogInv, LifeInv
  <2> QED
    BY <2>1, UsedStays
<1>5. \A m : (Queued(m)' => Queued(m)) /\ (Logged(m)' <=> Logged(m))
  BY <1>2 DEF Queued, Logged
<1>6. UsedInv'
  BY <1>4, <1>5 DEF MsgInv, UsedInv
<1>7. \A i \in DOMAIN Items' : Items'[i] # Taken'[Worker]
  <2> SUFFICES ASSUME NEW i \in DOMAIN Items', Items[i + 1] = Items[1] PROVE FALSE
    BY <1>2
  <2>1. i + 1 = 1 /\ i \in Nat \ {0}
    BY <1>2 DEF MsgInv, OnceInv
  <2> QED
    BY <2>1
<1>8. \A i, j \in DOMAIN Items' : Items'[i] = Items'[j] => i = j
  <2> SUFFICES ASSUME NEW i \in DOMAIN Items', NEW j \in DOMAIN Items', Items[i + 1] = Items[j + 1]
               PROVE  i = j
    BY <1>2
  <2>1. i + 1 = j + 1 /\ i \in Nat /\ j \in Nat
    BY <1>2 DEF MsgInv, OnceInv
  <2> QED
    BY <2>1
<1>9. OnceInv'
  BY <1>5, <1>7, <1>8 DEF MsgInv, OnceInv
<1> QED
  BY <1>3, <1>6, <1>9 DEF MsgInv

\* The sink is called, with the message of the worker or of a thread in sync mode.
LEMMA SinkCallMsgInv ==
  ASSUME LogInv, MsgInv, LogInv', CallInv', NEW m, Used(m)', sink'.rec = m,
         \A u \in Threads : call[u] <= call'[u],
         \A u \in Threads : op'[u].at \in Waiting => op[u].at \in Waiting /\ op'[u].msg = op[u].msg,
         Items' = Items, ~InHand', written' = written, holder = None,
         ~ \E i \in DOMAIN Items : Items[i] = m, ~ Logged(m)
  PROVE  MsgInv'
<1>1. \A msg : Used(msg) => Used(msg)'
  BY UsedStays
<1>2. \A msg : (Queued(msg)' => Queued(msg)) /\ (Logged(msg)' <=> Logged(msg))
  BY DEF Queued, Logged
<1>3. UsedInv'
  BY <1>1, <1>2 DEF MsgInv, UsedInv
<1>4. ~ Queued(m)'
  BY DEF Queued
<1>5. OnceInv'
  BY <1>2, <1>4 DEF MsgInv, OnceInv
<1> QED
  BY <1>3, <1>5 DEF MsgInv

\* The sink has written its record.
LEMMA WrittenMsgInv ==
  ASSUME LogInv, MsgInv, LogInv', holder # None, sink.rec \in Slot, written \in Seq(Slot),
         Items' = Items, Taken' = Taken, op' = op, call' = call,
         written' = Append(written, sink.rec), holder' = None
  PROVE  MsgInv'
<1> DEFINE m == sink.rec
<1>1. Used(m) /\ ~ Queued(m) /\ ~ Logged(m)
  BY DEF MsgInv, UsedInv, OnceInv
<1>2. CallInv'
  BY DEF MsgInv, CallInv
<1>3. \A u \in Threads : call[u] <= call'[u]
  BY DEF LogInv, LifeInv
<1>4. \A msg : Used(msg) => Used(msg)'
  BY <1>3, UsedStays
<1> HIDE DEF m
<1>5. /\ \A i \in DOMAIN written' : i = Len(written) + 1 \/ (i \in DOMAIN written /\ written'[i] = written[i])
      /\ written'[Len(written) + 1] = m
  BY Appended DEF m
<1>6. \A msg : (Queued(msg)' <=> Queued(msg)) /\ (Logged(msg)' => Logged(msg) \/ msg = m)
  BY <1>5 DEF Queued, Logged, InHand
<1>7. \A msg : Queued(msg)' \/ Logged(msg)' => Used(msg)'
  <2> SUFFICES ASSUME NEW msg, Queued(msg) \/ Logged(msg) \/ msg = m PROVE Used(msg)'
    BY <1>6
  <2>1. CASE msg = m
    BY <1>1, <1>4, <2>1
  <2>2. CASE Queued(msg) \/ Logged(msg)
    BY <1>4, <2>2 DEF MsgInv, UsedInv
  <2> QED
    BY <2>1, <2>2
<1>8. \A i \in DOMAIN written : written[i] # m
  BY <1>1 DEF Logged
<1>9. \A i, j \in DOMAIN written' : written'[i] = written'[j] => i = j
  BY <1>5, <1>8 DEF MsgInv, OnceInv
<1>10. \A msg : ~ (Queued(msg)' /\ Logged(msg)')
  BY <1>1, <1>6 DEF MsgInv, OnceInv
<1>11. OnceInv'
  BY <1>9, <1>10 DEF MsgInv, OnceInv, InHand
<1> QED
  BY <1>2, <1>7, <1>11 DEF MsgInv, UsedInv

\* The process ends.
LEMMA EndedMsgInv ==
  ASSUME LogInv, MsgInv, LogInv', mode' = "none", UNCHANGED <<call, written>>
  PROVE  MsgInv'
<1>1. /\ Items' = <<>> /\ holder' = None /\ ~InHand'
      /\ \A t \in Threads \cup {Worker} : op'[t].at = "idle"
  <2>1. Items' = <<>> /\ holder' = None /\ \A t \in Threads \cup {Worker} : op'[t].at = "idle"
    BY DEF LogInv, LifeInv
  <2> QED
    BY <2>1 DEF InHand
<1>2. CallInv'
  BY <1>1 DEF CallInv
<1>3. \A m : Used(m) => Used(m)'
  <2>1. \A u \in Threads : call[u] <= call'[u]
    BY DEF LogInv, LifeInv
  <2> QED
    BY <1>1, <2>1, UsedStays DEF Waiting
<1>4. \A m : ~ Queued(m)' /\ (Logged(m)' <=> Logged(m))
  BY <1>1 DEF Queued, Logged
<1>5. UsedInv'
  BY <1>1, <1>3, <1>4 DEF MsgInv, UsedInv
<1>6. \A i, j \in DOMAIN Items' : Items'[i] = Items'[j] => i = j
  BY <1>1
<1>7. OnceInv'
  BY <1>1, <1>4, <1>6 DEF MsgInv, OnceInv
<1> QED
  BY <1>2, <1>5, <1>7 DEF MsgInv

-----------------------------------------------------------------------------
LEMMA PushMsgInv ==
  ASSUME QueueInv, LogInv, MsgInv, LogInv', NEW t \in Threads, push_step(t)
  PROVE  MsgInv'
<1>1. /\ op'[t].msg = op[t].msg
      /\ \A u \in Threads \cup {Worker} : u # t => op'[u] = op[u]
      /\ \/ /\ op[t].at = "claim" /\ op'[t].at = "write"
            /\ Fifo!Put(op[t].msg) /\ op[t].msg \in Message
         \/ /\ op[t].at \in {"look", "claim"} /\ op'[t].at \in {"look", "claim", "full"}
            /\ UNCHANGED Fifo!vars
         \/ /\ op[t].at \in {"write", "publish"} /\ op'[t].at \in {"publish", "done"}
            /\ UNCHANGED Fifo!vars
  BY PushStep, Roles DEF push_step
<1>2. /\ UNCHANGED <<call, holder, sink, written>>
      /\ (InHand' <=> InHand) /\ op[t].at # "idle"
  BY <1>1, Roles DEF push_step, InHand, fvars
<1>3. CASE op[t].at = "claim" /\ op'[t].at = "write" /\ Fifo!Put(op[t].msg) /\ op[t].msg \in Message
  BY <1>1, <1>2, <1>3, PutMsgInv, Roles
<1>4. CASE UNCHANGED Fifo!vars /\ (op'[t].at \in Waiting => op[t].at \in Waiting)
  <2>1. CallInv'
    BY <1>1, <1>2 DEF MsgInv, CallInv
  <2>2. \A u \in Threads : call[u] <= call'[u]
    BY <1>2 DEF LogInv, LifeInv
  <2> QED
    BY <1>1, <1>2, <1>4, <2>1, <2>2, QuietMsgInv, TheQueue
<1> QED
  BY <1>1, <1>3, <1>4 DEF Waiting

LEMMA CallMsgInv ==
  ASSUME QueueInv, LogInv, MsgInv, LogInv', NEW t \in Threads, log_async(t) \/ (destroy /\ t = Owner)
  PROVE  MsgInv'
<1> PICK kind \in {"log", "flush", "terminate"} : push_msg(t, Next1(t, kind))
  BY DEF log_async, destroy
<1> DEFINE m == Next1(t, kind)
<1>1. /\ call[t] < MaxCalls /\ call[t] \in 0..MaxCalls /\ call[t] + 1 \in 1..MaxCalls
      /\ UNCHANGED <<holder, sink, written>>
      /\ \E n \in {call[t] + 1, MaxCalls} : call' = [call EXCEPT ![t] = n]
  BY Roles DEF log_async, destroy, fvars, LogInv, LifeInv
<1>2. m \in Message /\ m.from = t /\ m.n = call[t] + 1
  BY <1>1, MessageAssumption DEF Next1, Msg
<1>3. /\ call[t] + 1 <= call'[t] /\ \A u \in Threads : call[u] <= call'[u]
  BY <1>1, Roles DEF LogInv, LifeInv
<1> HIDE DEF m
<1>4. /\ op'[t].at = "look" /\ op'[t].msg = m
      /\ \A u \in Threads \cup {Worker} : u # t => op'[u] = op[u]
  BY TheQueue, Roles DEF enqueue, push_msg, m
<1>5. Items' = Items /\ Taken' = Taken
  BY <1>2, Enqueue, TheQueue, Roles DEF push_msg, m
<1>6. InHand' <=> InHand
  BY <1>4, Roles DEF InHand
<1>7. \A u \in Threads : call[u] \in Nat /\ call'[u] \in Nat
  BY DEF LogInv, LifeInv
<1>8. CallInv'
  <2> SUFFICES ASSUME NEW u \in Threads, op'[u].at # "idle"
               PROVE  op'[u].msg.from = u /\ op'[u].msg.n \in Nat /\ op'[u].msg.n <= call'[u]
    BY DEF CallInv
  <2>1. CASE u = t
    BY <1>1, <1>2, <1>3, <1>4, <2>1
  <2>2. CASE u # t
    <3>1. op[u].msg.from = u /\ op[u].msg.n \in Nat /\ op[u].msg.n <= call[u] /\ op'[u] = op[u]
      BY <1>4, <2>2 DEF MsgInv, CallInv
    <3> QED
      BY <1>3, <1>7, <3>1
  <2> QED
    BY <2>1, <2>2
<1>9. call[t] < op'[t].msg.n /\ op'[t].msg.n \in Nat
  BY <1>1, <1>2, <1>4
<1> QED
  BY <1>1, <1>3, <1>4, <1>5, <1>6, <1>8, <1>9, QuietMsgInv

\* The other steps of the callers and of the worker that move no message on.
LEMMA ReturnMsgInv ==
  ASSUME QueueInv, LogInv, MsgInv, LogInv', NEW t \in Threads, push_returns(t) \/ push_retries(t)
  PROVE  MsgInv'
<1>1. /\ Items' = Items /\ Taken' = Taken
      /\ \A u \in Threads \cup {Worker} : u # t => op'[u] = op[u]
      /\ op'[t].at = "idle" \/ (op[t].at = "full" /\ op'[t].msg = op[t].msg)
      /\ op[t].at # "idle"
  <2>1. CASE push_returns(t)
    BY <2>1, Return, TheQueue, Roles DEF push_returns, return, Op
  <2>2. CASE push_retries(t)
    <3>1. /\ op[t].at = "full" /\ t \in Pushers /\ t \notin Poppers /\ TypeInv /\ PushInv(t)
          /\ UNCHANGED <<sequence, data, enqueue_pos, dequeue_pos>>
      BY <2>2, Roles DEF push_retries, QueueInv
    <3>2. Moves(t, "look", enqueue_pos, op[t].msg)
      BY <2>2, <3>1, FieldsMove, Positions DEF push_retries, Op, Slot
    <3>3. QueueInv'
      BY <3>1, <3>2, QuietPush, Positions DEF PushInv, Writing
    <3> QED
      BY <3>1, <3>2, <3>3, UnseenStep, TheQueue, Roles DEF Moves
  <2> QED
    BY <2>1, <2>2
<1>2. UNCHANGED <<call, holder, sink, written>>
  BY DEF push_returns, push_retries, fvars
<1>3. InHand' <=> InHand
  BY <1>1, Roles DEF InHand
<1>4. CallInv'
  BY <1>1, <1>2 DEF MsgInv, CallInv
<1>5. \A u \in Threads : call[u] <= call'[u]
  BY <1>2 DEF LogInv, LifeInv
<1> QED
  BY <1>1, <1>2, <1>3, <1>4, <1>5, QuietMsgInv DEF Waiting

LEMMA WorkerMsgInv ==
  ASSUME QueueInv, LogInv, MsgInv, LogInv', WorkerThread, ~process_log
  PROVE  MsgInv'
<1>1. CASE pop_step
  <2>1. /\ \A u \in Threads : op'[u] = op[u]
        /\ \/ op[Worker].at = "claim" /\ op'[Worker].at = "read" /\ Fifo!Take(Worker)
           \/ UNCHANGED Fifo!vars /\ (InHand' => InHand)
    BY <1>1, PopStep, Roles DEF pop_step, InHand
  <2>2. UNCHANGED <<call, holder, sink, written>>
    BY <1>1 DEF pop_step, fvars
  <2>3. CallInv' /\ \A u \in Threads : call[u] <= call'[u]
    BY <2>1, <2>2 DEF MsgInv, CallInv, LogInv, LifeInv
  <2>4. CASE op[Worker].at = "claim" /\ op'[Worker].at = "read" /\ Fifo!Take(Worker)
    BY <2>1, <2>2, <2>4, TakeMsgInv DEF InHand
  <2>5. CASE UNCHANGED Fifo!vars /\ (InHand' => InHand)
    BY <2>1, <2>2, <2>3, <2>5, QuietMsgInv, TheQueue
  <2> QED
    BY <2>1, <2>4, <2>5
<1>2. CASE process_next_msg \/ process_request \/ process_empty \/ worker_fails
  <2>1. /\ Items' = Items /\ Taken' = Taken /\ (InHand' => InHand)
        /\ \A u \in Threads : op'[u] = op[u]
    <3>1. CASE process_next_msg
      BY <3>1, Dequeue, TheQueue, Roles DEF process_next_msg, dequeue, Op, InHand
    <3>2. CASE UNCHANGED qvars
      BY <3>2, QueueStays
    <3>3. CASE return(Worker)
      BY <3>3, WorkerReturns
    <3> QED
      BY <1>2, <3>1, <3>2, <3>3 DEF process_request, process_empty, worker_fails
  <2>2. UNCHANGED <<call, written>> /\ (holder' # None => holder # None /\ UNCHANGED sink)
    BY <1>2 DEF process_next_msg, process_request, process_empty, worker_fails, flush_file, fvars
  <2>3. CallInv' /\ \A u \in Threads : call[u] <= call'[u]
    BY <2>1, <2>2 DEF MsgInv, CallInv, LogInv, LifeInv
  <2> QED
    BY <2>1, <2>2, <2>3, QuietMsgInv
<1> QED
  BY <1>1, <1>2 DEF WorkerThread

LEMMA ProcessLogMsgInv ==
  ASSUME QueueInv, LogInv, MsgInv, LogInv', process_log
  PROVE  MsgInv'
<1> PICK m : m = op[Worker].msg
  OBVIOUS
<1>1. /\ Items' = Items /\ ~InHand' /\ holder = None
      /\ \A u \in Threads : op'[u] = op[u]
  BY WorkerReturns DEF process_log
<1>2. InHand /\ Taken[Worker] = m /\ m \in Slot
  BY TheQueue, Roles DEF process_log, InHand, Op
<1>3. Queued(m)
  BY <1>2 DEF Queued
<1>4. sink'.rec = m /\ UNCHANGED <<call, written>>
  BY <1>2, SinkCalled DEF process_log
<1>5. CallInv' /\ \A u \in Threads : call[u] <= call'[u]
  BY <1>1, <1>4 DEF MsgInv, CallInv, LogInv, LifeInv
<1>6. Used(m)'
  <2>1. Used(m)
    BY <1>3 DEF MsgInv, UsedInv
  <2> QED
    BY <1>1, <1>5, <2>1, UsedStays
<1>7. ~ Logged(m) /\ ~ \E i \in DOMAIN Items : Items[i] = m
  BY <1>2, <1>3 DEF MsgInv, OnceInv
<1> QED
  BY <1>1, <1>4, <1>5, <1>6, <1>7, SinkCallMsgInv

LEMMA LogSyncMsgInv ==
  ASSUME QueueInv, LogInv, MsgInv, LogInv', NEW t \in Threads, log_sync(t)
  PROVE  MsgInv'
<1> PICK m : m = Next1(t, "log")
  OBVIOUS
<1>1. /\ call[t] \in 0..MaxCalls /\ call[t] + 1 \in 1..MaxCalls
      /\ UNCHANGED <<qvars, written>> /\ holder = None /\ mode = "sync" /\ mode' = "sync"
      /\ call' = [call EXCEPT ![t] = call[t] + 1]
  BY Roles DEF log_sync, LogInv, LifeInv
<1>2. m \in Slot /\ m \in Message /\ m.from = t /\ m.n = call[t] + 1
  BY <1>1, MessageAssumption DEF Next1, Msg, Slot
<1>3. sink'.rec = m
  BY <1>2, SinkCalled DEF log_sync
<1>4. Items' = Items /\ op' = op /\ Items = <<>> /\ ~InHand'
      /\ \A u \in Threads : op'[u].at = "idle"
  BY <1>1, QueueStays DEF LogInv, LifeInv, InHand
<1>5. call'[t] = call[t] + 1 /\ \A u \in Threads : call[u] <= call'[u]
  BY <1>1 DEF LogInv, LifeInv
<1>6. Used(m)' /\ ~ Used(m)
  BY <1>1, <1>2, <1>4, <1>5 DEF Used
<1>7. CallInv'
  BY <1>4 DEF CallInv
<1>8. ~ Logged(m)
  BY <1>6 DEF MsgInv, UsedInv
<1> QED
  BY <1>1, <1>3, <1>4, <1>5, <1>6, <1>7, <1>8, SinkCallMsgInv DEF Waiting

\* The steps in which the queue is left alone.
LEMMA RestMsgInv ==
  ASSUME QueueInv, LogInv, MsgInv, LogInv',
         \/ create \/ sync_throws \/ join \/ UNCHANGED lvars
         \/ \E t \in Threads : flush_throws(t)
  PROVE  MsgInv'
<1>1. /\ Items' = Items /\ Taken' = Taken /\ op' = op /\ (InHand' <=> InHand)
  BY QueueStays DEF create, sync_throws, join, flush_throws, lvars
<1>2. written' = written /\ (holder' # None => holder # None /\ UNCHANGED sink)
  BY DEF create, sync_throws, join, flush_throws, lvars, open_sink, fvars
<1>3. \A u \in Threads : call[u] <= call'[u]
  <2>1. CASE UNCHANGED call
    BY <2>1 DEF LogInv, LifeInv
  <2>2. ASSUME NEW t \in Threads, flush_throws(t) PROVE \A u \in Threads : call[u] <= call'[u]
    BY <2>2 DEF flush_throws, LogInv, LifeInv
  <2> QED
    BY <2>1, <2>2 DEF create, sync_throws, join, lvars
<1>4. \A u \in Threads : call[u] \in Nat /\ call'[u] \in Nat
  BY DEF LogInv, LifeInv
<1>5. CallInv'
  BY <1>1, <1>3, <1>4 DEF MsgInv, CallInv
<1> QED
  BY <1>1, <1>2, <1>3, <1>5, QuietMsgInv

LEMMA SinkMsgInv ==
  ASSUME QueueInv, LogInv, MsgInv, LogInv', sink_step
  PROVE  MsgInv'
<1>1. Items' = Items /\ Taken' = Taken /\ op' = op /\ (InHand' <=> InHand)
  BY QueueStays DEF sink_step
<1>2. /\ call' = call /\ holder # None /\ sink.rec \in Slot /\ written \in Seq(Slot)
      /\ sink'.at # "ready" => sink'.rec = sink.rec
  <2>1. sink.at \in {"rotate", "write"}
    BY DEF sink_step, Sinking, remove, rename, reopen, write
  <2>2. sink'.at # "ready" => sink'.rec = sink.rec
    BY DEF sink_step, Sinking, remove, rename, reopen, write, Throw, NoCall, LogInv, SinkInv, SinkCall
  <2> QED
    BY <2>1, <2>2 DEF sink_step, LogInv, SinkInv
<1>3. CASE sink'.at = "ready"
  <2>1. written' = Append(written, sink.rec) /\ holder' = None
    BY <1>3 DEF sink_step
  <2> QED
    BY <1>1, <1>2, <2>1, WrittenMsgInv
<1>4. CASE sink'.at # "ready"
  <2>1. UNCHANGED <<written, holder>>
    BY <1>4 DEF sink_step
  <2>2. CallInv' /\ \A u \in Threads : call[u] <= call'[u]
    BY <1>1, <1>2 DEF MsgInv, CallInv, LogInv, LifeInv
  <2> QED
    BY <1>1, <1>2, <1>4, <2>1, <2>2, QuietMsgInv
<1> QED
  BY <1>3, <1>4

LEMMA MsgStep ==
  ASSUME QueueInv, LogInv, MsgInv, LogInv', [LoggingNext]_lvars PROVE MsgInv'
<1>1. CASE Down \/ drop
  <2>1. mode' = "none" /\ UNCHANGED <<call, written>>
    BY <1>1 DEF Down, drop
  <2> QED
    BY <2>1, EndedMsgInv
<1>2. CASE killed \/ terminate \/ destroy_throws
           \/ \E t \in Threads : log_sync_throws(t) \/ log_async_throws(t)
  BY <1>1, <1>2 DEF killed, terminate, destroy_throws, log_sync_throws, log_async_throws
<1>3. ASSUME NEW t \in Threads, Caller(t) PROVE MsgInv'
  BY <1>2, <1>3, PushMsgInv, CallMsgInv, ReturnMsgInv, LogSyncMsgInv, RestMsgInv DEF Caller
<1>4. CASE WorkerThread
  BY <1>4, WorkerMsgInv, ProcessLogMsgInv
<1> QED
  BY <1>1, <1>2, <1>3, <1>4, SinkMsgInv, RestMsgInv, CallMsgInv, Roles DEF LoggingNext

LEMMA InitMsgInv == LoggingInit => MsgInv
<1> SUFFICES ASSUME LoggingInit PROVE MsgInv
  OBVIOUS
<1>1. /\ Items = <<>> /\ ~InHand /\ holder = None /\ written = <<>>
      /\ \A t \in Threads \cup {Worker} : op[t].at = "idle"
  <2>1. QueueInv /\ LogInv /\ mode = "none" /\ written = <<>>
    BY InitLogInv DEF LoggingInit
  <2>2. Items = <<>> /\ holder = None /\ \A t \in Threads \cup {Worker} : op[t].at = "idle"
    BY <2>1 DEF LogInv, LifeInv
  <2> QED
    BY <2>1, <2>2 DEF InHand
<1>2. CallInv
  BY <1>1 DEF CallInv
<1>3. \A m : ~ Queued(m) /\ ~ Logged(m)
  BY <1>1 DEF Queued, Logged
<1> QED
  BY <1>1, <1>2, <1>3 DEF MsgInv, UsedInv, OnceInv

-----------------------------------------------------------------------------
(* The size of a file.                                                     *)

LEMMA Induction ==
  ASSUME NEW S, 0 \in S, \A n \in Nat : n \in S => n + 1 \in S
  PROVE  Nat \subseteq S
<1> DEFINE T == Nat \ S
<1> SUFFICES ASSUME T # {} PROVE FALSE
  OBVIOUS
<1>1. \E n \in T : \A m \in T : ~ (<<m, n>> \in OpToRel(<, Nat))
  BY WFMin, NatLessThanWellFounded, T \subseteq Nat
<1>2. PICK n \in T : \A m \in T : ~ (m < n)
  BY <1>1 DEF OpToRel
<1>3. n # 0 /\ n - 1 \in Nat /\ n - 1 < n
  BY <1>2
<1>4. n - 1 \in S
  BY <1>2, <1>3
<1>5. (n - 1) + 1 \in S
  BY <1>3, <1>4
<1> QED
  BY <1>2, <1>5

LEMMA PieceBytes ==
  /\ \A p \in Stored : Bytes(p) \in Nat
  /\ \A m \in Message : \A p \in Parts(m) :
       p \in Stored /\ p \notin Message /\ Bytes(p) \in Nat /\ Bytes(m) \in Nat /\ Bytes(p) <= Bytes(m)
<1>1. ASSUME NEW m \in Message, NEW p \in Parts(m)
      PROVE  p \in Stored /\ p \notin Message /\ Bytes(p) \in Nat /\ Bytes(m) \in Nat /\ Bytes(p) <= Bytes(m)
  <2>1. PICK n \in 1..(Bytes(m) - 1) : p = Part(m, n)
    BY DEF Parts
  <2>2. Bytes(m) \in Nat /\ Bytes(p) = n /\ p \notin Message
    BY <2>1, MessageAssumption
  <2> QED
    BY <2>2 DEF Stored
<1> QED
  BY <1>1, MessageAssumption DEF Stored

\* The sum that TotalBytes computes, record by record.
SumOf(recs) ==
  CHOOSE sum : sum = [n \in 0..Len(recs) |-> IF n = 0 THEN 0 ELSE sum[n - 1] + Bytes(recs[n])]

LEMMA Sums ==
  ASSUME NEW recs \in Seq(Stored)
  PROVE  /\ TotalBytes(recs) = SumOf(recs)[Len(recs)] /\ SumOf(recs)[0] = 0
         /\ \A n \in 0..(Len(recs) - 1) : SumOf(recs)[n + 1] = SumOf(recs)[n] + Bytes(recs[n + 1])
<1> DEFINE Body(f, n) == [k \in 0..n |-> IF k = 0 THEN 0 ELSE f[k - 1] + Bytes(recs[k])]
           S == {n \in Nat : \E f : f = Body(f, n)}
<1>1. 0 \in S
  <2> DEFINE f == [k \in 0..0 |-> 0]
  <2>1. f = Body(f, 0)
    OBVIOUS
  <2> QED
    BY <2>1
<1>2. ASSUME NEW n \in Nat, n \in S PROVE n + 1 \in S
  <2>1. PICK f : f = Body(f, n)
    BY <1>2
  <2> DEFINE g == [k \in 0..(n + 1) |-> IF k = n + 1 THEN f[n] + Bytes(recs[n + 1]) ELSE f[k]]
  <2>2. ASSUME NEW k \in 0..(n + 1)
        PROVE  g[k] = IF k = 0 THEN 0 ELSE g[k - 1] + Bytes(recs[k])
    <3>1. CASE k = n + 1
      <4>1. g[k] = f[n] + Bytes(recs[n + 1]) /\ g[n] = f[n]
        BY <3>1
      <4> HIDE DEF g
      <4> QED
        BY <3>1, <4>1
    <3>2. CASE k # n + 1
      <4>1. k \in 0..n /\ g[k] = f[k] /\ (k # 0 => g[k - 1] = f[k - 1])
        BY <3>2
      <4>2. f[k] = IF k = 0 THEN 0 ELSE f[k - 1] + Bytes(recs[k])
        BY <2>1, <4>1
      <4> HIDE DEF g
      <4> QED
        BY <4>1, <4>2
    <3> QED
      BY <3>1, <3>2
  <2>3. g = [k \in 0..(n + 1) |-> g[k]]
    OBVIOUS
  <2> HIDE DEF g
  <2>4. g = Body(g, n + 1)
    BY <2>2, <2>3
  <2> HIDE DEF Body
  <2>5. \E h : h = Body(h, n + 1)
    BY <2>4
  <2> QED
    BY <2>5
<1>3. Nat \subseteq S
  <2> HIDE DEF S
  <2> QED
    BY <1>1, <1>2, Induction
<1>4. Len(recs) \in Nat
  OBVIOUS
<1>5. \E f : f = Body(f, Len(recs))
  BY <1>3, <1>4
<1>6. SumOf(recs) = CHOOSE f : f = Body(f, Len(recs))
  BY DEF SumOf
<1>7. SumOf(recs) = Body(SumOf(recs), Len(recs))
  BY <1>5, <1>6
<1>8. TotalBytes(recs) = SumOf(recs)[Len(recs)]
  BY DEF TotalBytes, SumOf
<1> HIDE DEF Body
<1>9. \A n \in 0..Len(recs) :
        SumOf(recs)[n] = IF n = 0 THEN 0 ELSE SumOf(recs)[n - 1] + Bytes(recs[n])
  BY <1>7 DEF Body
<1> QED
  BY <1>4, <1>8, <1>9

\* It grows, and what two files have in common has one size.
LEMMA SumsGrow ==
  ASSUME NEW recs \in Seq(Stored)
  PROVE  \A n \in 0..Len(recs) : SumOf(recs)[n] \in Nat /\ SumOf(recs)[n] <= TotalBytes(recs)
<1> DEFINE L == Len(recs)
           S == {n \in Nat : n <= L => SumOf(recs)[n] \in Nat}
           D == {n \in Nat : n <= L => SumOf(recs)[L - n] <= SumOf(recs)[L]}
<1>1. L \in Nat /\ \A n \in 1..L : Bytes(recs[n]) \in Nat
  BY PieceBytes
<1>2. Nat \subseteq S
  <2>1. 0 \in S
    BY Sums
  <2>2. ASSUME NEW n \in Nat, n \in S PROVE n + 1 \in S
    <3> SUFFICES ASSUME n + 1 <= L PROVE SumOf(recs)[n + 1] \in Nat
      OBVIOUS
    <3>1. n \in 0..(L - 1) /\ n + 1 \in 1..L
      BY <1>1
    <3>2. SumOf(recs)[n + 1] = SumOf(recs)[n] + Bytes(recs[n + 1])
      BY <3>1, Sums
    <3>3. SumOf(recs)[n] \in Nat
      BY <1>1, <2>2
    <3> QED
      BY <1>1, <3>1, <3>2, <3>3
  <2> HIDE DEF S
  <2> QED
    BY <2>1, <2>2, Induction
<1>3. Nat \subseteq D
  <2>1. 0 \in D
    BY <1>1, <1>2
  <2>2. ASSUME NEW n \in Nat, n \in D PROVE n + 1 \in D
    <3> SUFFICES ASSUME n + 1 <= L PROVE SumOf(recs)[L - (n + 1)] <= SumOf(recs)[L]
      OBVIOUS
    <3>1. L - (n + 1) \in 0..(L - 1) /\ (L - (n + 1)) + 1 = L - n /\ L - n \in 1..L
      BY <1>1
    <3>2. SumOf(recs)[L - n] = SumOf(recs)[L - (n + 1)] + Bytes(recs[L - n])
      BY <3>1, Sums
    <3>3. SumOf(recs)[L - n] <= SumOf(recs)[L]
      BY <1>1, <2>2
    <3>4. SumOf(recs)[L - (n + 1)] \in Nat /\ SumOf(recs)[L] \in Nat /\ Bytes(recs[L - n]) \in Nat
      BY <1>1, <1>2, <3>1
    <3> QED
      BY <3>2, <3>3, <3>4
  <2> HIDE DEF D
  <2> QED
    BY <2>1, <2>2, Induction
<1> SUFFICES ASSUME NEW n \in 0..L PROVE SumOf(recs)[n] \in Nat /\ SumOf(recs)[n] <= SumOf(recs)[L]
  BY Sums
<1>4. n \in S /\ L - n \in D /\ L - (L - n) = n
  BY <1>1, <1>2, <1>3
<1> QED
  BY <1>1, <1>4

LEMMA CommonSum ==
  ASSUME NEW q \in Seq(Stored), NEW t \in Seq(Stored), NEW k \in Nat, k <= Len(q), k <= Len(t),
         \A i \in 1..k : q[i] = t[i]
  PROVE  SumOf(q)[k] = SumOf(t)[k]
<1> DEFINE S == {n \in Nat : n <= k => SumOf(q)[n] = SumOf(t)[n]}
<1>1. 0 \in S
  BY Sums
<1>2. ASSUME NEW n \in Nat, n \in S PROVE n + 1 \in S
  <2> SUFFICES ASSUME n + 1 <= k PROVE SumOf(q)[n + 1] = SumOf(t)[n + 1]
    OBVIOUS
  <2>1. n \in 0..(Len(q) - 1) /\ n \in 0..(Len(t) - 1) /\ q[n + 1] = t[n + 1]
    OBVIOUS
  <2>2. SumOf(q)[n] = SumOf(t)[n]
    BY <1>2
  <2> QED
    BY <2>1, <2>2, Sums
<1>3. Nat \subseteq S
  <2> HIDE DEF S
  <2> QED
    BY <1>1, <1>2, Induction
<1> QED
  BY <1>3

LEMMA Totals ==
  ASSUME NEW recs \in Seq(Stored)
  PROVE  /\ TotalBytes(recs) \in Nat
         /\ \A m \in Stored : TotalBytes(Append(recs, m)) = TotalBytes(recs) + Bytes(m)
         /\ \A k \in 0..Len(recs) : TotalBytes(SubSeq(recs, 1, k)) <= TotalBytes(recs)
<1>1. Len(recs) \in Nat /\ TotalBytes(recs) \in Nat
  BY SumsGrow, Sums
<1>2. ASSUME NEW m \in Stored PROVE TotalBytes(Append(recs, m)) = TotalBytes(recs) + Bytes(m)
  <2> DEFINE L == Len(recs)
             q == Append(recs, m)
  <2>1. /\ q \in Seq(Stored) /\ Len(q) = L + 1 /\ q[L + 1] = m
        /\ \A i \in 1..L : q[i] = recs[i]
    BY AppendProperties
  <2> HIDE DEF q
  <2>2. SumOf(q)[L] = SumOf(recs)[L]
    <3>1. L \in Nat /\ L <= Len(q) /\ L <= Len(recs)
      BY <1>1, <2>1
    <3> QED
      BY <2>1, <3>1, CommonSum
  <2>3. L \in 0..(Len(q) - 1)
    BY <1>1, <2>1
  <2>4. SumOf(q)[L + 1] = SumOf(q)[L] + Bytes(q[L + 1])
    BY <2>1, <2>3, Sums
  <2>5. TotalBytes(q) = SumOf(q)[L + 1] /\ TotalBytes(recs) = SumOf(recs)[L]
    BY <2>1, Sums
  <2> QED
    BY <2>1, <2>2, <2>4, <2>5 DEF q
<1>3. ASSUME NEW k \in 0..Len(recs) PROVE TotalBytes(SubSeq(recs, 1, k)) <= TotalBytes(recs)
  <2> DEFINE q == SubSeq(recs, 1, k)
  <2>1. q \in Seq(Stored) /\ Len(q) = k /\ \A i \in 1..k : q[i] = recs[i]
    BY <1>1, SubSeqProperties
  <2> HIDE DEF q
  <2>2. SumOf(q)[k] = SumOf(recs)[k]
    BY <1>1, <2>1, CommonSum
  <2>3. TotalBytes(q) = SumOf(recs)[k] /\ SumOf(recs)[k] <= TotalBytes(recs)
    BY <2>1, <2>2, Sums, SumsGrow
  <2> QED
    BY <2>3 DEF q
<1> QED
  BY <1>1, <1>2, <1>3

\* What is left of a file whose newest records do not arrive.
LEMMA Salvaged ==
  ASSUME NEW recs \in Seq(Stored), NEW n \in Nat, n # 0, n <= Len(recs),
         recs[Len(recs) - n + 1] \in Message, NEW cut \in Salvage(recs, n)
  PROVE  /\ cut \in Seq(Stored) /\ Len(cut) \in Nat /\ Len(cut) <= Len(recs)
         /\ \A k \in DOMAIN cut : \/ k \in DOMAIN recs /\ k <= Len(recs) - n /\ cut[k] = recs[k]
                                \/ cut[k] \notin Message
         /\ \A k \in DOMAIN recs : k <= Len(recs) - n => k \in DOMAIN cut /\ cut[k] = recs[k]
         /\ TotalBytes(cut) \in Nat /\ TotalBytes(cut) <= TotalBytes(recs)
<1> PICK L : L = Len(recs) - n
  OBVIOUS
<1> DEFINE kept == SubSeq(recs, 1, L)
           m == recs[L + 1]
<1>1. Len(recs) \in Nat /\ L \in 0..(Len(recs) - 1) /\ m \in Message /\ DOMAIN recs = 1..Len(recs)
  BY LenProperties
<1>2. /\ kept \in Seq(Stored) /\ L = Len(kept) /\ DOMAIN kept = 1..L
      /\ \A k \in 1..L : kept[k] = recs[k]
  <2>1. kept \in Seq(Stored) /\ L = Len(kept) /\ \A k \in 1..L : kept[k] = recs[k]
    BY <1>1, SubSeqProperties
  <2> QED
    BY <2>1, LenProperties
<1>3. cut = kept \/ \E p \in Parts(m) : cut = Append(kept, p)
  BY DEF Salvage
<1>4. TotalBytes(recs) \in Nat /\ TotalBytes(kept) \in Nat
  BY <1>2, Totals
<1>5. TotalBytes(kept) + Bytes(m) <= TotalBytes(recs)
  <2>1. SumOf(kept)[L] = SumOf(recs)[L]
    <3>1. L \in Nat /\ L <= Len(kept) /\ L <= Len(recs)
      BY <1>1, <1>2
    <3> HIDE DEF kept, m
    <3> QED
      BY <1>2, <3>1, CommonSum
  <2>2. SumOf(recs)[L + 1] = SumOf(recs)[L] + Bytes(m)
    BY <1>1, Sums
  <2>3. SumOf(recs)[L + 1] <= TotalBytes(recs)
    BY <1>1, SumsGrow
  <2>4. TotalBytes(kept) = SumOf(kept)[L]
    BY <1>2, Sums
  <2> QED
    BY <2>1, <2>2, <2>3, <2>4
<1> HIDE DEF kept, m
<1>6. CASE cut = kept
  <2>1. Bytes(m) \in Nat
    BY <1>1, MessageAssumption
  <2>2. TotalBytes(cut) <= TotalBytes(recs)
    BY <1>4, <1>5, <1>6, <2>1
  <2>3. Len(cut) \in Nat /\ Len(cut) <= Len(recs)
    BY <1>1, <1>2, <1>6
  <2>4. \A k \in DOMAIN cut : k \in DOMAIN recs /\ k <= L /\ cut[k] = recs[k]
    BY <1>1, <1>2, <1>6
  <2>5. \A k \in DOMAIN recs : k <= L => k \in DOMAIN cut /\ cut[k] = recs[k]
    BY <1>1, <1>2, <1>6
  <2> QED
    BY <1>2, <1>4, <1>6, <2>2, <2>3, <2>4, <2>5
<1>7. ASSUME NEW p \in Parts(m), cut = Append(kept, p)
      PROVE  /\ cut \in Seq(Stored) /\ L + 1 = Len(cut) /\ DOMAIN cut = 1..(L + 1)
             /\ \A k \in 1..L : cut[k] = recs[k]
             /\ cut[L + 1] \notin Message
             /\ TotalBytes(cut) \in Nat /\ TotalBytes(cut) <= TotalBytes(recs)
  <2>1. p \in Stored /\ p \notin Message /\ Bytes(p) \in Nat /\ Bytes(m) \in Nat /\ Bytes(p) <= Bytes(m)
    BY <1>1, PieceBytes
  <2>2. cut \in Seq(Stored) /\ Len(cut) = Len(kept) + 1
    BY <1>2, <1>7, <2>1, AppendProperties
  <2>3. cut[Len(kept) + 1] = p /\ \A k \in 1..Len(kept) : cut[k] = kept[k]
    BY <1>2, <1>7, <2>1, AppendProperties
  <2>4. TotalBytes(cut) = TotalBytes(kept) + Bytes(p) /\ TotalBytes(cut) \in Nat
    BY <1>2, <1>4, <1>7, <2>1, Totals
  <2>5. TotalBytes(cut) <= TotalBytes(recs)
    BY <1>4, <1>5, <2>1, <2>4
  <2>6. DOMAIN cut = 1..(L + 1)
    BY <1>2, <2>2, LenProperties
  <2> QED
    BY <1>2, <2>1, <2>2, <2>3, <2>4, <2>5, <2>6
<1>8. CASE \E p \in Parts(m) : cut = Append(kept, p)
  <2>1. /\ cut \in Seq(Stored) /\ L + 1 = Len(cut) /\ DOMAIN cut = 1..(L + 1)
        /\ \A k \in 1..L : cut[k] = recs[k]
        /\ cut[L + 1] \notin Message
        /\ TotalBytes(cut) \in Nat /\ TotalBytes(cut) <= TotalBytes(recs)
    BY <1>7, <1>8
  <2>2. Len(cut) \in Nat /\ Len(cut) <= Len(recs)
    BY <1>1, <2>1
  <2>3. \A k \in DOMAIN cut : (k \in DOMAIN recs /\ k <= L /\ cut[k] = recs[k]) \/ cut[k] \notin Message
    BY <1>1, <2>1
  <2>4. \A k \in DOMAIN recs : k <= L => k \in DOMAIN cut /\ cut[k] = recs[k]
    BY <1>1, <2>1
  <2> QED
    BY <2>1, <2>2, <2>3, <2>4
<1> QED
  BY <1>3, <1>6, <1>8

LEMMA NoBytes == TotalBytes(<<>>) = 0
<1>1. <<>> \in Seq(Stored) /\ Len(<<>>) = 0
  OBVIOUS
<1> QED
  BY <1>1, Sums

-----------------------------------------------------------------------------
(* The files.                                                              *)

BoundInv == FileBound /\ SizeInv
FilesInv == KeptInv /\ OrderInv /\ TailInv
FileInv  == DiskInv /\ BufferInv /\ BoundInv /\ FilesInv

\* What a step of the sink may rely on.
LEMMA TheDisk ==
  ASSUME LogInv, MsgInv, FileInv
  PROVE  /\ \A f \in DOMAIN file : /\ file[f] \in Seq(Stored) /\ Len(file[f]) \in Nat
                                   /\ DOMAIN file[f] = 1..Len(file[f]) /\ f \in 0..MaxFiles
                                   /\ TotalBytes(file[f]) \in Nat
         /\ size \in Nat /\ buffered \in Nat /\ MaxSize \in Nat /\ MaxFiles \in Nat
         /\ sink.at # "ready" => sink.rec \in Message /\ Bytes(sink.rec) \in Nat /\ mode # "none"
         /\ sink.at \in {"ready", "rotate", "write", "throw"} /\ sink.i \in 0..MaxFiles
         /\ sink.at # "ready" <=> holder # None
<1>1. \A f \in DOMAIN file : /\ file[f] \in Seq(Stored) /\ Len(file[f]) \in Nat
                             /\ DOMAIN file[f] = 1..Len(file[f]) /\ f \in 0..MaxFiles
                             /\ TotalBytes(file[f]) \in Nat
  BY LenProperties, Totals DEF FileInv, DiskInv
<1>2. size \in Nat /\ buffered \in Nat /\ MaxSize \in Nat /\ MaxFiles \in Nat
  BY FileAssumption DEF FileInv, DiskInv
<1>3. sink.at # "ready" => sink.rec \in Message /\ Bytes(sink.rec) \in Nat /\ mode # "none"
  BY MessageAssumption DEF LogInv, SinkInv, LifeInv, MsgInv, UsedInv, Used
<1>4. sink.at \in {"ready", "rotate", "write", "throw"} /\ sink.i \in 0..MaxFiles
  BY DEF LogInv, SinkInv, SinkCall
<1> QED
  BY <1>1, <1>2, <1>3, <1>4 DEF LogInv, SinkInv

\* Files that are renamed hold what they held.
LEMMA FilesMove ==
  ASSUME FilesInv, UNCHANGED <<written, lost>>, NEW b,
         \A f \in DOMAIN file' : file'[f] # <<>> => b[f] \in DOMAIN file /\ file'[f] = file[b[f]],
         \A f, g \in DOMAIN file' : f > g /\ file'[f] # <<>> /\ file'[g] # <<>> => b[f] > b[g],
         \A f \in DOMAIN file : \E g \in DOMAIN file' : file'[g] = file[f]
  PROVE  FilesInv'
<1>1. \A f \in DOMAIN file' : \A k \in DOMAIN file'[f] : b[f] \in DOMAIN file /\ file'[f] = file[b[f]]
  <2>1. DOMAIN <<>> = {}
    OBVIOUS
  <2> QED
    BY <2>1
<1>2. KeptInv'
  BY <1>1 DEF FilesInv, KeptInv, Logged
<1>3. OrderInv'
  <2> SUFFICES ASSUME NEW f \in DOMAIN file', NEW g \in DOMAIN file',
                      NEW k \in DOMAIN file'[f], NEW l \in DOMAIN file'[g], Older(f, k, g, l),
                      NEW i \in DOMAIN written, NEW j \in DOMAIN written,
                      written[i] = file'[f][k], written[j] = file'[g][l]
               PROVE  i < j
    BY DEF OrderInv, Older
  <2>1. /\ b[f] \in DOMAIN file /\ file'[f] = file[b[f]] /\ file'[f] # <<>>
        /\ b[g] \in DOMAIN file /\ file'[g] = file[b[g]] /\ file'[g] # <<>>
    BY <1>1
  <2>2. Older(b[f], k, b[g], l)
    BY <2>1 DEF Older
  <2> QED
    BY <2>1, <2>2 DEF FilesInv, OrderInv
<1>4. TailInv'
  <2> SUFFICES ASSUME NEW f \in DOMAIN file', NEW k \in DOMAIN file'[f],
                      NEW i \in DOMAIN written, NEW j \in DOMAIN written,
                      written[i] = file'[f][k], i < j, written[j] \notin lost
               PROVE  \E g \in DOMAIN file' : \E l \in DOMAIN file'[g] : file'[g][l] = written[j]
    BY DEF TailInv
  <2>1. b[f] \in DOMAIN file /\ file'[f] = file[b[f]]
    BY <1>1
  <2>2. PICK g \in DOMAIN file : \E l \in DOMAIN file[g] : file[g][l] = written[j]
    BY <2>1 DEF FilesInv, TailInv
  <2>3. PICK h \in DOMAIN file' : file'[h] = file[g]
    OBVIOUS
  <2> QED
    BY <2>2, <2>3
<1> QED
  BY <1>2, <1>3, <1>4 DEF FilesInv

\* Records are lost, of the files or of those that come, and the rest stays.
LEMMA FilesLose ==
  ASSUME FilesInv, lost \subseteq lost',
         \A i \in DOMAIN written : i \in DOMAIN written' /\ written'[i] = written[i],
         \A i \in DOMAIN written' : i \in DOMAIN written \/ written'[i] \in lost',
         \A i \in DOMAIN written' : written'[i] \in Message,
         \A f \in DOMAIN file' : \A k \in DOMAIN file'[f] :
           \/ /\ f \in DOMAIN file /\ k \in DOMAIN file[f]
              /\ file'[f][k] = file[f][k] /\ file[f][k] \notin lost' \ lost
           \/ file'[f][k] \notin Message,
         \A f \in DOMAIN file : \A k \in DOMAIN file[f] :
           \/ f \in DOMAIN file' /\ k \in DOMAIN file'[f] /\ file'[f][k] = file[f][k]
           \/ file[f][k] \in lost'
  PROVE  FilesInv'
<1>1. ASSUME NEW f \in DOMAIN file', NEW k \in DOMAIN file'[f], file'[f][k] \in Message
      PROVE  /\ f \in DOMAIN file /\ k \in DOMAIN file[f] /\ file'[f][k] = file[f][k]
             /\ Logged(file[f][k]) /\ file[f][k] \notin lost'
  BY <1>1 DEF FilesInv, KeptInv
<1>2. ASSUME NEW f \in DOMAIN file', NEW k \in DOMAIN file'[f], NEW i \in DOMAIN written',
             written'[i] = file'[f][k]
      PROVE  /\ f \in DOMAIN file /\ k \in DOMAIN file[f] /\ file'[f][k] = file[f][k]
             /\ i \in DOMAIN written /\ written[i] = file[f][k]
  BY <1>1, <1>2
<1>3. KeptInv'
  <2> SUFFICES ASSUME NEW f \in DOMAIN file', NEW k \in DOMAIN file'[f], file'[f][k] \in Message
               PROVE  (\E i \in DOMAIN written' : written'[i] = file'[f][k]) /\ file'[f][k] \notin lost'
    BY DEF KeptInv, Logged
  <2>1. Logged(file[f][k]) /\ file'[f][k] = file[f][k] /\ file'[f][k] \notin lost'
    BY <1>1
  <2>2. PICK i \in DOMAIN written : written[i] = file[f][k]
    BY <2>1 DEF Logged
  <2> QED
    BY <2>1, <2>2
<1>4. OrderInv'
  <2> SUFFICES ASSUME NEW f \in DOMAIN file', NEW g \in DOMAIN file',
                      NEW k \in DOMAIN file'[f], NEW l \in DOMAIN file'[g], Older(f, k, g, l),
                      NEW i \in DOMAIN written', NEW j \in DOMAIN written',
                      written'[i] = file'[f][k], written'[j] = file'[g][l]
               PROVE  i < j
    BY DEF OrderInv, Older
  <2>1. /\ f \in DOMAIN file /\ k \in DOMAIN file[f] /\ i \in DOMAIN written /\ written[i] = file[f][k]
        /\ g \in DOMAIN file /\ l \in DOMAIN file[g] /\ j \in DOMAIN written /\ written[j] = file[g][l]
    BY <1>2
  <2> QED
    BY <2>1 DEF FilesInv, OrderInv
<1>5. TailInv'
  <2> SUFFICES ASSUME NEW f \in DOMAIN file', NEW k \in DOMAIN file'[f],
                      NEW i \in DOMAIN written', NEW j \in DOMAIN written',
                      written'[i] = file'[f][k], i < j, written'[j] \notin lost'
               PROVE  \E g \in DOMAIN file' : \E l \in DOMAIN file'[g] : file'[g][l] = written'[j]
    BY DEF TailInv
  <2>1. /\ f \in DOMAIN file /\ k \in DOMAIN file[f] /\ i \in DOMAIN written /\ written[i] = file[f][k]
        /\ j \in DOMAIN written /\ written'[j] = written[j] /\ written[j] \notin lost
    BY <1>2
  <2>2. PICK g \in DOMAIN file : \E l \in DOMAIN file[g] : file[g][l] = written[j]
    BY <2>1 DEF FilesInv, TailInv
  <2> QED
    BY <2>1, <2>2
<1> QED
  BY <1>3, <1>4, <1>5 DEF FilesInv

\* The newest records of file 0, each of them whole and another than those
\* that stay.
LEMMA NewestRecords ==
  ASSUME LogInv, MsgInv, FileInv, NEW n \in 0..buffered, n # 0
  PROVE  /\ 0 \in DOMAIN file /\ n \in Nat /\ n <= Len(file[0]) /\ file[0][Len(file[0]) - n + 1] \in Message
         /\ \A r \in Newest(n) : \E i \in DOMAIN written : r = written[i]
         /\ \A k \in DOMAIN file[0] : ~ (k <= Len(file[0]) - n) => file[0][k] \in Newest(n)
         /\ \A f \in DOMAIN file : \A k \in DOMAIN file[f] :
              (f = 0 => k <= Len(file[0]) - n) => file[f][k] \notin Newest(n)
<1> DEFINE q == file[0]
           L == Len(q) - n
<1>1. /\ fd /\ 0 \in DOMAIN file /\ n \in Nat /\ buffered \in Nat /\ n <= buffered
      /\ buffered <= Len(q) /\ Len(q) \in Nat /\ DOMAIN q = 1..Len(q)
  <2>1. buffered \in Nat
    BY TheDisk
  <2>2. fd /\ 0 \in DOMAIN file /\ buffered <= Len(q)
    BY <2>1 DEF FileInv, DiskInv
  <2> QED
    BY <2>1, <2>2, TheDisk
<1>2. L \in Nat /\ L + 1 \in DOMAIN q /\ \A k \in DOMAIN q : k <= L \/ k + buffered > Len(q)
  BY <1>1
<1>3. \A k \in DOMAIN q : ~ (k <= L) => q[k] \in Message
  BY <1>1, <1>2 DEF FileInv, BufferInv
<1>4. Newest(n) = {q[Len(q) - i] : i \in 0..(n - 1)}
  BY DEF Newest
<1>5. ASSUME NEW r \in Newest(n) PROVE \E k \in DOMAIN q : ~ (k <= L) /\ r = q[k]
  <2>1. PICK i \in 0..(n - 1) : r = q[Len(q) - i]
    BY <1>4
  <2>2. Len(q) - i \in DOMAIN q /\ ~ (Len(q) - i <= L)
    BY <1>1
  <2> QED
    BY <2>1, <2>2
<1>6. ASSUME NEW k \in DOMAIN q, ~ (k <= L) PROVE q[k] \in Newest(n)
  <2>1. Len(q) - k \in 0..(n - 1) /\ Len(q) - (Len(q) - k) = k
    BY <1>1, <1>6
  <2> QED
    BY <1>4, <2>1
<1>7. \A r \in Newest(n) : \E i \in DOMAIN written : r = written[i]
  BY <1>1, <1>3, <1>5 DEF FileInv, FilesInv, KeptInv, Logged
<1> HIDE DEF q, L
\* What stays is older than what is lost, so it is another record.
<1>8. ASSUME NEW f \in DOMAIN file, NEW k \in DOMAIN file[f], f = 0 => k <= L, file[f][k] \in Newest(n)
      PROVE  FALSE
  <2>1. PICK l \in DOMAIN file[0] : ~ (l <= L) /\ file[f][k] = file[0][l]
    BY <1>5, <1>8 DEF q
  <2>2. f \in Nat /\ k \in Nat /\ l \in Nat
    BY <1>1, <2>1, TheDisk
  <2>3. Older(f, k, 0, l)
    BY <1>2, <1>8, <2>1, <2>2 DEF Older
  <2>4. PICK i \in DOMAIN written : written[i] = file[f][k]
    BY <1>7, <1>8
  <2>5. i < i
    BY <1>1, <2>1, <2>3, <2>4 DEF FileInv, FilesInv, OrderInv
  <2>6. i \in Nat
    BY LenProperties DEF LogInv, SinkInv
  <2> QED
    BY <2>5, <2>6
<1>9. q[L + 1] \in Message
  BY <1>1, <1>2, <1>3
<1> QED
  BY <1>1, <1>6, <1>7, <1>8, <1>9 DEF q, L

\* Every record of the log is a message.
LEMMA TheLog == ASSUME MsgInv PROVE \A i \in DOMAIN written : written[i] \in Message
  BY DEF MsgInv, UsedInv, Logged, Used

\* Stdio writes what it buffers: some of it may be lost, and a part be left.
LEMMA WriteOutFiles ==
  ASSUME LogInv, MsgInv, FileInv, NEW n \in 0..buffered, WriteOut(n), written' = written
  PROVE  /\ FilesInv' /\ FileBound' /\ DOMAIN file' = DOMAIN file
         /\ \A f \in DOMAIN file' : file'[f] \in Seq(Stored)
         /\ fd => TotalBytes(file'[0]) \in Nat /\ TotalBytes(file'[0]) <= TotalBytes(file[0])
                  /\ Len(file'[0]) \in Nat /\ Len(file'[0]) <= Len(file[0])
         /\ lost' \subseteq {written'[i] : i \in DOMAIN written'}
<1>1. /\ \A f \in DOMAIN file : /\ file[f] \in Seq(Stored) /\ Len(file[f]) \in Nat
                               /\ TotalBytes(file[f]) \in Nat
      /\ fd => 0 \in DOMAIN file
      /\ \A r \in lost : \E i \in DOMAIN written : r = written[i]
  BY TheDisk DEF FileInv, DiskInv
<1>2. CASE n = 0
  <2>1. file' = file /\ lost' = lost
    BY <1>2 DEF WriteOut, Newest
  <2>2. FileBound' /\ FilesInv'
    BY <2>1 DEF FileInv, BoundInv, FileBound, FilesInv, KeptInv, OrderInv, TailInv, Logged
  <2> QED
    BY <1>1, <2>1, <2>2
<1>3. CASE n # 0
  <2> DEFINE q == file[0]
  <2>1. /\ 0 \in DOMAIN file /\ n \in Nat /\ n <= Len(q) /\ q[Len(q) - n + 1] \in Message
        /\ \A r \in Newest(n) : \E i \in DOMAIN written : r = written[i]
        /\ \A k \in DOMAIN q : ~ (k <= Len(q) - n) => q[k] \in Newest(n)
        /\ \A f \in DOMAIN file : \A k \in DOMAIN file[f] :
             (f = 0 => k <= Len(q) - n) => file[f][k] \notin Newest(n)
    BY <1>3, NewestRecords
  <2>2. PICK cut \in Salvage(q, n) : file' = Holding(0, cut)
    BY <1>3 DEF WriteOut
  <2>3. /\ DOMAIN file' = DOMAIN file /\ file'[0] = cut
        /\ \A f \in DOMAIN file : f # 0 => file'[f] = file[f]
    BY <2>1, <2>2 DEF Holding
  <2>4. lost' = lost \cup Newest(n)
    BY DEF WriteOut
  <2>5. q \in Seq(Stored) /\ Len(q) \in Nat /\ TotalBytes(q) \in Nat
    BY <1>1, <2>1
  <2> HIDE DEF q
  <2>6. /\ cut \in Seq(Stored) /\ Len(cut) \in Nat /\ Len(cut) <= Len(q)
        /\ \A k \in DOMAIN cut : \/ k \in DOMAIN q /\ k <= Len(q) - n /\ cut[k] = q[k]
                               \/ cut[k] \notin Message
        /\ \A k \in DOMAIN q : k <= Len(q) - n => k \in DOMAIN cut /\ cut[k] = q[k]
        /\ TotalBytes(cut) \in Nat /\ TotalBytes(cut) <= TotalBytes(q)
    BY <1>3, <2>1, <2>5, Salvaged
  <2>7. ASSUME NEW f \in DOMAIN file', NEW k \in DOMAIN file'[f]
        PROVE  \/ /\ f \in DOMAIN file /\ k \in DOMAIN file[f]
                  /\ file'[f][k] = file[f][k] /\ file[f][k] \notin lost' \ lost
               \/ file'[f][k] \notin Message
    <3>1. CASE f # 0
      BY <2>1, <2>3, <2>4, <3>1
    <3>2. CASE f = 0
      BY <2>1, <2>3, <2>4, <2>6, <3>2 DEF q
    <3> QED
      BY <3>1, <3>2
  <2>8. ASSUME NEW f \in DOMAIN file, NEW k \in DOMAIN file[f]
        PROVE  \/ f \in DOMAIN file' /\ k \in DOMAIN file'[f] /\ file'[f][k] = file[f][k]
               \/ file[f][k] \in lost'
    <3>1. CASE f # 0
      BY <2>3, <3>1
    <3>2. CASE f = 0
      BY <2>1, <2>3, <2>4, <2>6, <3>2 DEF q
    <3> QED
      BY <3>1, <3>2
  <2>9. FilesInv'
    <3>1. lost \subseteq lost'
      BY <2>4
    <3>2. /\ \A i \in DOMAIN written : i \in DOMAIN written' /\ written'[i] = written[i]
          /\ \A i \in DOMAIN written' : i \in DOMAIN written \/ written'[i] \in lost'
          /\ \A i \in DOMAIN written' : written'[i] \in Message
      BY TheLog
    <3> QED
      BY <2>7, <2>8, <3>1, <3>2, FilesLose DEF FileInv
  <2>10. FileBound'
    <3> SUFFICES ASSUME NEW f \in DOMAIN file', Len(file'[f]) > 1
                 PROVE  TotalBytes(file'[f]) <= MaxSize
      BY DEF FileBound
    <3>1. CASE f # 0
      BY <2>3, <3>1 DEF FileInv, BoundInv, FileBound
    <3>2. CASE f = 0
      <4>1. Len(q) > 1 /\ TotalBytes(q) <= MaxSize
        BY <2>1, <2>3, <2>5, <2>6, <3>2 DEF FileInv, BoundInv, FileBound, q
      <4> QED
        BY <2>3, <2>5, <2>6, <3>2, <4>1, FileAssumption
    <3> QED
      BY <3>1, <3>2
  <2>11. lost' \subseteq {written'[i] : i \in DOMAIN written'}
    BY <1>1, <2>1, <2>4
  <2> QED
    BY <1>1, <2>3, <2>6, <2>9, <2>10, <2>11 DEF q
<1> QED
  BY <1>2, <1>3

\* The files stay, and so does the stream, but for what it buffers.
LEMMA QuietFileInv ==
  ASSUME FileInv, UNCHANGED <<file, fd, force, size, mode, written, lost>>, buffered' \in {0, buffered},
         \/ UNCHANGED sink
         \/ sink.at \in {"rotate", "write"} /\ sink'.at = "throw"
         \/ sink.at = "throw" /\ sink'.at = "ready",
         sink.at = "write" => Bytes(sink.rec) \in Nat,
         \A f \in DOMAIN file : TotalBytes(file[f]) \in Nat /\ Len(file[f]) \in Nat
  PROVE  FileInv'
<1>1. DiskInv' /\ BufferInv'
  BY DEF FileInv, DiskInv, BufferInv
<1>2. FilesInv'
  BY DEF FileInv, FilesInv, KeptInv, OrderInv, TailInv, Logged
<1>3. SizeInv'
  <2>1. CASE UNCHANGED sink
    BY <2>1 DEF FileInv, BoundInv, SizeInv
  <2>2. CASE sink'.at \in {"throw", "ready"}
    <3>1. fd => TotalBytes(file[0]) <= size
      <4> SUFFICES ASSUME fd PROVE TotalBytes(file[0]) <= size
        OBVIOUS
      <4>1. TotalBytes(file[0]) \in Nat /\ size \in Nat
        BY DEF FileInv, DiskInv
      <4>2. TotalBytes(file[0]) + (IF sink.at = "write" THEN Bytes(sink.rec) ELSE 0) <= size
        BY DEF FileInv, BoundInv, SizeInv
      <4> QED
        BY <4>1, <4>2
    <3>2. fd => TotalBytes(file[0]) + 0 <= size
      BY <3>1 DEF FileInv, DiskInv
    <3> QED
      BY <2>2, <3>2 DEF FileInv, BoundInv, SizeInv
  <2> QED
    BY <2>1, <2>2
<1>4. FileBound'
  BY DEF FileInv, BoundInv, FileBound
<1> QED
  BY <1>1, <1>2, <1>3, <1>4 DEF FileInv, BoundInv

LEMMA SomeLosses == ASSUME FileInv PROVE Losses \subseteq 0..buffered
  BY DEF Losses, FileInv, DiskInv

\* _sink_it: counted first, and the file closed when that is too much.
LEMMA SinkItFileInv ==
  ASSUME LogInv, MsgInv, FileInv, NEW rec \in Message, sink_it(rec),
         mode # "none", UNCHANGED <<mode, written>>
  PROVE  FileInv'
<1>1. /\ size \in Nat /\ MaxSize \in Nat /\ Bytes(rec) \in Nat /\ sink.at = "ready"
      /\ size' = size + Bytes(rec) /\ size' \in Nat /\ UNCHANGED force
      /\ \A f \in DOMAIN file : TotalBytes(file[f]) \in Nat /\ Len(file[f]) \in Nat
  BY TheDisk, MessageAssumption DEF sink_it
<1>2. fd => TotalBytes(file[0]) <= size /\ 0 \in DOMAIN file /\ TotalBytes(file[0]) \in Nat
  <2>1. fd => TotalBytes(file[0]) + 0 <= size /\ 0 \in DOMAIN file
    BY <1>1 DEF FileInv, BoundInv, SizeInv, DiskInv
  <2> QED
    BY <1>1, <2>1
<1>3. CASE /\ size' > MaxSize /\ fd' = FALSE /\ \E n \in Losses : WriteOut(n)
           /\ sink' = [at |-> "rotate", i |-> MaxFiles, rec |-> rec]
  <2>1. PICK n \in 0..buffered : WriteOut(n)
    BY <1>3, SomeLosses
  <2>2. /\ FilesInv' /\ FileBound' /\ DOMAIN file' = DOMAIN file
        /\ \A f \in DOMAIN file' : file'[f] \in Seq(Stored)
        /\ lost' \subseteq {written'[i] : i \in DOMAIN written'}
    BY <2>1, WriteOutFiles
  <2>3. buffered' = 0 /\ mode' # "none"
    BY <2>1 DEF WriteOut
  <2>4. DiskInv'
    BY <1>1, <1>3, <2>2, <2>3, FileAssumption DEF FileInv, DiskInv
  <2>5. BufferInv' /\ SizeInv'
    BY <1>1, <1>3, <2>3 DEF FileInv, BufferInv, SizeInv
  <2> QED
    BY <2>2, <2>4, <2>5 DEF FileInv, BoundInv
<1>4. CASE size' <= MaxSize /\ UNCHANGED <<file, fd, buffered, lost>>
           /\ sink' = [at |-> "write", i |-> 0, rec |-> rec]
  <2>1. fd
    BY <1>1, <1>4 DEF FileInv, BoundInv, SizeInv
  <2>2. FilesInv' /\ FileBound'
    BY <1>4 DEF FileInv, FilesInv, KeptInv, OrderInv, TailInv, Logged, BoundInv, FileBound
  <2>3. DiskInv' /\ BufferInv'
    BY <1>1, <1>4, <2>1 DEF FileInv, DiskInv, BufferInv
  <2>4. TotalBytes(file[0]) + Bytes(rec) <= size'
    BY <1>1, <1>2, <2>1
  <2>5. SizeInv'
    BY <1>1, <1>4, <2>1, <2>4 DEF SizeInv
  <2> QED
    BY <2>2, <2>3, <2>5 DEF FileInv, BoundInv
<1> QED
  BY <1>3, <1>4 DEF sink_it

\* _rotate: only the oldest file is ever removed ...
LEMMA RemoveFileInv ==
  ASSUME LogInv, MsgInv, FileInv, remove, UNCHANGED <<mode, written, lost>>
  PROVE  FileInv'
<1>1. CASE Throw /\ UNCHANGED file
  <2>1. sink.at = "rotate" /\ sink'.at = "throw"
    BY <1>1 DEF remove, Throw, LogInv, SinkInv, SinkCall
  <2> QED
    BY <1>1, <2>1, TheDisk, QuietFileInv DEF remove
<1>2. CASE file' = Restrict(file, DOMAIN file \ {sink.i}) /\ UNCHANGED sink
  <2>1. /\ sink.at = "rotate" /\ sink.i = MaxFiles /\ MaxFiles \in DOMAIN file /\ ~fd
        /\ UNCHANGED <<fd, force, buffered, size>>
    BY TheDisk DEF remove, FileInv, DiskInv
  <2>2. /\ DOMAIN file' = DOMAIN file \ {MaxFiles}
        /\ \A f \in DOMAIN file' : f \in DOMAIN file /\ file'[f] = file[f] /\ f < MaxFiles
    BY <1>2, <2>1, TheDisk DEF Restrict
  <2>3. DiskInv'
    <3>1. /\ DOMAIN file' \subseteq 0..MaxFiles /\ \A f \in DOMAIN file' : file'[f] \in Seq(Stored)
          /\ ~fd' /\ buffered' = 0 /\ buffered' \in Nat /\ size' \in Nat
          /\ lost' \subseteq {written'[i] : i \in DOMAIN written'}
      BY <2>1, <2>2 DEF FileInv, DiskInv
    <3>2. sink'.at = "rotate" /\ sink'.i = MaxFiles /\ ~ (sink'.i < MaxFiles)
      BY <1>2, <2>1, FileAssumption
    <3> QED
      BY <3>1, <3>2 DEF DiskInv
  <2>4. BoundInv'
    BY <1>2, <2>1, <2>2 DEF FileInv, BoundInv, FileBound, SizeInv
  <2>5. KeptInv' /\ OrderInv'
    BY <2>2 DEF FileInv, FilesInv, KeptInv, OrderInv, Logged, Older
  <2>6. TailInv'
    <3> SUFFICES ASSUME NEW f \in DOMAIN file', NEW k \in DOMAIN file'[f],
                        NEW i \in DOMAIN written, NEW j \in DOMAIN written,
                        written[i] = file'[f][k], i < j, written[j] \notin lost
                 PROVE  \E g \in DOMAIN file' : \E l \in DOMAIN file'[g] : file'[g][l] = written[j]
      BY DEF TailInv
    <3>1. f \in DOMAIN file /\ file'[f] = file[f] /\ MaxFiles > f
      BY <2>2, TheDisk
    <3>2. PICK g \in DOMAIN file : \E l \in DOMAIN file[g] : file[g][l] = written[j]
      BY <3>1 DEF FileInv, FilesInv, TailInv
    <3>3. CASE g = MaxFiles
      <4>1. PICK l \in DOMAIN file[g] : file[g][l] = written[j]
        BY <3>2
      <4>2. Older(g, l, f, k)
        BY <3>1, <3>3 DEF Older
      <4>3. j < i
        BY <3>1, <4>1, <4>2 DEF FileInv, FilesInv, OrderInv
      <4>4. i \in Nat /\ j \in Nat
        BY LenProperties DEF LogInv, SinkInv
      <4> QED
        BY <4>3, <4>4
    <3>4. CASE g # MaxFiles
      BY <2>2, <3>2, <3>4
    <3> QED
      BY <3>3, <3>4
  <2>7. BufferInv'
    BY <2>1, <2>3 DEF FileInv, BufferInv, DiskInv
  <2> QED
    BY <2>3, <2>4, <2>5, <2>6, <2>7 DEF FileInv, FilesInv
<1> QED
  BY <1>1, <1>2 DEF remove

\* ... and the others move to numbers that are free.
LEMMA RenameFileInv ==
  ASSUME LogInv, MsgInv, FileInv, rename, UNCHANGED <<mode, written, lost>>
  PROVE  FileInv'
<1> DEFINE n == sink.i
<1>1. /\ sink.at = "rotate" /\ n > 0 /\ n \notin DOMAIN file /\ ~fd /\ n \in 0..MaxFiles
      /\ UNCHANGED <<fd, force, buffered, size>> /\ buffered = 0
  BY TheDisk DEF rename, FileInv, DiskInv
<1>2. CASE Throw /\ UNCHANGED file
  <2>1. sink'.at = "throw"
    BY <1>2 DEF Throw, LogInv, SinkInv, SinkCall
  <2> QED
    BY <1>1, <1>2, <2>1, TheDisk, QuietFileInv
<1>3. BufferInv'
  BY <1>1 DEF FileInv, BufferInv
<1>4. ASSUME sink' = [sink EXCEPT !.i = sink.i - 1] PROVE sink'.at = "rotate" /\ sink'.i = n - 1
  BY <1>1, <1>4 DEF LogInv, SinkInv, SinkCall
<1>5. CASE /\ n - 1 \in DOMAIN file /\ sink'.at = "rotate" /\ sink'.i = n - 1
           /\ file' = Restrict(Holding(n, file[n - 1]), (DOMAIN file \cup {n}) \ {n - 1})
  <2> DEFINE b == [f \in DOMAIN file' |-> IF f = n THEN n - 1 ELSE f]
  <2>1. /\ DOMAIN file' = (DOMAIN file \cup {n}) \ {n - 1} /\ n \in DOMAIN file'
        /\ file'[n] = file[n - 1] /\ b[n] = n - 1
        /\ \A f \in DOMAIN file' : f # n => f \in DOMAIN file /\ file'[f] = file[f] /\ b[f] = f
        /\ \A f \in DOMAIN file' : b[f] \in DOMAIN file /\ file'[f] = file[b[f]]
    BY <1>1, <1>5 DEF Restrict, Holding
  <2>2. \A f \in DOMAIN file' : f \in 0..MaxFiles
    BY <1>1, <2>1, TheDisk
  <2> HIDE DEF b
  <2>3. \A f, g \in DOMAIN file' : f > g => b[f] > b[g]
    <3> SUFFICES ASSUME NEW f \in DOMAIN file', NEW g \in DOMAIN file', f > g PROVE b[f] > b[g]
      OBVIOUS
    <3>1. f \in Nat /\ g \in Nat /\ n \in Nat /\ f # n - 1 /\ g # n - 1
      BY <1>1, <2>1, <2>2
    <3>2. b[f] = IF f = n THEN n - 1 ELSE f
      BY <2>1
    <3>3. b[g] = IF g = n THEN n - 1 ELSE g
      BY <2>1
    <3> QED
      BY <3>1, <3>2, <3>3
  <2>4. \A f \in DOMAIN file : \E g \in DOMAIN file' : file'[g] = file[f]
    BY <1>1, <2>1
  <2>5. FilesInv'
    BY <2>1, <2>3, <2>4, FilesMove DEF FileInv
  <2>6. n - 1 \notin DOMAIN file' /\ n - 1 < MaxFiles
    BY <1>1, <2>1, TheDisk
  <2>7. DiskInv'
    <3>1. /\ DOMAIN file' \subseteq 0..MaxFiles /\ \A f \in DOMAIN file' : file'[f] \in Seq(Stored)
          /\ ~fd' /\ buffered' = 0 /\ buffered' \in Nat /\ size' \in Nat
          /\ lost' \subseteq {written'[i] : i \in DOMAIN written'}
      BY <1>1, <2>1, <2>2 DEF FileInv, DiskInv
    <3> QED
      BY <1>5, <2>6, <3>1 DEF DiskInv
  <2>8. BoundInv'
    <3>1. FileBound'
      BY <2>1 DEF FileInv, BoundInv, FileBound
    <3>2. SizeInv'
      BY <1>1, <1>5 DEF FileInv, BoundInv, SizeInv
    <3> QED
      BY <3>1, <3>2 DEF BoundInv
  <2> QED
    BY <1>3, <2>5, <2>7, <2>8 DEF FileInv
<1>6. CASE /\ n - 1 \notin DOMAIN file /\ sink'.at = "rotate" /\ sink'.i = n - 1
           /\ UNCHANGED file
  <2>1. DiskInv'
    BY <1>1, <1>6 DEF FileInv, DiskInv
  <2>2. BoundInv' /\ FilesInv'
    BY <1>1, <1>6
    DEF FileInv, BoundInv, FileBound, SizeInv, FilesInv, KeptInv, OrderInv, TailInv, Logged
  <2> QED
    BY <1>3, <2>1, <2>2 DEF FileInv
<1> QED
  BY <1>2, <1>4, <1>5, <1>6 DEF rename

LEMMA ReopenFileInv ==
  ASSUME LogInv, MsgInv, FileInv, reopen, UNCHANGED <<mode, written, lost>>
  PROVE  FileInv'
<1>1. /\ sink.at = "rotate" /\ sink.i = 0 /\ ~fd /\ buffered = 0 /\ buffered' = 0 /\ UNCHANGED force
      /\ MaxFiles > 0 => 0 \notin DOMAIN file
      /\ sink.rec \in Message /\ Bytes(sink.rec) \in Nat /\ MaxFiles \in Nat
  BY TheDisk DEF reopen, FileInv, DiskInv
<1>2. CASE Throw /\ UNCHANGED <<file, fd, size>>
  <2>1. sink'.at = "throw"
    BY <1>2 DEF Throw, LogInv, SinkInv, SinkCall
  <2> QED
    BY <1>1, <1>2, <2>1, TheDisk, QuietFileInv
<1>3. CASE file' = Holding(0, <<>>) /\ fd' = TRUE /\ size' = Bytes(sink.rec)
           /\ sink' = [sink EXCEPT !.at = "write"]
  <2>1. /\ DOMAIN file' = DOMAIN file \cup {0} /\ file'[0] = <<>>
        /\ \A f \in DOMAIN file : f # 0 => file'[f] = file[f]
    BY <1>3 DEF Holding
  <2>2. sink'.at = "write" /\ sink'.rec = sink.rec
    BY <1>3 DEF LogInv, SinkInv, SinkCall
  <2>3. <<>> \in Seq(Stored) /\ Len(<<>>) = 0 /\ DOMAIN <<>> = {}
    OBVIOUS
  <2>4. FilesInv'
    <3>1. CASE MaxFiles = 0
      <4>1. \A f \in DOMAIN file' : f = 0
        BY <2>1, <3>1, TheDisk
      <4>2. \A f \in DOMAIN file' : DOMAIN file'[f] = {}
        BY <2>1, <2>3, <4>1
      <4> QED
        BY <4>2 DEF FilesInv, KeptInv, OrderInv, TailInv
    <3>2. CASE MaxFiles # 0
      <4> DEFINE b == [f \in DOMAIN file' |-> f]
      <4>1. 0 \notin DOMAIN file
        BY <1>1, <3>2
      <4>2. \A f \in DOMAIN file' : b[f] = f
        OBVIOUS
      <4> HIDE DEF b
      <4>3. /\ \A f \in DOMAIN file' : file'[f] # <<>> => b[f] \in DOMAIN file /\ file'[f] = file[b[f]]
            /\ \A f, g \in DOMAIN file' : f > g => b[f] > b[g]
            /\ \A f \in DOMAIN file : \E g \in DOMAIN file' : file'[g] = file[f]
        BY <2>1, <4>1, <4>2
      <4> QED
        BY <4>3, FilesMove DEF FileInv
    <3> QED
      BY <3>1, <3>2
  <2>5. DiskInv'
    <3>1. DOMAIN file' \subseteq 0..MaxFiles /\ \A f \in DOMAIN file' : file'[f] \in Seq(Stored)
      <4>1. DOMAIN file \subseteq 0..MaxFiles /\ 0 \in 0..MaxFiles
        BY <1>1 DEF FileInv, DiskInv
      <4>2. ASSUME NEW f \in DOMAIN file' PROVE file'[f] \in Seq(Stored)
        BY <2>1, <2>3 DEF FileInv, DiskInv
      <4> QED
        BY <2>1, <4>1, <4>2
    <3>2. lost' \subseteq {written'[i] : i \in DOMAIN written'}
      BY DEF FileInv, DiskInv
    <3>3. buffered' <= Len(file'[0]) /\ 0 \in DOMAIN file' /\ buffered' \in Nat /\ size' \in Nat /\ fd'
      BY <1>1, <1>3, <2>1, <2>3
    <3>4. mode' # "none"
      BY <1>1, TheDisk
    <3> QED
      BY <2>2, <3>1, <3>2, <3>3, <3>4 DEF DiskInv
  <2>6. SizeInv'
    <3>1. TotalBytes(file'[0]) = 0 /\ Len(file'[0]) = 0
      BY <2>1, <2>3, NoBytes
    <3>2. TotalBytes(file'[0]) + Bytes(sink'.rec) <= size'
      BY <1>1, <1>3, <2>2, <3>1
    <3> QED
      BY <1>3, <2>2, <3>1, <3>2 DEF SizeInv
  <2>7. FileBound'
    <3> SUFFICES ASSUME NEW f \in DOMAIN file', Len(file'[f]) > 1
                 PROVE  TotalBytes(file'[f]) <= MaxSize
      BY DEF FileBound
    <3>1. f # 0
      BY <2>1, <2>3
    <3> QED
      BY <2>1, <3>1 DEF FileInv, BoundInv, FileBound
  <2>8. BufferInv'
    BY <1>1 DEF FileInv, BufferInv
  <2> QED
    BY <2>4, <2>5, <2>6, <2>7, <2>8 DEF FileInv, BoundInv
<1> QED
  BY <1>2, <1>3 DEF reopen

\* What the sink is to write, and may write.
LEMMA TheRecord ==
  ASSUME LogInv, MsgInv, FileInv, sink.at = "write"
  PROVE  /\ fd /\ 0 \in DOMAIN file /\ mode # "none" /\ sink.rec \in Message
         /\ Bytes(sink.rec) \in Nat /\ TotalBytes(file[0]) + Bytes(sink.rec) <= size
         /\ Len(file[0]) # 0 => size <= MaxSize
         /\ (\A i \in DOMAIN written : written[i] # sink.rec) /\ sink.rec \notin lost
<1>1. fd /\ 0 \in DOMAIN file
  BY DEF FileInv, DiskInv
<1>2. ~ Logged(sink.rec)
  BY TheDisk DEF MsgInv, OnceInv
<1>3. (\A i \in DOMAIN written : written[i] # sink.rec) /\ sink.rec \notin lost
  BY <1>2 DEF Logged, FileInv, DiskInv
<1> QED
  BY <1>1, <1>3, TheDisk DEF FileInv, BoundInv, SizeInv

\* The record is cut, or lost, and so may be what stdio buffered before.
LEMMA CutFileInv ==
  ASSUME LogInv, MsgInv, FileInv, sink.at = "write", NEW n \in 0..buffered,
         NEW cut \in Salvage(Append(file[0], sink.rec), n + 1), file' = Holding(0, cut),
         buffered' = 0, sink'.at \in {"ready", "throw"}, UNCHANGED <<fd, force, size, mode>>,
         \/ written' = written /\ lost' = lost \cup Newest(n)
         \/ n = 0 /\ written' = Append(written, sink.rec) /\ lost' = lost \cup {sink.rec}
  PROVE  FileInv'
<1> DEFINE q == file[0]
<1>1. PICK m \in Message : m = sink.rec
  BY TheRecord
<1>2. /\ fd /\ 0 \in DOMAIN file /\ mode # "none" /\ Bytes(m) \in Nat
      /\ TotalBytes(q) + Bytes(m) <= size /\ (Len(q) # 0 => size <= MaxSize)
      /\ \A i \in DOMAIN written : written[i] # m
  BY <1>1, TheRecord
<1>3. /\ q \in Seq(Stored) /\ Len(q) \in Nat /\ DOMAIN q = 1..Len(q) /\ TotalBytes(q) \in Nat
      /\ size \in Nat /\ MaxSize \in Nat /\ n \in Nat /\ m \in Stored
      /\ \A r \in lost : \E i \in DOMAIN written : r = written[i]
  BY <1>2, TheDisk DEF FileInv, DiskInv, Stored
<1>4. /\ n <= Len(q)
      /\ n # 0 => q[Len(q) - n + 1] \in Message
      /\ \A r \in Newest(n) : \E i \in DOMAIN written : r = written[i]
      /\ \A k \in DOMAIN q : ~ (k <= Len(q) - n) => q[k] \in Newest(n)
      /\ \A f \in DOMAIN file : \A k \in DOMAIN file[f] :
           (f = 0 => k <= Len(q) - n) => file[f][k] \notin Newest(n)
  <2>1. CASE n = 0
    <3>1. Newest(n) = {}
      BY <2>1 DEF Newest
    <3>2. \A k \in DOMAIN q : k <= Len(q) - n
      BY <1>3, <2>1
    <3> QED
      BY <1>3, <2>1, <3>1, <3>2
  <2>2. CASE n # 0
    BY <2>2, NewestRecords
  <2> QED
    BY <2>1, <2>2
<1> HIDE DEF q
<1>5. PICK a : a = Append(q, m)
  OBVIOUS
<1>6. /\ a \in Seq(Stored) /\ Len(a) = Len(q) + 1 /\ a[Len(q) + 1] = m
      /\ \A k \in DOMAIN q : k \in DOMAIN a /\ a[k] = q[k]
      /\ \A k \in DOMAIN a : k \in DOMAIN q \/ k = Len(q) + 1
      /\ TotalBytes(a) = TotalBytes(q) + Bytes(m)
  BY <1>3, <1>5, Appended, Totals
<1>7. PICK c \in Nat : c = n + 1
  BY <1>3
<1>8. /\ c # 0 /\ c <= Len(a) /\ Len(a) - c = Len(q) - n
      /\ a[Len(a) - c + 1] \in Message
  <2>1. c # 0 /\ c <= Len(a) /\ Len(a) - c = Len(q) - n /\ Len(a) - c + 1 = Len(q) - n + 1
    BY <1>3, <1>4, <1>6, <1>7
  <2>2. CASE n = 0
    <3>1. Len(a) - c + 1 = Len(q) + 1
      BY <1>3, <2>1, <2>2
    <3> QED
      BY <1>6, <2>1, <3>1
  <2>3. CASE n # 0
    <3>1. Len(q) - n + 1 \in DOMAIN q
      BY <1>3, <1>4, <2>3
    <3> QED
      BY <1>4, <1>6, <2>1, <2>3, <3>1
  <2> QED
    BY <2>2, <2>3
<1>9. /\ cut \in Seq(Stored) /\ Len(cut) \in Nat /\ Len(cut) <= Len(a)
      /\ \A k \in DOMAIN cut : \/ k \in DOMAIN a /\ k <= Len(q) - n /\ cut[k] = a[k]
                             \/ cut[k] \notin Message
      /\ \A k \in DOMAIN a : k <= Len(q) - n => k \in DOMAIN cut /\ cut[k] = a[k]
      /\ TotalBytes(cut) \in Nat /\ TotalBytes(cut) <= TotalBytes(a)
  <2>1. cut \in Salvage(a, c)
    BY <1>1, <1>5, <1>7 DEF q
  <2> QED
    BY <1>6, <1>8, <2>1, Salvaged
<1>10. /\ DOMAIN file' = DOMAIN file /\ file'[0] = cut
       /\ \A f \in DOMAIN file : f # 0 => file'[f] = file[f]
  BY <1>2 DEF Holding
<1>11. /\ \A k \in DOMAIN cut : \/ k \in DOMAIN q /\ k <= Len(q) - n /\ cut[k] = q[k]
                              \/ cut[k] \notin Message
       /\ \A k \in DOMAIN q : k <= Len(q) - n => k \in DOMAIN cut /\ cut[k] = q[k]
  <2>1. ASSUME NEW k \in DOMAIN cut, cut[k] \in Message PROVE k \in DOMAIN q /\ k <= Len(q) - n /\ cut[k] = q[k]
    <3>1. k \in DOMAIN a /\ k <= Len(q) - n /\ cut[k] = a[k]
      BY <1>9, <2>1
    <3>2. k # Len(q) + 1
      BY <1>3, <3>1
    <3> QED
      BY <1>6, <3>1, <3>2
  <2> QED
    BY <1>6, <1>9, <2>1
\* What is lost is not in the files any more, and nothing else is missing.
<1>12. /\ lost \subseteq lost'
       /\ \A i \in DOMAIN written : i \in DOMAIN written' /\ written'[i] = written[i]
       /\ \A i \in DOMAIN written' : i \in DOMAIN written \/ written'[i] \in lost'
       /\ \A i \in DOMAIN written' : written'[i] \in Message
       /\ \A r \in lost' : \E i \in DOMAIN written' : r = written'[i]
       /\ \A k \in DOMAIN q : ~ (k <= Len(q) - n) => q[k] \in lost'
       /\ \A f \in DOMAIN file : \A k \in DOMAIN file[f] :
            (f = 0 => k <= Len(q) - n) /\ file[f][k] \in Message => file[f][k] \notin lost' \ lost
  <2>1. \A i \in DOMAIN written : written[i] \in Message
    BY TheLog
  <2>2. CASE written' = written /\ lost' = lost \cup Newest(n)
    BY <1>3, <1>4, <2>1, <2>2
  <2>3. CASE n = 0 /\ written' = Append(written, m) /\ lost' = lost \cup {m}
    <3>1. written \in Seq(Slot) /\ m \in Slot
      BY DEF LogInv, SinkInv, Slot
    <3>2. /\ Len(written) + 1 \in DOMAIN written' /\ written'[Len(written) + 1] = m
          /\ \A i \in DOMAIN written : i \in DOMAIN written' /\ written'[i] = written[i]
          /\ \A i \in DOMAIN written' : i \in DOMAIN written \/ i = Len(written) + 1
      BY <2>3, <3>1, Appended
    <3>3. \A k \in DOMAIN q : k <= Len(q) - n
      BY <1>3, <2>3
    <3>4. \A f \in DOMAIN file : \A k \in DOMAIN file[f] : file[f][k] \in Message => file[f][k] # m
      BY <1>2 DEF FileInv, FilesInv, KeptInv, Logged
    <3> QED
      BY <1>3, <2>1, <2>3, <3>2, <3>3, <3>4
  <2> QED
    BY <1>1, <2>2, <2>3
<1>13. FilesInv'
  <2>1. ASSUME NEW f \in DOMAIN file', NEW k \in DOMAIN file'[f]
        PROVE  \/ /\ f \in DOMAIN file /\ k \in DOMAIN file[f]
                  /\ file'[f][k] = file[f][k] /\ file[f][k] \notin lost' \ lost
               \/ file'[f][k] \notin Message
    <3>1. CASE f # 0
      BY <1>10, <1>12, <3>1
    <3>2. CASE f = 0
      BY <1>2, <1>10, <1>11, <1>12, <3>2 DEF q
    <3> QED
      BY <3>1, <3>2
  <2>2. ASSUME NEW f \in DOMAIN file, NEW k \in DOMAIN file[f]
        PROVE  \/ f \in DOMAIN file' /\ k \in DOMAIN file'[f] /\ file'[f][k] = file[f][k]
               \/ file[f][k] \in lost'
    <3>1. CASE f # 0
      BY <1>10, <3>1
    <3>2. CASE f = 0
      BY <1>10, <1>11, <1>12, <3>2 DEF q
    <3> QED
      BY <3>1, <3>2
  <2> QED
    BY <1>12, <2>1, <2>2, FilesLose DEF FileInv
<1>14. TotalBytes(cut) <= size
  BY <1>2, <1>3, <1>6, <1>9
<1>15. FileBound'
  <2> SUFFICES ASSUME NEW f \in DOMAIN file', Len(file'[f]) > 1
               PROVE  TotalBytes(file'[f]) <= MaxSize
    BY DEF FileBound
  <2>1. CASE f # 0
    BY <1>10, <2>1 DEF FileInv, BoundInv, FileBound
  <2>2. CASE f = 0
    <3>1. Len(q) # 0
      BY <1>3, <1>6, <1>9, <1>10, <2>2
    <3> QED
      BY <1>2, <1>3, <1>9, <1>10, <1>14, <2>2, <3>1
  <2> QED
    BY <2>1, <2>2
<1>16. DiskInv'
  <2>1. DOMAIN file' \subseteq 0..MaxFiles /\ \A f \in DOMAIN file' : file'[f] \in Seq(Stored)
    BY <1>9, <1>10 DEF FileInv, DiskInv
  <2>2. lost' \subseteq {written'[i] : i \in DOMAIN written'}
    BY <1>12
  <2>3. buffered' \in Nat /\ buffered' <= Len(file'[0])
    BY <1>9, <1>10
  <2> QED
    BY <1>2, <1>3, <1>10, <2>1, <2>2, <2>3 DEF DiskInv
<1>17. BufferInv' /\ SizeInv'
  <2>1. TotalBytes(file'[0]) + 0 <= size'
    BY <1>9, <1>10, <1>14
  <2> QED
    BY <1>2, <2>1 DEF FileInv, BufferInv, SizeInv
<1> QED
  BY <1>13, <1>15, <1>16, <1>17 DEF FileInv, BoundInv

\* file_helper::write: the newest record.
LEMMA WriteFileInv ==
  ASSUME LogInv, MsgInv, FileInv, write, UNCHANGED mode,
         written' = IF sink'.at = "ready" THEN Append(written, sink.rec) ELSE written
  PROVE  FileInv'
<1>1. /\ sink.at = "write" /\ fd /\ UNCHANGED <<fd, force, size>> /\ 0 \in DOMAIN file
      /\ sink.rec \in Message /\ Bytes(sink.rec) \in Nat /\ mode # "none"
      /\ TotalBytes(file[0]) + Bytes(sink.rec) <= size
  BY TheRecord DEF write
<1>2. CASE \/ /\ force /\ sink' = NoCall /\ UNCHANGED buffered /\ lost' = lost \cup {sink.rec}
              /\ \E recs \in Salvage(Append(file[0], sink.rec), 1) : file' = Holding(0, recs)
           \/ /\ Throw /\ buffered' = 0
              /\ \E n \in 0..buffered :
                   /\ \E recs \in Salvage(Append(file[0], sink.rec), n + 1) : file' = Holding(0, recs)
                   /\ lost' = lost \cup Newest(n)
  <2>1. NoCall.at = "ready" /\ (Throw => sink'.at = "throw")
    BY DEF NoCall, Throw, LogInv, SinkInv, SinkCall
  <2>2. CASE /\ force /\ sink' = NoCall /\ UNCHANGED buffered /\ lost' = lost \cup {sink.rec}
             /\ \E recs \in Salvage(Append(file[0], sink.rec), 1) : file' = Holding(0, recs)
    <3>1. buffered = 0 /\ 0 \in 0..buffered /\ 0 + 1 = 1
      BY <2>2 DEF FileInv, BufferInv
    <3>2. PICK recs \in Salvage(Append(file[0], sink.rec), 0 + 1) : file' = Holding(0, recs)
      BY <2>2, <3>1
    <3> QED
      BY <1>1, <2>1, <2>2, <3>1, <3>2, CutFileInv
  <2>3. CASE /\ Throw /\ buffered' = 0
             /\ \E n \in 0..buffered :
                  /\ \E recs \in Salvage(Append(file[0], sink.rec), n + 1) : file' = Holding(0, recs)
                  /\ lost' = lost \cup Newest(n)
    <3>1. PICK n \in 0..buffered :
            /\ \E recs \in Salvage(Append(file[0], sink.rec), n + 1) : file' = Holding(0, recs)
            /\ lost' = lost \cup Newest(n)
      BY <2>3
    <3>2. PICK recs \in Salvage(Append(file[0], sink.rec), n + 1) : file' = Holding(0, recs)
      BY <3>1
    <3> QED
      BY <1>1, <2>1, <2>3, <3>1, <3>2, CutFileInv
  <2> QED
    BY <1>2, <2>2, <2>3
<1>3. CASE /\ file' = [file EXCEPT ![0] = Append(file[0], sink.rec)] /\ sink' = NoCall
           /\ buffered' = (IF force THEN 0 ELSE buffered + 1) /\ UNCHANGED lost
  <2> PICK m : m = sink.rec
    OBVIOUS
  <2> DEFINE L == Len(file[0])
             W == Len(written)
  <2>1. sink'.at = "ready" /\ written' = Append(written, m)
    BY <1>3 DEF NoCall
  <2>2. /\ file[0] \in Seq(Stored) /\ L \in Nat /\ DOMAIN file[0] = 1..L
        /\ TotalBytes(file[0]) \in Nat /\ m \in Message /\ m \in Stored
        /\ size \in Nat /\ MaxSize \in Nat /\ buffered \in Nat
    BY <1>1, TheDisk DEF Stored
  <2>3. /\ DOMAIN file' = DOMAIN file /\ file'[0] = Append(file[0], m)
        /\ \A f \in DOMAIN file : f # 0 => file'[f] = file[f]
    BY <1>1, <1>3
  <2>4. /\ file'[0] \in Seq(Stored) /\ Len(file'[0]) = L + 1 /\ L + 1 \in DOMAIN file'[0]
        /\ file'[0][L + 1] = m
        /\ \A k \in DOMAIN file[0] : k \in DOMAIN file'[0] /\ file'[0][k] = file[0][k]
        /\ \A k \in DOMAIN file'[0] : k \in DOMAIN file[0] \/ k = L + 1
    BY <2>2, <2>3, Appended
  <2>5. /\ written \in Seq(Slot) /\ W \in Nat /\ DOMAIN written = 1..W /\ m \in Slot
    BY <2>2, LenProperties DEF LogInv, SinkInv, Slot
  <2>6. /\ W + 1 \in DOMAIN written' /\ written'[W + 1] = m
        /\ \A i \in DOMAIN written : i \in DOMAIN written' /\ written'[i] = written[i]
        /\ \A i \in DOMAIN written' : i \in DOMAIN written \/ i = W + 1
    BY <2>1, <2>5, Appended
  <2>7. ~ Logged(m) /\ (\A i \in DOMAIN written : written[i] # m) /\ m \notin lost
    <3>1. (\A i \in DOMAIN written : written[i] # m) /\ m \notin lost
      BY <1>1, TheRecord
    <3> QED
      BY <3>1 DEF Logged
  <2> HIDE DEF L, W
  \* Every record of a file was there, or is the new one, which is the youngest.
  <2>8. \A f \in DOMAIN file' : \A k \in DOMAIN file'[f] :
          \/ k \in DOMAIN file[f] /\ file'[f][k] = file[f][k] /\ file[f][k] # m
          \/ f = 0 /\ k = L + 1 /\ file'[f][k] = m
    <3> SUFFICES ASSUME NEW f \in DOMAIN file', NEW k \in DOMAIN file'[f],
                        ~ (f = 0 /\ k = L + 1)
                 PROVE  k \in DOMAIN file[f] /\ file'[f][k] = file[f][k] /\ file[f][k] # m
      BY <2>4
    <3>1. f \in DOMAIN file /\ k \in DOMAIN file[f] /\ file'[f][k] = file[f][k]
      BY <2>3, <2>4
    <3>2. file[f][k] \in Message => Logged(file[f][k])
      BY <3>1 DEF FileInv, FilesInv, KeptInv
    <3> QED
      BY <2>2, <2>7, <3>1, <3>2
  <2>9. KeptInv'
    <3> SUFFICES ASSUME NEW f \in DOMAIN file', NEW k \in DOMAIN file'[f], file'[f][k] \in Message
                 PROVE  (\E i \in DOMAIN written' : written'[i] = file'[f][k]) /\ file'[f][k] \notin lost
      BY <1>3 DEF KeptInv, Logged
    <3>1. CASE file'[f][k] = m
      BY <2>6, <2>7, <3>1
    <3>2. CASE k \in DOMAIN file[f] /\ file'[f][k] = file[f][k]
      BY <2>3, <2>6, <3>2 DEF FileInv, FilesInv, KeptInv, Logged
    <3> QED
      BY <2>8, <3>1, <3>2
  <2>10. OrderInv'
    <3> SUFFICES ASSUME NEW f \in DOMAIN file', NEW g \in DOMAIN file',
                        NEW k \in DOMAIN file'[f], NEW l \in DOMAIN file'[g], Older(f, k, g, l),
                        NEW i \in DOMAIN written', NEW j \in DOMAIN written',
                        written'[i] = file'[f][k], written'[j] = file'[g][l]
                 PROVE  i < j
      BY DEF OrderInv, Older
    <3>1. f \in DOMAIN file /\ g \in DOMAIN file /\ f \in Nat /\ g \in Nat
      BY <2>3, TheDisk
    <3>2. CASE f = 0 /\ k = L + 1
      <4>1. g = 0 /\ L + 1 < l
        BY <3>1, <3>2 DEF Older
      <4> QED
        BY <2>2, <2>4, <4>1
    <3>3. CASE k \in DOMAIN file[f] /\ file'[f][k] = file[f][k] /\ file[f][k] # m
      <4>1. i \in DOMAIN written /\ written[i] = file[f][k]
        BY <2>6, <3>3
      <4>2. CASE l \in DOMAIN file[g] /\ file'[g][l] = file[g][l] /\ file[g][l] # m
        <5>1. j \in DOMAIN written /\ written[j] = file[g][l]
          BY <2>6, <4>2
        <5> QED
          BY <3>1, <3>3, <4>1, <4>2, <5>1 DEF FileInv, FilesInv, OrderInv
      <4>3. CASE file'[g][l] = m
        BY <2>5, <2>6, <2>7, <4>1, <4>3
      <4> QED
        BY <2>8, <4>2, <4>3
    <3> QED
      BY <2>8, <3>2, <3>3
  <2>11. TailInv'
    <3> SUFFICES ASSUME NEW f \in DOMAIN file', NEW k \in DOMAIN file'[f],
                        NEW i \in DOMAIN written', NEW j \in DOMAIN written',
                        written'[i] = file'[f][k], i < j, written'[j] \notin lost
                 PROVE  \E g \in DOMAIN file' : \E l \in DOMAIN file'[g] : file'[g][l] = written'[j]
      BY <1>3 DEF TailInv
    <3>1. CASE j = W + 1
      BY <1>1, <2>3, <2>4, <2>6, <3>1
    <3>2. CASE j # W + 1
      <4>1. j \in DOMAIN written /\ written'[j] = written[j] /\ i \in DOMAIN written
        BY <2>5, <2>6, <3>2
      <4>2. written'[i] = written[i] /\ written[i] # m
        BY <2>6, <2>7, <4>1
      <4>3. k \in DOMAIN file[f] /\ file'[f][k] = file[f][k]
        BY <2>8, <4>2
      <4>4. PICK g \in DOMAIN file : \E l \in DOMAIN file[g] : file[g][l] = written[j]
        <5>1. f \in DOMAIN file /\ written[i] = file[f][k] /\ written[j] \notin lost
          BY <2>3, <4>1, <4>2, <4>3
        <5> QED
          BY <4>1, <4>3, <5>1 DEF FileInv, FilesInv, TailInv
      <4> QED
        BY <2>3, <2>4, <4>1, <4>4
    <3> QED
      BY <3>1, <3>2
  <2>12. DiskInv'
    <3>1. DOMAIN file' \subseteq 0..MaxFiles /\ \A f \in DOMAIN file' : file'[f] \in Seq(Stored)
      BY <2>3, <2>4 DEF FileInv, DiskInv
    <3>2. lost' \subseteq {written'[i] : i \in DOMAIN written'}
      <4>1. \A r \in lost : \E i \in DOMAIN written : r = written[i]
        BY DEF FileInv, DiskInv
      <4> QED
        BY <1>3, <2>6, <4>1
    <3>3. buffered' \in Nat /\ buffered' <= Len(file'[0])
      <4>1. buffered <= L /\ buffered \in Nat
        BY <1>1 DEF FileInv, DiskInv, L
      <4> QED
        BY <1>3, <2>2, <2>4, <4>1
    <3> QED
      BY <1>1, <2>1, <2>2, <2>3, <3>1, <3>2, <3>3 DEF DiskInv
  <2>13. TotalBytes(file'[0]) = TotalBytes(file[0]) + Bytes(m) /\ TotalBytes(file'[0]) <= size'
    BY <1>1, <2>2, <2>3, Totals
  <2>14. SizeInv'
    <3>1. TotalBytes(file'[0]) + 0 <= size'
      BY <1>1, <2>2, <2>13, MessageAssumption
    <3> QED
      BY <1>1, <2>1, <3>1 DEF SizeInv
  <2>15. FileBound'
    <3> SUFFICES ASSUME NEW f \in DOMAIN file', Len(file'[f]) > 1
                 PROVE  TotalBytes(file'[f]) <= MaxSize
      BY DEF FileBound
    <3>1. CASE f # 0
      BY <2>3, <3>1 DEF FileInv, BoundInv, FileBound
    <3>2. CASE f = 0
      <4>1. L # 0
        BY <2>2, <2>4, <3>2
      <4>2. size <= MaxSize
        BY <1>1, <4>1 DEF FileInv, BoundInv, SizeInv, L
      <4> QED
        BY <1>1, <2>2, <2>13, <3>2, <4>2, MessageAssumption
    <3> QED
      BY <3>1, <3>2
  \* The record joins what stdio buffers, or nothing is buffered.
  <2>16. BufferInv'
    <3>1. /\ force \in BOOLEAN /\ (force => buffered = 0)
          /\ buffered # 0 => \A k \in DOMAIN file[0] :
               k + buffered > Len(file[0]) => file[0][k] \in Message
      BY DEF FileInv, BufferInv
    <3>2. CASE buffered' = 0
      BY <1>1, <3>1, <3>2 DEF BufferInv
    <3>3. CASE ~force /\ buffered' = buffered + 1
      <4> SUFFICES ASSUME NEW k \in DOMAIN file'[0], k + buffered' > Len(file'[0]), k # L + 1
                   PROVE  file'[0][k] \in Message
        BY <1>1, <2>2, <2>4, <3>1, <3>3 DEF BufferInv
      <4>1. k \in DOMAIN file[0] /\ file'[0][k] = file[0][k] /\ k \in Nat /\ k <= L
        BY <2>2, <2>4
      <4>2. k + buffered > L /\ buffered # 0
        BY <2>2, <2>4, <3>3, <4>1
      <4> QED
        BY <3>1, <4>1, <4>2 DEF L
    <3> QED
      BY <1>3, <3>1, <3>2, <3>3
  <2> QED
    BY <2>9, <2>10, <2>11, <2>12, <2>14, <2>15, <2>16 DEF FileInv, FilesInv, BoundInv
<1> QED
  BY <1>2, <1>3 DEF write

\* The process starts, and appends to the newest file.
LEMMA CreateFileInv ==
  ASSUME LogInv, MsgInv, FileInv, create
  PROVE  FileInv'
<1>1. /\ mode = "none" /\ sink.at = "ready" /\ sink'.at = "ready" /\ ~fd /\ fd' = TRUE
      /\ buffered = 0 /\ buffered' = 0 /\ file' = Appending /\ size' = TotalBytes(file'[0])
      /\ UNCHANGED <<written, lost>>
  BY TheDisk DEF create, open_sink, FileInv, DiskInv
<1>2. <<>> \in Seq(Stored) /\ Len(<<>>) = 0
  OBVIOUS
<1>3. /\ DOMAIN file' = DOMAIN file \cup {0}
      /\ \A f \in DOMAIN file : file'[f] = file[f]
      /\ 0 \notin DOMAIN file => file'[0] = <<>>
  BY <1>1 DEF Appending, Holding
<1>4. /\ \A f \in DOMAIN file' : file'[f] \in Seq(Stored)
      /\ DOMAIN file' \subseteq 0..MaxFiles
  <2>1. /\ \A f \in DOMAIN file : file[f] \in Seq(Stored)
        /\ DOMAIN file \subseteq 0..MaxFiles /\ 0 \in 0..MaxFiles
    BY FileAssumption DEF FileInv, DiskInv
  <2> QED
    BY <1>2, <1>3, <2>1
<1>5. size' \in Nat /\ Len(file'[0]) \in Nat
  BY <1>1, <1>3, <1>4, Totals, LenProperties
<1>6. lost' \subseteq {written'[i] : i \in DOMAIN written'}
  BY <1>1 DEF FileInv, DiskInv
<1>7. mode' # "none"
  BY LoggingAssumption DEF create
<1>8. DiskInv'
  BY <1>1, <1>3, <1>4, <1>5, <1>6, <1>7 DEF DiskInv
<1>9. SizeInv' /\ BufferInv'
  <2>1. TotalBytes(file'[0]) + 0 <= size'
    BY <1>1, <1>5
  <2>2. force' \in BOOLEAN
    BY FileAssumption DEF create, open_sink
  <2> QED
    BY <1>1, <2>1, <2>2 DEF SizeInv, BufferInv
<1>10. FileBound'
  <2> SUFFICES ASSUME NEW f \in DOMAIN file', Len(file'[f]) > 1 PROVE TotalBytes(file'[f]) <= MaxSize
    BY DEF FileBound
  <2>1. f \in DOMAIN file
    BY <1>2, <1>3
  <2> QED
    BY <1>3, <2>1 DEF FileInv, BoundInv, FileBound
<1>11. FilesInv'
  <2> DEFINE b == [f \in DOMAIN file' |-> f]
  <2>1. \A f \in DOMAIN file' : b[f] = f
    OBVIOUS
  <2> HIDE DEF b
  <2>2. /\ \A f \in DOMAIN file' : file'[f] # <<>> => b[f] \in DOMAIN file /\ file'[f] = file[b[f]]
        /\ \A f, g \in DOMAIN file' : f > g => b[f] > b[g]
        /\ \A f \in DOMAIN file : \E g \in DOMAIN file' : file'[g] = file[f]
    BY <1>3, <2>1
  <2> QED
    BY <1>1, <2>2, FilesMove DEF FileInv
<1> QED
  BY <1>8, <1>9, <1>10, <1>11 DEF FileInv, BoundInv

\* It ends: what is lost is the end of the newest file.
LEMMA EndFileInv ==
  ASSUME LogInv, MsgInv, FileInv, NEW n \in 0..buffered, end_file(n), mode' = "none",
         written' = written
  PROVE  FileInv'
<1>1. WriteOut(n) /\ fd' = FALSE /\ force' = FALSE /\ buffered' = 0 /\ size' = 0 /\ sink'.at = "ready"
  BY DEF end_file, WriteOut, NoCall
<1>2. /\ FilesInv' /\ FileBound' /\ DOMAIN file' = DOMAIN file
      /\ \A f \in DOMAIN file' : file'[f] \in Seq(Stored)
      /\ lost' \subseteq {written'[i] : i \in DOMAIN written'}
  BY <1>1, WriteOutFiles
<1>3. DiskInv'
  BY <1>1, <1>2 DEF FileInv, DiskInv
<1>4. BufferInv' /\ SizeInv'
  BY <1>1 DEF BufferInv, SizeInv
<1> QED
  BY <1>2, <1>3, <1>4 DEF FileInv, BoundInv

\* file_helper::flush: the stream stays.
LEMMA FlushFileInv ==
  ASSUME LogInv, MsgInv, FileInv, flush_file, sink.at # "write", UNCHANGED <<mode, written>>
  PROVE  FileInv'
<1>1. PICK n \in 0..buffered : WriteOut(n)
  BY SomeLosses DEF flush_file
<1>2. UNCHANGED <<fd, force, sink, size>> /\ buffered' = 0
  BY <1>1 DEF flush_file, WriteOut
<1>3. /\ FilesInv' /\ FileBound' /\ DOMAIN file' = DOMAIN file
      /\ \A f \in DOMAIN file' : file'[f] \in Seq(Stored)
      /\ fd => TotalBytes(file'[0]) \in Nat /\ TotalBytes(file'[0]) <= TotalBytes(file[0])
               /\ Len(file'[0]) \in Nat
      /\ lost' \subseteq {written'[i] : i \in DOMAIN written'}
  BY <1>1, WriteOutFiles
<1>4. DiskInv' /\ BufferInv'
  BY <1>2, <1>3 DEF FileInv, DiskInv, BufferInv
<1>5. SizeInv'
  <2>1. ASSUME fd PROVE TotalBytes(file'[0]) + 0 <= size
    <3>1. TotalBytes(file[0]) + 0 <= size /\ TotalBytes(file[0]) \in Nat /\ size \in Nat
      BY <2>1, TheDisk DEF FileInv, DiskInv, BoundInv, SizeInv
    <3> QED
      BY <1>3, <2>1, <3>1
  <2> QED
    BY <1>2, <2>1 DEF FileInv, BoundInv, SizeInv
<1> QED
  BY <1>3, <1>4, <1>5 DEF FileInv, BoundInv

-----------------------------------------------------------------------------
LEMMA SinkFileInv ==
  ASSUME LogInv, MsgInv, FileInv, sink_step
  PROVE  FileInv'
<1>1. UNCHANGED mode
  BY DEF sink_step
<1>2. CASE write
  BY <1>1, <1>2, WriteFileInv DEF sink_step
<1>3. CASE remove \/ rename \/ reopen
  <2>1. sink'.at # "ready"
    BY <1>3, TheDisk DEF remove, rename, reopen, Throw, LogInv, SinkInv, SinkCall
  <2>2. UNCHANGED <<written, lost>>
    BY <1>3, <2>1 DEF sink_step, remove, rename, reopen
  <2> QED
    BY <1>1, <1>3, <2>2, RemoveFileInv, RenameFileInv, ReopenFileInv
<1> QED
  BY <1>2, <1>3 DEF sink_step, Sinking

\* The steps that leave the files alone.
LEMMA RestFileInv ==
  ASSUME LogInv, MsgInv, FileInv,
         \/ sync_throws \/ join \/ destroy \/ UNCHANGED lvars
         \/ \E t \in Threads : \/ log_async(t) \/ flush_throws(t)
                               \/ push_step(t) \/ push_returns(t) \/ push_retries(t)
         \/ process_next_msg \/ pop_step \/ process_request \/ worker_fails
  PROVE  FileInv'
<1>1. UNCHANGED <<file, fd, force, size, mode, written, lost, buffered>>
  BY DEF sync_throws, join, destroy, lvars, log_async, flush_throws, push_step, push_returns,
         push_retries, process_next_msg, pop_step, process_request, worker_fails, fvars
<1>2. UNCHANGED sink \/ (sink.at = "throw" /\ sink'.at = "ready")
  <2>1. NoCall.at = "ready"
    BY DEF NoCall
  <2>2. CASE sync_throws \/ worker_fails
    BY <2>1, <2>2 DEF sync_throws, worker_fails
  <2>3. CASE ~ (sync_throws \/ worker_fails)
    BY <2>3 DEF join, destroy, lvars, log_async, flush_throws, push_step, push_returns,
                push_retries, process_next_msg, pop_step, process_request, fvars
  <2> QED
    BY <2>2, <2>3
<1> QED
  BY <1>1, <1>2, TheDisk, QuietFileInv

LEMMA EmptyFileInv == ASSUME QueueInv, LogInv, MsgInv, FileInv, process_empty PROVE FileInv'
<1>1. sink.at # "write" /\ UNCHANGED <<mode, written>>
  <2>1. holder = None
    BY WorkerReturns DEF process_empty
  <2> QED
    BY <2>1, TheDisk DEF process_empty
<1>2. CASE flush_file
  BY <1>1, <1>2, FlushFileInv
<1>3. CASE UNCHANGED fvars
  <2>1. UNCHANGED <<file, fd, force, size, mode, written, lost, buffered, sink>>
    BY <1>1, <1>3 DEF fvars
  <2> QED
    BY <2>1, TheDisk, QuietFileInv
<1> QED
  BY <1>2, <1>3 DEF process_empty

LEMMA FileStep ==
  ASSUME QueueInv, LogInv, MsgInv, FileInv, [LoggingNext]_lvars PROVE FileInv'
<1>1. CASE Down
  BY <1>1, EndFileInv DEF Down
<1>2. CASE drop
  BY <1>2, SomeLosses, EndFileInv DEF drop
<1>3. CASE killed \/ terminate \/ destroy_throws
           \/ \E t \in Threads : log_sync_throws(t) \/ log_async_throws(t)
  BY <1>1, <1>3 DEF killed, terminate, destroy_throws, log_sync_throws, log_async_throws
<1>4. ASSUME NEW t \in Threads, log_sync(t) PROVE FileInv'
  <2>1. Next1(t, "log") \in Message
    <3>1. call[t] + 1 \in 1..MaxCalls
      BY <1>4, Roles DEF log_sync, LogInv, LifeInv
    <3> QED
      BY <3>1, MessageAssumption DEF Next1
  <2>2. sink_it(Next1(t, "log")) /\ mode # "none" /\ UNCHANGED <<mode, written>>
    BY <1>4 DEF log_sync
  <2> QED
    BY <2>1, <2>2, SinkItFileInv
<1>5. CASE process_log
  <2>1. /\ op[Worker].at = "done" /\ Taken[Worker] = op[Worker].msg
        /\ sink_it(op[Worker].msg) /\ UNCHANGED <<mode, written>>
    BY <1>5, TheQueue DEF process_log
  <2>2. mode # "none"
    BY <2>1, Roles DEF LogInv, LifeInv
  <2>3. op[Worker].msg \in Message
    BY <2>1 DEF MsgInv, UsedInv, Used, Queued, InHand
  <2> QED
    BY <2>1, <2>2, <2>3, SinkItFileInv
<1>6. ASSUME NEW t \in Threads, Caller(t) PROVE FileInv'
  BY <1>3, <1>4, <1>6, RestFileInv DEF Caller
<1>7. CASE WorkerThread
  BY <1>5, <1>7, RestFileInv, EmptyFileInv DEF WorkerThread
<1> QED
  BY <1>2, <1>3, <1>6, <1>7, CreateFileInv, SinkFileInv, RestFileInv DEF LoggingNext

LEMMA InitFileInv == LoggingInit => FileInv
<1> SUFFICES ASSUME LoggingInit PROVE FileInv
  OBVIOUS
<1>1. DOMAIN file = {} /\ fd = FALSE /\ force = FALSE /\ buffered = 0 /\ size = 0 /\ lost = {} /\ sink.at = "ready"
      /\ mode = "none"
  BY DEF LoggingInit, FileInit, NoCall
<1> QED
  BY <1>1 DEF FileInv, DiskInv, BufferInv, BoundInv, FileBound, SizeInv, FilesInv, KeptInv, OrderInv, TailInv

(***************************************************************************)
(* The invariant of the files and of the messages on their way to them,    *)
(* whatever call of a rotation fails and whenever a process ends.          *)
(***************************************************************************)
THEOREM FilesInvariance == LoggingSpec => [](MsgInv /\ FileInv)
<1>1. LoggingInit => MsgInv /\ FileInv
  BY InitMsgInv, InitFileInv
<1>2. /\ QueueInv /\ LogInv /\ (QueueInv /\ LogInv)' /\ MsgInv /\ FileInv /\ [LoggingNext]_lvars
      => (MsgInv /\ FileInv)'
  BY MsgStep, FileStep
<1> QED
  BY <1>1, <1>2, LoggingInvariance, PTL DEF LoggingSpec

(***************************************************************************)
(* No file grows beyond max_size but for a single record (sink_it and      *)
(* _rotate of rotating_file_sink), whatever fails and however often the    *)
(* process is killed and started again.                                    *)
(***************************************************************************)
THEOREM FilesAreBounded == LoggingSpec => []FileBound
<1>1. FileInv => FileBound
  BY DEF FileInv, BoundInv
<1> QED
  BY FilesInvariance, <1>1, PTL

(***************************************************************************)
(* The whole records in the files are the end of the log, in its order and *)
(* without gaps but for what stdio had taken and lost: for every number of *)
(* files and threads, whichever open, remove, rename, fwrite, fflush or    *)
(* fclose fails, and wherever the process stops.                           *)
(***************************************************************************)
THEOREM FilesKeepTheLog == LoggingSpec => []FilesAreTheLog
<1>1. LogInv /\ MsgInv /\ FileInv => FilesAreTheLog
  <2> SUFFICES ASSUME LogInv, MsgInv, FileInv, NEW f \in DOMAIN file, NEW k \in DOMAIN file[f],
                      file[f][k] \in Message
               PROVE  \E i \in DOMAIN written :
                 /\ written[i] = file[f][k] /\ written[i] \notin lost
                 /\ \A g \in DOMAIN file : \A l \in DOMAIN file[g] :
                      Older(f, k, g, l) /\ file[g][l] \in Message =>
                        \E j \in DOMAIN written : i < j /\ written[j] = file[g][l]
                 /\ \A j \in DOMAIN written : i < j /\ written[j] \notin lost =>
                      \E g \in DOMAIN file : \E l \in DOMAIN file[g] :
                        Older(f, k, g, l) /\ file[g][l] = written[j]
    BY DEF FilesAreTheLog
  <2>1. PICK i \in DOMAIN written : written[i] = file[f][k]
    BY DEF FileInv, FilesInv, KeptInv, Logged
  <2>2. written[i] \notin lost
    BY <2>1 DEF FileInv, FilesInv, KeptInv
  <2>3. ASSUME NEW g \in DOMAIN file, NEW l \in DOMAIN file[g], Older(f, k, g, l),
               file[g][l] \in Message
        PROVE  \E j \in DOMAIN written : i < j /\ written[j] = file[g][l]
    <3>1. PICK j \in DOMAIN written : written[j] = file[g][l]
      BY <2>3 DEF FileInv, FilesInv, KeptInv, Logged
    <3> QED
      BY <2>1, <2>3, <3>1 DEF FileInv, FilesInv, OrderInv
  <2>4. ASSUME NEW j \in DOMAIN written, i < j, written[j] \notin lost
        PROVE  \E g \in DOMAIN file : \E l \in DOMAIN file[g] :
                 Older(f, k, g, l) /\ file[g][l] = written[j]
    <3>1. PICK g \in DOMAIN file : \E l \in DOMAIN file[g] : file[g][l] = written[j]
      BY <2>1, <2>4 DEF FileInv, FilesInv, TailInv
    <3>2. PICK l \in DOMAIN file[g] : file[g][l] = written[j]
      BY <3>1
    <3>3. i \in Nat /\ j \in Nat
      BY LenProperties DEF LogInv, SinkInv
    <3>4. ~ Older(g, l, f, k)
      <4> SUFFICES ASSUME Older(g, l, f, k) PROVE FALSE
        OBVIOUS
      <4>1. j < i
        BY <2>1, <3>2 DEF FileInv, FilesInv, OrderInv
      <4> QED
        BY <2>4, <3>3, <4>1
    <3>5. ~ (f = g /\ k = l)
      <4> SUFFICES ASSUME f = g, k = l PROVE FALSE
        OBVIOUS
      <4>1. i = j
        BY <2>1, <3>2 DEF MsgInv, OnceInv
      <4> QED
        BY <2>4, <3>3, <4>1
    <3>6. f \in Nat /\ g \in Nat /\ k \in Nat /\ l \in Nat
      BY TheDisk
    <3>7. Older(f, k, g, l)
      BY <3>4, <3>5, <3>6 DEF Older
    <3> QED
      BY <3>2, <3>7
  <2> QED
    BY <2>1, <2>2, <2>3, <2>4
<1> QED
  BY LoggingInvariance, FilesInvariance, <1>1, PTL
-----------------------------------------------------------------------------
(* A log call.  Its format string is parsed by operators on a state of the *)
(* parser, and each of them leaves the parser's place within the string or *)
(* on its terminating zero.                                                *)

Places == 1..(Len(fmt) + 1)

\* A state of the parser of fields whose place is in the string.
Inside(p) ==
  /\ p = [s |-> p.s, spec |-> p.spec, next |-> p.next, num |-> p.num, arg |-> p.arg,
          value |-> p.value, error |-> p.error]
  /\ p.s \in Places

\* A set of places has a first one.
LEMMA LeastPlace ==
  ASSUME NEW T \in SUBSET Nat, T # {}
  PROVE  \E j \in T : \A k \in T : ~ (k < j)
<1>1. \E n \in T : \A m \in T : ~ (<<m, n>> \in OpToRel(<, Nat))
  BY WFMin, NatLessThanWellFounded
<1>2. PICK n \in T : \A m \in T : ~ (m < n)
  BY <1>1 DEF OpToRel
<1> QED
  BY <1>2

\* What is not the zero has a place behind it.
LEMMA PlaceBehind ==
  ASSUME Len(fmt) \in Nat, NEW i \in Places, at(i) # "NUL"
  PROVE  i <= Len(fmt) /\ i + 1 \in Places
BY DEF at, Places

LEMMA BehindInside ==
  ASSUME Len(fmt) \in Nat, NEW i \in Places, NEW cs, "NUL" \notin cs
  PROVE  Behind(i, cs) \in Places
<1> DEFINE T == {j \in i..(Len(fmt) + 1) : at(j) \notin cs}
<1>1. Len(fmt) + 1 \in T
  BY DEF at, Places
<1>2. PICK j \in T : \A k \in T : ~ (k < j)
  <2>1. T \in SUBSET Nat /\ T # {}
    BY <1>1 DEF Places
  <2> HIDE DEF T
  <2> QED
    BY <2>1, LeastPlace
<1>3. j \in i..(Len(fmt) + 1) /\ at(j) \notin cs /\ \A k \in i..(j - 1) : at(k) \in cs
  BY <1>2 DEF Places
<1>4. \E k \in i..(Len(fmt) + 1) : at(k) \notin cs /\ \A l \in i..(k - 1) : at(l) \in cs
  BY <1>3
<1>5. Behind(i, cs) \in i..(Len(fmt) + 1)
  BY <1>4 DEF Behind
<1> QED
  BY <1>5 DEF Places

\* Only an assignment to the place can take it out of the string.
LEMMA KeptInside ==
  ASSUME NEW p, Inside(p), NEW v
  PROVE  /\ Inside([p EXCEPT !.spec = v]) /\ Inside([p EXCEPT !.next = v])
         /\ Inside([p EXCEPT !.num = v]) /\ Inside([p EXCEPT !.arg = v])
         /\ Inside([p EXCEPT !.value = v]) /\ Inside([p EXCEPT !.error = v])
         /\ v \in Places => Inside([p EXCEPT !.s = v])
BY DEF Inside

LEMMA SkipInside ==
  ASSUME Len(fmt) \in Nat, NEW p, Inside(p), at(p.s) # "NUL"
  PROVE  Inside(Skip(p)) /\ p.s <= Len(fmt)
<1>1. p.s \in Places
  BY DEF Inside
<1> QED
  BY <1>1, PlaceBehind, KeptInside DEF Skip

LEMMA FailedInside ==
  ASSUME NEW p, Inside(p), NEW e
  PROVE  Inside(Failed(p, e))
BY KeptInside DEF Failed

LEMMA UnlessInside ==
  ASSUME NEW p, Inside(p), NEW q, p.error = "" => Inside(q)
  PROVE  Inside(Unless(p, q))
BY DEF Unless

LEMMA NumberInside ==
  ASSUME Len(fmt) \in Nat, NEW p, Inside(p)
  PROVE  Inside(parse_nonnegative_int(p))
<1>1. p.s \in Places /\ "NUL" \notin DigitSet
  BY DEF Inside, DigitSet
<1>2. Behind(p.s, DigitSet) \in Places
  BY <1>1, BehindInside
<1>3. PICK end : end = Behind(p.s, DigitSet)
  OBVIOUS
<1>4. \A v : Inside([p EXCEPT !.s = end, !.num = v])
  BY <1>2, <1>3, KeptInside
<1>5. \A e : Inside(Failed(p, e))
  BY FailedInside
<1> QED
  BY <1>3, <1>4, <1>5 DEF parse_nonnegative_int

LEMMA ArgumentInside ==
  ASSUME NEW p, Inside(p), NEW arg
  PROVE  Inside(do_get_arg(p, arg)) /\ Inside(get_arg(p, arg)) /\ Inside(next_arg(p))
<1>1. \A q, a : Inside(q) => Inside(do_get_arg(q, a))
  BY FailedInside, KeptInside DEF do_get_arg
<1>2. Inside(check_no_auto_index(p))
  BY FailedInside, KeptInside DEF check_no_auto_index
<1>3. Inside(get_arg(p, arg))
  BY <1>1, <1>2, UnlessInside DEF get_arg
<1>4. Inside(next_arg(p))
  BY <1>1, FailedInside, KeptInside DEF next_arg
<1> QED
  BY <1>1, <1>3, <1>4

LEMMA ParseArgInside ==
  ASSUME Len(fmt) \in Nat, NEW p, Inside(p)
  PROVE  Inside(parse_arg(p))
<1>1. Inside(parse_arg_name(p))
  <2>1. p.s \in Places /\ "NUL" \notin Letters \cup DigitSet
    BY FormatAssumption DEF Inside, DigitSet
  <2>2. PICK end \in Places : end = Behind(p.s, Letters \cup DigitSet)
    BY <2>1, BehindInside
  <2>3. Inside([p EXCEPT !.s = end])
    BY KeptInside
  <2> QED
    BY <2>2, <2>3, ArgumentInside DEF parse_arg_name
<1>2. Inside(parse_arg_index(p))
  <2>1. PICK q : q = parse_nonnegative_int(p)
    OBVIOUS
  <2>2. Inside(Unless(q, get_arg(q, arg_at(q.num))))
    BY <2>1, NumberInside, ArgumentInside, UnlessInside
  <2> QED
    BY <2>1, <2>2, ArgumentInside DEF parse_arg_index
<1> QED
  BY <1>1, <1>2 DEF parse_arg

LEMMA ParseCountInside ==
  ASSUME Len(fmt) \in Nat, NEW p, Inside(p)
  PROVE  Inside(parse_count(p))
<1>1. \A q : Inside(q) => Inside(count(q))
  <2> SUFFICES ASSUME NEW q, Inside(q) PROVE Inside(count(q))
    OBVIOUS
  <2>1. \A e : Inside(Failed(q, e))
    BY FailedInside
  <2>2. q.error = "" /\ at(q.s) = "}" => Inside(Skip([q EXCEPT !.num = q.arg.value]))
    <3> SUFFICES ASSUME at(q.s) = "}" PROVE Inside(Skip([q EXCEPT !.num = q.arg.value]))
      OBVIOUS
    <3>1. PICK r : r = [q EXCEPT !.num = q.arg.value]
      OBVIOUS
    <3>2. Inside(r) /\ r.s = q.s
      BY <3>1, KeptInside DEF Inside
    <3> QED
      BY <3>1, <3>2, SkipInside
  <2> QED
    BY <2>1, <2>2 DEF count
<1>2. at(p.s) = "{" => Inside(count(parse_arg(Skip(p))))
  <2> SUFFICES ASSUME at(p.s) = "{" PROVE Inside(count(parse_arg(Skip(p))))
    OBVIOUS
  <2>1. Inside(Skip(p))
    BY SkipInside
  <2> QED
    BY <1>1, <2>1, ParseArgInside
<1> QED
  BY <1>2, NumberInside DEF parse_count

\* The specification of a field, part by part.
LEMMA ParseAlignInside ==
  ASSUME Len(fmt) \in Nat, NEW p, Inside(p)
  PROVE  Inside(parse_fill_and_align(p))
<1>1. \A q, e : Inside(q) => Inside(Failed(q, e))
  BY FailedInside
<1>2. p.s \in Places
  BY DEF Inside
<1>3. at(p.s) # "NUL" => p.s + 1 \in Places
  BY <1>2, PlaceBehind
<1>4. at(p.s) # "NUL" /\ at(p.s + 1) # "NUL" => p.s + 2 \in Places
  BY <1>2, <1>3, PlaceBehind DEF Places
<1>5. \A c : AlignOf(c) # "default" => c # "NUL"
  BY DEF AlignOf
<1>6. ASSUME NEW a, NEW f, p.s + 2 \in Places
      PROVE  Inside([p EXCEPT !.spec.align = a, !.spec.fill = f, !.s = @ + 2])
  <2>1. PICK q : q = [p EXCEPT !.spec.align = a, !.spec.fill = f]
    OBVIOUS
  <2>2. Inside(q) /\ q.s = p.s
    BY <2>1, KeptInside DEF Inside
  <2>3. Inside([q EXCEPT !.s = @ + 2])
    BY <1>6, <2>2, KeptInside
  <2> QED
    BY <2>1, <2>3
<1>7. ASSUME NEW a, p.s + 1 \in Places
      PROVE  Inside([p EXCEPT !.spec.align = a, !.s = @ + 1])
  <2>1. PICK q : q = [p EXCEPT !.spec.align = a]
    OBVIOUS
  <2>2. Inside(q) /\ q.s = p.s
    BY <2>1, KeptInside DEF Inside
  <2>3. Inside([q EXCEPT !.s = @ + 1])
    BY <1>7, <2>2, KeptInside
  <2> QED
    BY <2>1, <2>3
<1>8. \A a : Inside([p EXCEPT !.spec.align = a])
  BY KeptInside
<1> QED
  BY <1>1, <1>3, <1>4, <1>5, <1>6, <1>7, <1>8 DEF parse_fill_and_align

LEMMA ParseSignInside ==
  ASSUME Len(fmt) \in Nat, NEW p, Inside(p)
  PROVE  Inside(parse_sign(p))
<1> DEFINE flags == CASE at(p.s) = "+" -> {"sign", "plus"} [] at(p.s) = "-" -> {"minus"}
                      [] at(p.s) = " " -> {"sign"} [] OTHER -> {}
<1>1. flags # {} => at(p.s) # "NUL"
  BY Zenon
<1>2. at(p.s) # "NUL" => \A f : Inside(Skip([p EXCEPT !.spec.flags = f]))
  <2> SUFFICES ASSUME at(p.s) # "NUL", NEW f PROVE Inside(Skip([p EXCEPT !.spec.flags = f]))
    OBVIOUS
  <2>1. PICK q : q = [p EXCEPT !.spec.flags = f]
    OBVIOUS
  <2>2. Inside(q) /\ q.s = p.s
    BY <2>1, KeptInside DEF Inside
  <2> QED
    BY <2>1, <2>2, SkipInside
<1>3. \A e : Inside(Failed(p, e))
  BY FailedInside
<1>4. parse_sign(p) =
        IF p.error # "" \/ flags = {} THEN p
        ELSE IF ~Numeric(p) THEN Failed(p, "requires numeric argument")
        ELSE IF p.value.kind = "uint" THEN Failed(p, "requires signed argument")
             ELSE Skip([p EXCEPT !.spec.flags = flags])
  BY Zenon DEF parse_sign
<1> HIDE DEF flags
<1> QED
  BY <1>1, <1>2, <1>3, <1>4

LEMMA ParseFlagInside ==
  ASSUME Len(fmt) \in Nat, NEW p, Inside(p)
  PROVE  Inside(parse_hash(p)) /\ Inside(parse_zero(p))
<1>1. at(p.s) # "NUL" => \A f : Inside(Skip([p EXCEPT !.spec.flags = f]))
  <2> SUFFICES ASSUME at(p.s) # "NUL", NEW f PROVE Inside(Skip([p EXCEPT !.spec.flags = f]))
    OBVIOUS
  <2>1. PICK q : q = [p EXCEPT !.spec.flags = f]
    OBVIOUS
  <2>2. Inside(q) /\ q.s = p.s
    BY <2>1, KeptInside DEF Inside
  <2> QED
    BY <2>1, <2>2, SkipInside
<1>2. at(p.s) # "NUL" => Inside(Skip([p EXCEPT !.spec.align = "numeric", !.spec.fill = "0"]))
  <2> SUFFICES ASSUME at(p.s) # "NUL"
               PROVE  Inside(Skip([p EXCEPT !.spec.align = "numeric", !.spec.fill = "0"]))
    OBVIOUS
  <2>1. PICK q : q = [p EXCEPT !.spec.align = "numeric", !.spec.fill = "0"]
    OBVIOUS
  <2>2. Inside(q) /\ q.s = p.s
    BY <2>1, KeptInside DEF Inside
  <2> QED
    BY <2>1, <2>2, SkipInside
<1> QED
  BY <1>1, <1>2, FailedInside DEF parse_hash, parse_zero

LEMMA ParseWidthInside ==
  ASSUME Len(fmt) \in Nat, NEW p, Inside(p)
  PROVE  Inside(parse_width(p)) /\ Inside(parse_precision(p))
<1>1. Inside(parse_width(p))
  BY ParseCountInside, KeptInside DEF parse_width
<1>2. Inside(parse_precision(p))
  <2> SUFFICES ASSUME at(p.s) = "." PROVE Inside(parse_precision(p))
    BY DEF parse_precision
  <2>1. PICK q : q = parse_count(Skip(p))
    OBVIOUS
  <2>2. Inside(q)
    BY <2>1, SkipInside, ParseCountInside
  <2>3. Inside([q EXCEPT !.spec.precision = q.num]) /\ \A e : Inside(Failed(q, e))
    BY <2>2, KeptInside, FailedInside
  <2> QED
    BY <2>1, <2>2, <2>3 DEF parse_precision
<1> QED
  BY <1>1, <1>2

LEMMA ParseTypeInside ==
  ASSUME Len(fmt) \in Nat, NEW p, Inside(p)
  PROVE  Inside(parse_type(p)) /\ Inside(parse_end(p))
<1>1. Inside(parse_type(p))
  <2> SUFFICES ASSUME at(p.s) # "NUL"
               PROVE  Inside(Skip([p EXCEPT !.spec.type = at(p.s)]))
    BY DEF parse_type
  <2>1. PICK q : q = [p EXCEPT !.spec.type = at(p.s)]
    OBVIOUS
  <2>2. Inside(q) /\ q.s = p.s
    BY <2>1, KeptInside DEF Inside
  <2> QED
    BY <2>1, <2>2, SkipInside
<1>2. Inside(parse_end(p))
  BY SkipInside, FailedInside DEF parse_end
<1> QED
  BY <1>1, <1>2

LEMMA ParseFieldInside ==
  ASSUME Len(fmt) \in Nat, NEW place \in Places
  PROVE  Inside(parse_field(place))
<1>1. PICK p : p = [s |-> place, spec |-> NoSpec, next |-> next, num |-> 0,
                    arg |-> NoArg, value |-> NoArg, error |-> ""]
  OBVIOUS
<1>2. Inside(p)
  BY <1>1 DEF Inside
<1>3. PICK q : q = parse_arg(p)
  OBVIOUS
<1>4. Inside(q)
  BY <1>2, <1>3, ParseArgInside
<1>5. Inside([q EXCEPT !.value = q.arg])
  BY <1>4, KeptInside
<1>6. PICK r : r = [q EXCEPT !.value = q.arg]
  OBVIOUS
<1>7. Inside(parse_spec(r))
  <2>1. at(r.s) = ":" => Inside(Skip(r))
    BY <1>5, <1>6, SkipInside
  <2> QED
    BY <1>5, <1>6, <2>1, ParseAlignInside, ParseSignInside, ParseFlagInside, ParseWidthInside,
       ParseTypeInside DEF parse_spec
<1>8. parse_field(place) = parse_end(parse_spec(r))
  BY <1>1, <1>3, <1>6 DEF parse_field
<1> QED
  BY <1>7, <1>8, ParseTypeInside

\* The places of the parser, in a string with an end.
InStringInv == fmt \in Seq(STRING) /\ s \in Places /\ start \in Places

LEMMA FormatStepInside ==
  ASSUME InStringInv, FormatStep
  PROVE  InStringInv'
<1>1. /\ fmt \in Seq(STRING) /\ Len(fmt) \in Nat
      /\ s \in Places /\ start \in Places
  BY DEF InStringInv
<1>2. fmt' = fmt
  BY DEF FormatStep, literal, escape, unmatched, field, finish
<1>3. Places' = Places
  BY <1>2 DEF Places
<1> SUFFICES s' \in Places /\ start' \in Places
  BY <1>1, <1>2, <1>3 DEF InStringInv
<1>4. CASE literal
  <2>1. s + 1 \in Places
    <3>1. s <= Len(fmt)
      BY <1>4 DEF literal, Running
    <3> QED
      BY <1>1, <3>1 DEF Places
  <2> QED
    BY <1>1, <1>4, <2>1 DEF literal
<1>5. CASE escape
  <2>1. at(s) # "NUL" /\ at(s + 1) # "NUL"
    BY <1>5 DEF escape
  <2>2. s + 1 \in Places
    BY <1>1, <2>1, PlaceBehind
  <2>3. s + 2 \in Places
    BY <1>1, <2>1, <2>2, PlaceBehind DEF Places
  <2> QED
    BY <1>5, <2>3 DEF escape
<1>6. CASE unmatched
  BY <1>1, <1>6 DEF unmatched
<1>7. CASE field
  <2>1. s + 1 \in Places
    BY <1>1, <1>7, PlaceBehind DEF field
  <2>2. Inside(parse_field(s + 1))
    BY <1>1, <2>1, ParseFieldInside
  <2>3. PICK p : p = parse_field(s + 1)
    OBVIOUS
  <2>4. s' = p.s /\ start' = p.s
    BY <1>7, <2>3 DEF field
  <2> QED
    BY <1>1, <2>2, <2>3, <2>4 DEF Inside
<1>8. CASE finish
  BY <1>1, <1>8 DEF finish
<1> QED
  BY <1>4, <1>5, <1>6, <1>7, <1>8 DEF FormatStep

\* The lines of a call: none before its end, and a call that is not enabled
\* has left the text alone.
LinesInv ==
  /\ phase = "begin" => ~thrown /\ raw = <<>>
  /\ phase = "write" => enabled
  /\ ~enabled => ~thrown /\ raw = <<>>
  /\ phase # "done" => out = [k \in 1..Len(Sinks) |-> <<>>]
  /\ phase = "done" => \A k \in 1..Len(Sinks) : Len(out[k]) = IF enabled THEN 1 ELSE 0

\* One line is added to each sink if the line is enabled, else none.
LEMMA LineIsDestroyed ==
  ASSUME NEW on, NEW text, out = [k \in 1..Len(Sinks) |-> <<>>], destroy_line(on, text)
  PROVE  \A k \in 1..Len(Sinks) : Len(out'[k]) = IF on THEN 1 ELSE 0
<1>1. ASSUME NEW line PROVE Len(Append(<<>>, line)) = 1
  OBVIOUS
<1>2. PICK g : g = log_msg(text)
  OBVIOUS
<1>3. \A k \in 1..Len(Sinks) : \E line : g[k] = Append(<<>>, line)
  BY <1>2, Zenon DEF log_msg
<1>4. out' = IF on THEN g ELSE out
  BY <1>2 DEF destroy_line
<1>5. CASE on
  <2>1. out' = g
    BY <1>4, <1>5
  <2> QED
    BY <1>1, <1>3, <1>5, <2>1
<1>6. CASE ~on
  <2>1. out' = out
    BY <1>4, <1>6
  <2> QED
    BY <1>6, <2>1
<1> QED
  BY <1>5, <1>6

LEMMA NextLinesInv ==
  ASSUME LinesInv, [Next]_vars
  PROVE  LinesInv'
<1> USE DEF LinesInv
<1>1. CASE log_format
  BY <1>1 DEF log_format, begins, formatter
<1>2. CASE force_log
  BY <1>2 DEF force_log, begins, formatter
<1>3. CASE log_value
  BY <1>3 DEF log_value, begins
<1>4. CASE log_stream
  BY <1>4 DEF log_stream, begins, formatter
<1>5. CASE write_line
  BY <1>5 DEF write_line
<1>6. CASE line_written
  BY <1>6 DEF line_written, formatter
<1>7. CASE return_line
  <2>1. out' = out
    BY <1>7 DEF return_line, move_line, destroy_line
  <2> QED
    BY <1>7, <2>1 DEF return_line, formatter
<1>8. CASE stream
  BY <1>8 DEF stream
<1>9. CASE end_of_line
  <2>1. phase # "done" /\ destroy_line(enabled, raw) /\ phase' = "done"
    BY <1>9 DEF end_of_line
  <2>2. \A k \in 1..Len(Sinks) : Len(out'[k]) = IF enabled THEN 1 ELSE 0
    BY <2>1, LineIsDestroyed
  <2> QED
    BY <1>9, <2>1, <2>2 DEF end_of_line, formatter
<1>10. CASE set_level
  BY <1>10 DEF set_level, formatter
<1>11. CASE UNCHANGED vars
  BY <1>11 DEF vars, formatter
<1> QED
  BY <1>1, <1>2, <1>3, <1>4, <1>5, <1>6, <1>7, <1>8, <1>9, <1>10, <1>11 DEF Next

\* Whatever the format string and its arguments are, the parser's place stays
\* in the string or on its terminating zero, and so does the beginning of what
\* is not written yet (BasicFormatter::format).
THEOREM FormatStaysInside == Spec => []StaysInside
<1>1. Init => InStringInv
  <2> SUFFICES ASSUME Init PROVE InStringInv
    OBVIOUS
  <2>1. fmt \in Seq(STRING) /\ s = 1 /\ start = 1
    BY LoggersAssumption DEF Init
  <2>2. Len(fmt) \in Nat
    BY <2>1
  <2> QED
    BY <2>1, <2>2 DEF InStringInv, Places
<1>2. InStringInv /\ [Next]_vars => InStringInv'
  <2> SUFFICES ASSUME InStringInv, [Next]_vars PROVE InStringInv'
    OBVIOUS
  <2>1. CASE write_line
    BY <2>1, FormatStepInside DEF write_line
  <2>2. CASE ~write_line
    <3>1. UNCHANGED <<fmt, s, start>>
      BY <2>2 DEF Next, vars, formatter, log_format, force_log, log_value, log_stream, begins,
                  line_written, return_line, stream, end_of_line, set_level
    <3> QED
      BY <3>1 DEF InStringInv, Places
  <2> QED
    BY <2>1, <2>2
<1>3. InStringInv => StaysInside
  BY DEF InStringInv, StaysInside, Places
<1> QED
  BY <1>1, <1>2, <1>3, PTL DEF Spec

\* A call whose line_logger was enabled gives every sink exactly one line,
\* also when it throws or another thread changes the level meanwhile, and one
\* that was not enabled gives none, throws nothing and formats nothing.
THEOREM OneLineForACall == Spec => []OneLinePerCall
<1>1. Init => LinesInv
  BY DEF Init, LinesInv
<1>2. LinesInv => OneLinePerCall
  BY DEF LinesInv, OneLinePerCall
<1> QED
  BY <1>1, <1>2, NextLinesInv, PTL DEF Spec

=============================================================================

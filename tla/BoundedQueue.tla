---------------------------- MODULE BoundedQueue ----------------------------
(***************************************************************************)
(* What a queue between threads promises: a message that was put is taken  *)
(* once, in the order of the puts, and at most Size of them wait.  A put   *)
(* may be refused at any time, so refusing is no action here.              *)
(***************************************************************************)
EXTENDS Naturals, Sequences

CONSTANTS Takers, Message, None, Size

VARIABLES
  items,  \* the messages that wait, the oldest first
  taken   \* taken[t]: the message t took last

vars == <<items, taken>>

Init ==
  /\ items = <<>>
  /\ taken = [t \in Takers |-> None]

Put(m) ==
  /\ Len(items) < Size
  /\ items' = Append(items, m)
  /\ UNCHANGED taken

Take(t) ==
  /\ items # <<>>
  /\ items' = Tail(items)
  /\ taken' = [taken EXCEPT ![t] = Head(items)]

Next ==
  \/ \E m \in Message : Put(m)
  \/ \E t \in Takers : Take(t)

Spec == Init /\ [][Next]_vars
=============================================================================

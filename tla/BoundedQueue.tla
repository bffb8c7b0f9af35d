---------------------------- MODULE BoundedQueue ----------------------------
(***************************************************************************)
(* What LockFreeRingBuffer promises its one producer and one consumer: a  *)
(* FIFO queue holding at most Bound packets.  A push is accepted only     *)
(* while the queue is not full, a pop hands out the oldest packet.        *)
(* sent and received record every accepted push and every successful     *)
(* pop, so that the promise "nothing lost, duplicated or reordered" can   *)
(* be stated about them.  A rejected push or an empty pop is a stutter.   *)
(***************************************************************************)
EXTENDS Naturals, Sequences

CONSTANTS
  Bound,   \* the number of packets the queue can hold
  Msg      \* the packets that can be pushed

VARIABLES queue, sent, received

vars == <<queue, sent, received>>

Init ==
  /\ queue = << >>
  /\ sent = << >>
  /\ received = << >>

\* push(): accepted only when the queue is not full.
Put(m) ==
  /\ Len(queue) < Bound
  /\ queue' = Append(queue, m)
  /\ sent' = Append(sent, m)
  /\ UNCHANGED received

\* pop(): takes the oldest packet.
Take ==
  /\ queue /= << >>
  /\ received' = Append(received, Head(queue))
  /\ queue' = Tail(queue)
  /\ UNCHANGED sent

Next == (\E m \in Msg : Put(m)) \/ Take

Spec == Init /\ [][Next]_vars

=============================================================================

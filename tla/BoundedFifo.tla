----------------------------- MODULE BoundedFifo -----------------------------
(***************************************************************************)
(* What a message queue promises: messages come out in the order in which  *)
(* they went in, each of them once, and never more than Capacity are       *)
(* inside.                                                                 *)
(***************************************************************************)
EXTENDS Naturals, Sequences

CONSTANTS Client, Message, Nothing, Capacity

VARIABLES
  queue,   \* the messages inside, oldest first
  got      \* the last delivery: to whom, and the message

Init == queue = <<>> /\ got = Nothing

Put(m) == /\ Len(queue) < Capacity
          /\ queue' = Append(queue, m)
          /\ UNCHANGED got

Get(c) == /\ queue # <<>>
          /\ got' = <<c, Head(queue)>>
          /\ queue' = Tail(queue)

Next == (\E m \in Message : Put(m)) \/ (\E c \in Client : Get(c))

Spec == Init /\ [][Next]_<<queue, got>>
=============================================================================

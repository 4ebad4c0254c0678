------------------------------- MODULE MQueue -------------------------------
(***************************************************************************)
(* One mqueue_t: a ring buffer under one spinlock with a waiter list for   *)
(* each side.  mqueue_send() and mqueue_recv() are WaitLoops whose success *)
(* ends in the wake path of the other side's list.                         *)
(***************************************************************************)
EXTENDS WaitLoop

CONSTANTS
  send_waiters, recv_waiters,  \* the two waiter lists of the queue
  Msg,                         \* the messages sent
  MQ_MAX_MSG                   \* slots of the ring

ASSUME QueueAssumption ==
  /\ WaitList = {send_waiters, recv_waiters} /\ send_waiters # recv_waiters
  /\ StripeOf[send_waiters] = StripeOf[recv_waiters]
  /\ MQ_MAX_MSG \in Nat \ {0}
  /\ \A m \in Msg : <<send_waiters, m>> # Null

VARIABLES
  buf, head, tail, count,   \* the ring: mqueue_t's fields
  got                       \* the last delivery: who, and the *msg_out it got

ring == <<buf, head, tail, count, got>>
qvars == <<lvars, ring>>

Slot == 0..MQ_MAX_MSG-1

QInit ==
  /\ LInit
  /\ buf = [i \in Slot |-> Null] /\ head = 0 /\ tail = 0 /\ count = 0
  /\ got = Null

SendCall(m) == <<send_waiters, m>>
RecvCall    == <<recv_waiters, Null>>

Room == count < MQ_MAX_MSG

\* Mutant: the index runs over the end of the ring.
AdvanceStuck(i) == IF i + 1 = MQ_MAX_MSG THEN i ELSE i + 1

Advance(i) == (i + 1) % MQ_MAX_MSG

\* The message goes into the ring and a waiting receiver is woken.
Deposit(t, m) ==
  /\ Room
  /\ buf' = [buf EXCEPT ![tail] = m]
  /\ tail' = Advance(tail)
  /\ count' = count + 1
  /\ WakeBegin(t, recv_waiters)
  /\ Returns(t)
  /\ UNCHANGED <<head, got>>

\* Mutant: a waiting sender is woken only if the ring was full.
FetchFromFull(t) ==
  /\ count > 0
  /\ got' = <<t, buf[head]>>
  /\ head' = Advance(head)
  /\ count' = count - 1
  /\ IF Room THEN Enters(t, "wake") /\ Unlocked(send_waiters) /\ UNCHANGED vars
     ELSE WakeBegin(t, send_waiters)
  /\ Returns(t)
  /\ UNCHANGED <<buf, tail>>

\* The oldest message comes out of the ring and a waiting sender is woken.
Fetch(t) ==
  /\ count > 0
  /\ got' = <<t, buf[head]>>
  /\ head' = Advance(head)
  /\ count' = count - 1
  /\ WakeBegin(t, send_waiters)
  /\ Returns(t)
  /\ UNCHANGED <<buf, tail>>

SendOnce(t, m) == "send" \in Uses[t] /\ Tests(t, SendCall(m)) /\ Deposit(t, m)
RecvOnce(t)    == "recv" \in Uses[t] /\ Tests(t, RecvCall) /\ Fetch(t)

\* The ring is full: the sender blocks; it is empty: the receiver does.
SendWait(t, m) ==
  /\ "send" \in Uses[t] /\ Tests(t, SendCall(m)) /\ ~Room
  /\ Blocks(t, SendCall(m))
  /\ UNCHANGED ring
RecvWait(t) ==
  /\ "recv" \in Uses[t] /\ Tests(t, RecvCall) /\ count = 0
  /\ Blocks(t, RecvCall)
  /\ UNCHANGED ring

\* The calls that return at once; when they fail they change nothing.
TrySend(t, m) == "try_send" \in Uses[t] /\ want[t] = Null /\ Deposit(t, m)
TryRecv(t)    == "try_recv" \in Uses[t] /\ want[t] = Null /\ Fetch(t)

QNext == \/ SchedStep /\ UNCHANGED ring
         \/ \E t \in Thread : \/ \E m \in Msg : SendOnce(t, m) \/ SendWait(t, m) \/ TrySend(t, m)
                              \/ RecvOnce(t) \/ RecvWait(t) \/ TryRecv(t)

QSpec == QInit /\ [][QNext]_qvars
-----------------------------------------------------------------------------
QTypeOK ==
  /\ TypeOK
  /\ buf \in [Slot -> Msg \union {Null}]
  /\ head \in Slot /\ tail \in Slot /\ count \in 0..MQ_MAX_MSG
  /\ got \in (Thread \X Msg) \union {Null}
  /\ want \in [Thread -> {SendCall(m) : m \in Msg} \union {RecvCall, Null}]

\* The ring is a bounded FIFO: what it holds, oldest first.
Contents == [i \in 1..count |-> buf[(head + i - 1) % MQ_MAX_MSG]]
Fifo == INSTANCE BoundedFifo WITH
          Client <- Thread, Message <- Msg, Nothing <- Null, Capacity <- MQ_MAX_MSG,
          queue <- Contents, got <- got
IsFifo == Fifo!Spec

\* While a receiver that is alive waits, every message inside has a woken
\* receiver on its way to it, although a new caller may take it first ...
EveryMessageSought ==
  StillWaits(recv_waiters) => count <= Cardinality(Seekers(recv_waiters))

\* ... and while a live sender waits, so has every free slot a woken sender.
EverySlotSought ==
  StillWaits(send_waiters) => MQ_MAX_MSG - count <= Cardinality(Seekers(send_waiters))

\* Both sides of the ring at once: mqueue_send(), mqueue_recv() and their
\* try_ forms each wake the other side, and none leaves it asleep.
EverySought == EveryMessageSought /\ EverySlotSought
=============================================================================

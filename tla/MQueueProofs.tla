---------------------------- MODULE MQueueProofs ----------------------------
(***************************************************************************)
(* A message queue of any size, for any number of threads and any          *)
(* messages: a bounded FIFO whoever is killed, and one that leaves nobody  *)
(* asleep unless a woken thread is killed before it tests again.           *)
(*                                                                         *)
(* The argument.  tail is where head and count say it is (RingOK), so a    *)
(* message goes into the slot behind the last one, and that slot is free.  *)
(* The receivers' list has the messages for its supply, the senders' list  *)
(* the free slots: every call that moves a message takes from the one,     *)
(* adds to the other and wakes there.                                      *)
(***************************************************************************)
EXTENDS MQueue, SchedProofs

-----------------------------------------------------------------------------
(* The ring *)

\* An index runs at most once over the end of the ring.
LEMMA ModOnce ==
  ASSUME NEW x \in 0..(2 * MQ_MAX_MSG - 1)
  PROVE  x % MQ_MAX_MSG = IF x < MQ_MAX_MSG THEN x ELSE x - MQ_MAX_MSG
BY QueueAssumption

LEMMA AdvanceOnce ==
  ASSUME NEW i \in Slot
  PROVE  /\ Advance(i) = IF i + 1 = MQ_MAX_MSG THEN 0 ELSE i + 1
         /\ Advance(i) \in Slot
BY QueueAssumption, ModOnce DEF Slot, Advance

\* tail is behind the last message, and what lies between are messages.
RingOK ==
  /\ buf \in [Slot -> Msg \union {Null}]
  /\ head \in Slot /\ tail \in Slot /\ count \in 0..MQ_MAX_MSG
  /\ tail = (head + count) % MQ_MAX_MSG
  /\ \A i \in 1..count : Contents[i] \in Msg
  /\ got \in (Thread \X Msg) \union {Null}

\* The slot of the i-th message.
LEMMA MessagePlace ==
  ASSUME head \in Slot, NEW i \in 1..MQ_MAX_MSG
  PROVE  /\ (head + i - 1) % MQ_MAX_MSG = IF head + i - 1 < MQ_MAX_MSG THEN head + i - 1
                                          ELSE head + i - 1 - MQ_MAX_MSG
         /\ (head + i - 1) % MQ_MAX_MSG \in Slot
         /\ (head + i) % MQ_MAX_MSG = IF head + i < MQ_MAX_MSG THEN head + i
                                      ELSE head + i - MQ_MAX_MSG
<1>1. head + i - 1 \in 0..(2 * MQ_MAX_MSG - 1) /\ head + i \in 0..(2 * MQ_MAX_MSG - 1)
  BY QueueAssumption DEF Slot
<1>. QED BY <1>1, ModOnce, QueueAssumption DEF Slot

\* The ring numbers are what an SMT solver takes them for.
LEMMA RingNumbers ==
  ASSUME RingOK
  PROVE  /\ MQ_MAX_MSG \in Int /\ MQ_MAX_MSG > 0
         /\ head \in Int /\ 0 <= head /\ head < MQ_MAX_MSG
         /\ tail \in Int /\ 0 <= tail /\ tail < MQ_MAX_MSG
         /\ count \in Int /\ 0 <= count /\ count <= MQ_MAX_MSG
BY QueueAssumption DEF RingOK, Slot

\* Two sequences of one length with the same elements are the same.
LEMMA SameElements ==
  ASSUME NEW n \in Nat, NEW p, NEW q, p = [i \in 1..n |-> p[i]], q = [i \in 1..n |-> q[i]],
         \A i \in 1..n : p[i] = q[i]
  PROVE  p = q
OBVIOUS

\* The number of messages and their places.
LEMMA ContentsIs ==
  ASSUME RingOK
  PROVE  /\ Contents \in Seq(Msg) /\ Len(Contents) = count
         /\ Contents = [i \in 1..count |-> Contents[i]]
         /\ \A i \in 1..count : Contents[i] = buf[(head + i - 1) % MQ_MAX_MSG]
<1>1. count \in Nat
  BY RingNumbers
<1>. QED BY <1>1 DEF RingOK, Contents

\* tail is the slot behind the last message.
LEMMA TailIs ==
  ASSUME RingOK
  PROVE  tail = IF head + count < MQ_MAX_MSG THEN head + count ELSE head + count - MQ_MAX_MSG
<1>1. PICK x \in 0..(2 * MQ_MAX_MSG - 1) : x = head + count
  BY RingNumbers
<1>2. tail = x % MQ_MAX_MSG
  BY <1>1 DEF RingOK
<1>3. tail = IF x < MQ_MAX_MSG THEN x ELSE x - MQ_MAX_MSG
  BY <1>2, ModOnce
<1>. QED BY <1>1, <1>3, RingNumbers

\* Sending appends: the slot of tail belongs to no message.
LEMMA DepositAppends ==
  ASSUME RingOK, NEW t \in Thread, NEW m \in Msg, Deposit(t, m)
  PROVE  /\ RingOK'
         /\ Len(Contents) < MQ_MAX_MSG /\ Contents' = Append(Contents, m) /\ got' = got
<1> DEFINE at(i) == (head + i - 1) % MQ_MAX_MSG
           n == count + 1
<1>1. /\ count < MQ_MAX_MSG /\ buf' = [buf EXCEPT ![tail] = m]
      /\ tail' = Advance(tail) /\ count' = n /\ head' = head /\ got' = got
  BY DEF Deposit, Room
<1>2. n \in 1..MQ_MAX_MSG /\ n \in Nat /\ count \in Nat
  BY <1>1, RingNumbers
<1>3. buf \in [Slot -> Msg \union {Null}] /\ head \in Slot /\ tail \in Slot
  BY DEF RingOK
<1>4. ASSUME NEW i \in 1..count
      PROVE  at(i) \in Slot /\ at(i) # tail
  <2>1. i \in 1..MQ_MAX_MSG /\ i <= count
    BY RingNumbers
  <2>2. at(i) = IF head + i - 1 < MQ_MAX_MSG THEN head + i - 1 ELSE head + i - 1 - MQ_MAX_MSG
    BY <1>3, <2>1, MessagePlace
  <2>3. at(i) # tail
    BY <1>1, <2>1, <2>2, RingNumbers, TailIs
  <2>. QED BY <1>3, <2>1, <2>3, MessagePlace
<1>5. tail = at(n)
  <2>1. head + n - 1 = head + count
    BY RingNumbers
  <2>. QED BY <2>1 DEF RingOK
<1>6. tail' \in Slot /\ tail' = (head' + count') % MQ_MAX_MSG
  <2>1. tail' \in Slot /\ tail' = IF tail + 1 = MQ_MAX_MSG THEN 0 ELSE tail + 1
    BY <1>1, <1>3, AdvanceOnce
  <2>2. (head + n) % MQ_MAX_MSG = IF head + n < MQ_MAX_MSG THEN head + n
                                  ELSE head + n - MQ_MAX_MSG
    BY <1>2, <1>3, MessagePlace
  <2>3. tail' = (head + n) % MQ_MAX_MSG
    BY <2>1, <2>2, RingNumbers, TailIs
  <2>. QED BY <1>1, <2>1, <2>3
<1>7. /\ Contents' = [i \in 1..n |-> Contents'[i]]
      /\ \A i \in 1..n : Contents'[i] = buf'[at(i)]
  BY <1>1 DEF Contents
<1>8. /\ Append(Contents, m) = [i \in 1..n |-> Append(Contents, m)[i]]
      /\ Append(Contents, m)[n] = m
      /\ \A i \in 1..count : Append(Contents, m)[i] = Contents[i]
  <2>1. Contents \in Seq(Msg) /\ Len(Contents) = count
    BY ContentsIs
  <2>2. Append(Contents, m) \in Seq(Msg) /\ Len(Append(Contents, m)) = n
    BY <1>2, <2>1
  <2>3. Append(Contents, m) = [i \in 1..n |-> Append(Contents, m)[i]]
    BY <2>2, LenProperties
  <2>. QED BY <1>2, <2>1, <2>3
<1>9. ASSUME NEW i \in 1..n PROVE Contents'[i] = Append(Contents, m)[i] /\ Contents'[i] \in Msg
  <2>1. CASE i = n
    BY <1>1, <1>3, <1>5, <1>7, <1>8, <2>1
  <2>2. CASE i # n
    <3>1. i \in 1..count
      BY <1>2, <2>2
    <3>2. buf'[at(i)] = buf[at(i)]
      BY <1>1, <1>3, <1>4, <3>1
    <3>3. buf[at(i)] = Contents[i] /\ Contents[i] \in Msg
      BY <3>1, ContentsIs DEF RingOK
    <3>. QED BY <1>7, <1>8, <3>1, <3>2, <3>3
  <2>. QED BY <2>1, <2>2
<1>10. Contents' = Append(Contents, m)
  BY <1>2, <1>7, <1>8, <1>9, SameElements
<1>11. RingOK'
  <2>1. /\ buf' \in [Slot -> Msg \union {Null}] /\ head' \in Slot
        /\ count' \in 0..MQ_MAX_MSG /\ got' \in (Thread \X Msg) \union {Null}
    BY <1>1, <1>2, <1>3 DEF RingOK
  <2>2. \A i \in 1..count' : Contents'[i] \in Msg
    BY <1>1, <1>9
  <2>. QED BY <1>6, <2>1, <2>2 DEF RingOK, Slot
<1>. QED BY <1>1, <1>10, <1>11, ContentsIs

\* Receiving takes the head off: the other messages stay where they are.
LEMMA FetchTakes ==
  ASSUME RingOK, NEW t \in Thread, Fetch(t)
  PROVE  /\ RingOK'
         /\ Contents # <<>> /\ got' = <<t, Head(Contents)>> /\ Contents' = Tail(Contents)
<1> DEFINE at(i) == (head + i - 1) % MQ_MAX_MSG
           n == count - 1
<1>1. /\ count > 0 /\ got' = <<t, buf[head]>> /\ head' = Advance(head)
      /\ count' = n /\ buf' = buf /\ tail' = tail
  BY DEF Fetch
<1>2. n \in Nat /\ n \in 0..MQ_MAX_MSG /\ count \in Nat
  BY <1>1, RingNumbers
<1>3. buf \in [Slot -> Msg \union {Null}] /\ head \in Slot /\ tail \in Slot
  BY DEF RingOK
<1>4. head' \in Slot /\ head' = IF head + 1 = MQ_MAX_MSG THEN 0 ELSE head + 1
  BY <1>1, <1>3, AdvanceOnce
<1>5. head = at(1) /\ Contents[1] = buf[head] /\ buf[head] \in Msg
  <2>1. 1 \in 1..count /\ 1 \in 1..MQ_MAX_MSG
    BY <1>1, RingNumbers
  <2>2. at(1) = head
    BY <1>3, <2>1, MessagePlace, RingNumbers
  <2>. QED BY <2>1, <2>2, ContentsIs DEF RingOK
<1>6. ASSUME NEW i \in 1..n
      PROVE  (head' + i - 1) % MQ_MAX_MSG = at(i + 1) /\ i + 1 \in 1..count
  <2>1. i \in 1..MQ_MAX_MSG /\ i + 1 \in 1..MQ_MAX_MSG /\ i + 1 \in 1..count
    BY <1>1, <1>2, RingNumbers
  <2>2. (head + i) % MQ_MAX_MSG = IF head + i < MQ_MAX_MSG THEN head + i
                                  ELSE head + i - MQ_MAX_MSG
    BY <1>3, <2>1, MessagePlace
  <2>3. PICK x \in 0..(2 * MQ_MAX_MSG - 1) : x = head' + i - 1
    BY <1>4, <2>1, RingNumbers
  <2>4. (head' + i - 1) % MQ_MAX_MSG = IF x < MQ_MAX_MSG THEN x ELSE x - MQ_MAX_MSG
    BY <2>3, ModOnce
  <2>5. (head' + i - 1) % MQ_MAX_MSG = (head + i) % MQ_MAX_MSG
    BY <1>4, <2>1, <2>2, <2>3, <2>4, RingNumbers
  <2>6. head + (i + 1) - 1 = head + i
    BY RingNumbers
  <2>. QED BY <2>1, <2>5, <2>6
<1>7. tail' = (head' + count') % MQ_MAX_MSG
  <2>1. PICK x \in 0..(2 * MQ_MAX_MSG - 1) : x = head' + n
    BY <1>1, <1>4, RingNumbers
  <2>2. (head' + n) % MQ_MAX_MSG = IF x < MQ_MAX_MSG THEN x ELSE x - MQ_MAX_MSG
    BY <2>1, ModOnce
  <2>3. tail = (head' + n) % MQ_MAX_MSG
    BY <1>1, <1>4, <2>1, <2>2, RingNumbers, TailIs
  <2>. QED BY <1>1, <2>3
<1>8. /\ Contents' = [i \in 1..n |-> Contents'[i]]
      /\ \A i \in 1..n : Contents'[i] = buf[(head' + i - 1) % MQ_MAX_MSG]
  BY <1>1 DEF Contents
<1>9. /\ Tail(Contents) = [i \in 1..n |-> Tail(Contents)[i]]
      /\ \A i \in 1..n : Tail(Contents)[i] = Contents[i + 1]
      /\ Contents # <<>> /\ Head(Contents) = Contents[1]
  <2>1. Contents \in Seq(Msg) /\ Len(Contents) = count /\ count > 0
    BY <1>1, ContentsIs
  <2>2. Contents # <<>> /\ Head(Contents) = Contents[1]
    BY <2>1
  <2>3. Tail(Contents) \in Seq(Msg) /\ Len(Tail(Contents)) = n
    BY <1>2, <2>1, <2>2
  <2>4. Tail(Contents) = [i \in 1..n |-> Tail(Contents)[i]]
    BY <2>3, LenProperties
  <2>5. \A i \in 1..n : Tail(Contents)[i] = Contents[i + 1]
    BY <1>2, <2>1, <2>2
  <2>. QED BY <2>2, <2>4, <2>5
<1>10. ASSUME NEW i \in 1..n PROVE Contents'[i] = Tail(Contents)[i] /\ Contents'[i] \in Msg
  <2>1. i + 1 \in 1..count /\ Contents'[i] = buf[at(i + 1)]
    BY <1>6, <1>8
  <2>2. Contents[i + 1] = buf[at(i + 1)] /\ Contents[i + 1] \in Msg
    BY <2>1, ContentsIs DEF RingOK
  <2>. QED BY <1>9, <2>1, <2>2
<1>11. Contents' = Tail(Contents)
  BY <1>2, <1>8, <1>9, <1>10, SameElements
<1>12. RingOK'
  <2>1. /\ buf' \in [Slot -> Msg \union {Null}] /\ head' \in Slot /\ tail' \in Slot
        /\ count' \in 0..MQ_MAX_MSG /\ got' \in (Thread \X Msg) \union {Null}
    BY <1>1, <1>2, <1>3, <1>4, <1>5
  <2>2. \A i \in 1..count' : Contents'[i] \in Msg
    BY <1>1, <1>10
  <2>. QED BY <1>7, <2>1, <2>2 DEF RingOK, Slot
<1>. QED BY <1>1, <1>5, <1>9, <1>11, <1>12
-----------------------------------------------------------------------------
(* Every step *)

\* The calls that move a message, and those that only wait.
LEMMA CallMoves ==
  ASSUME NEW t \in Thread, NEW m \in Msg,
         \/ SendOnce(t, m) \/ SendWait(t, m) \/ TrySend(t, m)
         \/ RecvOnce(t) \/ RecvWait(t) \/ TryRecv(t)
  PROVE  \/ Deposit(t, m) \/ Fetch(t)
         \/ UNCHANGED ring /\ (Blocks(t, SendCall(m)) \/ Blocks(t, RecvCall))
BY DEF SendOnce, SendWait, TrySend, RecvOnce, RecvWait, TryRecv

LEMMA InitRing == QInit => RingOK /\ Fifo!Init
<1> SUFFICES ASSUME QInit PROVE RingOK /\ Fifo!Init
  OBVIOUS
<1>1. /\ buf = [i \in Slot |-> Null] /\ head = 0 /\ tail = 0 /\ count = 0 /\ got = Null
  BY DEF QInit
<1>2. 0 % MQ_MAX_MSG = 0 /\ 0 \in Slot /\ 0 \in 0..MQ_MAX_MSG
  BY QueueAssumption DEF Slot
<1>3. Contents = <<>>
  BY <1>1 DEF Contents
<1>. QED BY <1>1, <1>2, <1>3 DEF RingOK, Fifo!Init

LEMMA NextRing ==
  RingOK /\ [QNext]_qvars => RingOK' /\ [Fifo!Next]_<<Contents, got>>
<1> SUFFICES ASSUME RingOK, [QNext]_qvars PROVE RingOK' /\ [Fifo!Next]_<<Contents, got>>
  OBVIOUS
<1>1. CASE UNCHANGED ring
  BY <1>1 DEF ring, RingOK, Contents
<1>2. ASSUME NEW t \in Thread, NEW m \in Msg, Deposit(t, m)
      PROVE  RingOK' /\ [Fifo!Next]_<<Contents, got>>
  BY <1>2, DepositAppends DEF Fifo!Next, Fifo!Put
<1>3. ASSUME NEW t \in Thread, Fetch(t)
      PROVE  RingOK' /\ [Fifo!Next]_<<Contents, got>>
  BY <1>3, FetchTakes DEF Fifo!Next, Fifo!Get
<1>4. CASE \E t \in Thread : (\E m \in Msg : SendOnce(t, m) \/ SendWait(t, m) \/ TrySend(t, m))
                             \/ RecvOnce(t) \/ RecvWait(t) \/ TryRecv(t)
  BY <1>1, <1>2, <1>3, <1>4 DEF SendOnce, SendWait, TrySend, RecvOnce, RecvWait, TryRecv
<1>5. CASE UNCHANGED qvars
  BY <1>1, <1>5 DEF qvars
<1>. QED BY <1>1, <1>4, <1>5 DEF QNext

LEMMA SpecRing == QSpec => []RingOK
<1>1. RingOK /\ [QNext]_qvars => RingOK'
  BY NextRing
<1>. QED BY <1>1, InitRing, PTL DEF QSpec

\* A message queue is a bounded FIFO: every message that goes in comes out
\* once, in order, to one receiver, whichever of the four calls are made by
\* how many threads, and whoever is killed between the wake-up and the test.
THEOREM QueueIsFifo == QSpec => IsFifo
<1>1. QInit => Fifo!Init
  BY InitRing
<1>2. RingOK /\ [QNext]_qvars => [Fifo!Next]_<<Contents, got>>
  BY NextRing
<1>. QED BY <1>1, <1>2, SpecRing, PTL DEF QSpec, IsFifo, Fifo!Spec
-----------------------------------------------------------------------------
(* The queue over the scheduler *)

\* The two lists and the calls on them.
LEMMA QueueCalls ==
  /\ send_waiters \in WaitList /\ recv_waiters \in WaitList /\ send_waiters # recv_waiters
  /\ RecvCall # Null /\ RecvCall[1] = recv_waiters
  /\ \A m \in Msg : SendCall(m) # Null /\ SendCall(m)[1] = send_waiters
BY QueueAssumption, UsesAssumption DEF SendCall, RecvCall

\* Sending and receiving as calls on the lists.
LEMMA MovesWake ==
  ASSUME NEW t \in Thread, NEW m \in Msg
  PROVE  /\ SendOnce(t, m) \/ TrySend(t, m) =>
              /\ Deposit(t, m) /\ WakeBegin(t, recv_waiters) /\ LeavesCall(t)
              /\ want[t] # Null => want[t][1] = send_waiters
         /\ RecvOnce(t) \/ TryRecv(t) =>
              /\ Fetch(t) /\ WakeBegin(t, send_waiters) /\ LeavesCall(t)
              /\ want[t] # Null => want[t][1] = recv_waiters
BY QueueCalls DEF SendOnce, TrySend, RecvOnce, TryRecv, Deposit, Fetch, LeavesCall, Tests

LEMMA QNextIsSched == [QNext]_qvars => [Next]_vars
<1> SUFFICES ASSUME [QNext]_qvars PROVE [Next]_vars
  OBVIOUS
<1>1. CASE SchedStep
  BY <1>1, SchedStepNext
<1>2. ASSUME NEW t \in Thread, NEW m \in Msg, SendOnce(t, m) \/ TrySend(t, m) \/ SendWait(t, m)
      PROVE  [Next]_vars
  BY <1>2, MovesWake, CallNext, QueueCalls DEF SendWait, Blocks
<1>3. ASSUME NEW t \in Thread, RecvOnce(t) \/ TryRecv(t) \/ RecvWait(t)
      PROVE  [Next]_vars
  BY <1>3, CallNext, QueueCalls DEF RecvOnce, TryRecv, Fetch, RecvWait, Blocks
<1>4. CASE UNCHANGED qvars
  BY <1>4 DEF qvars, lvars
<1>. QED BY <1>1, <1>2, <1>3, <1>4 DEF QNext

\* Threads that use message queues are threads of the scheduler: what is
\* proved of every program there is true of theirs.
THEOREM QueueIsSched == QSpec => Spec
<1>1. QInit => Init
  BY DEF QInit, LInit
<1>. QED BY <1>1, QNextIsSched, PTL DEF QSpec, Spec
-----------------------------------------------------------------------------
(* Wake-ups *)

SoughtInv ==
  /\ RingOK /\ LoopInv
  /\ Sought(recv_waiters, count)
  /\ Sought(send_waiters, MQ_MAX_MSG - count)

LEMMA InitSought == QInit => SoughtInv
<1>1. QInit => LInit
  BY DEF QInit
<1>. QED BY <1>1, InitRing, InitLoop, QueueCalls DEF SoughtInv

\* A step after which the messages, and the free slots, are sought as before.
LEMMA NextSupply ==
  ASSUME SoughtInv, RingOK', NEW w \in WaitList,
         \A n, m \in Int : n = count /\ m = count' /\ Sought(recv_waiters, n)
                             => Sought(recv_waiters, m)',
         \A n, m \in Int : n = MQ_MAX_MSG - count /\ m = MQ_MAX_MSG - count'
                             /\ Sought(send_waiters, n) => Sought(send_waiters, m)'
  PROVE  Sought(recv_waiters, count)' /\ Sought(send_waiters, MQ_MAX_MSG - count)'
<1>1. count \in Int /\ count' \in Int /\ MQ_MAX_MSG \in Int
  BY QueueAssumption DEF SoughtInv, RingOK
<1>2. Sought(recv_waiters, count)'
  <2>1. PICK n \in Int : n = count
    BY <1>1
  <2>2. PICK m \in Int : m = count'
    BY <1>1
  <2>3. Sought(recv_waiters, n)
    BY <2>1 DEF SoughtInv
  <2>4. Sought(recv_waiters, m)'
    BY <2>1, <2>2, <2>3
  <2>. QED BY <2>2, <2>4 DEF Sought
<1>3. Sought(send_waiters, MQ_MAX_MSG - count)'
  <2>1. PICK n \in Int : n = MQ_MAX_MSG - count
    BY <1>1
  <2>2. PICK m \in Int : m = MQ_MAX_MSG - count'
    <3>1. PICK k \in Int : k = count'
      BY <1>1
    <3>2. MQ_MAX_MSG - k \in Int
      BY <1>1
    <3>. QED BY <3>1, <3>2
  <2>3. Sought(send_waiters, n)
    BY <2>1 DEF SoughtInv
  <2>4. Sought(send_waiters, m)'
    BY <2>1, <2>2, <2>3
  <2>. QED BY <2>2, <2>4 DEF Sought
<1>. QED BY <1>2, <1>3

LEMMA NextSought ==
  ASSUME TInv, TInv', CoreInv, LifeInv, LifeInv', Discipline, WokenLive, WokenLive',
         SoughtInv, [QNext]_qvars
  PROVE  SoughtInv'
<1>0. RingOK' /\ count \in Int /\ count' \in Int /\ MQ_MAX_MSG \in Int /\ count <= MQ_MAX_MSG
  <2>1. RingOK'
    BY NextRing DEF SoughtInv
  <2>. QED BY <2>1, QueueAssumption DEF SoughtInv, RingOK
<1> USE DEF SoughtInv
<1>1. CASE SchedStep /\ UNCHANGED ring
  <2>1. /\ LoopInv' /\ \A w \in WaitList, n \in Int : Sought(w, n) => Sought(w, n)'
        /\ UNCHANGED count
    BY <1>1, SchedStepSought DEF ring
  <2>2. Sought(recv_waiters, count)' /\ Sought(send_waiters, MQ_MAX_MSG - count)'
    BY <1>0, <2>1, QueueCalls, NextSupply
  <2>. QED BY <1>0, <2>1, <2>2
<1>2. ASSUME NEW t \in Thread, NEW m \in Msg, SendOnce(t, m) \/ TrySend(t, m) PROVE SoughtInv'
  <2>1. /\ WakeBegin(t, recv_waiters) /\ LeavesCall(t) /\ count' = count + 1
        /\ want[t] # Null => want[t][1] = send_waiters
    BY <1>2, MovesWake DEF Deposit
  <2>2. /\ LoopInv'
        /\ \A w \in WaitList, n, k \in Int :
             Sought(w, n) /\ (IF w = recv_waiters THEN k <= n + 1
                              ELSE k <= n /\ (want[t] # Null /\ want[t][1] = w => k <= n - 1))
             => Sought(w, k)'
    BY <2>1, QueueCalls, GiveSought
  <2>3. Sought(recv_waiters, count)' /\ Sought(send_waiters, MQ_MAX_MSG - count)'
    <3>1. \A n, k \in Int : n = count /\ k = count' /\ Sought(recv_waiters, n)
                             => Sought(recv_waiters, k)'
      BY <2>1, <2>2, QueueCalls
    <3>2. \A n, k \in Int : n = MQ_MAX_MSG - count /\ k = MQ_MAX_MSG - count'
                             => k <= n - 1 /\ k <= n
      BY <1>0, <2>1
    <3>3. \A n, k \in Int : n = MQ_MAX_MSG - count /\ k = MQ_MAX_MSG - count'
                             /\ Sought(send_waiters, n) => Sought(send_waiters, k)'
      BY <2>2, <3>2, QueueCalls
    <3>. QED BY <1>0, <3>1, <3>3, QueueCalls, NextSupply
  <2>. QED BY <1>0, <2>2, <2>3
<1>3. ASSUME NEW t \in Thread, RecvOnce(t) \/ TryRecv(t) PROVE SoughtInv'
  <2>1. /\ WakeBegin(t, send_waiters) /\ LeavesCall(t) /\ count' = count - 1
        /\ want[t] # Null => want[t][1] = recv_waiters
    BY <1>3, QueueCalls DEF RecvOnce, TryRecv, Fetch, LeavesCall, Tests
  <2>2. /\ LoopInv'
        /\ \A w \in WaitList, n, k \in Int :
             Sought(w, n) /\ (IF w = send_waiters THEN k <= n + 1
                              ELSE k <= n /\ (want[t] # Null /\ want[t][1] = w => k <= n - 1))
             => Sought(w, k)'
    BY <2>1, QueueCalls, GiveSought
  <2>3. Sought(recv_waiters, count)' /\ Sought(send_waiters, MQ_MAX_MSG - count)'
    <3>1. \A n, k \in Int : n = count /\ k = count' => k <= n - 1 /\ k <= n
      BY <1>0, <2>1
    <3>2. \A n, k \in Int : n = count /\ k = count' /\ Sought(recv_waiters, n)
                             => Sought(recv_waiters, k)'
      BY <2>2, <3>1, QueueCalls
    <3>3. \A n, k \in Int : n = MQ_MAX_MSG - count /\ k = MQ_MAX_MSG - count' => k <= n + 1
      BY <1>0, <2>1
    <3>4. \A n, k \in Int : n = MQ_MAX_MSG - count /\ k = MQ_MAX_MSG - count'
                             /\ Sought(send_waiters, n) => Sought(send_waiters, k)'
      BY <2>2, <3>3, QueueCalls
    <3>. QED BY <1>0, <3>2, <3>4, QueueCalls, NextSupply
  <2>. QED BY <1>0, <2>2, <2>3
<1>4. ASSUME NEW t \in Thread, NEW m \in Msg, SendWait(t, m) PROVE SoughtInv'
  <2>1. Tests(t, SendCall(m)) /\ Blocks(t, SendCall(m)) /\ count' = count /\ count = MQ_MAX_MSG
    BY <1>0, <1>4 DEF SendWait, Room, ring
  <2>2. /\ LoopInv'
        /\ \A w \in WaitList, n \in Int : Sought(w, n) /\ (w = send_waiters => n <= 0)
                                           => Sought(w, n)'
    BY <2>1, QueueCalls, SleepSought
  <2>3. Sought(recv_waiters, count)' /\ Sought(send_waiters, MQ_MAX_MSG - count)'
    <3>1. \A n \in Int : n = MQ_MAX_MSG - count => n <= 0
      BY <1>0, <2>1
    <3>. QED BY <1>0, <2>1, <2>2, <3>1, QueueCalls, NextSupply
  <2>. QED BY <1>0, <2>2, <2>3
<1>5. ASSUME NEW t \in Thread, RecvWait(t) PROVE SoughtInv'
  <2>1. Tests(t, RecvCall) /\ Blocks(t, RecvCall) /\ count' = count /\ count = 0
    BY <1>5 DEF RecvWait, ring
  <2>2. /\ LoopInv'
        /\ \A w \in WaitList, n \in Int : Sought(w, n) /\ (w = recv_waiters => n <= 0)
                                           => Sought(w, n)'
    BY <2>1, QueueCalls, SleepSought
  <2>3. Sought(recv_waiters, count)' /\ Sought(send_waiters, MQ_MAX_MSG - count)'
    BY <1>0, <2>1, <2>2, QueueCalls, NextSupply
  <2>. QED BY <1>0, <2>2, <2>3
<1>6. CASE UNCHANGED qvars
  <2>1. UNCHANGED <<vars, want, count>>
    BY <1>6 DEF qvars, ring, lvars
  <2>2. LoopInv'
    BY <2>1 DEF vars, LoopInv, Wanting, Holding, Holds, Waker
  <2>3. ASSUME NEW w \in WaitList, NEW n \in Int, Sought(w, n) PROVE Sought(w, n)'
    <3>1. /\ Seekers(w)' = Seekers(w)
          /\ Quiet(w)' <=> Quiet(w)
          /\ LiveWaiter(w)' <=> LiveWaiter(w)
      BY <2>1 DEF vars, Seekers, Waits, Quiet, Holds, LiveWaiter
    <3>2. \A x \in Thread : (Holds(x, w)' <=> Holds(x, w)) /\ (Waker(x)' <=> Waker(x))
      BY <2>1 DEF vars, Holds, Waker
    <3>. QED BY <2>1, <2>3, <3>1, <3>2 DEF vars, Sought
  <2>4. Sought(recv_waiters, count)' /\ Sought(send_waiters, MQ_MAX_MSG - count)'
    BY <1>0, <2>1, <2>3, QueueCalls, NextSupply
  <2>. QED BY <1>0, <2>2, <2>4
<1>. QED BY <1>1, <1>2, <1>3, <1>4, <1>5, <1>6 DEF QNext

LEMMA SpecSought == QSpec /\ []Discipline /\ []WokenLive => [](TInv /\ SoughtInv)
<1>1. QSpec /\ []Discipline => [](TInv /\ CoreInv /\ LifeInv)
  BY QueueIsSched, SpecLife, PTL
<1> DEFINE Sched == TInv /\ CoreInv /\ LifeInv
<1>2. Sched /\ Sched' /\ Discipline /\ WokenLive /\ WokenLive' /\ SoughtInv
      /\ [QNext]_qvars => SoughtInv'
  BY NextSought
<1>. QED BY <1>1, <1>2, InitSought, PTL DEF QSpec

\* While a live receiver waits, every message inside has a woken receiver on
\* its way to it, and while a live sender waits every free slot a sender -
\* unless a woken thread is killed before it tests again.
THEOREM QueueWakeups == QSpec /\ []Discipline /\ []WokenLive => []EverySought
<1>1. TInv /\ SoughtInv => EverySought
  <2> SUFFICES ASSUME TInv, SoughtInv PROVE EverySought
    OBVIOUS
  <2>1. EveryMessageSought
    BY SoughtStill, QueueCalls DEF EveryMessageSought, SoughtInv, TInv
  <2>2. EverySlotSought
    BY SoughtStill, QueueCalls DEF EverySlotSought, SoughtInv, TInv
  <2>. QED BY <2>1, <2>2 DEF EverySought
<1>. QED BY <1>1, SpecSought, PTL

\* The conditions hold of programs that kill no thread that uses the primitives
\* and whose killers and exiting threads are pinned.
THEOREM QueueCarefulWakeups ==
  ASSUME Careful, WaitersSpared
  PROVE  QSpec => []EverySought
<1> DEFINE Inv == TInv /\ CoreInv /\ LifeInv /\ Discipline
           Outside == SoughtInv /\ DiesOutside
<1>1. QSpec => []Inv
  <2>1. Spec => [](Discipline /\ CreatorsLive)
    BY SchedCarefulKeeps
  <2>2. Spec /\ []Discipline => [](TInv /\ CoreInv /\ LifeInv)
    BY SpecLife
  <2>. QED BY <2>1, <2>2, QueueIsSched, PTL
<1>2. QInit => DiesOutside
  BY InitOutside DEF QInit
<1>3. Inv /\ Outside /\ [QNext]_qvars => DiesOutside'
  <2> SUFFICES ASSUME Inv, SoughtInv, DiesOutside, [QNext]_qvars PROVE DiesOutside'
    OBVIOUS
  <2>1. LoopInv
    BY DEF SoughtInv
  <2>2. CASE SchedStep
    BY <2>2, SchedStepOutside
  <2>3. ASSUME NEW t \in Thread, UNCHANGED tstate,
               LeavesCall(t) \/ (\E call : Tests(t, call) /\ Blocks(t, call))
        PROVE  DiesOutside'
    BY <2>1, <2>3, CallOutside
  <2>4. ASSUME NEW t \in Thread, NEW m \in Msg, SendOnce(t, m) \/ TrySend(t, m) \/ SendWait(t, m)
        PROVE  DiesOutside'
    BY <2>3, <2>4, MovesWake DEF SendWait, WakeBegin, Blocks, WaitEnqueue
  <2>5. ASSUME NEW t \in Thread, RecvOnce(t) \/ TryRecv(t) \/ RecvWait(t)
        PROVE  DiesOutside'
    BY <2>3, <2>5 DEF RecvOnce, TryRecv, Fetch, RecvWait, LeavesCall, WakeBegin, Blocks, WaitEnqueue
  <2>6. CASE UNCHANGED qvars
    BY <2>6 DEF qvars, lvars, vars, DiesOutside
  <2>. QED BY <2>2, <2>4, <2>5, <2>6 DEF QNext
<1>4. Inv /\ DiesOutside => WokenLive
  BY OutsideLives
<1>5. Inv /\ Inv' /\ WokenLive /\ WokenLive' /\ SoughtInv /\ [QNext]_qvars => SoughtInv'
  BY NextSought
<1>6. Inv /\ Inv' /\ Outside /\ [QNext]_qvars => Outside'
  BY <1>3, <1>4, <1>5, PTL
<1>7. QSpec => []WokenLive
  BY <1>1, <1>2, <1>4, <1>6, InitSought, PTL DEF QSpec
<1>. QED BY <1>1, <1>7, QueueWakeups, PTL
=============================================================================

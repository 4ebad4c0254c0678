---------------------------- MODULE SchedProofs ----------------------------
(***************************************************************************)
(* Theorems about Sched, for every number of threads, priorities and       *)
(* waiter lists and every program the threads may run.                     *)
(*                                                                         *)
(* First the type invariant, the two facts that make the context switch    *)
(* safe on two cores, and what the list operations do to the set of listed *)
(* threads.  Then who frees a thread, and what the lists of the kernel     *)
(* hold, for every program that keeps out of the windows named in          *)
(* Discipline.                                                             *)
(*                                                                         *)
(* The argument of the second part.  A thread's state tells where it is to *)
(* be found (Found), and being found somewhere limits its state (Life);    *)
(* whoever has it in hand is alone with it (Hands, Births).  A thread      *)
(* inside a section with interrupts off stays on its core (Places), and    *)
(* the holder of a stripe keeps all others off the lists of that stripe    *)
(* (Locked).  An idle thread is always there to be switched to (Cores), so *)
(* a switch never fails to replace the thread it has freed.                *)
(*                                                                         *)
(* Last, for every primitive that is a waiting loop on a list, that no     *)
(* wake-up is lost.                                                        *)
(***************************************************************************)
EXTENDS WaitLoop, SequenceTheorems, FiniteSetTheorems, WellFoundedInduction, TLAPS

-----------------------------------------------------------------------------
(* The sequence operators that the queues use *)

\* A non-empty set of naturals has a least element: what the search for a
\* thread in a queue, SelectInSeq, relies on.
LEMMA LeastNat ==
  ASSUME NEW T \in SUBSET Nat, T # {}
  PROVE  \E m \in T : \A n \in T : m <= n
<1> DEFINE LT == OpToRel(<, Nat)
<1>1. \A x, y \in Nat : y < x => <<y, x>> \in LT
  <2> SUFFICES ASSUME NEW x \in Nat, NEW y \in Nat, y < x PROVE <<y, x>> \in LT
    OBVIOUS
  <2>1. <<y, x>> \in {ss \in Nat \X Nat : ss[1] < ss[2]}
    OBVIOUS
  <2>. QED BY <2>1, Zenon DEF OpToRel
<1>2. IsWellFoundedOn(LT, Nat)
  BY NatLessThanWellFounded
<1> HIDE DEF LT
<1>3. PICK x \in T : \A y \in T : ~(<<y, x>> \in LT)
  BY <1>2, WFMin, Zenon
<1>4. \A y \in T : ~(y < x)
  BY <1>1, <1>3
<1>. QED BY <1>4

\* Min, as the community modules define it, is that element.
LEMMA MinNat ==
  ASSUME NEW T \in SUBSET Nat, T # {}
  PROVE  Min(T) \in T /\ \A n \in T : Min(T) <= n
BY LeastNat DEF Min

\* Taking a thread out of a queue (sched_remove_thread_raw) leaves a queue.
LEMMA RemoveFirstType ==
  ASSUME NEW S, NEW q \in Seq(S), NEW t
  PROVE  RemoveFirst(q, t) \in Seq(S)
<1> DEFINE I == {i \in 1..Len(q) : q[i] = t}
<1>1. CASE I = {}
  BY <1>1 DEF RemoveFirst, SelectInSeq
<1>2. CASE I # {}
  <2> DEFINE m == Min(I)
  <2>1. m \in 1..Len(q)
    <3>1. I \in SUBSET Nat
      OBVIOUS
    <3>. QED BY <1>2, <3>1, MinNat
  <2>2. RemoveFirst(q, t) = SubSeq(q, 1, m-1) \o SubSeq(q, m+1, Len(q))
    BY <1>2, <2>1 DEF RemoveFirst, RemoveAt, SelectInSeq
  <2> HIDE DEF m
  <2>3. SubSeq(q, 1, m-1) \in Seq(S) /\ SubSeq(q, m+1, Len(q)) \in Seq(S)
    BY <2>1
  <2>. QED BY <2>2, <2>3
<1>. QED BY <1>1, <1>2

\* So does cutting a queue behind a thread (waiter_enqueue).
LEMMA CutBehindType ==
  ASSUME NEW S, NEW q \in Seq(S), NEW t
  PROVE  CutBehind(q, t) \in Seq(S)
<1> DEFINE I == {i \in 1..Len(q) : q[i] = t}
<1>1. CASE t \notin Linked(q)
  BY <1>1 DEF CutBehind
<1>2. CASE t \in Linked(q)
  <2> DEFINE m == Min(I)
  <2>1. I # {}
    BY <1>2 DEF Linked, ToSet
  <2>2. m \in 1..Len(q)
    <3>1. I \in SUBSET Nat
      OBVIOUS
    <3>. QED BY <2>1, <3>1, MinNat
  <2>3. CutBehind(q, t) = SubSeq(q, 1, m)
    BY <1>2, <2>1 DEF CutBehind, SelectInSeq
  <2> HIDE DEF m
  <2>. QED BY <2>2, <2>3
<1>. QED BY <1>1, <1>2

\* And so does the round-robin rotation.
LEMMA RotatedType ==
  ASSUME NEW S, NEW q \in Seq(S), NEW cur, NEW st
  PROVE  /\ Rotated(q, cur, st) \in Seq(S)
         /\ Len(Rotated(q, cur, st)) = Len(q)
<1>1. CASE q # <<>> /\ Head(q) = cur
  <2>1. cur \in S /\ Tail(q) \in Seq(S) /\ Len(Tail(q)) = Len(q) - 1 /\ Len(q) \in Nat
    BY <1>1
  <2>. QED BY <2>1 DEF Rotated
<1>2. CASE ~(q # <<>> /\ Head(q) = cur)
  BY <1>2 DEF Rotated
<1>. QED BY <1>1, <1>2

\* The ready queues keep their type when a thread joins or leaves one.
LEMMA QueueType ==
  ASSUME NEW rq \in [Prio -> Seq(Thread)], NEW t \in Thread
  PROVE  /\ AddReady(rq, t) \in [Prio -> Seq(Thread)]
         /\ RemoveReady(rq, t) \in [Prio -> Seq(Thread)]
         /\ [rq EXCEPT ![Priority[t]] = CutBehind(@, t)] \in [Prio -> Seq(Thread)]
<1>1. Priority[t] \in Prio
  BY SchedAssumption
<1>2. rq[Priority[t]] \in Seq(Thread)
  BY <1>1
<1>3. Append(rq[Priority[t]], t) \in Seq(Thread)
  BY <1>2
<1>4. RemoveFirst(rq[Priority[t]], t) \in Seq(Thread)
  BY <1>2, RemoveFirstType
<1>5. CutBehind(rq[Priority[t]], t) \in Seq(Thread)
  BY <1>2, CutBehindType
<1>. QED BY <1>3, <1>4, <1>5 DEF AddReady, RemoveReady

-----------------------------------------------------------------------------
(* Type correctness *)

\* TypeOK is not inductive: a waker, a killer or a creator uses the TCB that
\* it took before, so there must be one at each of these places.
HasTarget == \A t \in Thread :
  pc[t] \in {"wake", "wakefree", "kill", "killfree", "scanned", "claimed"} => tgt[t] \in Thread

TInv == TypeOK /\ HasTarget

\* The state main() and sched_start() leave behind is typed.
LEMMA InitTInv == Init => TInv
<1>1. ASSUME Init PROVE TypeOK
  BY <1>1, SchedAssumption DEF Init, TypeOK, State, PC, Core
<1>2. ASSUME Init PROVE HasTarget
  BY <1>2 DEF Init, HasTarget
<1>. QED BY <1>1, <1>2 DEF TInv

\* sched_next_thread() gives the core a thread and leaves queues and states.
LEMMA SelectType ==
  ASSUME TypeOK, NEW c \in Core, NEW st \in [Thread -> State],
         NEW rq \in [Prio -> Seq(Thread)], Select(c, st, rq)
  PROVE  /\ tstate' \in [Thread -> State]
         /\ ready_queues' \in [Prio -> Seq(Thread)]
         /\ current_tcb' \in [Core -> Thread]
<1> DEFINE cur == current_tcb[c]
<1>1. CASE \E p \in Prio : \E k \in 1..Len(rq[p]) :
             LET q == Rotated(rq[p], cur, st) IN
             /\ ready_queues' = [rq EXCEPT ![p] = q]
             /\ tstate' = [st EXCEPT ![q[k]] = "running"]
             /\ current_tcb' = [current_tcb EXCEPT ![c] = q[k]]
  <2>0. PICK p \in Prio : \E k \in 1..Len(rq[p]) :
             LET q == Rotated(rq[p], cur, st) IN
             /\ ready_queues' = [rq EXCEPT ![p] = q]
             /\ tstate' = [st EXCEPT ![q[k]] = "running"]
             /\ current_tcb' = [current_tcb EXCEPT ![c] = q[k]]
    BY <1>1
  <2>1. PICK k \in 1..Len(rq[p]) :
             /\ ready_queues' = [rq EXCEPT ![p] = Rotated(rq[p], cur, st)]
             /\ tstate' = [st EXCEPT ![Rotated(rq[p], cur, st)[k]] = "running"]
             /\ current_tcb' = [current_tcb EXCEPT ![c] = Rotated(rq[p], cur, st)[k]]
    BY <2>0
  <2>2. Rotated(rq[p], cur, st) \in Seq(Thread) /\ Rotated(rq[p], cur, st)[k] \in Thread
    <3>1. rq[p] \in Seq(Thread)
      OBVIOUS
    <3>2. /\ Rotated(rq[p], cur, st) \in Seq(Thread)
          /\ Len(Rotated(rq[p], cur, st)) = Len(rq[p])
      BY <3>1, RotatedType
    <3>. QED BY <3>2
  <2>. QED BY <2>1, <2>2 DEF TypeOK, State
<1>2. CASE ready_queues' = rq /\ tstate' = st /\ UNCHANGED current_tcb
  BY <1>2 DEF TypeOK
<1>. QED BY <1>1, <1>2 DEF Select

\* The whole of sched_next_thread() keeps what it changes typed.
LEMMA SchedNextType ==
  ASSUME TypeOK, NEW c \in Core, SchedNext(c)
  PROVE  /\ tstate' \in [Thread -> State]
         /\ tcb_used' \in [Thread -> BOOLEAN]
         /\ kill_pending' \in [Thread -> BOOLEAN]
         /\ ready_queues' \in [Prio -> Seq(Thread)]
         /\ current_tcb' \in [Core -> Thread]
         /\ tgt' = [tgt EXCEPT ![current_tcb[c]] = IF Reaped(current_tcb[c]) THEN Null ELSE @]
         /\ UNCHANGED <<waiters, spin, core>>
<1> DEFINE cur == current_tcb[c]
           st == [tstate EXCEPT ![cur] = IF Reaped(cur) THEN "new" ELSE LeavingState(cur)]
           rq == IF Reaped(cur) THEN RemoveReady(ready_queues, cur) ELSE ready_queues
<1>1. cur \in Thread
  BY DEF TypeOK
<1>2. LeavingState(cur) \in State
  BY <1>1 DEF LeavingState, TypeOK, State
<1>3. st \in [Thread -> State]
  BY <1>2 DEF TypeOK, State
<1>4. rq \in [Prio -> Seq(Thread)]
  BY <1>1, QueueType DEF TypeOK
<1>5. Select(c, st, rq)
  BY DEF SchedNext
<1>6. /\ tcb_used' \in [Thread -> BOOLEAN]
      /\ kill_pending' \in [Thread -> BOOLEAN]
  <2>1. (tcb_used[cur] /\ ~Reaped(cur)) \in BOOLEAN
    BY <1>1
  <2>2. tcb_used' = [tcb_used EXCEPT ![cur] = tcb_used[cur] /\ ~Reaped(cur)]
    BY DEF SchedNext
  <2>3. kill_pending' = [kill_pending EXCEPT ![cur] = FALSE]
    BY DEF SchedNext
  <2> HIDE DEF cur
  <2>. QED BY <1>1, <2>1, <2>2, <2>3, Zenon DEF TypeOK
<1> HIDE DEF st, rq
<1>7. /\ tstate' \in [Thread -> State]
      /\ ready_queues' \in [Prio -> Seq(Thread)]
      /\ current_tcb' \in [Core -> Thread]
  BY <1>3, <1>4, <1>5, SelectType
<1>. QED BY <1>6, <1>7 DEF SchedNext

\* A change of place or of local pointer is typed, and keeps HasTarget, if the
\* thread that moves to one of HasTarget's places has its pointer.
LEMMA SwitchTInv == ASSUME TInv, NEW c \in Core, Slice(c) \/ Yield(c) PROVE TInv'
<1> DEFINE cur == current_tcb[c]
<1>1. cur \in Thread
  BY DEF TInv, TypeOK
<1>2. SchedNext(c)
  BY DEF Slice, Yield
<1>3. PICK l \in PC : /\ pc' = [pc EXCEPT ![cur] = l]
                      /\ l = "run" \/ (l = pc[cur] /\ ~Reaped(cur))
  BY <1>1 DEF Slice, Yield, Goto, TInv, TypeOK, PC
<1> HIDE DEF cur
<1>4. tgt' = [tgt EXCEPT ![cur] = IF Reaped(cur) THEN Null ELSE @]
  BY <1>2, SchedNextType DEF TInv, cur
<1>5. TypeOK'
  <2>1. tgt' \in [Thread -> Thread \union {Null}]
    BY <1>4 DEF TInv, TypeOK
  <2>2. pc' \in [Thread -> PC]
    BY <1>3 DEF TInv, TypeOK
  <2>. QED BY <1>2, <2>1, <2>2, SchedNextType DEF TInv, TypeOK
<1>6. HasTarget'
  BY <1>1, <1>3, <1>4 DEF TInv, TypeOK, HasTarget
<1>. QED BY <1>5, <1>6 DEF TInv

\* waiter_dequeue(): the waker has the dequeued thread in hand.
LEMMA DequeueTInv ==
  ASSUME TInv, NEW t \in Thread, NEW w \in WaitList, Dequeue(t, w)
  PROVE  /\ spin' \in [Stripe -> (Thread \X WaitList) \union {Null}]
         /\ waiters' \in [WaitList -> Seq(Thread)]
         /\ tgt' \in [Thread -> Thread \union {Null}]
         /\ pc' \in [Thread -> PC]
         /\ HasTarget'
<1>1. CASE waiters[w] = <<>>
  <2>1. /\ spin' = [spin EXCEPT ![StripeOf[w]] = Null]
        /\ tgt' = [tgt EXCEPT ![t] = Null]
        /\ pc' = [pc EXCEPT ![t] = "run"]
        /\ waiters' = waiters
    BY <1>1 DEF Dequeue, Goto, Unlocks
  <2>2. spin' \in [Stripe -> (Thread \X WaitList) \union {Null}]
    BY <2>1, SchedAssumption DEF TInv, TypeOK
  <2>3. /\ tgt' \in [Thread -> Thread \union {Null}]
        /\ pc' \in [Thread -> PC]
        /\ HasTarget'
    BY <2>1 DEF TInv, TypeOK, PC, HasTarget
  <2>. QED BY <2>1, <2>2, <2>3 DEF TInv, TypeOK
<1>2. CASE waiters[w] # <<>>
  <2>1. Head(waiters[w]) \in Thread /\ Tail(waiters[w]) \in Seq(Thread)
    BY <1>2 DEF TInv, TypeOK
  <2>2. /\ spin' = [spin EXCEPT ![StripeOf[w]] = <<t, w>>]
        /\ tgt' = [tgt EXCEPT ![t] = Head(waiters[w])]
        /\ waiters' = [waiters EXCEPT ![w] = Tail(waiters[w])]
        /\ pc' = [pc EXCEPT ![t] = "wake"]
    BY <1>2 DEF Dequeue, Rest, Goto, Locks
  <2>3. /\ spin' \in [Stripe -> (Thread \X WaitList) \union {Null}]
        /\ waiters' \in [WaitList -> Seq(Thread)]
    BY <2>1, <2>2, SchedAssumption DEF TInv, TypeOK
  <2>4. /\ tgt' \in [Thread -> Thread \union {Null}]
        /\ pc' \in [Thread -> PC]
    BY <2>1, <2>2 DEF TInv, TypeOK, PC
  <2>5. HasTarget'
    BY <2>1, <2>2 DEF TInv, TypeOK, HasTarget
  <2>. QED BY <2>3, <2>4, <2>5
<1>. QED BY <1>1, <1>2

\* Every step keeps the types, and every thread in the middle of a wake, a kill
\* or a create keeps the thread it works on.
LEMMA NextTInv == TInv /\ [Next]_vars => TInv'
<1> SUFFICES ASSUME TInv, [Next]_vars PROVE TInv'
  OBVIOUS
<1> USE DEF TInv
<1>1. ASSUME NEW c \in Core, Slice(c) \/ Yield(c) PROVE TInv'
  BY <1>1, SwitchTInv
<1>2. ASSUME NEW t \in Thread, Sleep(t) PROVE TInv'
  <2>1. ready_queues' \in [Prio -> Seq(Thread)]
    BY <1>2, QueueType DEF Sleep, TypeOK
  <2>. QED BY <1>2, <2>1 DEF Sleep, TypeOK, HasTarget, Goto, State, PC
<1>3. ASSUME NEW t \in Thread, TickWake(t) PROVE TInv'
  <2>1. ready_queues' \in [Prio -> Seq(Thread)]
    BY <1>3, QueueType DEF TickWake, TypeOK
  <2>. QED BY <1>3, <2>1 DEF TickWake, TypeOK, HasTarget, State
<1>4. ASSUME NEW t \in Thread, NEW w \in WaitList, WaitEnqueue(t, w) PROVE TInv'
  <2>1. ready_queues' \in [Prio -> Seq(Thread)]
    BY <1>4, QueueType DEF WaitEnqueue, TypeOK
  <2>2. Append(waiters[w], t) \in Seq(Thread)
    BY DEF TypeOK
  <2>. QED BY <1>4, <2>1, <2>2, SchedAssumption DEF WaitEnqueue, TypeOK, HasTarget, Locks, Unlocks, Goto, PC
<1>5. ASSUME NEW t \in Thread, NEW w \in WaitList, WaitBlock(t, w) PROVE TInv'
  <2>1. ready_queues' \in [Prio -> Seq(Thread)]
    BY <1>5, QueueType DEF WaitBlock, TypeOK
  <2>. QED BY <1>5, <2>1, SchedAssumption DEF WaitBlock, TypeOK, HasTarget, Locks, Unlocks, Goto, State, PC
<1>6. ASSUME NEW t \in Thread, NEW w \in WaitList, WakeBegin(t, w) PROVE TInv'
  <2>1. UNCHANGED <<tstate, tcb_used, kill_pending, ready_queues, current_tcb, core>>
    BY <1>6 DEF WakeBegin
  <2>. QED BY <1>6, <2>1, DequeueTInv DEF WakeBegin, TypeOK
<1>7. ASSUME NEW t \in Thread, NEW w \in WaitList, WakeUnblock(t, w) PROVE TInv'
  <2>1. tgt[t] \in Thread
    BY <1>7 DEF WakeUnblock, At, HasTarget
  <2>2. ready_queues' \in [Prio -> Seq(Thread)]
    BY <1>7, <2>1, QueueType DEF WakeUnblock, TypeOK
  <2>. QED BY <1>7, <2>1, <2>2, SchedAssumption DEF WakeUnblock, TypeOK, HasTarget, Locks, Unlocks, Goto, State, PC
<1>8. ASSUME NEW t \in Thread, NEW w \in WaitList, WakeZombie(t, w) PROVE TInv'
  BY <1>8 DEF WakeZombie, TypeOK, HasTarget, At, Goto, PC
<1>9. ASSUME NEW t \in Thread, NEW w \in WaitList, WakeFree(t, w) PROVE TInv'
  <2>1. UNCHANGED <<ready_queues, current_tcb, core>>
    BY <1>9 DEF WakeFree
  <2>2. /\ tstate' \in [Thread -> State]
        /\ tcb_used' \in [Thread -> BOOLEAN]
        /\ kill_pending' \in [Thread -> BOOLEAN]
    BY <1>9 DEF WakeFree, FreeSlot, TypeOK, State
  <2>. QED BY <1>9, <2>1, <2>2, DequeueTInv DEF WakeFree, TypeOK
<1>10. ASSUME NEW t \in Thread, ExitRead(t) PROVE TInv'
  <2>1. CoreOf(t) \in Core
    BY <1>10 DEF ExitRead, Enters, Executing, CoreOf
  <2>. QED BY <1>10, <2>1 DEF ExitRead, TypeOK, HasTarget, Goto, PC
<1>11. ASSUME NEW t \in Thread, ExitMark(t) PROVE TInv'
  BY <1>11 DEF ExitMark, TypeOK, HasTarget, Goto, State, PC
<1>12. ASSUME NEW t \in Thread, NEW v \in Thread, KillRead(t, v) PROVE TInv'
  <2>1. CoreOf(t) \in Core
    BY <1>12 DEF KillRead, Enters, Executing, CoreOf
  <2>. QED BY <1>12, <2>1 DEF KillRead, TypeOK, HasTarget, Goto, PC
<1>13. ASSUME NEW t \in Thread, KillMark(t) PROVE TInv'
  <2> DEFINE v == tgt[t]
             here  == v = current_tcb[core[t]]
             there == ~here /\ RunsElsewhere(v, core[t])
             now   == ~here /\ ~there /\ Unlisted(v)
  <2>1. v \in Thread
    BY <1>13 DEF KillMark, At, HasTarget
  <2>2. ready_queues' \in [Prio -> Seq(Thread)]
    BY <1>13, <2>1, QueueType DEF KillMark, TypeOK
  <2>3. /\ tstate' = [tstate EXCEPT ![v] = IF there THEN @ ELSE "zombie"]
        /\ kill_pending' = [kill_pending EXCEPT ![v] = @ \/ there]
        /\ tgt' = [tgt EXCEPT ![t] = IF now THEN v ELSE Null]
        /\ pc' = [pc EXCEPT ![t] = IF now THEN "killfree" ELSE IF v = t THEN "yield" ELSE "run"]
        /\ UNCHANGED <<tcb_used, current_tcb, waiters, spin, core>>
    BY <1>13 DEF KillMark, Goto
  <2> HIDE DEF v, here, there, now
  <2>4. kill_pending' \in [Thread -> BOOLEAN]
    <3>1. (kill_pending[v] \/ there) \in BOOLEAN
      OBVIOUS
    <3>2. kill_pending' = [kill_pending EXCEPT ![v] = kill_pending[v] \/ there]
      BY <2>3
    <3>. QED BY <2>1, <3>1, <3>2, Zenon DEF TypeOK
  <2>5. tstate' \in [Thread -> State]
    BY <2>1, <2>3 DEF TypeOK, State
  <2>6. tgt' \in [Thread -> Thread \union {Null}] /\ pc' \in [Thread -> PC] /\ HasTarget'
    BY <2>1, <2>3 DEF TypeOK, PC, HasTarget
  <2>. QED BY <2>2, <2>3, <2>4, <2>5, <2>6 DEF TypeOK
<1>14. ASSUME NEW t \in Thread, KillFree(t) PROVE TInv'
  <2>1. tgt[t] \in Thread
    BY <1>14 DEF KillFree, At, HasTarget
  <2>. QED BY <1>14, <2>1 DEF KillFree, FreeSlot, TypeOK, HasTarget, State, PC
<1>15. ASSUME NEW t \in Thread, NEW x \in Thread, CreateScan(t, x) PROVE TInv'
  BY <1>15 DEF CreateScan, TypeOK, HasTarget, Goto, PC
<1>16. ASSUME NEW t \in Thread, CreateClaim(t) PROVE TInv'
  <2>1. tgt[t] \in Thread
    BY <1>16 DEF CreateClaim, At, HasTarget
  <2>. QED BY <1>16, <2>1 DEF CreateClaim, TypeOK, HasTarget, State, PC
<1>17. ASSUME NEW t \in Thread, CreatePublish(t) PROVE TInv'
  <2>1. tgt[t] \in Thread
    BY <1>17 DEF CreatePublish, At, HasTarget
  <2>2. ready_queues' \in [Prio -> Seq(Thread)]
    BY <1>17, <2>1, QueueType DEF CreatePublish, TypeOK
  <2>. QED BY <1>17, <2>1, <2>2 DEF CreatePublish, TypeOK, HasTarget, Goto, PC
<1>18. ASSUME NEW t \in Thread, CreateFail(t) PROVE TInv'
  BY <1>18 DEF CreateFail, TypeOK, HasTarget, Goto, PC
<1>19. CASE UNCHANGED vars
  BY <1>19 DEF vars, TypeOK, HasTarget
<1>. QED BY <1>1, <1>2, <1>3, <1>4, <1>5, <1>6, <1>7, <1>8, <1>9, <1>10, <1>11, <1>12,
            <1>13, <1>14, <1>15, <1>16, <1>17, <1>18, <1>19
         DEF Next, Interrupt, Waiting, Lifecycle

\* So the typing invariant holds in every behaviour of the scheduler.
LEMMA SpecTInv == Spec => []TInv
<1>. QED BY InitTInv, NextTInv, PTL DEF Spec

\* The scheduler, the waiter lists and the thread life cycle keep their data
\* typed: no operation is ever applied to a NULL TCB.
THEOREM SchedTypeOK == Spec => []TypeOK
<1>1. TInv => TypeOK
  BY DEF TInv
<1>. QED BY <1>1, SpecTInv, PTL

-----------------------------------------------------------------------------
(* The two cores *)

\* What sched_next_thread() does to the core it runs on: it either leaves its
\* thread or takes one that the other core does not run, now RUNNING.
LEMMA SelectPicks ==
  ASSUME TypeOK, NEW c \in Core, NEW st \in [Thread -> State],
         NEW rq \in [Prio -> Seq(Thread)], Select(c, st, rq)
  PROVE  \/ current_tcb' = current_tcb /\ tstate' = st
         \/ \E n \in Thread : /\ n # current_tcb[Other(c)]
                              /\ current_tcb' = [current_tcb EXCEPT ![c] = n]
                              /\ tstate' = [st EXCEPT ![n] = "running"]
<1> DEFINE R(p) == Rotated(rq[p], current_tcb[c], st)
<1>1. CASE \E p \in Prio : \E k \in 1..Len(rq[p]) :
             /\ Eligible(R(p)[k], c, st)
             /\ tstate' = [st EXCEPT ![R(p)[k]] = "running"]
             /\ current_tcb' = [current_tcb EXCEPT ![c] = R(p)[k]]
  <2>1. PICK p \in Prio : \E k \in 1..Len(rq[p]) :
             /\ Eligible(R(p)[k], c, st)
             /\ tstate' = [st EXCEPT ![R(p)[k]] = "running"]
             /\ current_tcb' = [current_tcb EXCEPT ![c] = R(p)[k]]
    BY <1>1
  <2>2. PICK k \in 1..Len(rq[p]) :
             /\ Eligible(R(p)[k], c, st)
             /\ tstate' = [st EXCEPT ![R(p)[k]] = "running"]
             /\ current_tcb' = [current_tcb EXCEPT ![c] = R(p)[k]]
    BY <2>1
  <2>3. R(p) \in Seq(Thread) /\ Len(R(p)) = Len(rq[p])
    BY RotatedType
  <2> HIDE DEF R
  <2>4. R(p)[k] \in Thread
    BY <2>3
  <2>. QED BY <2>2, <2>4 DEF Eligible
<1>2. CASE tstate' = st /\ UNCHANGED current_tcb
  BY <1>2
<1>. QED BY <1>1, <1>2 DEF Select

\* The context switch, seen from the thread that leaves.
LEMMA SwitchPicks ==
  ASSUME TypeOK, NEW c \in Core, SchedNext(c)
  PROVE  \E st \in [Thread -> State] :
           /\ st[current_tcb[c]] # "running"
           /\ \A t \in Thread \ {current_tcb[c]} : st[t] = tstate[t]
           /\ \/ current_tcb' = current_tcb /\ tstate' = st
              \/ \E n \in Thread : /\ n # current_tcb[Other(c)]
                                   /\ current_tcb' = [current_tcb EXCEPT ![c] = n]
                                   /\ tstate' = [st EXCEPT ![n] = "running"]
<1> DEFINE cur == current_tcb[c]
           st == [tstate EXCEPT ![cur] = IF Reaped(cur) THEN "new" ELSE LeavingState(cur)]
           rq == IF Reaped(cur) THEN RemoveReady(ready_queues, cur) ELSE ready_queues
<1>1. cur \in Thread
  BY DEF TypeOK
<1>2. LeavingState(cur) \in State \ {"running"}
  BY <1>1 DEF LeavingState, TypeOK, State
<1>3. /\ st \in [Thread -> State]
      /\ st[cur] # "running"
      /\ \A t \in Thread \ {cur} : st[t] = tstate[t]
  BY <1>1, <1>2 DEF TypeOK, State
<1>4. rq \in [Prio -> Seq(Thread)]
  BY <1>1, QueueType DEF TypeOK
<1>5. Select(c, st, rq)
  BY DEF SchedNext
<1> HIDE DEF st, rq
<1>. QED BY <1>3, <1>4, <1>5, SelectPicks

CoreInv == OneCore /\ RunningIsCurrent

\* sched_start() and sched_start_core1() claim two different threads.
LEMMA InitCoreInv == Init => CoreInv
<1> SUFFICES ASSUME Init PROVE CoreInv
  OBVIOUS
<1>1. PICK t0 \in Thread, t1 \in Thread :
        /\ BootPick(t1, 1, {t0})
        /\ current_tcb = [c \in Core |-> IF c = 0 THEN t0 ELSE t1]
        /\ tstate = [t \in Thread |-> IF t \in {t0, t1} THEN "running"
                                      ELSE IF t \in Created THEN "ready" ELSE "new"]
  BY DEF Init
<1>2. t1 # t0
  BY <1>1 DEF BootPick
<1>3. current_tcb[0] = t0 /\ current_tcb[1] = t1
  BY <1>1 DEF Core
<1>. QED BY <1>1, <1>2, <1>3 DEF CoreInv, OneCore, RunningIsCurrent, Executing, Core

\* Only a context switch changes current_tcb[], and only a context switch makes
\* a thread RUNNING; no other step can break either part.
LEMMA NextCoreInv == TInv /\ CoreInv /\ [Next]_vars => CoreInv'
<1> SUFFICES ASSUME TInv, CoreInv, [Next]_vars PROVE CoreInv'
  OBVIOUS
<1> USE DEF CoreInv
<1>1. ASSUME NEW c \in Core, Slice(c) \/ Yield(c) PROVE CoreInv'
  <2>1. SchedNext(c)
    BY <1>1 DEF Slice, Yield
  <2>2. PICK st \in [Thread -> State] :
           /\ st[current_tcb[c]] # "running"
           /\ \A t \in Thread \ {current_tcb[c]} : st[t] = tstate[t]
           /\ \/ current_tcb' = current_tcb /\ tstate' = st
              \/ \E n \in Thread : /\ n # current_tcb[Other(c)]
                                   /\ current_tcb' = [current_tcb EXCEPT ![c] = n]
                                   /\ tstate' = [st EXCEPT ![n] = "running"]
    BY <2>1, SwitchPicks DEF TInv
  <2>3. Other(c) \in Core /\ Other(c) # c /\ Core = {c, Other(c)} /\ 0 \in Core /\ 1 \in Core
    BY DEF Other, Core
  <2>4. current_tcb[c] # current_tcb[Other(c)] /\ current_tcb \in [Core -> Thread]
    BY <2>3 DEF OneCore, TInv, TypeOK, Core, Other
  \* No thread is RUNNING in st but the one of the other core.
  <2>5. \A t \in Thread : st[t] = "running" => t = current_tcb[Other(c)]
    BY <2>2, <2>3, <2>4 DEF RunningIsCurrent, Executing
  <2>6. CASE current_tcb' = current_tcb /\ tstate' = st
    BY <2>3, <2>5, <2>6 DEF OneCore, RunningIsCurrent, Executing
  <2>7. ASSUME NEW n \in Thread, n # current_tcb[Other(c)],
               current_tcb' = [current_tcb EXCEPT ![c] = n],
               tstate' = [st EXCEPT ![n] = "running"]
        PROVE  CoreInv'
    <3>1. current_tcb'[c] = n /\ current_tcb'[Other(c)] = current_tcb[Other(c)]
      BY <2>3, <2>4, <2>7
    <3>2. OneCore'
      BY <2>3, <2>7, <3>1 DEF OneCore, Core, Other
    <3>3. RunningIsCurrent'
      BY <2>3, <2>5, <2>7, <3>1 DEF RunningIsCurrent, Executing
    <3>. QED BY <3>2, <3>3
  <2>. QED BY <2>2, <2>6, <2>7
\* Every other step leaves both cores alone and makes no thread RUNNING.
<1>2. ASSUME UNCHANGED current_tcb,
             \A t \in Thread : tstate'[t] = "running" => tstate[t] = "running"
      PROVE  CoreInv'
  BY <1>2 DEF OneCore, RunningIsCurrent, Executing
<1> USE DEF TInv, TypeOK
<1>3. ASSUME NEW t \in Thread, Waiting(t) PROVE CoreInv'
  <2>1. UNCHANGED current_tcb
    BY <1>3 DEF Waiting, WaitEnqueue, WaitBlock, WakeBegin, WakeUnblock, WakeZombie, WakeFree
  <2>2. \A x \in Thread : tstate'[x] = "running" => tstate[x] = "running"
    BY <1>3 DEF Waiting, WaitEnqueue, WaitBlock, WakeBegin, WakeUnblock, WakeZombie,
                WakeFree, FreeSlot
  <2>. QED BY <1>2, <2>1, <2>2
<1>4. ASSUME NEW t \in Thread, Lifecycle(t) PROVE CoreInv'
  <2>1. UNCHANGED current_tcb
    BY <1>4 DEF Lifecycle, Sleep, ExitRead, ExitMark, KillRead, KillMark, KillFree,
                CreateScan, CreateClaim, CreateFail, CreatePublish
  <2>2. CASE Sleep(t) \/ ExitMark(t)
    BY <1>2, <2>1, <2>2 DEF Sleep, ExitMark
  <2>3. CASE KillMark(t)
    BY <1>2, <2>1, <2>3 DEF KillMark
  <2>4. CASE KillFree(t) \/ CreateClaim(t)
    BY <1>2, <2>1, <2>4 DEF KillFree, FreeSlot, CreateClaim
  <2>5. CASE UNCHANGED tstate
    BY <1>2, <2>1, <2>5
  <2>. QED BY <1>4, <2>2, <2>3, <2>4, <2>5
           DEF Lifecycle, ExitRead, KillRead, CreateScan, CreateFail, CreatePublish
<1>5. ASSUME NEW t \in Thread, TickWake(t) PROVE CoreInv'
  BY <1>2, <1>5 DEF TickWake
<1>6. CASE UNCHANGED vars
  BY <1>2, <1>6 DEF vars
<1>. QED BY <1>1, <1>3, <1>4, <1>5, <1>6 DEF Next, Interrupt

\* So both parts hold in every behaviour of the scheduler.
LEMMA SpecCoreInv == Spec => []CoreInv
<1>1. Init => TInv /\ CoreInv
  BY InitTInv, InitCoreInv
<1>2. (TInv /\ CoreInv) /\ [Next]_vars => (TInv /\ CoreInv)'
  BY NextTInv, NextCoreInv
<1>. QED BY <1>1, <1>2, PTL DEF Spec

\* sched_next_thread() never runs one thread on both cores, whatever a wake-up,
\* a kill or an exit does between two switches.
THEOREM SchedOneCore == Spec => []OneCore
<1>1. CoreInv => OneCore
  BY DEF CoreInv
<1>. QED BY <1>1, SpecCoreInv, PTL

\* No core leaves a thread behind in state RUNNING, where no queue and no
\* waiter list would ever find it again.
THEOREM SchedRunningIsCurrent == Spec => []RunningIsCurrent
<1>1. CoreInv => RunningIsCurrent
  BY DEF CoreInv
<1>. QED BY <1>1, SpecCoreInv, PTL

-----------------------------------------------------------------------------
(* What the queue operations do to the set of queued threads *)

\* A queue without duplicates: membership by index.
LEMMA LinkedIndex ==
  ASSUME NEW q \in Seq(Thread)
  PROVE  /\ Linked(q) \subseteq Thread
         /\ \A x : x \in Linked(q) <=> \E i \in 1..Len(q) : q[i] = x
         /\ IsInjective(q) <=> \A i, j \in 1..Len(q) : q[i] = q[j] => i = j
BY DEF Linked, ToSet, IsInjective

\* RemoveFirst takes out the one occurrence and nothing else.
LEMMA RemoveFirstLinks ==
  ASSUME NEW q \in Seq(Thread), IsInjective(q), NEW t \in Thread
  PROVE  /\ RemoveFirst(q, t) \in Seq(Thread)
         /\ IsInjective(RemoveFirst(q, t))
         /\ Linked(RemoveFirst(q, t)) = Linked(q) \ {t}
<1> DEFINE I == {i \in 1..Len(q) : q[i] = t}
<1>0. RemoveFirst(q, t) \in Seq(Thread)
  BY RemoveFirstType
<1>1. CASE I = {}
  <2>1. RemoveFirst(q, t) = q
    BY <1>1 DEF RemoveFirst, SelectInSeq
  <2>2. t \notin Linked(q)
    BY <1>1, LinkedIndex
  <2>. QED BY <2>1, <2>2
<1>2. CASE I # {}
  <2> DEFINE m == Min(I)
             r == RemoveFirst(q, t)
  <2>1. m \in 1..Len(q) /\ q[m] = t
    <3>1. I \in SUBSET Nat
      OBVIOUS
    <3>. QED BY <1>2, <3>1, MinNat
  <2>2. r = SubSeq(q, 1, m-1) \o SubSeq(q, m+1, Len(q))
    BY <1>2, <2>1 DEF RemoveFirst, RemoveAt, SelectInSeq
  <2> HIDE DEF m
  <2>3. /\ r \in Seq(Thread)
        /\ Len(r) = Len(q) - 1
        /\ \A i \in 1..Len(r) : r[i] = q[IF i < m THEN i ELSE i + 1]
    <3> DEFINE u == SubSeq(q, 1, m-1)
               v == SubSeq(q, m+1, Len(q))
    <3>1. u \in Seq(Thread) /\ Len(u) = m - 1 /\ \A i \in 1..m-1 : u[i] = q[i]
      BY <2>1
    <3>2. /\ v \in Seq(Thread) /\ Len(v) = Len(q) - m
          /\ \A i \in 1..Len(q)-m : v[i] = q[m + i]
      BY <2>1
    <3> HIDE DEF u, v
    <3>3. r = u \o v
      BY <2>2 DEF u, v
    <3> HIDE DEF r
    <3>4. Len(r) = Len(q) - 1 /\ \A i \in 1..Len(r) : r[i] = IF i < m THEN u[i] ELSE v[i - m + 1]
      <4>1. Len(u) \in Nat /\ Len(v) \in Nat /\ Len(q) \in Nat /\ m \in Nat
        BY <2>1, <3>1, <3>2
      <4>2. Len(u \o v) = Len(u) + Len(v)
        BY <3>1, <3>2, ConcatProperties
      <4>3. \A i \in 1..Len(u) + Len(v) : (u \o v)[i] = IF i <= Len(u) THEN u[i] ELSE v[i - Len(u)]
        BY <3>1, <3>2, ConcatProperties
      <4>4. Len(u) + Len(v) = Len(q) - 1
        BY <3>1, <3>2, <4>1
      <4>5. \A i \in 1..Len(q) - 1 : (u \o v)[i] = IF i < m THEN u[i] ELSE v[i - m + 1]
        <5>1. Len(u) = m - 1
          BY <3>1
        <5>2. \A i \in 1..Len(q) - 1 : (i <= m - 1 <=> i < m) /\ i - (m - 1) = i - m + 1
          BY <4>1
        <5>. QED BY <4>3, <4>4, <5>1, <5>2
      <4>. QED BY <3>3, <4>2, <4>4, <4>5
    <3>. QED BY <1>0, <2>1, <3>1, <3>2, <3>4 DEF r
  <2> HIDE DEF r
  <2>4. IsInjective(r)
    <3>1. \A i, j \in 1..Len(q) : q[i] = q[j] => i = j
      BY LinkedIndex
    <3>2. \A i, j \in 1..Len(r) : r[i] = r[j] => i = j
      <4> SUFFICES ASSUME NEW i \in 1..Len(r), NEW j \in 1..Len(r), r[i] = r[j]
                   PROVE  i = j
        OBVIOUS
      <4> DEFINE at(k) == IF k < m THEN k ELSE k + 1
      <4>1. at(i) \in 1..Len(q) /\ at(j) \in 1..Len(q)
        BY <2>1, <2>3
      <4>2. q[at(i)] = q[at(j)]
        BY <2>3
      <4>3. at(i) = at(j)
        <5> HIDE DEF at
        <5>. QED BY <3>1, <4>1, <4>2
      <4>. QED BY <2>1, <4>3
    <3>. QED BY <2>3, <3>2, LinkedIndex
  <2>5. \A x : x \in Linked(r) <=> x \in Linked(q) /\ x # t
    <3>1. ASSUME NEW x, x \in Linked(r) PROVE x \in Linked(q) /\ x # t
      <4>1. PICK i \in 1..Len(r) : r[i] = x
        BY <2>3, <3>1, LinkedIndex
      <4>2. PICK j \in 1..Len(q) : q[j] = x /\ j # m
        BY <2>1, <2>3, <4>1
      <4>. QED BY <2>1, <4>2, LinkedIndex
    <3>2. ASSUME NEW x, x \in Linked(q), x # t PROVE x \in Linked(r)
      <4>1. PICK j \in 1..Len(q) : q[j] = x
        BY <3>2, LinkedIndex
      <4>2. CASE j < m
        <5>1. j \in 1..Len(r) /\ r[j] = x
          BY <2>1, <2>3, <4>1, <4>2
        <5>. QED BY <2>3, <5>1, LinkedIndex
      <4>3. CASE ~(j < m)
        <5>1. j # m
          BY <2>1, <3>2, <4>1
        <5>2. j - 1 \in 1..Len(r) /\ ~(j - 1 < m) /\ (j - 1) + 1 = j
          BY <2>1, <2>3, <4>3, <5>1
        <5>3. r[j - 1] = x
          BY <2>3, <4>1, <5>2
        <5>. QED BY <2>3, <5>2, <5>3, LinkedIndex
      <4>. QED BY <4>2, <4>3
    <3>. QED BY <3>1, <3>2
  <2>. QED BY <1>0, <2>4, <2>5 DEF r
<1>. QED BY <1>1, <1>2

\* waiter_enqueue() drops what is queued behind the thread and keeps the thread.
LEMMA CutBehindLinks ==
  ASSUME NEW q \in Seq(Thread), IsInjective(q), NEW t \in Thread
  PROVE  /\ CutBehind(q, t) \in Seq(Thread)
         /\ IsInjective(CutBehind(q, t))
         /\ Linked(CutBehind(q, t)) \subseteq Linked(q)
         /\ t \in Linked(q) => t \in Linked(CutBehind(q, t))
<1> DEFINE I == {i \in 1..Len(q) : q[i] = t}
<1>0. CutBehind(q, t) \in Seq(Thread)
  BY CutBehindType
<1>1. CASE t \notin Linked(q)
  BY <1>0, <1>1 DEF CutBehind
<1>2. CASE t \in Linked(q)
  <2> DEFINE m == Min(I)
  <2>1. m \in 1..Len(q) /\ q[m] = t
    <3>1. I \in SUBSET Nat /\ I # {}
      BY <1>2, LinkedIndex
    <3>. QED BY <3>1, MinNat
  <2>2. CutBehind(q, t) = SubSeq(q, 1, m)
    BY <1>2, <2>1 DEF CutBehind, SelectInSeq
  <2> HIDE DEF m
  <2> DEFINE r == CutBehind(q, t)
  <2>3. r \in Seq(Thread) /\ Len(r) = m /\ \A i \in 1..Len(r) : r[i] = q[i]
    BY <2>1, <2>2, <1>0
  <2> HIDE DEF r
  <2>4. IsInjective(r)
    BY <2>1, <2>3, LinkedIndex
  <2>5. \A x \in Linked(r) : x \in Linked(q)
    BY <2>1, <2>3, LinkedIndex
  <2>6. t \in Linked(r)
    BY <2>1, <2>3, LinkedIndex
  <2>. QED BY <1>0, <2>4, <2>5, <2>6 DEF r
<1>. QED BY <1>1, <1>2

\* A thread joins a list that it is not in.
LEMMA AppendLinks ==
  ASSUME NEW q \in Seq(Thread), IsInjective(q), NEW t \in Thread, t \notin Linked(q)
  PROVE  /\ Append(q, t) \in Seq(Thread)
         /\ IsInjective(Append(q, t))
         /\ Linked(Append(q, t)) = Linked(q) \union {t}
<1> DEFINE r == Append(q, t)
<1>1. /\ r \in Seq(Thread) /\ Len(r) = Len(q) + 1
      /\ \A i \in 1..Len(r) : r[i] = IF i = Len(q) + 1 THEN t ELSE q[i]
  OBVIOUS
<1> HIDE DEF r
<1>2. \A i \in 1..Len(q) : q[i] # t
  BY LinkedIndex
<1>3. IsInjective(r)
  BY <1>1, <1>2, LinkedIndex
<1>4. \A x \in Linked(r) : x \in Linked(q) \union {t}
  BY <1>1, LinkedIndex
<1>5. \A x \in Linked(q) \union {t} : x \in Linked(r)
  <2>1. ASSUME NEW x \in Linked(q) PROVE x \in Linked(r)
    <3>1. PICK i \in 1..Len(q) : q[i] = x
      BY LinkedIndex
    <3>2. i \in 1..Len(r) /\ r[i] = x
      BY <1>1, <3>1
    <3>. QED BY <1>1, <3>2, LinkedIndex
  <2>2. t \in Linked(r)
    <3>1. Len(r) \in 1..Len(r) /\ r[Len(r)] = t
      BY <1>1
    <3>. QED BY <1>1, <3>1, LinkedIndex
  <2>. QED BY <2>1, <2>2
<1>. QED BY <1>1, <1>3, <1>4, <1>5 DEF r

\* The head leaves the list.
LEMMA TailLinks ==
  ASSUME NEW q \in Seq(Thread), IsInjective(q), q # <<>>
  PROVE  /\ Head(q) \in Linked(q)
         /\ Tail(q) \in Seq(Thread)
         /\ IsInjective(Tail(q))
         /\ Linked(Tail(q)) = Linked(q) \ {Head(q)}
<1> DEFINE r == Tail(q)
<1>1. /\ r \in Seq(Thread) /\ Len(q) >= 1 /\ Len(r) = Len(q) - 1
      /\ \A i \in 1..Len(r) : r[i] = q[i+1]
      /\ Head(q) = q[1]
  OBVIOUS
<1> HIDE DEF r
<1>2. Head(q) \in Linked(q)
  BY <1>1, LinkedIndex
<1>3. IsInjective(r)
  <2>1. \A i, j \in 1..Len(q) : q[i] = q[j] => i = j
    BY LinkedIndex
  <2>2. \A i, j \in 1..Len(r) : r[i] = r[j] => i = j
    <3> SUFFICES ASSUME NEW i \in 1..Len(r), NEW j \in 1..Len(r), r[i] = r[j]
                 PROVE  i = j
      OBVIOUS
    <3>1. q[i+1] = q[j+1] /\ i + 1 \in 1..Len(q) /\ j + 1 \in 1..Len(q)
      BY <1>1
    <3>2. i + 1 = j + 1
      BY <2>1, <3>1
    <3>. QED BY <3>2
  <2>. QED BY <1>1, <2>2, LinkedIndex
<1>4. ASSUME NEW x, x \in Linked(r) PROVE x \in Linked(q) /\ x # Head(q)
  <2>1. PICK i \in 1..Len(r) : r[i] = x
    BY <1>1, <1>4, LinkedIndex
  <2>2. i + 1 \in 1..Len(q) /\ q[i+1] = x /\ 1 \in 1..Len(q) /\ i + 1 # 1
    BY <1>1, <2>1
  <2>. QED BY <1>1, <2>2, LinkedIndex
<1>5. ASSUME NEW x, x \in Linked(q), x # Head(q) PROVE x \in Linked(r)
  <2>1. PICK i \in 1..Len(q) : q[i] = x
    BY <1>5, LinkedIndex
  <2>2. i - 1 \in 1..Len(r) /\ r[i-1] = x
    BY <1>1, <1>5, <2>1
  <2>. QED BY <1>1, <2>2, LinkedIndex
<1>6. Linked(r) = Linked(q) \ {Head(q)}
  BY <1>4, <1>5
<1>. QED BY <1>1, <1>2, <1>3, <1>6 DEF r

\* Rotation keeps the members.
LEMMA RotatedLinks ==
  ASSUME NEW q \in Seq(Thread), IsInjective(q), NEW cur, NEW st
  PROVE  /\ Rotated(q, cur, st) \in Seq(Thread)
         /\ Len(Rotated(q, cur, st)) = Len(q)
         /\ IsInjective(Rotated(q, cur, st))
         /\ Linked(Rotated(q, cur, st)) = Linked(q)
<1>1. CASE q # <<>> /\ Head(q) = cur /\ st[cur] = "ready"
  <2>1. /\ cur \in Linked(q) /\ cur \in Thread
        /\ Tail(q) \in Seq(Thread) /\ IsInjective(Tail(q))
        /\ Linked(Tail(q)) = Linked(q) \ {cur}
    BY <1>1, TailLinks, LinkedIndex
  <2>2. Rotated(q, cur, st) = Append(Tail(q), cur)
    BY <1>1 DEF Rotated
  <2>3. /\ IsInjective(Append(Tail(q), cur))
        /\ Linked(Append(Tail(q), cur)) = Linked(Tail(q)) \union {cur}
    BY <2>1, AppendLinks
  <2>. QED BY <2>1, <2>2, <2>3, RotatedType
<1>2. CASE ~(q # <<>> /\ Head(q) = cur /\ st[cur] = "ready")
  BY <1>2 DEF Rotated
<1>. QED BY <1>1, <1>2

-----------------------------------------------------------------------------
(* ... and to the array of the ready queues *)

\* x is in one of the queues.
InQueue(rq, x) == \E p \in Prio : x \in Linked(rq[p])

\* A thread is queued at most once, at its priority.
QueueOK(rq) == \A p \in Prio : /\ IsInjective(rq[p])
                               /\ \A x \in Linked(rq[p]) : Priority[x] = p

\* One queue is replaced by another of threads of the same priority.
LEMMA ReplaceQueue ==
  ASSUME NEW rq \in [Prio -> Seq(Thread)], QueueOK(rq), NEW p \in Prio,
         NEW q \in Seq(Thread), IsInjective(q), \A x \in Linked(q) : Priority[x] = p
  PROVE  /\ [rq EXCEPT ![p] = q] \in [Prio -> Seq(Thread)]
         /\ QueueOK([rq EXCEPT ![p] = q])
         /\ \A x : InQueue([rq EXCEPT ![p] = q], x) <=>
                     x \in Linked(q) \/ (InQueue(rq, x) /\ x \notin Linked(rq[p]))
<1> DEFINE rr == [rq EXCEPT ![p] = q]
<1>1. rr \in [Prio -> Seq(Thread)] /\ rr[p] = q /\ \A o \in Prio \ {p} : rr[o] = rq[o]
  OBVIOUS
<1> HIDE DEF rr
<1>2. QueueOK(rr)
  BY <1>1 DEF QueueOK
<1>3. \A x : InQueue(rr, x) <=> x \in Linked(q) \/ (InQueue(rq, x) /\ x \notin Linked(rq[p]))
  BY <1>1 DEF InQueue, QueueOK
<1>. QED BY <1>1, <1>2, <1>3 DEF rr

\* A queued thread is found in the queue of its priority.
LEMMA QueuedAtPrio ==
  ASSUME NEW rq \in [Prio -> Seq(Thread)], QueueOK(rq), NEW x, InQueue(rq, x)
  PROVE  Priority[x] \in Prio /\ x \in Linked(rq[Priority[x]]) /\ x \in Thread
BY LinkedIndex DEF InQueue, QueueOK

\* sched_add_thread() of a thread that is not queued.
LEMMA AddReadyLinks ==
  ASSUME NEW rq \in [Prio -> Seq(Thread)], QueueOK(rq), NEW t \in Thread, ~InQueue(rq, t)
  PROVE  /\ QueueOK(AddReady(rq, t))
         /\ \A x : InQueue(AddReady(rq, t), x) <=> InQueue(rq, x) \/ x = t
<1> DEFINE p == Priority[t]
           q == Append(rq[p], t)
<1>1. p \in Prio /\ rq[p] \in Seq(Thread) /\ IsInjective(rq[p]) /\ t \notin Linked(rq[p])
  <2>1. p \in Prio
    BY SchedAssumption
  <2>. QED BY <2>1 DEF QueueOK, InQueue
<1>2. q \in Seq(Thread) /\ IsInjective(q) /\ Linked(q) = Linked(rq[p]) \union {t}
  BY <1>1, AppendLinks
<1>3. \A x \in Linked(q) : Priority[x] = p
  BY <1>1, <1>2 DEF QueueOK
<1>4. AddReady(rq, t) = [rq EXCEPT ![p] = q]
  BY DEF AddReady
<1>6. \A x \in Linked(rq[p]) : InQueue(rq, x)
  BY <1>1 DEF InQueue
<1> HIDE DEF q, p
<1>7. /\ QueueOK([rq EXCEPT ![p] = q])
      /\ \A x : InQueue([rq EXCEPT ![p] = q], x) <=>
                  x \in Linked(q) \/ (InQueue(rq, x) /\ x \notin Linked(rq[p]))
  BY <1>1, <1>2, <1>3, ReplaceQueue
<1>. QED BY <1>2, <1>4, <1>6, <1>7

\* sched_remove_thread_raw().
LEMMA RemoveReadyLinks ==
  ASSUME NEW rq \in [Prio -> Seq(Thread)], QueueOK(rq), NEW t \in Thread
  PROVE  /\ QueueOK(RemoveReady(rq, t))
         /\ \A x : InQueue(RemoveReady(rq, t), x) <=> InQueue(rq, x) /\ x # t
<1> DEFINE p == Priority[t]
           q == RemoveFirst(rq[p], t)
<1>1. p \in Prio /\ rq[p] \in Seq(Thread) /\ IsInjective(rq[p])
  <2>1. p \in Prio
    BY SchedAssumption
  <2>. QED BY <2>1 DEF QueueOK
<1>2. q \in Seq(Thread) /\ IsInjective(q) /\ Linked(q) = Linked(rq[p]) \ {t}
  BY <1>1, RemoveFirstLinks
<1>3. \A x \in Linked(q) : Priority[x] = p
  BY <1>1, <1>2 DEF QueueOK
<1>4. RemoveReady(rq, t) = [rq EXCEPT ![p] = q]
  BY DEF RemoveReady
<1>5. InQueue(rq, t) => t \in Linked(rq[p])
  BY QueuedAtPrio
<1>6. \A x \in Linked(rq[p]) : InQueue(rq, x)
  BY <1>1 DEF InQueue
<1> HIDE DEF q, p
<1>7. /\ QueueOK([rq EXCEPT ![p] = q])
      /\ \A x : InQueue([rq EXCEPT ![p] = q], x) <=>
                  x \in Linked(q) \/ (InQueue(rq, x) /\ x \notin Linked(rq[p]))
  BY <1>1, <1>2, <1>3, ReplaceQueue
<1>. QED BY <1>2, <1>4, <1>5, <1>6, <1>7

\* The cut takes threads of one priority out of their queue, and never t.
LEMMA CutReadyLinks ==
  ASSUME NEW rq \in [Prio -> Seq(Thread)], QueueOK(rq), NEW t \in Thread
  PROVE  LET rr == [rq EXCEPT ![Priority[t]] = CutBehind(@, t)] IN
         /\ QueueOK(rr)
         /\ \A x : InQueue(rr, x) => InQueue(rq, x)
         /\ \A x : InQueue(rq, x) /\ (x = t \/ Priority[x] # Priority[t]) => InQueue(rr, x)
<1> DEFINE p == Priority[t]
           q == CutBehind(rq[p], t)
           rr == [rq EXCEPT ![p] = q]
<1>1. p \in Prio /\ rq[p] \in Seq(Thread) /\ IsInjective(rq[p])
  <2>1. p \in Prio
    BY SchedAssumption
  <2>. QED BY <2>1 DEF QueueOK
<1>2. /\ q \in Seq(Thread) /\ IsInjective(q) /\ Linked(q) \subseteq Linked(rq[p])
      /\ t \in Linked(rq[p]) => t \in Linked(q)
  BY <1>1, CutBehindLinks
<1>3. \A x \in Linked(q) : Priority[x] = p
  BY <1>1, <1>2 DEF QueueOK
<1>4. InQueue(rq, t) => t \in Linked(rq[p])
  BY QueuedAtPrio
<1>5. \A x \in Linked(rq[p]) : Priority[x] = p
  BY <1>1 DEF QueueOK
<1> HIDE DEF q
<1>6. /\ QueueOK(rr)
      /\ \A x : InQueue(rr, x) <=> x \in Linked(q) \/ (InQueue(rq, x) /\ x \notin Linked(rq[p]))
  BY <1>1, <1>2, <1>3, ReplaceQueue
<1>7. \A x \in Linked(q) : InQueue(rq, x)
  BY <1>1, <1>2 DEF InQueue
<1> HIDE DEF p, rr
<1>8. /\ QueueOK(rr)
      /\ \A x : InQueue(rr, x) => InQueue(rq, x)
      /\ \A x : InQueue(rq, x) /\ (x = t \/ Priority[x] # p) => InQueue(rr, x)
  BY <1>2, <1>4, <1>5, <1>6, <1>7
<1>. QED BY <1>8 DEF p, q, rr

\* The rotation keeps every thread where it is queued.
LEMMA RotateReadyLinks ==
  ASSUME NEW rq \in [Prio -> Seq(Thread)], QueueOK(rq), NEW p \in Prio, NEW cur, NEW st
  PROVE  LET rr == [rq EXCEPT ![p] = Rotated(rq[p], cur, st)] IN
         /\ QueueOK(rr)
         /\ \A x : InQueue(rr, x) <=> InQueue(rq, x)
<1> DEFINE q == Rotated(rq[p], cur, st)
           rr == [rq EXCEPT ![p] = q]
<1>1. rq[p] \in Seq(Thread) /\ IsInjective(rq[p])
  BY DEF QueueOK
<1>2. q \in Seq(Thread) /\ IsInjective(q) /\ Linked(q) = Linked(rq[p])
  BY <1>1, RotatedLinks
<1>3. \A x \in Linked(q) : Priority[x] = p
  BY <1>1, <1>2 DEF QueueOK
<1> HIDE DEF q
<1>6. /\ QueueOK(rr)
      /\ \A x : InQueue(rr, x) <=> x \in Linked(q) \/ (InQueue(rq, x) /\ x \notin Linked(rq[p]))
  BY <1>1, <1>2, <1>3, ReplaceQueue
<1>7. \A x \in Linked(q) : InQueue(rq, x)
  BY <1>1, <1>2 DEF InQueue
<1> HIDE DEF rr
<1>8. QueueOK(rr) /\ \A x : InQueue(rr, x) <=> InQueue(rq, x)
  BY <1>2, <1>6, <1>7
<1>. QED BY <1>8 DEF q, rr

-----------------------------------------------------------------------------
(* The waiter lists *)

\* No waiter list holds a thread twice, and no thread is in two of them.
WaitersOK(ws) ==
  /\ \A w \in WaitList : IsInjective(ws[w])
  /\ \A w, v \in WaitList : w # v => Linked(ws[w]) \intersect Linked(ws[v]) = {}

\* waiter_enqueue() of a thread that waits nowhere.
LEMMA EnqueueLinks ==
  ASSUME NEW ws \in [WaitList -> Seq(Thread)], WaitersOK(ws), NEW w \in WaitList,
         NEW t \in Thread, \A v \in WaitList : t \notin Linked(ws[v])
  PROVE  LET wt == [ws EXCEPT ![w] = Append(@, t)] IN
         /\ WaitersOK(wt)
         /\ \A v \in WaitList : \A x :
              x \in Linked(wt[v]) <=> x \in Linked(ws[v]) \/ (v = w /\ x = t)
<1> DEFINE q == Append(ws[w], t)
           wt == [ws EXCEPT ![w] = q]
<1>1. ws[w] \in Seq(Thread) /\ IsInjective(ws[w]) /\ t \notin Linked(ws[w])
  BY DEF WaitersOK
<1>2. IsInjective(q) /\ Linked(q) = Linked(ws[w]) \union {t}
  BY <1>1, AppendLinks
<1>3. wt[w] = q /\ \A v \in WaitList \ {w} : wt[v] = ws[v]
  OBVIOUS
<1> HIDE DEF q, wt
<1>4. \A v \in WaitList : \A x :
        x \in Linked(wt[v]) <=> x \in Linked(ws[v]) \/ (v = w /\ x = t)
  BY <1>2, <1>3
<1>5. \A v \in WaitList : IsInjective(wt[v])
  BY <1>2, <1>3 DEF WaitersOK
<1>6. \A u, v \in WaitList : u # v => Linked(wt[u]) \intersect Linked(wt[v]) = {}
  <2> SUFFICES ASSUME NEW u \in WaitList, NEW v \in WaitList, u # v,
                      NEW x, x \in Linked(wt[u]), x \in Linked(wt[v])
               PROVE  FALSE
    OBVIOUS
  <2>1. x \in Linked(ws[u]) \/ (u = w /\ x = t)
    BY <1>4
  <2>2. x \in Linked(ws[v]) \/ (v = w /\ x = t)
    BY <1>4
  <2>3. ~(x \in Linked(ws[u]) /\ x \in Linked(ws[v]))
    BY DEF WaitersOK
  <2>. QED BY <2>1, <2>2, <2>3
<1>7. WaitersOK(wt)
  BY <1>5, <1>6 DEF WaitersOK
<1>. QED BY <1>4, <1>7 DEF q, wt

\* waiter_dequeue() of the first waiter.
LEMMA DequeueLinks ==
  ASSUME NEW ws \in [WaitList -> Seq(Thread)], WaitersOK(ws), NEW w \in WaitList,
         ws[w] # <<>>
  PROVE  LET wt == [ws EXCEPT ![w] = Tail(@)]
             h  == Head(ws[w])
         IN /\ WaitersOK(wt)
            /\ h \in Linked(ws[w]) /\ h \in Thread
            /\ \A v \in WaitList : \A x : x \in Linked(wt[v]) <=> x \in Linked(ws[v]) /\ x # h
<1> DEFINE q == Tail(ws[w])
           h == Head(ws[w])
           wt == [ws EXCEPT ![w] = q]
<1>1. ws[w] \in Seq(Thread) /\ IsInjective(ws[w])
  BY DEF WaitersOK
<1>2. /\ h \in Linked(ws[w]) /\ IsInjective(q) /\ Linked(q) = Linked(ws[w]) \ {h}
      /\ h \in Thread
  <2>1. /\ h \in Linked(ws[w]) /\ IsInjective(q) /\ Linked(q) = Linked(ws[w]) \ {h}
    BY <1>1, TailLinks
  <2>2. Linked(ws[w]) \subseteq Thread
    BY <1>1, LinkedIndex
  <2>. QED BY <2>1, <2>2
<1>3. wt[w] = q /\ \A v \in WaitList \ {w} : wt[v] = ws[v]
  OBVIOUS
<1> HIDE DEF q, h, wt
<1>4. \A v \in WaitList \ {w} : h \notin Linked(ws[v])
  BY <1>2 DEF WaitersOK
<1>5. \A v \in WaitList : \A x : x \in Linked(wt[v]) <=> x \in Linked(ws[v]) /\ x # h
  BY <1>2, <1>3, <1>4
<1>6. \A v \in WaitList : IsInjective(wt[v])
  BY <1>2, <1>3 DEF WaitersOK
<1>7. \A u, v \in WaitList : u # v => Linked(wt[u]) \intersect Linked(wt[v]) = {}
  BY <1>5 DEF WaitersOK
<1>8. WaitersOK(wt)
  BY <1>6, <1>7 DEF WaitersOK
<1>. QED BY <1>2, <1>5, <1>8 DEF q, h, wt

-----------------------------------------------------------------------------
(* The inductive invariant *)

\* Every thread is in at most one waiter list and one ready queue, once.
Lists == QueueOK(ready_queues) /\ WaitersOK(waiters)

\* k has taken a waiter off its list; k is to free the thread in its hand.
Waker(k)  == pc[k] \in {"wake", "wakefree"}
Freer(k)  == pc[k] \in {"wake", "wakefree", "killfree"}

\* Where a thread may be in the kernel.
Places == \A t \in Thread :
  /\ pc[t] \in IrqOff => Executing(t)
  /\ pc[t] = "enqueued" => Waits(t) /\ "wait" \in Calls[t]
  /\ pc[t] = "exit" => "exit" \in Calls[t]
  /\ pc[t] \in {"kill", "killfree"} => tgt[t] \in Target

\* A thread in the hands of a waker or killer: asleep or dead, in no list and,
\* if dead, on no core; and in one pair of hands.
Hands == \A k \in Thread :
  /\ Waker(k) => tcb_used[tgt[k]] /\ tstate[tgt[k]] \in {"blocked", "zombie"}
  /\ pc[k] \in {"wakefree", "killfree"} => tstate[tgt[k]] = "zombie"
  /\ Freer(k) => ~Waits(tgt[k]) /\ (tstate[tgt[k]] = "zombie" => ~Executing(tgt[k]))
  /\ \A l \in Thread : Freer(k) /\ Freer(l) /\ tgt[k] = tgt[l] => k = l

\* A slot that a creator has found is free; the one it fills is unknown to all.
Births == \A k \in Thread :
  /\ pc[k] = "scanned" => ~tcb_used[tgt[k]]
  /\ pc[k] = "claimed" => /\ tcb_used[tgt[k]] /\ tstate[tgt[k]] = "ready"
                          /\ ~Queued(tgt[k]) /\ ~Executing(tgt[k])

\* A killer has been told to free x.
Doomed(x) == \E k \in Thread : pc[k] = "killfree" /\ tgt[k] = x

\* What x's place says of its state.
Life(x) ==
  /\ tstate[x] \notin {"new", "zombie"} => tcb_used[x]
  /\ Executing(x) => tcb_used[x] /\ (pc[x] \notin {"yield", "dead"} => tstate[x] = "running")
  /\ kill_pending[x] => Executing(x) /\ x \in Target
  /\ Queued(x) => tstate[x] \in {"ready", "running"} \/ (tstate[x] = "zombie" /\ Executing(x))
  /\ Waits(x) => /\ tcb_used[x]
                 /\ tstate[x] \in {"blocked", "zombie"} \/ pc[x] = "enqueued"
                 /\ tstate[x] = "zombie" => ~Executing(x)

\* What x's state says of its place.
Found(x) ==
  /\ tstate[x] = "blocked" => Waits(x) \/ InHand(x)
  /\ tstate[x] = "zombie" => Executing(x) \/ Waits(x) \/ InHand(x) \/ Doomed(x)
  /\ tstate[x] = "zombie" => tcb_used[x] \/ Doomed(x)

\* Both, of every thread.
Lives == \A x \in Thread : Life(x) /\ Found(x)

\* Each core runs a thread that fits it and has an idle thread to turn to.
Cores == \A c \in Core :
  /\ Fits(current_tcb[c], c)
  /\ Queued(IdleOf[c])
  /\ tstate[IdleOf[c]] \in {"ready", "running"}

\* A listed thread that is not BLOCKED yet still has its list's stripe.
Locked == \A w \in WaitList : \A x \in Linked(waiters[w]) : pc[x] = "enqueued" => Holds(x, w)

LifeInv == Lists /\ Places /\ Hands /\ Births /\ Lives /\ Cores /\ Locked

-----------------------------------------------------------------------------
(* The operations on ready_queues and waiters, as steps *)

\* sched_add_thread_raw() of a thread that is in no ready queue.
LEMMA AddQueued ==
  ASSUME TInv, Lists, NEW t \in Thread, ~Queued(t), ready_queues' = AddReady(ready_queues, t)
  PROVE  QueueOK(ready_queues') /\ \A x : Queued(x)' <=> Queued(x) \/ x = t
<1>1. /\ ready_queues \in [Prio -> Seq(Thread)] /\ QueueOK(ready_queues)
      /\ ~InQueue(ready_queues, t)
  BY DEF TInv, TypeOK, Lists, Queued, InQueue
<1>2. /\ QueueOK(ready_queues')
      /\ \A x : InQueue(ready_queues', x) <=> InQueue(ready_queues, x) \/ x = t
  BY <1>1, AddReadyLinks
<1>. QED BY <1>2 DEF Queued, InQueue

\* sched_remove_thread_raw()
LEMMA RemoveQueued ==
  ASSUME TInv, Lists, NEW t \in Thread, ready_queues' = RemoveReady(ready_queues, t)
  PROVE  QueueOK(ready_queues') /\ \A x : Queued(x)' <=> Queued(x) /\ x # t
<1>1. ready_queues \in [Prio -> Seq(Thread)] /\ QueueOK(ready_queues)
  BY DEF TInv, TypeOK, Lists
<1>2. /\ QueueOK(ready_queues')
      /\ \A x : InQueue(ready_queues', x) <=> InQueue(ready_queues, x) /\ x # t
  BY <1>1, RemoveReadyLinks
<1>. QED BY <1>2 DEF Queued, InQueue

\* waiter_enqueue() clears next: only threads of that priority can be lost.
LEMMA CutQueued ==
  ASSUME TInv, Lists, NEW t \in Thread,
         ready_queues' = [ready_queues EXCEPT ![Priority[t]] = CutBehind(@, t)]
  PROVE  /\ QueueOK(ready_queues')
         /\ \A x : Queued(x)' => Queued(x)
         /\ \A x : Queued(x) /\ (x = t \/ Priority[x] # Priority[t]) => Queued(x)'
<1>1. ready_queues \in [Prio -> Seq(Thread)] /\ QueueOK(ready_queues)
  BY DEF TInv, TypeOK, Lists
<1>2. /\ QueueOK(ready_queues')
      /\ \A x : InQueue(ready_queues', x) => InQueue(ready_queues, x)
      /\ \A x : InQueue(ready_queues, x) /\ (x = t \/ Priority[x] # Priority[t])
                  => InQueue(ready_queues', x)
  BY <1>1, CutReadyLinks
<1>. QED BY <1>2 DEF Queued, InQueue

\* waiter_enqueue() as a step of the waiter lists.
LEMMA EnqueueWaits ==
  ASSUME TInv, Lists, NEW t \in Thread, NEW w \in WaitList, ~Waits(t),
         waiters' = [waiters EXCEPT ![w] = Append(@, t)]
  PROVE  /\ WaitersOK(waiters')
         /\ \A v \in WaitList : \A x :
              x \in Linked(waiters'[v]) <=> x \in Linked(waiters[v]) \/ (v = w /\ x = t)
         /\ \A x : Waits(x)' <=> Waits(x) \/ x = t
<1>1. /\ WaitersOK(waiters')
      /\ \A v \in WaitList : \A x :
           x \in Linked(waiters'[v]) <=> x \in Linked(waiters[v]) \/ (v = w /\ x = t)
  BY EnqueueLinks DEF Lists, TInv, TypeOK, Waits
<1>. QED BY <1>1 DEF Waits

\* waiter_dequeue() as a step of the waiter lists.
LEMMA DequeueWaits ==
  ASSUME TInv, Lists, NEW w \in WaitList, waiters[w] # <<>>,
         waiters' = [waiters EXCEPT ![w] = Tail(@)]
  PROVE  LET h == Head(waiters[w]) IN
         /\ WaitersOK(waiters')
         /\ h \in Linked(waiters[w]) /\ h \in Thread /\ Waits(h)
         /\ \A v \in WaitList : \A x :
              x \in Linked(waiters'[v]) <=> x \in Linked(waiters[v]) /\ x # h
         /\ \A x : Waits(x)' <=> Waits(x) /\ x # h
<1> DEFINE h == Head(waiters[w])
<1>1. /\ WaitersOK(waiters')
      /\ h \in Linked(waiters[w]) /\ h \in Thread
      /\ \A v \in WaitList : \A x :
           x \in Linked(waiters'[v]) <=> x \in Linked(waiters[v]) /\ x # h
  <2>1. waiters \in [WaitList -> Seq(Thread)] /\ WaitersOK(waiters)
    BY DEF Lists, TInv, TypeOK
  <2>2. LET wt == [waiters EXCEPT ![w] = Tail(@)]
        IN  /\ WaitersOK(wt)
            /\ h \in Linked(waiters[w]) /\ h \in Thread
            /\ \A v \in WaitList : \A x : x \in Linked(wt[v]) <=> x \in Linked(waiters[v]) /\ x # h
    BY <2>1, DequeueLinks
  <2>. QED BY <2>2
<1> HIDE DEF h
<1>2. Waits(h) /\ \A x : Waits(x)' <=> Waits(x) /\ x # h
  BY <1>1 DEF Waits
<1>. QED BY <1>1, <1>2 DEF h

\* Only threads are in the lists.
LEMMA WaitsThread ==
  ASSUME TInv, NEW w \in WaitList, NEW x \in Linked(waiters[w])
  PROVE  x \in Thread /\ Waits(x)
<1>1. waiters[w] \in Seq(Thread)
  BY DEF TInv, TypeOK
<1>. QED BY <1>1, LinkedIndex DEF Waits

\* What a walk along a list comes to: w's stripe is free again ...
EndsWake(t, w) ==
  /\ spin' = [spin EXCEPT ![StripeOf[w]] = Null]
  /\ tgt' = [tgt EXCEPT ![t] = Null] /\ pc' = [pc EXCEPT ![t] = "run"]
  /\ waiters' = waiters

\* ... or t has the stripe and one more waiter in hand.
TakesWaiter(t, w, h) ==
  /\ spin' = [spin EXCEPT ![StripeOf[w]] = <<t, w>>]
  /\ tgt' = [tgt EXCEPT ![t] = h] /\ pc' = [pc EXCEPT ![t] = "wake"]
  /\ waiters' \in [WaitList -> Seq(Thread)] /\ WaitersOK(waiters')
  /\ h \in Linked(waiters[w])
  /\ \A v \in WaitList : \A x : x \in Linked(waiters'[v]) <=> x \in Linked(waiters[v]) /\ x # h

WalksOn(t, w) == EndsWake(t, w) \/ \E h : TakesWaiter(t, w, h)

\* wake_one() is such a walk, which takes the first waiter.
LEMMA DequeueWalksOn ==
  ASSUME TInv, Lists, NEW t \in Thread, NEW w \in WaitList, Dequeue(t, w)
  PROVE  WalksOn(t, w)
<1>1. CASE waiters[w] = <<>>
  BY <1>1 DEF WalksOn, EndsWake, Dequeue, Goto, Unlocks
<1>2. CASE waiters[w] # <<>>
  <2> DEFINE h == Head(waiters[w])
  <2>1. /\ spin' = [spin EXCEPT ![StripeOf[w]] = <<t, w>>]
        /\ tgt' = [tgt EXCEPT ![t] = h] /\ pc' = [pc EXCEPT ![t] = "wake"]
        /\ waiters' = [waiters EXCEPT ![w] = Tail(@)]
    BY <1>2 DEF Dequeue, Goto, Locks, Rest
  <2>2. /\ WaitersOK(waiters')
        /\ h \in Linked(waiters[w])
        /\ \A v \in WaitList : \A x :
             x \in Linked(waiters'[v]) <=> x \in Linked(waiters[v]) /\ x # h
    BY <1>2, <2>1, DequeueWaits
  <2>3. waiters' \in [WaitList -> Seq(Thread)]
    BY <1>2, <2>1 DEF TInv, TypeOK
  <2> HIDE DEF h
  <2>. QED BY <2>1, <2>2, <2>3 DEF WalksOn, TakesWaiter
<1>. QED BY <1>1, <1>2

\* The waiter it takes waits nowhere any more; all others wait as before.
LEMMA TakenWaits ==
  ASSUME TInv, NEW t \in Thread, NEW w \in WaitList, NEW h, TakesWaiter(t, w, h)
  PROVE  h \in Thread /\ Waits(h) /\ \A x : Waits(x)' <=> Waits(x) /\ x # h
<1>1. h \in Thread /\ Waits(h)
  BY WaitsThread DEF TakesWaiter
<1>2. \A x : Waits(x)' <=> Waits(x) /\ x # h
  BY DEF TakesWaiter, Waits
<1>. QED BY <1>1, <1>2

\* The idle threads have the lowest priority, and only they.
LEMMA IdlePriority ==
  /\ IdlePrio \in Prio
  /\ \A c \in Core : Priority[IdleOf[c]] = IdlePrio
  /\ \A t \in Thread : Priority[t] = IdlePrio => Calls[t] = {} /\ t \notin Target
<1>1. IdlePrio \in Prio
  BY SchedAssumption DEF IdlePrio, Prio
<1>2. \A c \in Core : Priority[IdleOf[c]] = IdlePrio
  BY <1>1, SchedAssumption, IdleAssumption
<1>3. \A t \in Thread : Priority[t] = IdlePrio => Calls[t] = {} /\ t \notin Target
  BY IdleAssumption
<1>. QED BY <1>1, <1>2, <1>3

\* While a thread is between waiter_enqueue() and sched_block(), nobody else
\* works on a list of its stripe.
LEMMA StripeExcludes ==
  ASSUME TInv, Locked, NEW w \in WaitList,
         Unlocked(w) \/ \E t \in Thread : Holds(t, w) /\ pc[t] # "enqueued",
         NEW v \in WaitList, NEW x \in Linked(waiters[v]), pc[x] = "enqueued"
  PROVE  StripeOf[v] # StripeOf[w]
<1>1. <<x, v>> \in Thread \X WaitList
  BY WaitsThread
<1>2. <<x, v>> # Null
  BY <1>1, SchedAssumption
<1>3. spin[StripeOf[v]] = <<x, v>>
  BY DEF Locked, Holds
<1>4. CASE Unlocked(w)
  BY <1>2, <1>3, <1>4 DEF Unlocked
<1>5. ASSUME NEW t \in Thread, Holds(t, w), pc[t] # "enqueued"
      PROVE  StripeOf[v] # StripeOf[w]
  <2>1. <<x, v>> # <<t, w>>
    BY <1>5
  <2>. QED BY <1>3, <1>5, <2>1 DEF Holds
<1>. QED BY <1>4, <1>5

\* ... so changing that stripe does not disturb it.
LEMMA LockedKept ==
  ASSUME TInv, Locked, NEW w \in WaitList, NEW h,
         Unlocked(w) \/ \E t \in Thread : Holds(t, w) /\ pc[t] # "enqueued",
         spin' = [spin EXCEPT ![StripeOf[w]] = h],
         \A v \in WaitList : \A x \in Linked(waiters'[v]) : x \in Linked(waiters[v]),
         \A x \in Thread : pc'[x] = "enqueued" => pc[x] = "enqueued"
  PROVE  Locked'
<1> SUFFICES ASSUME NEW v \in WaitList, NEW x, x \in Linked(waiters'[v]), pc'[x] = "enqueued"
             PROVE  Holds(x, v)'
  BY DEF Locked
<1>1. x \in Linked(waiters[v]) /\ x \in Thread
  BY WaitsThread
<1>2. pc[x] = "enqueued"
  BY <1>1
<1>3. Holds(x, v) /\ StripeOf[v] # StripeOf[w]
  BY <1>1, <1>2, StripeExcludes DEF Locked
<1>4. spin'[StripeOf[v]] = spin[StripeOf[v]]
  BY <1>3 DEF TInv, TypeOK
<1>. QED BY <1>3, <1>4 DEF Holds

\* Nor does a step that touches no stripe and enqueues nobody.
LEMMA LockedSame ==
  ASSUME TInv, Locked, UNCHANGED <<spin, waiters>>,
         \A x \in Thread : pc'[x] = "enqueued" => pc[x] = "enqueued"
  PROVE  Locked'
<1>1. \A v \in WaitList : \A x \in Linked(waiters[v]) : x \in Thread
  BY WaitsThread
<1>. QED BY <1>1 DEF Locked, Holds

\* sched_sleep()
LEMMA SleepLife ==
  ASSUME TInv, CoreInv, LifeInv, Discipline, NEW t \in Thread, Sleep(t)
  PROVE  LifeInv'
<1>1. /\ Executing(t) /\ pc[t] = "run" /\ tstate[t] = "running" /\ ~Waits(t)
      /\ "sleep" \in Calls[t]
  BY DEF Sleep, Enters, LifeInv, Lives, Life
<1>2. /\ QueueOK(ready_queues')
      /\ \A x : Queued(x)' <=> Queued(x) /\ x # t
  BY RemoveQueued DEF Sleep, LifeInv
<1>3. /\ \A x : Waits(x)' <=> Waits(x)
      /\ \A x : Executing(x)' <=> Executing(x)
      /\ UNCHANGED <<waiters, tcb_used, kill_pending, current_tcb, tgt, core, spin>>
  BY DEF Sleep, Waits, Executing
<1>4. tstate' = [tstate EXCEPT ![t] = "sleeping"] /\ pc' = [pc EXCEPT ![t] = "yield"]
  BY DEF Sleep, Goto
<1>5. Lists'
  BY <1>2, <1>3 DEF LifeInv, Lists
<1>6. Places'
  BY <1>1, <1>3, <1>4 DEF LifeInv, Places, TInv, TypeOK, IrqOff
<1>7. Hands'
  BY <1>1, <1>3, <1>4 DEF LifeInv, Hands, Waker, Freer, TInv, TypeOK, HasTarget
<1>8. Births'
  BY <1>1, <1>2, <1>3, <1>4 DEF LifeInv, Births, TInv, TypeOK, HasTarget
<1>9. \A x : (InHand(x)' <=> InHand(x)) /\ (Doomed(x)' <=> Doomed(x))
  BY <1>1, <1>3, <1>4 DEF InHand, Doomed, TInv, TypeOK
<1>10. Lives'
  BY <1>1, <1>2, <1>3, <1>4, <1>9 DEF LifeInv, Lives, Life, Found, TInv, TypeOK
<1>11. Cores'
  BY <1>1, <1>2, <1>3, <1>4, IdleAssumption DEF LifeInv, Cores, Fits, TInv, TypeOK
<1>12. Locked'
  BY <1>1, <1>3, <1>4 DEF LifeInv, Locked, Holds, TInv, TypeOK
<1>. QED BY <1>5, <1>6, <1>7, <1>8, <1>10, <1>11, <1>12 DEF LifeInv

\* isr_systick(): a sleeper's alarm
LEMMA TickLife ==
  ASSUME TInv, CoreInv, LifeInv, Discipline, NEW t \in Thread, TickWake(t)
  PROVE  LifeInv'
<1>1. tcb_used[t] /\ tstate[t] = "sleeping" /\ ~Queued(t) /\ ~Waits(t)
      /\ (Executing(t) => pc[t] \in {"yield", "dead"})
  BY DEF TickWake, LifeInv, Lives, Life, Places, IrqOff
<1>2. /\ QueueOK(ready_queues')
      /\ \A x : Queued(x)' <=> Queued(x) \/ x = t
  BY <1>1, AddQueued DEF TickWake, LifeInv
<1>3. /\ \A x : Waits(x)' <=> Waits(x)
      /\ \A x : Executing(x)' <=> Executing(x)
      /\ UNCHANGED <<waiters, tcb_used, kill_pending, current_tcb, pc, tgt, core, spin>>
  BY DEF TickWake, Waits, Executing
<1>4. tstate' = [tstate EXCEPT ![t] = "ready"]
  BY DEF TickWake
<1>5. Lists'
  BY <1>2, <1>3 DEF LifeInv, Lists
<1>6. Places'
  BY <1>1, <1>3, <1>4 DEF LifeInv, Places, TInv, TypeOK, IrqOff
<1>7. Hands'
  BY <1>1, <1>3, <1>4 DEF LifeInv, Hands, Waker, Freer, TInv, TypeOK, HasTarget
<1>8. Births'
  BY <1>1, <1>2, <1>3, <1>4 DEF LifeInv, Births, TInv, TypeOK, HasTarget
<1>9. \A x : (InHand(x)' <=> InHand(x)) /\ (Doomed(x)' <=> Doomed(x))
  BY <1>1, <1>3, <1>4 DEF InHand, Doomed, TInv, TypeOK
<1>10. Lives'
  BY <1>1, <1>2, <1>3, <1>4, <1>9 DEF LifeInv, Lives, Life, Found, TInv, TypeOK
<1>11. Cores'
  BY <1>1, <1>2, <1>3, <1>4, IdleAssumption DEF LifeInv, Cores, Fits, TInv, TypeOK
<1>12. Locked'
  BY <1>1, <1>3, <1>4 DEF LifeInv, Locked, Holds, TInv, TypeOK
<1>. QED BY <1>5, <1>6, <1>7, <1>8, <1>10, <1>11, <1>12 DEF LifeInv

\* waiter_enqueue()
LEMMA WaitEnqueueLife ==
  ASSUME TInv, CoreInv, LifeInv, Discipline, NEW t \in Thread, NEW w \in WaitList,
         WaitEnqueue(t, w)
  PROVE  LifeInv'
<1>1. /\ Executing(t) /\ pc[t] = "run" /\ tstate[t] = "running" /\ ~Waits(t) /\ tcb_used[t]
      /\ "wait" \in Calls[t] /\ spin[StripeOf[w]] = Null
  BY DEF WaitEnqueue, Enters, Unlocked, LifeInv, Lives, Life
<1>2. /\ QueueOK(ready_queues')
      /\ \A x : Queued(x)' => Queued(x)
      /\ \A x : Queued(x) /\ (x = t \/ Priority[x] # Priority[t]) => Queued(x)'
  BY CutQueued DEF WaitEnqueue, LifeInv
<1>3. /\ WaitersOK(waiters')
      /\ \A v \in WaitList : \A x :
           x \in Linked(waiters'[v]) <=> x \in Linked(waiters[v]) \/ (v = w /\ x = t)
      /\ \A x : Waits(x)' <=> Waits(x) \/ x = t
  BY <1>1, EnqueueWaits DEF WaitEnqueue, LifeInv
<1>5. /\ \A x : Executing(x)' <=> Executing(x)
      /\ UNCHANGED <<tstate, tcb_used, kill_pending, current_tcb, tgt, core>>
  BY DEF WaitEnqueue, Executing
<1>6. pc' = [pc EXCEPT ![t] = "enqueued"] /\ spin' = [spin EXCEPT ![StripeOf[w]] = <<t, w>>]
  BY DEF WaitEnqueue, Goto, Locks
<1>7. Lists'
  BY <1>2, <1>3 DEF LifeInv, Lists
<1>8. Places'
  BY <1>1, <1>3, <1>5, <1>6 DEF LifeInv, Places, TInv, TypeOK, IrqOff
<1>9. Hands'
  BY <1>1, <1>3, <1>5, <1>6 DEF LifeInv, Hands, Waker, Freer, TInv, TypeOK, HasTarget
<1>10. Births'
  BY <1>1, <1>2, <1>5, <1>6 DEF LifeInv, Births, TInv, TypeOK, HasTarget
<1>11. \A x : (InHand(x)' <=> InHand(x)) /\ (Doomed(x)' <=> Doomed(x))
  BY <1>1, <1>5, <1>6 DEF InHand, Doomed, TInv, TypeOK
<1>12. Lives'
  BY <1>1, <1>2, <1>3, <1>5, <1>6, <1>11 DEF LifeInv, Lives, Life, Found, TInv, TypeOK
<1>13. Cores'
  \* No idle thread waits, so the cut is in another queue than theirs.
  <2>1. \A c \in Core : Priority[IdleOf[c]] # Priority[t]
    BY <1>1, IdlePriority, IdleAssumption
  <2>. QED BY <1>1, <1>2, <1>5, <2>1 DEF LifeInv, Cores, Fits, TInv, TypeOK
<1>14. Locked'
  <2> SUFFICES ASSUME NEW v \in WaitList, NEW x, x \in Linked(waiters'[v]), pc'[x] = "enqueued"
               PROVE  Holds(x, v)'
    BY DEF Locked
  <2>1. CASE x = t /\ v = w
    BY <1>6, <2>1, SchedAssumption DEF Holds, TInv, TypeOK
  <2>2. CASE ~(x = t /\ v = w)
    <3>1. x \in Linked(waiters[v])
      BY <1>3, <2>2
    <3>2. x # t
      BY <1>1, <3>1 DEF Waits
    <3>3. Holds(x, v)
      BY <1>6, <3>1, <3>2 DEF LifeInv, Locked, TInv, TypeOK
    <3>4. StripeOf[v] # StripeOf[w]
      <4>1. <<x, v>> \in Thread \X WaitList
        BY <3>1, WaitsThread
      <4>2. <<x, v>> # Null
        BY <4>1, SchedAssumption
      <4>. QED BY <1>1, <3>3, <4>2 DEF Holds
    <3>5. spin'[StripeOf[v]] = spin[StripeOf[v]]
      BY <1>6, <3>4 DEF TInv, TypeOK
    <3>. QED BY <3>3, <3>5 DEF Holds
  <2>. QED BY <2>1, <2>2
<1>. QED BY <1>7, <1>8, <1>9, <1>10, <1>12, <1>13, <1>14 DEF LifeInv

\* sched_block()
LEMMA WaitBlockLife ==
  ASSUME TInv, CoreInv, LifeInv, Discipline, NEW t \in Thread, NEW w \in WaitList,
         WaitBlock(t, w)
  PROVE  LifeInv'
<1>1. /\ Executing(t) /\ pc[t] = "enqueued" /\ tstate[t] = "running" /\ Waits(t) /\ tcb_used[t]
      /\ "wait" \in Calls[t] /\ spin[StripeOf[w]] = <<t, w>>
  BY DEF WaitBlock, At, Holds, LifeInv, Lives, Life, Places
<1>2. /\ QueueOK(ready_queues')
      /\ \A x : Queued(x)' <=> Queued(x) /\ x # t
  BY RemoveQueued DEF WaitBlock, LifeInv
<1>3. /\ \A x : Waits(x)' <=> Waits(x)
      /\ \A x : Executing(x)' <=> Executing(x)
      /\ UNCHANGED <<waiters, tcb_used, kill_pending, current_tcb, tgt, core>>
  BY DEF WaitBlock, Waits, Executing
<1>4. /\ tstate' = [tstate EXCEPT ![t] = "blocked"] /\ pc' = [pc EXCEPT ![t] = "yield"]
      /\ spin' = [spin EXCEPT ![StripeOf[w]] = Null]
  BY DEF WaitBlock, Goto, Unlocks
<1>5. Lists'
  BY <1>2, <1>3 DEF LifeInv, Lists
<1>6. Places'
  BY <1>1, <1>3, <1>4 DEF LifeInv, Places, TInv, TypeOK, IrqOff
<1>7. Hands'
  BY <1>1, <1>3, <1>4 DEF LifeInv, Hands, Waker, Freer, TInv, TypeOK, HasTarget
<1>8. Births'
  BY <1>1, <1>2, <1>3, <1>4 DEF LifeInv, Births, TInv, TypeOK, HasTarget
<1>9. \A x : (InHand(x)' <=> InHand(x)) /\ (Doomed(x)' <=> Doomed(x))
  BY <1>1, <1>3, <1>4 DEF InHand, Doomed, TInv, TypeOK
<1>10. Lives'
  BY <1>1, <1>2, <1>3, <1>4, <1>9 DEF LifeInv, Lives, Life, Found, TInv, TypeOK
<1>11. Cores'
  BY <1>1, <1>2, <1>3, <1>4, IdleAssumption DEF LifeInv, Cores, Fits, TInv, TypeOK
<1>12. Locked'
  <2> SUFFICES ASSUME NEW v \in WaitList, NEW x \in Linked(waiters[v]), pc'[x] = "enqueued"
               PROVE  spin'[StripeOf[v]] = <<x, v>>
    BY <1>3 DEF Locked, Holds
  <2>1. x \in Thread
    BY WaitsThread
  <2>2. x # t /\ pc[x] = "enqueued"
    BY <1>4, <2>1 DEF TInv, TypeOK
  <2>3. spin[StripeOf[v]] = <<x, v>>
    BY <2>2 DEF LifeInv, Locked, Holds
  <2>4. spin[StripeOf[w]] # <<x, v>>
    BY <1>1, <2>2
  <2>. QED BY <1>4, <2>3, <2>4, SchedAssumption DEF TInv, TypeOK
<1>. QED BY <1>5, <1>6, <1>7, <1>8, <1>10, <1>11, <1>12 DEF LifeInv

\* A waiter that is dequeued has blocked, or was killed since.
LEMMA HeadSleeps ==
  ASSUME TInv, LifeInv, NEW w \in WaitList, NEW h, h \in Linked(waiters[w]),
         Unlocked(w) \/ \E t \in Thread : Holds(t, w) /\ pc[t] # "enqueued"
  PROVE  /\ h \in Thread /\ tcb_used[h] /\ tstate[h] \in {"blocked", "zombie"}
         /\ tstate[h] = "zombie" => ~Executing(h)
         /\ ~InHand(h) /\ ~Doomed(h) /\ pc[h] # "enqueued"
<1>1. h \in Thread /\ Waits(h)
  BY WaitsThread
<1>2. pc[h] # "enqueued"
  BY StripeExcludes DEF LifeInv
<1>3. ~InHand(h) /\ ~Doomed(h)
  BY <1>1 DEF LifeInv, Hands, Freer, InHand, Doomed
<1>. QED BY <1>1, <1>2, <1>3 DEF LifeInv, Lives, Life

\* The wake path up to its first waiter
LEMMA BeginLife ==
  ASSUME TInv, CoreInv, LifeInv, Discipline, NEW t \in Thread, NEW w \in WaitList,
         Enters(t, "wake"), Unlocked(w), WalksOn(t, w),
         UNCHANGED <<tstate, tcb_used, kill_pending, ready_queues, current_tcb, core>>
  PROVE  LifeInv'
<1>1. /\ Executing(t) /\ pc[t] = "run" /\ tstate[t] = "running" /\ ~Waits(t) /\ tcb_used[t]
      /\ Unlocked(w)
  BY DEF Enters, LifeInv, Lives, Life
<1>2. /\ UNCHANGED <<tstate, tcb_used, kill_pending, ready_queues, current_tcb, core>>
      /\ \A x : Executing(x)' <=> Executing(x)
      /\ \A x : Queued(x)' <=> Queued(x)
  BY DEF Executing, Queued
<1>3. CASE EndsWake(t, w)
  <2>1. /\ spin' = [spin EXCEPT ![StripeOf[w]] = Null]
        /\ tgt' = [tgt EXCEPT ![t] = Null] /\ pc' = [pc EXCEPT ![t] = "run"]
        /\ waiters' = waiters
        /\ \A x : Waits(x)' <=> Waits(x)
    BY <1>3 DEF EndsWake, Waits
  <2>2. \A x : (InHand(x)' <=> InHand(x)) /\ (Doomed(x)' <=> Doomed(x))
    BY <1>1, <2>1 DEF InHand, Doomed, TInv, TypeOK
  <2>3. Lists'
    BY <1>2, <2>1 DEF LifeInv, Lists
  <2>4. Places'
    BY <1>1, <1>2, <2>1 DEF LifeInv, Places, TInv, TypeOK, IrqOff
  <2>5. Hands'
    BY <1>1, <1>2, <2>1 DEF LifeInv, Hands, Waker, Freer, TInv, TypeOK
  <2>6. Births'
    BY <1>1, <1>2, <2>1 DEF LifeInv, Births, TInv, TypeOK
  <2>7. Lives'
    BY <1>1, <1>2, <2>1, <2>2 DEF LifeInv, Lives, Life, Found, TInv, TypeOK
  <2>8. Cores'
    BY <1>2 DEF LifeInv, Cores, Fits
  <2>9. Locked'
    BY <1>1, <2>1, LockedKept DEF LifeInv, TInv, TypeOK
  <2>. QED BY <2>3, <2>4, <2>5, <2>6, <2>7, <2>8, <2>9 DEF LifeInv
<1>4. ASSUME NEW h, TakesWaiter(t, w, h) PROVE LifeInv'
  <2>1. /\ spin' = [spin EXCEPT ![StripeOf[w]] = <<t, w>>]
        /\ tgt' = [tgt EXCEPT ![t] = h] /\ pc' = [pc EXCEPT ![t] = "wake"]
    BY <1>4 DEF TakesWaiter
  <2>2. /\ WaitersOK(waiters')
        /\ h \in Linked(waiters[w]) /\ h \in Thread /\ Waits(h)
        /\ \A v \in WaitList : \A x :
             x \in Linked(waiters'[v]) <=> x \in Linked(waiters[v]) /\ x # h
        /\ \A x : Waits(x)' <=> Waits(x) /\ x # h
    BY <1>4, TakenWaits DEF TakesWaiter
  <2>3. /\ tcb_used[h] /\ tstate[h] \in {"blocked", "zombie"}
        /\ tstate[h] = "zombie" => ~Executing(h)
        /\ ~InHand(h) /\ ~Doomed(h) /\ h # t /\ pc[h] # "enqueued"
    BY <1>1, <2>2, HeadSleeps
  <2>4. \A x : (InHand(x)' <=> InHand(x) \/ x = h) /\ (Doomed(x)' <=> Doomed(x))
    BY <1>1, <2>1 DEF InHand, Doomed, TInv, TypeOK
  <2>5. Lists'
    BY <1>2, <2>2 DEF LifeInv, Lists
  <2>6. Places'
    BY <1>1, <1>2, <2>1, <2>2, <2>3 DEF LifeInv, Places, TInv, TypeOK, IrqOff
  <2>7. Hands'
    BY <1>1, <1>2, <2>1, <2>2, <2>3 DEF LifeInv, Hands, Waker, Freer, InHand, Doomed, TInv, TypeOK
  <2>8. Births'
    BY <1>1, <1>2, <2>1 DEF LifeInv, Births, TInv, TypeOK
  <2>9. Lives'
    BY <1>1, <1>2, <2>1, <2>2, <2>3, <2>4 DEF LifeInv, Lives, Life, Found, TInv, TypeOK
  <2>10. Cores'
    BY <1>2 DEF LifeInv, Cores, Fits
  <2>11. Locked'
    BY <1>1, <2>1, <2>2, LockedKept DEF LifeInv, TInv, TypeOK
  <2>. QED BY <2>5, <2>6, <2>7, <2>8, <2>9, <2>10, <2>11 DEF LifeInv
<1>. QED BY <1>3, <1>4 DEF WalksOn

\* wake_one() up to its first waiter
LEMMA WakeBeginLife ==
  ASSUME TInv, CoreInv, LifeInv, Discipline, NEW t \in Thread, NEW w \in WaitList,
         WakeBegin(t, w)
  PROVE  LifeInv'
BY BeginLife, DequeueWalksOn DEF WakeBegin, LifeInv

\* sched_unblock() of the live waiter in hand, and the walk goes on.
LEMMA UnblockedLife ==
  ASSUME TInv, CoreInv, LifeInv, Discipline, NEW t \in Thread, NEW w \in WaitList,
         At(t, "wake"), Holds(t, w), ~Dead(tgt[t]), WalksOn(t, w),
         tstate' = [tstate EXCEPT ![tgt[t]] = "ready"],
         ready_queues' = AddReady(ready_queues, tgt[t]),
         UNCHANGED <<tcb_used, kill_pending, current_tcb, core>>
  PROVE  LifeInv'
<1> DEFINE z == tgt[t]
<1>1. /\ Executing(t) /\ pc[t] = "wake" /\ tstate[t] = "running" /\ tcb_used[t]
      /\ Holds(t, w) /\ tstate[z] # "zombie" /\ z \in Thread
  BY DEF At, Dead, LifeInv, Lives, Life, TInv, HasTarget
<1>2. /\ tstate[z] = "blocked" /\ tcb_used[z] /\ ~Waits(z) /\ z # t
      /\ ~Queued(z) /\ ~Doomed(z) /\ (Executing(z) => pc[z] \in {"yield", "dead"})
  <2>1. tstate[z] = "blocked" /\ tcb_used[z] /\ ~Waits(z)
    BY <1>1 DEF LifeInv, Hands, Waker, Freer
  <2>2. ~Doomed(z)
    BY <1>1 DEF LifeInv, Hands, Freer, Doomed
  <2>. QED BY <1>1, <2>1, <2>2 DEF LifeInv, Lives, Life
<1>3. \A k \in Thread : Freer(k) /\ k # t => tgt[k] # z
  BY <1>1 DEF LifeInv, Hands, Freer
<1>4. /\ tstate' = [tstate EXCEPT ![z] = "ready"]
      /\ ready_queues' = AddReady(ready_queues, z)
      /\ UNCHANGED <<tcb_used, kill_pending, current_tcb, core>>
      /\ \A x : Executing(x)' <=> Executing(x)
  BY DEF Executing
<1>5. QueueOK(ready_queues') /\ \A x : Queued(x)' <=> Queued(x) \/ x = z
  <2> HIDE DEF z
  <2>. QED BY <1>1, <1>2, <1>4, AddQueued DEF LifeInv
<1>6. Cores'
  <2> HIDE DEF z
  <2>. QED BY <1>1, <1>4, <1>5, IdleAssumption DEF LifeInv, Cores, Fits, TInv, TypeOK
<1>7. CASE EndsWake(t, w)
  <2>1. /\ spin' = [spin EXCEPT ![StripeOf[w]] = Null]
        /\ tgt' = [tgt EXCEPT ![t] = Null] /\ pc' = [pc EXCEPT ![t] = "run"]
        /\ waiters' = waiters
        /\ \A x : Waits(x)' <=> Waits(x)
    BY <1>7 DEF EndsWake, Waits
  <2> HIDE DEF z
  <2>2. \A x : Doomed(x)' <=> Doomed(x)
    BY <1>1, <2>1 DEF Doomed, TInv, TypeOK
  <2>3. \A x : x # z => (InHand(x)' <=> InHand(x))
    BY <1>1, <2>1 DEF InHand, TInv, TypeOK, z
  <2>4. Lists'
    BY <1>5, <2>1 DEF LifeInv, Lists
  <2>5. Places'
    BY <1>1, <1>4, <2>1 DEF LifeInv, Places, TInv, TypeOK, IrqOff
  <2>6. Hands'
    BY <1>1, <1>3, <1>4, <2>1 DEF LifeInv, Hands, Waker, Freer, TInv, TypeOK, HasTarget
  <2>7. Births'
    BY <1>1, <1>2, <1>4, <1>5, <2>1 DEF LifeInv, Births, TInv, TypeOK, HasTarget
  <2>8. Lives'
    BY <1>1, <1>2, <1>4, <1>5, <2>1, <2>2, <2>3 DEF LifeInv, Lives, Life, Found, TInv, TypeOK
  <2>9. Locked'
    BY <1>1, <2>1, LockedKept DEF LifeInv, TInv, TypeOK
  <2>. QED BY <1>6, <2>4, <2>5, <2>6, <2>7, <2>8, <2>9 DEF LifeInv
<1>8. ASSUME NEW h, TakesWaiter(t, w, h) PROVE LifeInv'
  <2>1. /\ spin' = [spin EXCEPT ![StripeOf[w]] = <<t, w>>]
        /\ tgt' = [tgt EXCEPT ![t] = h] /\ pc' = [pc EXCEPT ![t] = "wake"]
    BY <1>8 DEF TakesWaiter
  <2>2. /\ WaitersOK(waiters')
        /\ h \in Linked(waiters[w]) /\ h \in Thread /\ Waits(h)
        /\ \A v \in WaitList : \A x :
             x \in Linked(waiters'[v]) <=> x \in Linked(waiters[v]) /\ x # h
        /\ \A x : Waits(x)' <=> Waits(x) /\ x # h
    BY <1>8, TakenWaits DEF TakesWaiter
  <2>3. /\ tcb_used[h] /\ tstate[h] \in {"blocked", "zombie"}
        /\ tstate[h] = "zombie" => ~Executing(h)
        /\ ~InHand(h) /\ ~Doomed(h) /\ h # t /\ h # z /\ pc[h] # "enqueued"
    BY <1>1, <1>2, <2>2, HeadSleeps
  <2> HIDE DEF z
  <2>4. \A x : Doomed(x)' <=> Doomed(x)
    BY <1>1, <2>1 DEF Doomed, TInv, TypeOK
  <2>5. (\A x : x = h => InHand(x)') /\ \A x : x # z /\ x # h => (InHand(x)' <=> InHand(x))
    <3>1. tgt'[t] = h /\ pc'[t] = "wake"
      BY <2>1 DEF TInv, TypeOK
    <3>2. \A k \in Thread : k # t => tgt'[k] = tgt[k] /\ pc'[k] = pc[k]
      BY <2>1 DEF TInv, TypeOK
    <3>3. tgt[t] = z
      BY DEF z
    <3>4. \A x : x = h => InHand(x)'
      BY <1>1, <3>1 DEF InHand
    <3>5. ASSUME NEW x, x # z, x # h, InHand(x) PROVE InHand(x)'
      BY <3>2, <3>3, <3>5 DEF InHand
    <3>6. ASSUME NEW x, x # z, x # h, InHand(x)' PROVE InHand(x)
      BY <3>1, <3>2, <3>6 DEF InHand
    <3>. QED BY <3>4, <3>5, <3>6
  <2>6. Lists'
    BY <1>5, <2>2 DEF LifeInv, Lists
  <2>7. Places'
    BY <1>1, <1>4, <2>1, <2>2, <2>3 DEF LifeInv, Places, TInv, TypeOK, IrqOff
  <2>8. Hands'
    <3>1. \A k \in Thread : Freer(k) => tgt[k] # h
      BY <2>3 DEF Freer, InHand, Doomed
    <3>. QED BY <1>1, <1>3, <1>4, <2>1, <2>2, <2>3, <3>1
             DEF LifeInv, Hands, Waker, Freer, TInv, TypeOK, HasTarget
  <2>9. Births'
    BY <1>1, <1>2, <1>4, <1>5, <2>1 DEF LifeInv, Births, TInv, TypeOK, HasTarget
  <2>10. Lives'
    <3> SUFFICES ASSUME NEW x \in Thread PROVE Life(x)' /\ Found(x)'
      BY DEF Lives
    <3>1. Life(x) /\ Found(x)
      BY DEF LifeInv, Lives
    <3>2. /\ x # t => pc'[x] = pc[x]
          /\ x # z => tstate'[x] = tstate[x]
          /\ x = z => tstate'[x] = "ready"
      BY <1>1, <1>4, <2>1 DEF TInv, TypeOK
    <3>3. Life(x)'
      BY <1>1, <1>2, <1>4, <1>5, <2>2, <2>3, <3>1, <3>2 DEF Life
    <3>4. Found(x)'
      BY <1>4, <2>2, <2>4, <2>5, <3>1, <3>2 DEF Found
    <3>. QED BY <3>3, <3>4
  <2>11. Locked'
    BY <1>1, <2>1, <2>2, LockedKept DEF LifeInv, TInv, TypeOK
  <2>. QED BY <1>6, <2>6, <2>7, <2>8, <2>9, <2>10, <2>11 DEF LifeInv
<1>. QED BY <1>7, <1>8 DEF WalksOn

\* ... which ends wake_one().
LEMMA WakeUnblockLife ==
  ASSUME TInv, CoreInv, LifeInv, Discipline, NEW t \in Thread, NEW w \in WaitList,
         WakeUnblock(t, w)
  PROVE  LifeInv'
<1>1. WalksOn(t, w)
  BY DEF WakeUnblock, WalksOn, EndsWake, Goto, Unlocks
<1>. QED BY <1>1, UnblockedLife DEF WakeUnblock

\* sched_unblock() of a waiter killed while it was blocked
LEMMA WakeZombieLife ==
  ASSUME TInv, CoreInv, LifeInv, Discipline, NEW t \in Thread, NEW w \in WaitList,
         WakeZombie(t, w)
  PROVE  LifeInv'
<1>1. /\ Executing(t) /\ pc[t] = "wake" /\ tstate[t] = "running" /\ tcb_used[t]
      /\ tstate[tgt[t]] = "zombie"
  BY DEF WakeZombie, At, Dead, LifeInv, Lives, Life
<1>2. /\ UNCHANGED <<tstate, tcb_used, kill_pending, ready_queues, current_tcb,
                     waiters, spin, tgt, core>>
      /\ pc' = [pc EXCEPT ![t] = "wakefree"]
      /\ \A x : Waits(x)' <=> Waits(x)
      /\ \A x : Queued(x)' <=> Queued(x)
      /\ \A x : Executing(x)' <=> Executing(x)
  BY DEF WakeZombie, Goto, Waits, Queued, Executing
<1>3. \A x : (InHand(x)' <=> InHand(x)) /\ (Doomed(x)' <=> Doomed(x))
  BY <1>1, <1>2 DEF InHand, Doomed, TInv, TypeOK
<1>4. Lists'
  BY <1>2 DEF LifeInv, Lists
<1>5. Places'
  BY <1>1, <1>2 DEF LifeInv, Places, TInv, TypeOK, IrqOff
<1>6. Hands'
  BY <1>1, <1>2 DEF LifeInv, Hands, Waker, Freer, TInv, TypeOK
<1>7. Births'
  BY <1>1, <1>2 DEF LifeInv, Births, TInv, TypeOK
<1>8. Lives'
  BY <1>1, <1>2, <1>3 DEF LifeInv, Lives, Life, Found, TInv, TypeOK
<1>9. Cores'
  BY <1>2 DEF LifeInv, Cores, Fits
<1>10. Locked'
  BY <1>1, <1>2 DEF LifeInv, Locked, Holds, TInv, TypeOK
<1>. QED BY <1>4, <1>5, <1>6, <1>7, <1>8, <1>9, <1>10 DEF LifeInv

\* The dead waiter in hand is freed and the walk goes on.
LEMMA FreedLife ==
  ASSUME TInv, CoreInv, LifeInv, Discipline, NEW t \in Thread, NEW w \in WaitList,
         At(t, "wakefree"), Holds(t, w), FreeSlot(tgt[t]), WalksOn(t, w),
         UNCHANGED <<ready_queues, current_tcb, core>>
  PROVE  LifeInv'
<1> DEFINE z == tgt[t]
<1>1. /\ Executing(t) /\ pc[t] = "wakefree" /\ tstate[t] = "running" /\ tcb_used[t]
      /\ Holds(t, w) /\ z \in Thread
  BY DEF At, LifeInv, Lives, Life, TInv, HasTarget
<1>2. /\ tstate[z] = "zombie" /\ ~Executing(z) /\ ~Waits(z) /\ z # t /\ ~Queued(z)
      /\ ~Doomed(z)
  <2>1. tstate[z] = "zombie" /\ ~Executing(z) /\ ~Waits(z)
    BY <1>1 DEF LifeInv, Hands, Freer
  <2>2. ~Doomed(z)
    BY <1>1 DEF LifeInv, Hands, Freer, Doomed
  <2>. QED BY <1>1, <2>1, <2>2 DEF LifeInv, Lives, Life
<1>3. \A k \in Thread : Freer(k) /\ k # t => tgt[k] # z
  BY <1>1 DEF LifeInv, Hands, Freer
<1>4. /\ tstate' = [tstate EXCEPT ![z] = "new"]
      /\ tcb_used' = [tcb_used EXCEPT ![z] = FALSE]
      /\ kill_pending' = [kill_pending EXCEPT ![z] = FALSE]
      /\ UNCHANGED <<ready_queues, current_tcb, core>>
      /\ \A x : Executing(x)' <=> Executing(x)
      /\ \A x : Queued(x)' <=> Queued(x)
  BY DEF FreeSlot, Executing, Queued
<1>5. \A x \in Thread : x # z =>
        /\ tstate'[x] = tstate[x] /\ (tcb_used'[x] <=> tcb_used[x])
        /\ (kill_pending'[x] <=> kill_pending[x])
  BY <1>4 DEF TInv, TypeOK
<1>6. tstate'[z] = "new" /\ ~tcb_used'[z] /\ ~kill_pending'[z]
  <2>1. tstate'[z] = "new"
    BY <1>1, <1>4 DEF TInv, TypeOK
  <2>2. ~tcb_used'[z] /\ ~kill_pending'[z]
    BY <1>1, <1>4, Zenon DEF TInv, TypeOK
  <2>. QED BY <2>1, <2>2
<1>7. Cores'
  <2>1. \A c \in Core : tstate'[IdleOf[c]] = tstate[IdleOf[c]]
    BY <1>2, <1>5, IdleAssumption DEF LifeInv, Cores
  <2>. QED BY <1>4, <2>1 DEF LifeInv, Cores, Fits
<1>8. CASE EndsWake(t, w)
  <2>1. /\ spin' = [spin EXCEPT ![StripeOf[w]] = Null]
        /\ tgt' = [tgt EXCEPT ![t] = Null] /\ pc' = [pc EXCEPT ![t] = "run"]
        /\ waiters' = waiters
        /\ \A x : Waits(x)' <=> Waits(x)
    BY <1>8 DEF EndsWake, Waits
  <2> HIDE DEF z
  <2>2. \A x : Doomed(x)' <=> Doomed(x)
    BY <1>1, <2>1 DEF Doomed, TInv, TypeOK
  <2>3. \A x : x # z => (InHand(x)' <=> InHand(x))
    BY <1>1, <2>1 DEF InHand, TInv, TypeOK, z
  <2>4. Lists'
    BY <1>4, <2>1 DEF LifeInv, Lists
  <2>5. Places'
    BY <1>1, <1>4, <2>1 DEF LifeInv, Places, TInv, TypeOK, IrqOff
  <2>6. Hands'
    BY <1>1, <1>3, <1>4, <1>5, <2>1 DEF LifeInv, Hands, Waker, Freer, TInv, TypeOK, HasTarget
  <2>7. Births'
    BY <1>1, <1>2, <1>4, <1>5, <1>6, <2>1 DEF LifeInv, Births, TInv, TypeOK, HasTarget
  <2>8. Lives'
    BY <1>1, <1>2, <1>4, <1>5, <1>6, <2>1, <2>2, <2>3 DEF LifeInv, Lives, Life, Found, TInv, TypeOK
  <2>9. Locked'
    BY <1>1, <2>1, LockedKept DEF LifeInv, TInv, TypeOK
  <2>. QED BY <1>7, <2>4, <2>5, <2>6, <2>7, <2>8, <2>9 DEF LifeInv
<1>9. ASSUME NEW h, TakesWaiter(t, w, h) PROVE LifeInv'
  <2>1. /\ spin' = [spin EXCEPT ![StripeOf[w]] = <<t, w>>]
        /\ tgt' = [tgt EXCEPT ![t] = h] /\ pc' = [pc EXCEPT ![t] = "wake"]
    BY <1>9 DEF TakesWaiter
  <2>2. /\ WaitersOK(waiters')
        /\ h \in Linked(waiters[w]) /\ h \in Thread /\ Waits(h)
        /\ \A v \in WaitList : \A x :
             x \in Linked(waiters'[v]) <=> x \in Linked(waiters[v]) /\ x # h
        /\ \A x : Waits(x)' <=> Waits(x) /\ x # h
    BY <1>9, TakenWaits DEF TakesWaiter
  <2>3. /\ tcb_used[h] /\ tstate[h] \in {"blocked", "zombie"}
        /\ tstate[h] = "zombie" => ~Executing(h)
        /\ ~InHand(h) /\ ~Doomed(h) /\ h # t /\ h # z /\ pc[h] # "enqueued"
    BY <1>1, <1>2, <2>2, HeadSleeps
  <2> HIDE DEF z
  <2>4. \A x : Doomed(x)' <=> Doomed(x)
    BY <1>1, <2>1 DEF Doomed, TInv, TypeOK
  <2>5. (\A x : x = h => InHand(x)') /\ \A x : x # z /\ x # h => (InHand(x)' <=> InHand(x))
    <3>1. tgt'[t] = h /\ pc'[t] = "wake"
      BY <2>1 DEF TInv, TypeOK
    <3>2. \A k \in Thread : k # t => tgt'[k] = tgt[k] /\ pc'[k] = pc[k]
      BY <2>1 DEF TInv, TypeOK
    <3>3. tgt[t] = z
      BY DEF z
    <3>4. \A x : x = h => InHand(x)'
      BY <1>1, <3>1 DEF InHand
    <3>5. ASSUME NEW x, x # z, x # h, InHand(x) PROVE InHand(x)'
      BY <3>2, <3>3, <3>5 DEF InHand
    <3>6. ASSUME NEW x, x # z, x # h, InHand(x)' PROVE InHand(x)
      BY <3>1, <3>2, <3>6 DEF InHand
    <3>. QED BY <3>4, <3>5, <3>6
  <2>6. Lists'
    BY <1>4, <2>2 DEF LifeInv, Lists
  <2>7. Places'
    BY <1>1, <1>4, <2>1, <2>2, <2>3 DEF LifeInv, Places, TInv, TypeOK, IrqOff
  <2>8. Hands'
    <3>1. \A k \in Thread : Freer(k) => tgt[k] # h
      BY <2>3 DEF Freer, InHand, Doomed
    <3>. QED BY <1>1, <1>3, <1>4, <1>5, <2>1, <2>2, <2>3, <3>1
             DEF LifeInv, Hands, Waker, Freer, TInv, TypeOK, HasTarget
  <2>9. Births'
    BY <1>1, <1>2, <1>4, <1>5, <1>6, <2>1 DEF LifeInv, Births, TInv, TypeOK, HasTarget
  <2>10. Lives'
    <3> SUFFICES ASSUME NEW x \in Thread PROVE Life(x)' /\ Found(x)'
      BY DEF Lives
    <3>1. Life(x) /\ Found(x)
      BY DEF LifeInv, Lives
    <3>2. x # t => pc'[x] = pc[x]
      BY <2>1 DEF TInv, TypeOK
    <3>3. x # z => Life(x)'
      BY <1>1, <1>4, <1>5, <2>2, <2>3, <3>1, <3>2 DEF Life
    <3>4. x # z => Found(x)'
      BY <1>5, <2>2, <2>4, <2>5, <3>1, <1>4 DEF Found
    <3>5. x = z => Life(x)' /\ Found(x)'
      BY <1>2, <1>4, <1>6, <2>2 DEF Life, Found
    <3>. QED BY <3>3, <3>4, <3>5
  <2>11. Locked'
    BY <1>1, <2>1, <2>2, LockedKept DEF LifeInv, TInv, TypeOK
  <2>. QED BY <1>7, <2>6, <2>7, <2>8, <2>9, <2>10, <2>11 DEF LifeInv
<1>. QED BY <1>8, <1>9 DEF WalksOn

\* ... in wake_one(), to the next waiter.
LEMMA WakeFreeLife ==
  ASSUME TInv, CoreInv, LifeInv, Discipline, NEW t \in Thread, NEW w \in WaitList,
         WakeFree(t, w)
  PROVE  LifeInv'
BY FreedLife, DequeueWalksOn DEF WakeFree, LifeInv

\* thread_exit() and SYS_KILL read the core number, which is not used yet.
LEMMA ReadLife ==
  ASSUME TInv, CoreInv, LifeInv, Discipline, NEW t \in Thread, NEW v \in Thread,
         ExitRead(t) \/ KillRead(t, v)
  PROVE  LifeInv'
<1>1. /\ Executing(t) /\ pc[t] = "run" /\ tstate[t] = "running" /\ ~Waits(t) /\ tcb_used[t]
  BY DEF ExitRead, KillRead, Enters, LifeInv, Lives, Life
<1>2. /\ UNCHANGED <<tstate, tcb_used, kill_pending, ready_queues, current_tcb, waiters, spin>>
      /\ \A x : Waits(x)' <=> Waits(x)
      /\ \A x : Queued(x)' <=> Queued(x)
      /\ \A x : Executing(x)' <=> Executing(x)
  BY DEF ExitRead, KillRead, Waits, Queued, Executing
<1>3. \/ "exit" \in Calls[t] /\ pc' = [pc EXCEPT ![t] = "exit"] /\ tgt' = tgt
      \/ v \in Target /\ pc' = [pc EXCEPT ![t] = "kill"]
           /\ tgt' = [tgt EXCEPT ![t] = v]
  BY DEF ExitRead, KillRead, Enters, Goto
<1>4. \A x : (InHand(x)' <=> InHand(x)) /\ (Doomed(x)' <=> Doomed(x))
  BY <1>1, <1>3 DEF InHand, Doomed, TInv, TypeOK
<1>5. Lists'
  BY <1>2 DEF LifeInv, Lists
<1>6. Places'
  BY <1>1, <1>2, <1>3 DEF LifeInv, Places, TInv, TypeOK, IrqOff
<1>7. Hands'
  BY <1>1, <1>2, <1>3 DEF LifeInv, Hands, Waker, Freer, TInv, TypeOK
<1>8. Births'
  BY <1>1, <1>2, <1>3 DEF LifeInv, Births, TInv, TypeOK
<1>9. Lives'
  BY <1>1, <1>2, <1>3, <1>4 DEF LifeInv, Lives, Life, Found, TInv, TypeOK
<1>10. Cores'
  BY <1>2 DEF LifeInv, Cores, Fits
<1>11. Locked'
  BY <1>2, <1>3, LockedSame DEF LifeInv, TInv, TypeOK
<1>. QED BY <1>5, <1>6, <1>7, <1>8, <1>9, <1>10, <1>11 DEF LifeInv

\* thread_exit() marks its own thread.
LEMMA ExitMarkLife ==
  ASSUME TInv, CoreInv, LifeInv, Discipline, NEW t \in Thread, ExitMark(t)
  PROVE  LifeInv'
<1>1. /\ Executing(t) /\ pc[t] = "exit" /\ tstate[t] = "running" /\ ~Waits(t) /\ tcb_used[t]
      /\ "exit" \in Calls[t]
  BY DEF ExitMark, At, LifeInv, Lives, Life, Places
<1>2. current_tcb[core[t]] = t
  BY <1>1 DEF Discipline, Unmoved
<1>3. /\ tstate' = [tstate EXCEPT ![t] = "zombie"] /\ pc' = [pc EXCEPT ![t] = "dead"]
      /\ UNCHANGED <<tcb_used, kill_pending, ready_queues, current_tcb, waiters, spin, tgt, core>>
      /\ \A x : Waits(x)' <=> Waits(x)
      /\ \A x : Queued(x)' <=> Queued(x)
      /\ \A x : Executing(x)' <=> Executing(x)
  BY <1>2 DEF ExitMark, Goto, Waits, Queued, Executing
<1>4. \A x : (InHand(x)' <=> InHand(x)) /\ (Doomed(x)' <=> Doomed(x))
  BY <1>1, <1>3 DEF InHand, Doomed, TInv, TypeOK
<1>5. Lists'
  BY <1>3 DEF LifeInv, Lists
<1>6. Places'
  BY <1>1, <1>3 DEF LifeInv, Places, TInv, TypeOK, IrqOff
<1>7. Hands'
  BY <1>1, <1>3 DEF LifeInv, Hands, Waker, Freer, TInv, TypeOK, HasTarget
<1>8. Births'
  BY <1>1, <1>3 DEF LifeInv, Births, TInv, TypeOK, HasTarget
<1>9. Lives'
  BY <1>1, <1>3, <1>4 DEF LifeInv, Lives, Life, Found, TInv, TypeOK
<1>10. Cores'
  BY <1>1, <1>3, IdleAssumption DEF LifeInv, Cores, Fits, TInv, TypeOK
<1>11. Locked'
  BY <1>1, <1>3 DEF LifeInv, Locked, Holds, TInv, TypeOK
<1>. QED BY <1>5, <1>6, <1>7, <1>8, <1>9, <1>10, <1>11 DEF LifeInv

\* sched_kill(): a victim on the other core is left to its switch, a blocked one
\* to its waker, any other to the killer; who kills himself is left to his switch.
LEMMA KillMarkLife ==
  ASSUME TInv, CoreInv, LifeInv, Discipline, NEW t \in Thread, KillMark(t)
  PROVE  LifeInv'
<1>1. /\ Executing(t) /\ pc[t] = "kill" /\ tstate[t] = "running" /\ ~Waits(t) /\ tcb_used[t]
      /\ tgt[t] \in Target
  BY DEF KillMark, At, LifeInv, Lives, Life, Places
<1>2. PICK v \in Thread : v = tgt[t]
  BY <1>1 DEF TInv, HasTarget
<1>3. v \in Target
  BY <1>1, <1>2
<1>4. /\ current_tcb[core[t]] = t
      /\ v # t => (RunsElsewhere(v, core[t]) <=> Executing(v))
  <2>1. current_tcb[core[t]] = t /\ core[t] \in Core
    BY <1>1 DEF Discipline, Unmoved, TInv, TypeOK
  <2>2. \A c \in Core : c = core[t] \/ c = Other(core[t])
    BY <2>1 DEF Core, Other
  <2>3. Other(core[t]) \in Core
    BY <2>1 DEF Core, Other
  <2>. QED BY <2>1, <2>2, <2>3 DEF RunsElsewhere, Executing
\* Nobody fills a slot meanwhile.
<1>5. \A k \in Thread : pc[k] \notin {"scanned", "claimed"}
  BY <1>1 DEF Discipline, OneAtATime
<1>6. /\ UNCHANGED <<tcb_used, current_tcb, waiters, spin, core>>
      /\ \A x : Waits(x)' <=> Waits(x)
      /\ \A x : Executing(x)' <=> Executing(x)
  BY DEF KillMark, Waits, Executing
<1>7. \E l \in {"killfree", "run", "yield"} : pc' = [pc EXCEPT ![t] = l]
  BY <1>2 DEF KillMark, Goto
<1>8. Births'
  BY <1>1, <1>5, <1>7 DEF Births, TInv, TypeOK
<1>9. Locked'
  BY <1>6, <1>7, LockedSame DEF LifeInv, TInv, TypeOK
<1>10. CASE v # t /\ Executing(v)
  <2>1. /\ UNCHANGED tstate /\ UNCHANGED ready_queues
        /\ kill_pending' = [kill_pending EXCEPT ![v] = TRUE]
        /\ tgt' = [tgt EXCEPT ![t] = Null] /\ pc' = [pc EXCEPT ![t] = "run"]
    <3>1. /\ tstate' = [tstate EXCEPT ![v] = tstate[v]]
          /\ kill_pending' = [kill_pending EXCEPT ![v] = kill_pending[v] \/ TRUE]
          /\ ready_queues' = ready_queues
          /\ tgt' = [tgt EXCEPT ![t] = Null] /\ pc' = [pc EXCEPT ![t] = "run"]
      BY <1>2, <1>3, <1>4, <1>10 DEF KillMark, Goto
    <3>. QED BY <3>1 DEF TInv, TypeOK
  <2>2. \A x : Queued(x)' <=> Queued(x)
    BY <2>1 DEF Queued
  <2>3. \A x : (InHand(x)' <=> InHand(x)) /\ (Doomed(x)' <=> Doomed(x))
    BY <1>1, <2>1 DEF InHand, Doomed, TInv, TypeOK
  <2>4. Lists'
    BY <1>6, <2>1 DEF LifeInv, Lists
  <2>5. Places'
    BY <1>1, <1>6, <2>1 DEF LifeInv, Places, TInv, TypeOK, IrqOff
  <2>6. Hands'
    BY <1>1, <1>6, <2>1 DEF LifeInv, Hands, Waker, Freer, TInv, TypeOK
  <2>7. \A x \in Thread : x # v => (kill_pending'[x] <=> kill_pending[x])
    BY <2>1 DEF TInv, TypeOK
  <2>8. Lives'
    BY <1>1, <1>3, <1>6, <1>10, <2>1, <2>2, <2>3, <2>7 DEF LifeInv, Lives, Life, Found, TInv, TypeOK
  <2>9. Cores'
    BY <1>6, <2>1, <2>2 DEF LifeInv, Cores, Fits
  <2>. QED BY <1>8, <1>9, <2>4, <2>5, <2>6, <2>8, <2>9 DEF LifeInv
<1>11. CASE v # t /\ ~Executing(v) /\ ~Unlisted(v)
  <2>1. /\ tstate' = [tstate EXCEPT ![v] = "zombie"]
        /\ UNCHANGED kill_pending /\ UNCHANGED ready_queues
        /\ tgt' = [tgt EXCEPT ![t] = Null] /\ pc' = [pc EXCEPT ![t] = "run"]
    <3>1. /\ tstate' = [tstate EXCEPT ![v] = "zombie"]
          /\ kill_pending' = [kill_pending EXCEPT ![v] = kill_pending[v] \/ FALSE]
          /\ ready_queues' = ready_queues
          /\ tgt' = [tgt EXCEPT ![t] = Null] /\ pc' = [pc EXCEPT ![t] = "run"]
      BY <1>2, <1>3, <1>4, <1>11 DEF KillMark, Goto
    <3>2. (kill_pending[v] \/ FALSE) = kill_pending[v]
      BY DEF TInv, TypeOK
    <3>. QED BY <3>1, <3>2, Zenon DEF TInv, TypeOK
  <2>2. tstate[v] \in {"blocked", "zombie"}
    BY <1>11 DEF Unlisted
  <2>3. \A x : Queued(x)' <=> Queued(x)
    BY <2>1 DEF Queued
  <2>4. \A x : (InHand(x)' <=> InHand(x)) /\ (Doomed(x)' <=> Doomed(x))
    BY <1>1, <2>1 DEF InHand, Doomed, TInv, TypeOK
  <2>5. Lists'
    BY <1>6, <2>1 DEF LifeInv, Lists
  <2>6. Places'
    BY <1>1, <1>6, <2>1 DEF LifeInv, Places, TInv, TypeOK, IrqOff
  <2>7. Hands'
    BY <1>1, <1>6, <1>11, <2>1 DEF LifeInv, Hands, Waker, Freer, TInv, TypeOK, HasTarget
  <2>8. Lives'
    BY <1>1, <1>3, <1>6, <1>11, <2>1, <2>2, <2>3, <2>4 DEF LifeInv, Lives, Life, Found, TInv, TypeOK
  <2>9. Cores'
    BY <1>3, <1>6, <2>1, <2>3, IdleAssumption DEF LifeInv, Cores, Fits, TInv, TypeOK
  <2>. QED BY <1>8, <1>9, <2>5, <2>6, <2>7, <2>8, <2>9 DEF LifeInv
<1>12. CASE v # t /\ ~Executing(v) /\ Unlisted(v)
  <2>1. /\ tstate' = [tstate EXCEPT ![v] = "zombie"]
        /\ UNCHANGED kill_pending
        /\ ready_queues' = RemoveReady(ready_queues, v)
        /\ tgt' = [tgt EXCEPT ![t] = v] /\ pc' = [pc EXCEPT ![t] = "killfree"]
    <3>1. /\ tstate' = [tstate EXCEPT ![v] = "zombie"]
          /\ kill_pending' = [kill_pending EXCEPT ![v] = kill_pending[v] \/ FALSE]
          /\ ready_queues' = RemoveReady(ready_queues, v)
          /\ tgt' = [tgt EXCEPT ![t] = v] /\ pc' = [pc EXCEPT ![t] = "killfree"]
      BY <1>2, <1>3, <1>4, <1>12 DEF KillMark, Goto
    <3>2. (kill_pending[v] \/ FALSE) = kill_pending[v]
      BY DEF TInv, TypeOK
    <3>. QED BY <3>1, <3>2, Zenon DEF TInv, TypeOK
  \* It is in no waiter list and in nobody's hands.
  <2>2. tstate[v] \notin {"blocked", "zombie"} /\ ~Waits(v)
    BY <1>12 DEF Unlisted, LifeInv, Lives, Life, Places, IrqOff
  <2>3. \A k \in Thread : Freer(k) => tgt[k] # v
    BY <2>2 DEF LifeInv, Hands, Waker, Freer
  <2>4. QueueOK(ready_queues') /\ \A x : Queued(x)' <=> Queued(x) /\ x # v
    BY <2>1, RemoveQueued DEF LifeInv
  <2>5. \A x : (InHand(x)' <=> InHand(x)) /\ (Doomed(x)' <=> Doomed(x) \/ x = v)
    <3>1. \A x : InHand(x)' <=> InHand(x)
      BY <1>1, <2>1 DEF InHand, TInv, TypeOK
    <3>2. \A x : Doomed(x)' <=> Doomed(x) \/ x = v
      BY <1>1, <2>1 DEF Doomed, TInv, TypeOK
    <3>. QED BY <3>1, <3>2
  <2>6. Lists'
    BY <1>6, <2>4 DEF LifeInv, Lists
  <2>7. Places'
    BY <1>1, <1>3, <1>6, <2>1 DEF LifeInv, Places, TInv, TypeOK, IrqOff
  <2>8. Hands'
    BY <1>1, <1>6, <1>12, <2>1, <2>2, <2>3 DEF LifeInv, Hands, Waker, Freer, TInv, TypeOK, HasTarget
  <2>9. Lives'
    BY <1>1, <1>3, <1>6, <1>12, <2>1, <2>2, <2>4, <2>5 DEF LifeInv, Lives, Life, Found, TInv, TypeOK
  <2>10. Cores'
    BY <1>3, <1>6, <2>1, <2>4, IdleAssumption DEF LifeInv, Cores, Fits, TInv, TypeOK
  <2>. QED BY <1>8, <1>9, <2>6, <2>7, <2>8, <2>9, <2>10 DEF LifeInv
<1>13. CASE v = t
  <2>1. /\ tstate' = [tstate EXCEPT ![t] = "zombie"]
        /\ UNCHANGED kill_pending /\ UNCHANGED ready_queues
        /\ tgt' = [tgt EXCEPT ![t] = Null] /\ pc' = [pc EXCEPT ![t] = "yield"]
    <3>1. /\ tstate' = [tstate EXCEPT ![t] = "zombie"]
          /\ kill_pending' = [kill_pending EXCEPT ![t] = kill_pending[t] \/ FALSE]
          /\ ready_queues' = ready_queues
          /\ tgt' = [tgt EXCEPT ![t] = Null] /\ pc' = [pc EXCEPT ![t] = "yield"]
      BY <1>2, <1>4, <1>13 DEF KillMark, Goto
    <3>2. (kill_pending[t] \/ FALSE) = kill_pending[t]
      BY DEF TInv, TypeOK
    <3>. QED BY <3>1, <3>2, Zenon DEF TInv, TypeOK
  <2>2. \A x : Queued(x)' <=> Queued(x)
    BY <2>1 DEF Queued
  <2>3. \A x : (InHand(x)' <=> InHand(x)) /\ (Doomed(x)' <=> Doomed(x))
    BY <1>1, <2>1 DEF InHand, Doomed, TInv, TypeOK
  <2>4. \A k \in Thread : Freer(k) => tgt[k] # t
    BY <1>1 DEF LifeInv, Hands, Waker, Freer
  <2>5. Lists'
    BY <1>6, <2>1 DEF LifeInv, Lists
  <2>6. Places'
    BY <1>1, <1>6, <2>1 DEF LifeInv, Places, TInv, TypeOK, IrqOff
  <2>7. Hands'
    BY <1>1, <1>6, <2>1, <2>4 DEF LifeInv, Hands, Waker, Freer, TInv, TypeOK, HasTarget
  <2>8. Lives'
    BY <1>1, <1>6, <2>1, <2>2, <2>3 DEF LifeInv, Lives, Life, Found, TInv, TypeOK
  <2>9. Cores'
    BY <1>3, <1>6, <1>13, <2>1, <2>2, IdleAssumption DEF LifeInv, Cores, Fits, TInv, TypeOK
  <2>. QED BY <1>8, <1>9, <2>5, <2>6, <2>7, <2>8, <2>9 DEF LifeInv
<1>. QED BY <1>10, <1>11, <1>12, <1>13

\* task_kill_thread() frees the victim it was left with.
LEMMA KillFreeLife ==
  ASSUME TInv, CoreInv, LifeInv, Discipline, NEW t \in Thread, KillFree(t)
  PROVE  LifeInv'
<1>1. /\ Executing(t) /\ pc[t] = "killfree" /\ tstate[t] = "running" /\ ~Waits(t) /\ tcb_used[t]
      /\ tgt[t] \in Target
  BY DEF KillFree, At, LifeInv, Lives, Life, Places
<1>2. PICK z \in Thread : z = tgt[t]
  BY <1>1 DEF TInv, HasTarget
<1>3. /\ tstate[z] = "zombie" /\ ~Executing(z) /\ ~Waits(z) /\ z # t /\ ~Queued(z) /\ z \in Target
      /\ ~InHand(z) /\ pc[z] \notin {"killfree", "scanned", "claimed"} \union IrqOff
  <2>1. tstate[z] = "zombie" /\ ~Executing(z) /\ ~Waits(z) /\ z \in Target /\ z # t
    BY <1>1, <1>2 DEF LifeInv, Hands, Freer
  <2>2. ~InHand(z)
    BY <1>1, <1>2 DEF LifeInv, Hands, Freer, InHand
  <2>3. ~Queued(z)
    BY <2>1 DEF LifeInv, Lives, Life
  <2>4. pc[z] \notin {"killfree", "scanned", "claimed"} \union IrqOff
    BY <1>1, <2>1 DEF LifeInv, Places, Discipline, OneAtATime, KillersLive
  <2>. QED BY <2>1, <2>2, <2>3, <2>4
<1>4. \A k \in Thread : Freer(k) /\ k # t => tgt[k] # z
  BY <1>1, <1>2 DEF LifeInv, Hands, Freer
<1>5. /\ tstate' = [tstate EXCEPT ![z] = "new"]
      /\ tcb_used' = [tcb_used EXCEPT ![z] = FALSE]
      /\ kill_pending' = [kill_pending EXCEPT ![z] = FALSE]
      /\ tgt' = [tgt EXCEPT ![t] = Null, ![z] = Null]
      /\ pc' = [pc EXCEPT ![t] = "run", ![z] = "run"]
      /\ UNCHANGED <<ready_queues, current_tcb, waiters, spin, core>>
      /\ \A x : Waits(x)' <=> Waits(x)
      /\ \A x : Executing(x)' <=> Executing(x)
      /\ \A x : Queued(x)' <=> Queued(x)
  BY <1>2 DEF KillFree, FreeSlot, Waits, Executing, Queued
<1>6. \A x \in Thread : x # z =>
        /\ tstate'[x] = tstate[x] /\ (tcb_used'[x] <=> tcb_used[x])
        /\ (kill_pending'[x] <=> kill_pending[x])
  BY <1>5 DEF TInv, TypeOK
<1>7. tstate'[z] = "new" /\ ~tcb_used'[z] /\ ~kill_pending'[z]
  <2>1. tstate'[z] = "new"
    BY <1>5 DEF TInv, TypeOK
  <2>2. ~tcb_used'[z] /\ ~kill_pending'[z]
    BY <1>5, Zenon DEF TInv, TypeOK
  <2>. QED BY <2>1, <2>2
<1>8. /\ pc'[t] = "run" /\ pc'[z] = "run"
      /\ \A x \in Thread : x # z /\ x # t => pc'[x] = pc[x] /\ tgt'[x] = tgt[x]
  BY <1>5 DEF TInv, TypeOK
<1>9. \A x : InHand(x)' <=> InHand(x)
  BY <1>1, <1>3, <1>8 DEF InHand, IrqOff
<1>10. \A x : x # z => (Doomed(x)' <=> Doomed(x))
  BY <1>1, <1>2, <1>3, <1>8 DEF Doomed
<1>11. Lists'
  BY <1>5 DEF LifeInv, Lists
<1>12. Places'
  BY <1>1, <1>5, <1>8 DEF LifeInv, Places, IrqOff
<1>13. Hands'
  <2>1. \A k \in Thread : pc'[k] \in {"wake", "wakefree", "killfree"} =>
          k # t /\ k # z /\ pc'[k] = pc[k] /\ tgt'[k] = tgt[k] /\ tgt[k] \in Thread /\ tgt[k] # z
    <3> SUFFICES ASSUME NEW k \in Thread, pc'[k] \in {"wake", "wakefree", "killfree"}
                 PROVE  /\ k # t /\ k # z /\ pc'[k] = pc[k] /\ tgt'[k] = tgt[k]
                        /\ tgt[k] \in Thread /\ tgt[k] # z
      OBVIOUS
    <3>1. k # t /\ k # z
      BY <1>8
    <3>2. pc'[k] = pc[k] /\ tgt'[k] = tgt[k] /\ tgt[k] \in Thread
      BY <1>8, <3>1 DEF TInv, HasTarget
    <3>. QED BY <1>4, <3>1, <3>2 DEF Freer
  <2>3. \A k, l \in Thread : Freer(k)' /\ Freer(l)' /\ tgt'[k] = tgt'[l] => k = l
    BY <2>1 DEF LifeInv, Hands, Freer
  <2>4. \A k \in Thread : Freer(k)' =>
          ~Waits(tgt[k])' /\ (tstate'[tgt'[k]] = "zombie" => ~Executing(tgt[k])')
    <3> SUFFICES ASSUME NEW k \in Thread, Freer(k)'
                 PROVE  ~Waits(tgt[k])' /\ (tstate'[tgt'[k]] = "zombie" => ~Executing(tgt[k])')
      OBVIOUS
    <3>1. tgt'[k] = tgt[k] /\ tgt[k] \in Thread /\ tgt[k] # z /\ Freer(k)
      BY <2>1 DEF Freer
    <3>2. ~Waits(tgt[k]) /\ (tstate[tgt[k]] = "zombie" => ~Executing(tgt[k]))
      BY <3>1 DEF LifeInv, Hands
    <3>3. \A x : x = tgt[k] => ~Waits(x)' /\ (tstate'[x] = "zombie" => ~Executing(x)')
      BY <1>5, <1>6, <3>1, <3>2
    <3>. QED BY <3>1, <3>3
  <2>5. \A k \in Thread : Waker(k)' =>
          tcb_used'[tgt'[k]] /\ tstate'[tgt'[k]] \in {"blocked", "zombie"}
    BY <1>6, <2>1 DEF LifeInv, Hands, Waker
  <2>6. \A k \in Thread : pc'[k] \in {"wakefree", "killfree"} => tstate'[tgt'[k]] = "zombie"
    BY <1>6, <2>1 DEF LifeInv, Hands
  <2>. QED BY <2>3, <2>4, <2>5, <2>6 DEF Hands
<1>14. Births'
  <2> SUFFICES ASSUME NEW k \in Thread, pc'[k] \in {"scanned", "claimed"}
               PROVE  /\ pc'[k] = "scanned" => ~tcb_used'[tgt'[k]]
                      /\ pc'[k] = "claimed" => /\ tcb_used'[tgt'[k]] /\ tstate'[tgt'[k]] = "ready"
                                               /\ \A x : x = tgt'[k] => ~Queued(x) /\ ~Executing(x)
    BY <1>5 DEF Births
  <2>1. k # t /\ k # z
    BY <1>8
  <2>2. pc'[k] = pc[k] /\ tgt'[k] = tgt[k] /\ tgt[k] \in Thread
    BY <1>8, <2>1 DEF TInv, HasTarget
  <2>. QED BY <1>3, <1>6, <1>7, <2>2 DEF LifeInv, Births
<1>15. Lives'
  <2> SUFFICES ASSUME NEW x \in Thread PROVE Life(x)' /\ Found(x)'
    BY DEF Lives
  <2>1. Life(x) /\ Found(x)
    BY DEF LifeInv, Lives
  <2>2. x # z => Life(x)'
    BY <1>1, <1>5, <1>6, <1>8, <2>1 DEF Life
  <2>3. x # z => Found(x)'
    BY <1>5, <1>6, <1>9, <1>10, <2>1 DEF Found
  <2>4. x = z => Life(x)' /\ Found(x)'
    BY <1>3, <1>5, <1>7 DEF Life, Found
  <2>. QED BY <2>2, <2>3, <2>4
<1>16. Cores'
  <2>1. \A c \in Core : tstate'[IdleOf[c]] = tstate[IdleOf[c]]
    BY <1>3, <1>6, IdleAssumption DEF LifeInv, Cores
  <2>. QED BY <1>5, <2>1 DEF LifeInv, Cores, Fits
<1>17. Locked'
  BY <1>5, <1>8, LockedSame DEF LifeInv
<1>. QED BY <1>11, <1>12, <1>13, <1>14, <1>15, <1>16, <1>17 DEF LifeInv

\* While a thread fills a slot, nobody else creates, kills or frees.
LEMMA CreatesAlone ==
  ASSUME Discipline, NEW t \in Thread, pc[t] \in {"scanned", "claimed"}
  PROVE  /\ \A k \in Thread : pc[k] \in {"scanned", "claimed"} => k = t
         /\ \A k \in Thread : pc[k] \notin {"kill", "killfree"}
BY DEF Discipline, OneAtATime

\* A slot that is not in use is in no list, on no core and in nobody's hands.
LEMMA VacantLife ==
  ASSUME TInv, CoreInv, LifeInv, NEW x \in Thread, ~tcb_used[x]
  PROVE  /\ ~Executing(x) /\ ~Queued(x) /\ ~Waits(x) /\ ~InHand(x) /\ ~kill_pending[x]
         /\ tstate[x] = "new" \/ (tstate[x] = "zombie" /\ Doomed(x))
         /\ pc[x] \notin IrqOff
<1>1. ~InHand(x)
  BY DEF LifeInv, Hands, Waker, InHand
<1>2. tstate[x] \in State
  BY DEF TInv, TypeOK
<1>. QED BY <1>1, <1>2 DEF LifeInv, Lives, Life, Found, Places, State

\* task_create_thread(): the scan
LEMMA CreateScanLife ==
  ASSUME TInv, CoreInv, LifeInv, Discipline, NEW t \in Thread, NEW v \in Thread,
         CreateScan(t, v)
  PROVE  LifeInv'
<1>1. /\ Executing(t) /\ pc[t] = "run" /\ tstate[t] = "running" /\ ~Waits(t) /\ tcb_used[t]
      /\ ~tcb_used[v]
  BY DEF CreateScan, Enters, Vacant, LifeInv, Lives, Life
<1>2. /\ UNCHANGED <<tstate, tcb_used, kill_pending, ready_queues, current_tcb, waiters>>
      /\ UNCHANGED <<spin, core>>
      /\ pc' = [pc EXCEPT ![t] = "scanned"] /\ tgt' = [tgt EXCEPT ![t] = v]
      /\ \A x : Waits(x)' <=> Waits(x)
      /\ \A x : Queued(x)' <=> Queued(x)
      /\ \A x : Executing(x)' <=> Executing(x)
  BY DEF CreateScan, Goto, Waits, Queued, Executing
<1>3. \A x : (InHand(x)' <=> InHand(x)) /\ (Doomed(x)' <=> Doomed(x))
  BY <1>1, <1>2 DEF InHand, Doomed, TInv, TypeOK
<1>4. Lists'
  BY <1>2 DEF LifeInv, Lists
<1>5. Places'
  BY <1>1, <1>2 DEF LifeInv, Places, TInv, TypeOK, IrqOff
<1>6. Hands'
  BY <1>1, <1>2 DEF LifeInv, Hands, Waker, Freer, TInv, TypeOK
<1>7. Births'
  BY <1>1, <1>2 DEF LifeInv, Births, TInv, TypeOK
<1>8. Lives'
  BY <1>1, <1>2, <1>3 DEF LifeInv, Lives, Life, Found, TInv, TypeOK
<1>9. Cores'
  BY <1>2 DEF LifeInv, Cores, Fits
<1>10. Locked'
  BY <1>2, LockedSame DEF LifeInv, TInv, TypeOK
<1>. QED BY <1>4, <1>5, <1>6, <1>7, <1>8, <1>9, <1>10 DEF LifeInv

\* ... the claim
LEMMA CreateClaimLife ==
  ASSUME TInv, CoreInv, LifeInv, Discipline, NEW t \in Thread, CreateClaim(t)
  PROVE  LifeInv'
<1>1. /\ Executing(t) /\ pc[t] = "scanned" /\ tstate[t] = "running" /\ ~Waits(t) /\ tcb_used[t]
  BY DEF CreateClaim, At, LifeInv, Lives, Life, Places
<1>2. PICK n \in Thread : n = tgt[t]
  BY <1>1 DEF TInv, HasTarget
<1>3. n # t /\ ~tcb_used[n]
  BY <1>1, <1>2 DEF LifeInv, Births
<1>4. \A k \in Thread : k # t => pc[k] \notin {"scanned", "claimed", "kill", "killfree"}
  BY <1>1, CreatesAlone
<1>5. /\ ~Executing(n) /\ ~Queued(n) /\ ~Waits(n) /\ ~InHand(n) /\ ~Doomed(n) /\ ~kill_pending[n]
      /\ tstate[n] = "new" /\ pc[n] \notin IrqOff
  <2>1. ~Doomed(n)
    BY <1>1, <1>4 DEF Doomed
  <2>. QED BY <1>3, <2>1, VacantLife
<1>6. /\ tcb_used' = [tcb_used EXCEPT ![n] = TRUE]
      /\ tstate' = [tstate EXCEPT ![n] = "ready"]
      /\ kill_pending' = [kill_pending EXCEPT ![n] = FALSE]
      /\ pc' = [pc EXCEPT ![t] = "claimed", ![n] = "run"]
      /\ UNCHANGED <<ready_queues, current_tcb, waiters, spin, tgt, core>>
      /\ \A x : Waits(x)' <=> Waits(x)
      /\ \A x : Queued(x)' <=> Queued(x)
      /\ \A x : Executing(x)' <=> Executing(x)
  BY <1>2 DEF CreateClaim, Waits, Queued, Executing
<1>7. \A x \in Thread : x # n =>
        /\ tstate'[x] = tstate[x] /\ (tcb_used'[x] <=> tcb_used[x])
        /\ (kill_pending'[x] <=> kill_pending[x])
  BY <1>6 DEF TInv, TypeOK
<1>8. tstate'[n] = "ready" /\ tcb_used'[n] /\ ~kill_pending'[n]
  <2>1. tstate'[n] = "ready"
    BY <1>6 DEF TInv, TypeOK
  <2>2. tcb_used'[n] /\ ~kill_pending'[n]
    BY <1>6, Zenon DEF TInv, TypeOK
  <2>. QED BY <2>1, <2>2
<1>9. /\ pc'[t] = "claimed" /\ pc'[n] = "run"
      /\ \A x \in Thread : x # n /\ x # t => pc'[x] = pc[x]
  BY <1>3, <1>6 DEF TInv, TypeOK
<1>10. \A k \in Thread : Freer(k)' <=> Freer(k)
  BY <1>1, <1>4, <1>5, <1>9 DEF Freer, IrqOff
<1>11. \A k \in Thread : Freer(k) => tgt[k] # n
  BY <1>5 DEF Freer, InHand, Doomed
<1>12. \A x : (InHand(x)' <=> InHand(x)) /\ (Doomed(x)' <=> Doomed(x))
  <2>1. \A k \in Thread : pc'[k] = pc[k] \/ /\ pc[k] \notin {"wake", "wakefree", "killfree"}
                                            /\ pc'[k] \notin {"wake", "wakefree", "killfree"}
    BY <1>1, <1>3, <1>4, <1>5, <1>9 DEF IrqOff
  <2>. QED BY <1>6, <2>1 DEF InHand, Doomed
<1>13. Lists'
  BY <1>6 DEF LifeInv, Lists
<1>14. Places'
  BY <1>1, <1>6, <1>9 DEF LifeInv, Places, IrqOff
<1>15. Hands'
  <2>1. \A k \in Thread : Freer(k) => tgt[k] \in Thread /\ tstate'[tgt[k]] = tstate[tgt[k]]
                                      /\ (tcb_used'[tgt[k]] <=> tcb_used[tgt[k]])
    BY <1>7, <1>11 DEF Freer, TInv, HasTarget
  <2>2. \A k \in Thread : Freer(k)' => pc'[k] = pc[k]
    BY <1>9 DEF Freer
  <2>3. \A k \in Thread : Waker(k)' \/ pc'[k] \in {"wakefree", "killfree"} => Freer(k)'
    BY DEF Waker, Freer
  <2>4. \A k, l \in Thread : Freer(k)' /\ Freer(l)' /\ tgt'[k] = tgt'[l] => k = l
    BY <1>6, <1>10 DEF LifeInv, Hands
  <2>5. \A k \in Thread : Freer(k)' =>
          ~Waits(tgt[k])' /\ (tstate'[tgt'[k]] = "zombie" => ~Executing(tgt[k])')
    <3> SUFFICES ASSUME NEW k \in Thread, Freer(k)'
                 PROVE  ~Waits(tgt[k])' /\ (tstate'[tgt'[k]] = "zombie" => ~Executing(tgt[k])')
      OBVIOUS
    <3>1. ~Waits(tgt[k]) /\ (tstate[tgt[k]] = "zombie" => ~Executing(tgt[k]))
      BY <1>10 DEF LifeInv, Hands
    <3>2. \A x : x = tgt[k] => ~Waits(x)' /\ (tstate'[x] = "zombie" => ~Executing(x)')
      BY <1>6, <1>10, <2>1, <3>1
    <3>. QED BY <1>6, <3>2
  <2>6. \A k \in Thread : Waker(k)' =>
          tcb_used'[tgt'[k]] /\ tstate'[tgt'[k]] \in {"blocked", "zombie"}
    <3> SUFFICES ASSUME NEW k \in Thread, Waker(k)'
                 PROVE  tcb_used'[tgt[k]] /\ tstate'[tgt[k]] \in {"blocked", "zombie"}
      BY <1>6
    <3>1. Freer(k)' /\ Freer(k)
      BY <1>10, <2>3
    <3>2. Waker(k)
      BY <2>2, <3>1 DEF Waker
    <3>3. tcb_used[tgt[k]] /\ tstate[tgt[k]] \in {"blocked", "zombie"}
      BY <3>2 DEF LifeInv, Hands
    <3>. QED BY <2>1, <3>1, <3>3
  <2>7. \A k \in Thread : pc'[k] \in {"wakefree", "killfree"} => tstate'[tgt'[k]] = "zombie"
    BY <1>6, <1>10, <2>1, <2>2, <2>3 DEF LifeInv, Hands
  <2>. QED BY <2>4, <2>5, <2>6, <2>7 DEF Hands
<1>16. Births'
  <2>1. \A k \in Thread : pc'[k] \in {"scanned", "claimed"} => k = t
    BY <1>4, <1>9
  <2>. QED BY <1>2, <1>5, <1>6, <1>8, <1>9, <2>1 DEF Births
<1>17. Lives'
  <2> SUFFICES ASSUME NEW x \in Thread PROVE Life(x)' /\ Found(x)'
    BY DEF Lives
  <2>1. Life(x) /\ Found(x)
    BY DEF LifeInv, Lives
  <2>2. x # n => Life(x)'
    BY <1>1, <1>6, <1>7, <1>9, <2>1 DEF Life
  <2>3. x # n => Found(x)'
    BY <1>6, <1>7, <1>12, <2>1 DEF Found
  <2>4. x = n => Life(x)' /\ Found(x)'
    BY <1>5, <1>6, <1>8 DEF Life, Found
  <2>. QED BY <2>2, <2>3, <2>4
<1>18. Cores'
  <2>1. \A c \in Core : tstate'[IdleOf[c]] = tstate[IdleOf[c]]
    BY <1>5, <1>7, IdleAssumption DEF LifeInv, Cores
  <2>. QED BY <1>6, <2>1 DEF LifeInv, Cores, Fits
<1>19. Locked'
  BY <1>6, <1>9, LockedSame DEF LifeInv
<1>. QED BY <1>13, <1>14, <1>15, <1>16, <1>17, <1>18, <1>19 DEF LifeInv

\* ... no memory for the stack
LEMMA CreateFailLife ==
  ASSUME TInv, CoreInv, LifeInv, Discipline, NEW t \in Thread, CreateFail(t)
  PROVE  LifeInv'
<1>1. /\ Executing(t) /\ pc[t] = "scanned" /\ tstate[t] = "running" /\ ~Waits(t) /\ tcb_used[t]
      /\ tgt[t] \in Thread /\ ~tcb_used[tgt[t]]
  BY DEF CreateFail, At, LifeInv, Lives, Life, Births, TInv, HasTarget
<1>2. UNCHANGED tcb_used
  <2>1. tcb_used' = [tcb_used EXCEPT ![tgt[t]] = FALSE] /\ tcb_used[tgt[t]] = FALSE
    BY <1>1 DEF CreateFail, TInv, TypeOK
  <2>. QED BY <1>1, <2>1 DEF TInv, TypeOK
<1>3. /\ UNCHANGED <<tstate, kill_pending, ready_queues, current_tcb, waiters, spin, core>>
      /\ pc' = [pc EXCEPT ![t] = "run"] /\ tgt' = [tgt EXCEPT ![t] = Null]
      /\ \A x : Waits(x)' <=> Waits(x)
      /\ \A x : Queued(x)' <=> Queued(x)
      /\ \A x : Executing(x)' <=> Executing(x)
  BY DEF CreateFail, Goto, Waits, Queued, Executing
<1>4. \A x : (InHand(x)' <=> InHand(x)) /\ (Doomed(x)' <=> Doomed(x))
  BY <1>1, <1>3 DEF InHand, Doomed, TInv, TypeOK
<1>5. Lists'
  BY <1>3 DEF LifeInv, Lists
<1>6. Places'
  BY <1>1, <1>3 DEF LifeInv, Places, TInv, TypeOK, IrqOff
<1>7. Hands'
  BY <1>1, <1>2, <1>3 DEF LifeInv, Hands, Waker, Freer, TInv, TypeOK
<1>8. Births'
  BY <1>1, <1>2, <1>3 DEF LifeInv, Births, TInv, TypeOK
<1>9. Lives'
  BY <1>1, <1>2, <1>3, <1>4 DEF LifeInv, Lives, Life, Found, TInv, TypeOK
<1>10. Cores'
  BY <1>3 DEF LifeInv, Cores, Fits
<1>11. Locked'
  BY <1>3, LockedSame DEF LifeInv, TInv, TypeOK
<1>. QED BY <1>5, <1>6, <1>7, <1>8, <1>9, <1>10, <1>11 DEF LifeInv

\* ... sched_add_thread()
LEMMA CreatePublishLife ==
  ASSUME TInv, CoreInv, LifeInv, Discipline, NEW t \in Thread, CreatePublish(t)
  PROVE  LifeInv'
<1>1. /\ Executing(t) /\ pc[t] = "claimed" /\ tstate[t] = "running" /\ ~Waits(t) /\ tcb_used[t]
  BY DEF CreatePublish, At, LifeInv, Lives, Life, Places
<1>2. PICK n \in Thread : n = tgt[t]
  BY <1>1 DEF TInv, HasTarget
<1>3. tcb_used[n] /\ tstate[n] = "ready" /\ ~Queued(n) /\ ~Executing(n)
  BY <1>1, <1>2 DEF LifeInv, Births
<1>4. \A k \in Thread : k # t => pc[k] \notin {"scanned", "claimed"}
  BY <1>1, CreatesAlone
<1>5. /\ ready_queues' = AddReady(ready_queues, n)
      /\ UNCHANGED <<tstate, tcb_used, kill_pending, current_tcb, waiters, spin, core>>
      /\ pc' = [pc EXCEPT ![t] = "run"] /\ tgt' = [tgt EXCEPT ![t] = Null]
      /\ \A x : Waits(x)' <=> Waits(x)
      /\ \A x : Executing(x)' <=> Executing(x)
  BY <1>2 DEF CreatePublish, Goto, Waits, Executing
<1>6. QueueOK(ready_queues') /\ \A x : Queued(x)' <=> Queued(x) \/ x = n
  BY <1>3, <1>5, AddQueued DEF LifeInv
<1>7. \A x : (InHand(x)' <=> InHand(x)) /\ (Doomed(x)' <=> Doomed(x))
  BY <1>1, <1>5 DEF InHand, Doomed, TInv, TypeOK
<1>8. Lists'
  BY <1>5, <1>6 DEF LifeInv, Lists
<1>9. Places'
  BY <1>1, <1>5 DEF LifeInv, Places, TInv, TypeOK, IrqOff
<1>10. Hands'
  BY <1>1, <1>5 DEF LifeInv, Hands, Waker, Freer, TInv, TypeOK
<1>11. Births'
  BY <1>4, <1>5 DEF LifeInv, Births, TInv, TypeOK
<1>12. Lives'
  BY <1>1, <1>3, <1>5, <1>6, <1>7 DEF LifeInv, Lives, Life, Found, TInv, TypeOK
<1>13. Cores'
  BY <1>5, <1>6 DEF LifeInv, Cores, Fits
<1>14. Locked'
  BY <1>5, LockedSame DEF LifeInv, TInv, TypeOK
<1>. QED BY <1>8, <1>9, <1>10, <1>11, <1>12, <1>13, <1>14 DEF LifeInv

\* sched_next_thread() finds a thread if one can be found, and loses none.
LEMMA SelectFinds ==
  ASSUME TypeOK, NEW c \in Core, NEW st \in [Thread -> State],
         NEW rq \in [Prio -> Seq(Thread)], QueueOK(rq), Select(c, st, rq),
         NEW i, InQueue(rq, i), Eligible(i, c, st)
  PROVE  /\ QueueOK(ready_queues')
         /\ \A x : InQueue(ready_queues', x) <=> InQueue(rq, x)
         /\ \E n \in Thread : /\ Eligible(n, c, st) /\ InQueue(rq, n)
                              /\ current_tcb' = [current_tcb EXCEPT ![c] = n]
                              /\ tstate' = [st EXCEPT ![n] = "running"]
<1> DEFINE R(p) == Rotated(rq[p], current_tcb[c], st)
           some(q) == \E k \in 1..Len(q) : Eligible(q[k], c, st)
<1>1. \E p \in Prio : some(rq[p])
  <2>1. PICK p \in Prio : i \in Linked(rq[p])
    BY DEF InQueue
  <2>2. rq[p] \in Seq(Thread)
    OBVIOUS
  <2>3. \E k \in 1..Len(rq[p]) : rq[p][k] = i
    BY <2>1, <2>2, LinkedIndex
  <2>. QED BY <2>3
<1>2. PICK p \in Prio : \E k \in 1..Len(rq[p]) :
        /\ Eligible(R(p)[k], c, st)
        /\ ready_queues' = [rq EXCEPT ![p] = R(p)]
        /\ tstate' = [st EXCEPT ![R(p)[k]] = "running"]
        /\ current_tcb' = [current_tcb EXCEPT ![c] = R(p)[k]]
  BY <1>1 DEF Select
<1>3. PICK k \in 1..Len(rq[p]) :
        /\ Eligible(R(p)[k], c, st)
        /\ ready_queues' = [rq EXCEPT ![p] = R(p)]
        /\ tstate' = [st EXCEPT ![R(p)[k]] = "running"]
        /\ current_tcb' = [current_tcb EXCEPT ![c] = R(p)[k]]
  BY <1>2
<1>4. /\ QueueOK([rq EXCEPT ![p] = R(p)])
      /\ \A x : InQueue([rq EXCEPT ![p] = R(p)], x) <=> InQueue(rq, x)
  BY RotateReadyLinks
<1>5. rq[p] \in Seq(Thread) /\ IsInjective(rq[p])
  BY DEF QueueOK
<1>6. R(p) \in Seq(Thread) /\ Len(R(p)) = Len(rq[p]) /\ Linked(R(p)) = Linked(rq[p])
  BY <1>5, RotatedLinks
<1> DEFINE n == R(p)[k]
<1> HIDE DEF R
<1>7. n \in Thread /\ n \in Linked(R(p))
  <2>1. n \in Thread
    BY <1>6
  <2>. QED BY <1>6, <2>1, LinkedIndex
<1>8. InQueue(rq, n)
  BY <1>6, <1>7 DEF InQueue
<1>. QED BY <1>3, <1>4, <1>7, <1>8

\* The idle thread of a core can always take over there.
LEMMA IdleReady ==
  ASSUME TInv, CoreInv, LifeInv, NEW c \in Core,
         NEW i, i = IdleOf[c], NEW cur, cur = current_tcb[c]
  PROVE  /\ i \in Thread /\ Queued(i) /\ Fits(i, c) /\ i # current_tcb[Other(c)] /\ ~kill_pending[i]
         /\ i # cur => tstate[i] = "ready"
         /\ i = cur => LeavingState(cur) = "ready"
<1>1. /\ i \in Thread /\ Affinity[i] = c /\ i \notin Target
      /\ Queued(i) /\ tstate[i] \in {"ready", "running"}
  BY IdleAssumption DEF LifeInv, Cores
<1>2. Other(c) \in Core /\ Other(c) # c /\ Core = {c, Other(c)}
  BY DEF Other, Core
<1>3. i # current_tcb[Other(c)]
  BY <1>1, <1>2 DEF LifeInv, Cores, Fits, Core, AnyCore
<1>4. ~kill_pending[i]
  BY <1>1 DEF LifeInv, Lives, Life
<1>5. i # cur => tstate[i] = "ready"
  BY <1>1, <1>2, <1>3 DEF CoreInv, RunningIsCurrent, Executing
<1>6. i = cur => LeavingState(cur) = "ready"
  BY <1>1, <1>4 DEF LeavingState
<1>. QED BY <1>1, <1>3, <1>4, <1>5, <1>6 DEF Fits

\* The whole switch: what becomes of the thread that leaves, and which comes.
LEMMA SwitchEffect ==
  ASSUME TInv, CoreInv, LifeInv, NEW c \in Core, SchedNext(c), NEW cur, cur = current_tcb[c]
  PROVE  \E n \in Thread :
           /\ n # current_tcb[Other(c)] /\ Fits(n, c) /\ Queued(n)
           /\ n # cur => tstate[n] = "ready"
           /\ n = cur => LeavingState(cur) = "ready" /\ ~Reaped(cur)
           /\ current_tcb' = [current_tcb EXCEPT ![c] = n]
           /\ tstate' = [[tstate EXCEPT ![cur] = IF Reaped(cur) THEN "new" ELSE LeavingState(cur)]
                           EXCEPT ![n] = "running"]
           /\ QueueOK(ready_queues')
           /\ \A x : Queued(x)' <=> Queued(x) /\ ~(Reaped(cur) /\ x = cur)
<1> DEFINE st == [tstate EXCEPT ![cur] = IF Reaped(cur) THEN "new" ELSE LeavingState(cur)]
           rq == IF Reaped(cur) THEN RemoveReady(ready_queues, cur) ELSE ready_queues
           i == IdleOf[c]
<1>1. cur \in Thread
  BY DEF TInv, TypeOK
<1>2. /\ i \in Thread /\ Queued(i) /\ Fits(i, c) /\ i # current_tcb[Other(c)] /\ ~kill_pending[i]
      /\ i # cur => tstate[i] = "ready"
      /\ i = cur => LeavingState(cur) = "ready"
  BY IdleReady
<1>3. LeavingState(cur) \in State
  BY <1>1 DEF LeavingState, TInv, TypeOK, State
<1>4. st \in [Thread -> State]
  BY <1>3 DEF TInv, TypeOK, State
<1>5. ready_queues \in [Prio -> Seq(Thread)] /\ QueueOK(ready_queues)
  BY DEF TInv, TypeOK, LifeInv, Lists
<1>6. rq \in [Prio -> Seq(Thread)]
  BY <1>1, <1>5, QueueType
<1>7. QueueOK(rq) /\ \A x : InQueue(rq, x) <=> InQueue(ready_queues, x) /\ ~(Reaped(cur) /\ x = cur)
  BY <1>1, <1>5, RemoveReadyLinks
<1>8. Select(c, st, rq)
  BY DEF SchedNext
<1>9. Reaped(cur) => LeavingState(cur) = "zombie"
  BY DEF Reaped
<1>10. \A x \in Thread : /\ x # cur => st[x] = tstate[x]
                         /\ st[cur] = IF Reaped(cur) THEN "new" ELSE LeavingState(cur)
  BY <1>1, <1>3 DEF TInv, TypeOK
<1> HIDE DEF st, rq, i
<1>11. Eligible(i, c, st)
  BY <1>2, <1>9, <1>10 DEF Eligible
<1>12. InQueue(rq, i)
  BY <1>2, <1>7, <1>9 DEF Queued, InQueue
<1>13. /\ QueueOK(ready_queues')
       /\ \A x : InQueue(ready_queues', x) <=> InQueue(rq, x)
       /\ \E n \in Thread : /\ Eligible(n, c, st) /\ InQueue(rq, n)
                            /\ current_tcb' = [current_tcb EXCEPT ![c] = n]
                            /\ tstate' = [st EXCEPT ![n] = "running"]
  BY <1>4, <1>6, <1>7, <1>8, <1>11, <1>12, SelectFinds DEF TInv
<1>14. \A x : Queued(x)' <=> Queued(x) /\ ~(Reaped(cur) /\ x = cur)
  BY <1>7, <1>13 DEF Queued, InQueue
<1>15. PICK n \in Thread : /\ Eligible(n, c, st) /\ InQueue(rq, n)
                           /\ current_tcb' = [current_tcb EXCEPT ![c] = n]
                           /\ tstate' = [st EXCEPT ![n] = "running"]
  BY <1>13
<1>16. /\ n # current_tcb[Other(c)] /\ Fits(n, c)
       /\ n # cur => tstate[n] = "ready"
       /\ n = cur => LeavingState(cur) = "ready" /\ ~Reaped(cur)
  BY <1>10, <1>15 DEF Eligible
<1>17. Queued(n)
  BY <1>7, <1>15 DEF Queued, InQueue
<1>. QED BY <1>13, <1>14, <1>15, <1>16, <1>17 DEF st

\* Where the outgoing thread resumes.
LEMMA SwitchPlace ==
  ASSUME TInv, NEW c \in Core, Slice(c) \/ Yield(c), NEW cur, cur = current_tcb[c]
  PROVE  \E l : /\ pc' = [pc EXCEPT ![cur] = l]
                /\ \/ l = pc[cur] /\ ~Reaped(cur)
                   \/ l = "run" /\ (Reaped(cur) \/ pc[cur] \in {"yield", "dead"})
BY DEF Slice, Yield, Goto

\* PendSV keeps the invariant: whoever is freed by the switch was left to it.
LEMMA SwitchLife ==
  ASSUME TInv, CoreInv, LifeInv, Discipline, NEW c \in Core, Slice(c) \/ Yield(c)
  PROVE  LifeInv'
<1>1. PICK cur \in Thread : cur = current_tcb[c]
  BY DEF TInv, TypeOK
<1>2. PICK o \in Thread : o = current_tcb[Other(c)]
  BY DEF TInv, TypeOK, Other, Core
<1>3. SchedNext(c) /\ pc[cur] \notin IrqOff
  BY <1>1 DEF Slice, Yield, IrqOff
<1>4. PICK n \in Thread :
           /\ n # o /\ Fits(n, c) /\ Queued(n)
           /\ n # cur => tstate[n] = "ready"
           /\ n = cur => LeavingState(cur) = "ready" /\ ~Reaped(cur)
           /\ current_tcb' = [current_tcb EXCEPT ![c] = n]
           /\ tstate' = [[tstate EXCEPT ![cur] = IF Reaped(cur) THEN "new" ELSE LeavingState(cur)]
                           EXCEPT ![n] = "running"]
           /\ QueueOK(ready_queues')
           /\ \A x : Queued(x)' <=> Queued(x) /\ ~(Reaped(cur) /\ x = cur)
  BY <1>1, <1>2, <1>3, SwitchEffect
<1>5. PICK l : /\ pc' = [pc EXCEPT ![cur] = l]
               /\ \/ l = pc[cur] /\ ~Reaped(cur)
                  \/ l = "run" /\ (Reaped(cur) \/ pc[cur] \in {"yield", "dead"})
  BY <1>1, SwitchPlace
<1>6. /\ kill_pending' = [kill_pending EXCEPT ![cur] = FALSE]
      /\ tcb_used' = [tcb_used EXCEPT ![cur] = tcb_used[cur] /\ ~Reaped(cur)]
      /\ tgt' = [tgt EXCEPT ![cur] = IF Reaped(cur) THEN Null ELSE @]
      /\ UNCHANGED <<waiters, spin, core>>
      /\ \A x : Waits(x)' <=> Waits(x)
  BY <1>1, <1>3 DEF SchedNext, Waits
<1>7. Executing(cur) /\ Executing(o) /\ cur # o
      /\ (\A x : Executing(x) <=> x = cur \/ x = o)
      /\ (\A x : Executing(x)' <=> x = n \/ x = o)
  <2>1. Other(c) \in Core /\ Other(c) # c /\ Core = {c, Other(c)}
    BY DEF Other, Core
  <2>2. cur # o
    BY <1>1, <1>2 DEF CoreInv, OneCore, Other, Core
  <2>3. current_tcb'[c] = n /\ current_tcb'[Other(c)] = o
    BY <1>2, <1>4, <2>1 DEF TInv, TypeOK
  <2>4. \A x : Executing(x) <=> x = cur \/ x = o
    BY <1>1, <1>2, <2>1 DEF Executing
  <2>5. \A x : Executing(x)' <=> x = n \/ x = o
    BY <2>1, <2>3 DEF Executing
  <2>. QED BY <2>2, <2>4, <2>5
<1>8. Life(cur) /\ Found(cur) /\ Life(n) /\ Found(n)
  BY DEF LifeInv, Lives
\* The thread that leaves.
<1>9. tstate[cur] = "zombie" => Reaped(cur)
  BY DEF Reaped, LeavingState
<1>10. ~Reaped(cur) => \/ LeavingState(cur) = "ready" /\ tstate[cur] \in {"ready", "running"}
                       \/ LeavingState(cur) = "zombie" /\ tstate[cur] = "blocked"
                       \/ /\ LeavingState(cur) = tstate[cur]
                          /\ tstate[cur] \in {"new", "sleeping", "blocked"}
  BY DEF Reaped, LeavingState, TInv, TypeOK, State
<1>11. Reaped(cur) => \/ tstate[cur] = "zombie" /\ pc[cur] \in {"yield", "dead"}
                      \/ /\ kill_pending[cur] /\ cur \in Target
                         /\ tstate[cur] \notin {"blocked", "zombie"}
  BY <1>7, <1>8 DEF Reaped, LeavingState, Life
<1>12. \A k \in Thread : Freer(k) => /\ tstate[tgt[k]] \in {"blocked", "zombie"}
                                     /\ tstate[tgt[k]] = "zombie" => ~Executing(tgt[k])
                                     /\ ~Waits(tgt[k])
                                     /\ tgt[k] \in Thread
  BY DEF LifeInv, Hands, Waker, Freer, TInv, HasTarget
<1>13. /\ tstate[cur] = "zombie" => ~Waits(cur)
       /\ tstate[cur] \notin {"blocked", "zombie"} => ~Waits(cur)
  BY <1>3, <1>7, <1>8 DEF Life, IrqOff
<1>14. Reaped(cur) => /\ ~Waits(cur)
                      /\ pc[cur] # "killfree"
                      /\ \A k \in Thread : Freer(k) => tgt[k] # cur
  <2>1. Reaped(cur) => ~Waits(cur) /\ \A k \in Thread : Freer(k) => tgt[k] # cur
    BY <1>7, <1>11, <1>12, <1>13
  <2>2. Reaped(cur) => pc[cur] # "killfree"
    BY <1>11 DEF Discipline, KillersLive
  <2>. QED BY <2>1, <2>2
\* The thread that comes.
<1>15. /\ ~Waits(n) /\ \A k \in Thread : Freer(k) => tgt[k] # n
       /\ tcb_used[n] /\ (n # cur => ~Executing(n) /\ ~kill_pending[n])
  <2>1. n # cur => ~Executing(n) /\ ~kill_pending[n] /\ tcb_used[n] /\ tstate[n] = "ready"
    BY <1>4, <1>7, <1>8 DEF Life
  <2>2. n = cur => tstate[n] \in {"ready", "running"} /\ ~Waits(n) /\ tcb_used[n]
    BY <1>4, <1>7, <1>8, <1>10, <1>13 DEF Life
  <2>3. n # cur => ~Waits(n)
    BY <1>8, <2>1 DEF Life, LifeInv, Places, IrqOff
  <2>4. tstate[n] \in {"ready", "running"}
    BY <2>1, <2>2
  <2>. QED BY <1>12, <2>1, <2>2, <2>3, <2>4
\* The values after the switch.
<1>16. \A x \in Thread : x # cur =>
          /\ pc'[x] = pc[x] /\ tgt'[x] = tgt[x]
          /\ (tcb_used'[x] <=> tcb_used[x]) /\ (kill_pending'[x] <=> kill_pending[x])
          /\ x # n => tstate'[x] = tstate[x]
  BY <1>4, <1>5, <1>6 DEF TInv, TypeOK
<1>17. /\ pc'[cur] = l /\ (~Reaped(cur) => tgt'[cur] = tgt[cur])
       /\ ~kill_pending'[cur] /\ (tcb_used'[cur] <=> tcb_used[cur] /\ ~Reaped(cur))
  <2>1. pc'[cur] = l /\ (~Reaped(cur) => tgt'[cur] = tgt[cur])
    BY <1>5, <1>6 DEF TInv, TypeOK
  <2>2. ~kill_pending'[cur] /\ (tcb_used'[cur] <=> tcb_used[cur] /\ ~Reaped(cur))
    BY <1>6, Zenon DEF TInv, TypeOK
  <2>. QED BY <2>1, <2>2
<1>18. /\ tstate'[n] = "running"
       /\ n # cur => tstate'[cur] = IF Reaped(cur) THEN "new" ELSE LeavingState(cur)
  BY <1>4 DEF TInv, TypeOK
<1>19. \A k \in Thread : \/ pc'[k] = pc[k] /\ tgt'[k] = tgt[k]
                         \/ pc'[k] = "run" /\ k = cur
                              /\ pc[k] \notin {"enqueued", "wake", "wakefree", "killfree"}
  BY <1>3, <1>5, <1>14, <1>16, <1>17 DEF IrqOff
<1>20. \A x \in Thread : (InHand(x) => InHand(x)') /\ (Doomed(x) => Doomed(x)')
  BY <1>19 DEF InHand, Doomed
<1>21. Lists'
  BY <1>4, <1>6 DEF LifeInv, Lists
<1>22. Places'
  <2> SUFFICES ASSUME NEW t \in Thread
               PROVE  /\ pc'[t] \in IrqOff => Executing(t)'
                      /\ pc'[t] = "enqueued" => Waits(t)' /\ "wait" \in Calls[t]
                      /\ pc'[t] = "exit" => "exit" \in Calls[t]
                      /\ pc'[t] \in {"kill", "killfree"} => tgt'[t] \in Target
    BY <1>6 DEF Places
  <2>1. pc'[t] = "run" \/ (pc'[t] = pc[t] /\ tgt'[t] = tgt[t])
    BY <1>19
  <2>2. pc'[t] \in IrqOff => pc[t] \in IrqOff /\ t # cur
    BY <1>3, <2>1, <1>19 DEF IrqOff
  <2>3. pc'[t] \in IrqOff => Executing(t)'
    BY <1>7, <2>2 DEF LifeInv, Places
  <2>. QED BY <1>6, <2>1, <2>3 DEF LifeInv, Places, IrqOff
<1>23. Hands'
  <2>1. \A k \in Thread : Freer(k)' => Freer(k) /\ pc'[k] = pc[k] /\ tgt'[k] = tgt[k]
    BY <1>19 DEF Freer
  <2>2. \A k \in Thread : Waker(k)' => Freer(k)' /\ Waker(k)
    BY <1>19 DEF Waker, Freer
  <2> SUFFICES ASSUME NEW k \in Thread
               PROVE  /\ Waker(k)' => /\ tcb_used'[tgt'[k]]
                                      /\ tstate'[tgt'[k]] \in {"blocked", "zombie"}
                      /\ pc'[k] \in {"wakefree", "killfree"} => tstate'[tgt'[k]] = "zombie"
                      /\ Freer(k)' => /\ ~Waits(tgt[k])'
                                      /\ tstate'[tgt'[k]] = "zombie" => ~Executing(tgt[k])'
                      /\ \A m \in Thread : Freer(k)' /\ Freer(m)' /\ tgt'[k] = tgt'[m] => k = m
    BY <2>1 DEF Hands, Executing, Waits
  <2>3. \A m \in Thread : Freer(k)' /\ Freer(m)' /\ tgt'[k] = tgt'[m] => k = m
    BY <2>1 DEF LifeInv, Hands
  <2>4. CASE ~Freer(k)'
    BY <2>2, <2>3, <2>4 DEF Freer
  <2>5. CASE Freer(k)'
    <3>1. PICK v \in Thread : v = tgt[k]
      BY <1>12, <2>1, <2>5
    <3>2. /\ v # n /\ ~Waits(v) /\ tstate[v] \in {"blocked", "zombie"}
          /\ (tstate[v] = "zombie" => ~Executing(v)) /\ (Reaped(cur) => v # cur)
      BY <1>12, <1>14, <1>15, <2>1, <2>5, <3>1
    <3>3. /\ Waker(k)' => tcb_used[v] /\ tstate[v] \in {"blocked", "zombie"}
          /\ pc'[k] \in {"wakefree", "killfree"} => tstate[v] = "zombie"
      BY <2>1, <2>2, <2>5, <3>1 DEF LifeInv, Hands
    <3>4. tstate'[v] = tstate[v] \/ (v = cur /\ tstate[v] = "blocked" /\ tstate'[v] = "zombie")
      BY <1>10, <1>16, <1>18, <3>2 DEF LeavingState
    <3>5. tcb_used[v] => tcb_used'[v]
      BY <1>16, <1>17, <3>2
    <3>6. ~Waits(v)'
      BY <1>6, <3>2
    <3>7. tstate'[v] = "zombie" => ~Executing(v)'
      BY <1>7, <3>2, <3>4
    <3>8. tgt'[k] = v
      BY <2>1, <2>5, <3>1
    <3>9. ~Waits(tgt[k])' /\ (tstate'[v] = "zombie" => ~Executing(tgt[k])')
      <4>1. \A x : x = v => ~Waits(x)' /\ (tstate'[v] = "zombie" => ~Executing(x)')
        BY <3>6, <3>7
      <4>. QED BY <3>8, <4>1 DEF Waits, Executing
    <3>. QED BY <2>3, <3>2, <3>3, <3>4, <3>5, <3>8, <3>9
  <2>. QED BY <2>4, <2>5
<1>24. Births'
  <2> SUFFICES ASSUME NEW k \in Thread, NEW v, v = tgt'[k]
               PROVE  /\ pc'[k] = "scanned" => ~tcb_used'[v]
                      /\ pc'[k] = "claimed" => /\ tcb_used'[v] /\ tstate'[v] = "ready"
                                               /\ ~Queued(v)' /\ ~Executing(v)'
    BY DEF Births, Queued, Executing
  <2>1. pc'[k] \in {"scanned", "claimed"} => pc[k] = pc'[k] /\ v = tgt[k] /\ v \in Thread
    BY <1>19 DEF TInv, HasTarget
  <2>2. pc'[k] = "scanned" => ~tcb_used[v] /\ v # cur
    BY <1>7, <1>8, <2>1 DEF LifeInv, Births, Life
  <2>3. pc'[k] = "claimed" => /\ tcb_used[v] /\ tstate[v] = "ready" /\ ~Queued(v) /\ ~Executing(v)
    BY <2>1 DEF LifeInv, Births
  <2>4. pc'[k] = "claimed" => v # cur /\ v # n /\ v # o
    BY <1>4, <1>7, <2>3
  <2>. QED BY <1>4, <1>7, <1>16, <2>1, <2>2, <2>3, <2>4
<1>25. Life(cur)' /\ Found(cur)'
  <2>1. CASE n = cur
    <3>1. ~Reaped(cur) /\ tstate'[cur] = "running" /\ tcb_used'[cur] /\ ~kill_pending'[cur]
      BY <1>4, <1>15, <1>17, <1>18, <2>1
    <3>2. ~Waits(cur)'
      BY <1>6, <1>15, <2>1
    <3>. QED BY <3>1, <3>2 DEF Life, Found
  <2>2. CASE n # cur /\ Reaped(cur)
    <3>1. /\ tstate'[cur] = "new" /\ ~kill_pending'[cur]
          /\ ~Executing(cur)' /\ ~Queued(cur)' /\ ~Waits(cur)'
      BY <1>4, <1>6, <1>7, <1>14, <1>17, <1>18, <2>2
    <3>. QED BY <3>1 DEF Life, Found
  <2>3. CASE n # cur /\ ~Reaped(cur)
    <3>1. /\ tstate'[cur] = LeavingState(cur) /\ ~Executing(cur)'
          /\ ~kill_pending'[cur] /\ tcb_used'[cur]
      BY <1>7, <1>8, <1>17, <1>18, <2>3 DEF Life
    <3>2. (Queued(cur)' <=> Queued(cur)) /\ (Waits(cur)' <=> Waits(cur))
      BY <1>4, <1>6, <2>3
    <3>3. Waits(cur) => tstate[cur] = "blocked"
      BY <1>9, <1>13, <2>3
    <3>4. Queued(cur) => tstate'[cur] = "ready"
      BY <1>8, <1>9, <1>10, <2>3, <3>1 DEF Life
    <3>5. tstate[cur] = "blocked" => tstate'[cur] \in {"blocked", "zombie"}
      BY <3>1, <1>10, <2>3
    <3>6. tstate'[cur] \in {"blocked", "zombie"} => tstate[cur] = "blocked"
      BY <3>1, <1>10, <2>3
    <3>7. Life(cur)'
      BY <3>1, <3>2, <3>3, <3>4, <3>5 DEF Life
    <3>8. Found(cur)'
      BY <1>8, <1>20, <3>1, <3>2, <3>6 DEF Found
    <3>. QED BY <3>7, <3>8
  <2>. QED BY <2>1, <2>2, <2>3
<1>26. n # cur => Life(n)' /\ Found(n)'
  <2> HAVE n # cur
  <2>1. tstate'[n] = "running" /\ tcb_used'[n] /\ ~kill_pending'[n]
    BY <1>15, <1>16, <1>18
  <2>2. ~Waits(n)'
    BY <1>6, <1>15
  <2>. QED BY <2>1, <2>2 DEF Life, Found
<1>27. \A x \in Thread : x # cur /\ x # n => Life(x)' /\ Found(x)'
  <2> TAKE x \in Thread
  <2> HAVE x # cur /\ x # n
  <2>1. /\ tstate'[x] = tstate[x] /\ pc'[x] = pc[x]
        /\ (tcb_used'[x] <=> tcb_used[x]) /\ (kill_pending'[x] <=> kill_pending[x])
    BY <1>16
  <2>2. /\ (Executing(x)' <=> Executing(x)) /\ (Queued(x)' <=> Queued(x))
        /\ (Waits(x)' <=> Waits(x))
    BY <1>4, <1>6, <1>7
  <2>3. Life(x) /\ Found(x)
    BY DEF LifeInv, Lives
  <2>4. Life(x)'
    BY <2>1, <2>2, <2>3 DEF Life
  <2>5. Found(x)'
    BY <1>20, <2>1, <2>2, <2>3 DEF Found
  <2>. QED BY <2>4, <2>5
<1>28. Lives'
  BY <1>25, <1>26, <1>27 DEF Lives
<1>29. Cores'
  <2> SUFFICES ASSUME NEW d \in Core, NEW i, i = IdleOf[d]
               PROVE  /\ Fits(current_tcb'[d], d)
                      /\ Queued(i)' /\ tstate'[i] \in {"ready", "running"}
    BY DEF Cores, Queued, Fits
  <2>1. Fits(current_tcb[d], d) /\ Queued(i) /\ tstate[i] \in {"ready", "running"}
    BY DEF LifeInv, Cores
  <2>2. Fits(current_tcb'[d], d)
    BY <1>4, <2>1 DEF TInv, TypeOK
  <2>3. i \in Thread /\ i \notin Target
    BY IdleAssumption
  <2>4. i = cur => ~Reaped(cur) /\ ~kill_pending[i]
    BY <1>11, <1>8, <2>1, <2>3 DEF Life
  <2>5. i = cur => LeavingState(cur) = "ready"
    BY <2>1, <2>4, <1>10
  <2>6. tstate'[i] \in {"ready", "running"}
    BY <1>16, <1>18, <2>1, <2>3, <2>4, <2>5
  <2>. QED BY <1>4, <2>1, <2>2, <2>4, <2>6
<1>30. Locked'
  <2>1. \A x \in Thread : pc'[x] = "enqueued" => pc[x] = "enqueued"
    BY <1>19
  <2>. QED BY <1>6, <2>1, LockedSame DEF LifeInv
<1>. QED BY <1>21, <1>22, <1>23, <1>24, <1>28, <1>29, <1>30 DEF LifeInv


\* What main() leaves to the schedulers.
LEMMA InitLife ==
  ASSUME Init
  PROVE  LifeInv
<1>1. PICK t0, t1 \in Thread :
         /\ BootPick(t0, 0, {}) /\ BootPick(t1, 1, {t0})
         /\ current_tcb = [c \in Core |-> IF c = 0 THEN t0 ELSE t1]
         /\ tstate = [t \in Thread |-> IF t \in {t0, t1} THEN "running"
                                       ELSE IF t \in Created THEN "ready" ELSE "new"]
  BY DEF Init
<1>2. /\ tcb_used = [t \in Thread |-> t \in Created]
      /\ kill_pending = [t \in Thread |-> FALSE]
      /\ ready_queues = InitialQueue
      /\ waiters = [w \in WaitList |-> <<>>]
      /\ pc = [t \in Thread |-> "run"]
  BY DEF Init
<1>3. \A t \in Thread : Queued(t) <=> t \in Created
  BY <1>2 DEF Queued, Created
<1>4. t0 \in Created /\ t1 \in Created /\ Fits(t0, 0) /\ Fits(t1, 1)
  <2>1. \A t, c, s : BootPick(t, c, s) => t \in Created /\ Fits(t, c)
    <3> SUFFICES ASSUME NEW t, NEW c, NEW s, BootPick(t, c, s)
                 PROVE  t \in Created /\ Fits(t, c)
      OBVIOUS
    <3>1. PICK p \in Prio : \E k \in 1..Len(InitialQueue[p]) : InitialQueue[p][k] = t /\ Fits(t, c)
      BY DEF BootPick
    <3>2. InitialQueue[p] \in Seq(Thread)
      BY SchedAssumption
    <3>3. t \in Linked(InitialQueue[p])
      BY <3>1, <3>2, LinkedIndex
    <3>. QED BY <3>1, <3>3 DEF Created
  <2>. QED BY <1>1, <2>1
<1>5. \A t \in Thread : Executing(t) <=> t \in {t0, t1}
  BY <1>1 DEF Executing, Core
<1>6. \A w \in WaitList : Linked(waiters[w]) = {}
  BY <1>2 DEF Linked, ToSet
<1>7. \A t \in Thread : ~Waits(t)
  BY <1>6 DEF Waits
<1>8. Lists
  <2>1. \A p \in Prio : /\ IsInjective(InitialQueue[p])
                        /\ \A x \in Linked(InitialQueue[p]) : Priority[x] = p
    <3> SUFFICES ASSUME NEW p \in Prio
                 PROVE  /\ IsInjective(InitialQueue[p])
                        /\ \A x \in Linked(InitialQueue[p]) : Priority[x] = p
      OBVIOUS
    <3>1. /\ InitialQueue[p] \in Seq(Thread)
          /\ \A t \in Linked(InitialQueue[p]) : Priority[t] = p
          /\ \A i, j \in 1..Len(InitialQueue[p]) :
                 InitialQueue[p][i] = InitialQueue[p][j] => i = j
      BY SchedAssumption
    <3>. QED BY <3>1, LinkedIndex
  <2>2. QueueOK(ready_queues)
    BY <1>2, <2>1 DEF QueueOK
  <2>3. \A w \in WaitList : IsInjective(waiters[w])
    BY <1>2 DEF IsInjective
  <2>4. WaitersOK(waiters)
    BY <1>6, <2>3 DEF WaitersOK
  <2>. QED BY <2>2, <2>4 DEF Lists
<1>9. Places /\ Hands /\ Births
  BY <1>2 DEF Places, Hands, Births, Waker, Freer, IrqOff
<1>10. Lives
  <2> SUFFICES ASSUME NEW x \in Thread PROVE Life(x) /\ Found(x)
    BY DEF Lives
  <2>1. /\ tstate[x] = IF x \in {t0, t1} THEN "running"
                       ELSE IF x \in Created THEN "ready" ELSE "new"
        /\ ~kill_pending[x] /\ pc[x] = "run"
    BY <1>1, <1>2
  <2>2. tcb_used[x] <=> x \in Created
    BY <1>2, Zenon
  <2>. QED BY <1>3, <1>4, <1>5, <1>7, <2>1, <2>2 DEF Life, Found
<1>11. Cores
  <2> SUFFICES ASSUME NEW c \in Core
               PROVE  /\ Fits(current_tcb[c], c)
                      /\ Queued(IdleOf[c]) /\ tstate[IdleOf[c]] \in {"ready", "running"}
    BY DEF Cores
  <2>1. IdleOf[c] \in Thread /\ IdleOf[c] \in Created
    BY IdleAssumption, IdlePriority DEF Created
  <2>2. Fits(current_tcb[c], c)
    BY <1>1, <1>4 DEF Core
  <2>. QED BY <1>1, <1>3, <2>1, <2>2
<1>12. Locked
  BY <1>6 DEF Locked
<1>. QED BY <1>8, <1>9, <1>10, <1>11, <1>12 DEF LifeInv

\* Every step of the scheduler keeps the invariant.
LEMMA NextLife ==
  ASSUME TInv, CoreInv, LifeInv, Discipline, [Next]_vars
  PROVE  LifeInv'
<1>1. CASE UNCHANGED vars
  <2>1. UNCHANGED <<spin, waiters, pc>>
    BY <1>1 DEF vars
  <2>2. Locked'
    BY <2>1, LockedSame DEF LifeInv
  <2>3. \A x : (Queued(x)' <=> Queued(x)) /\ (Waits(x)' <=> Waits(x))
               /\ (Executing(x)' <=> Executing(x)) /\ (InHand(x)' <=> InHand(x))
               /\ (Doomed(x)' <=> Doomed(x))
    BY <1>1 DEF vars, Queued, Waits, Executing, InHand, Doomed
  <2>4. Lists' /\ Places'
    BY <1>1, <2>3 DEF vars, LifeInv, Lists, Places
  <2>5. Hands' /\ Births'
    BY <1>1 DEF vars, LifeInv, Hands, Births, Waker, Freer, Queued, Waits, Executing
  <2>6. Lives'
    BY <1>1, <2>3 DEF vars, LifeInv, Lives, Life, Found
  <2>7. Cores'
    BY <1>1 DEF vars, LifeInv, Cores, Queued, Fits
  <2>. QED BY <2>2, <2>4, <2>5, <2>6, <2>7 DEF LifeInv
<1>2. ASSUME NEW c \in Core, Slice(c) \/ Yield(c) PROVE LifeInv'
  BY <1>2, SwitchLife
<1>3. ASSUME NEW t \in Thread, TickWake(t) PROVE LifeInv'
  BY <1>3, TickLife
<1>4. ASSUME NEW t \in Thread, Waiting(t) PROVE LifeInv'
  <2> PICK w \in WaitList :
        \/ WaitEnqueue(t, w) \/ WaitBlock(t, w)
        \/ WakeBegin(t, w)   \/ WakeUnblock(t, w)
        \/ WakeZombie(t, w)  \/ WakeFree(t, w)
    BY <1>4 DEF Waiting
  <2>. QED BY WaitEnqueueLife, WaitBlockLife, WakeBeginLife, WakeUnblockLife,
              WakeZombieLife, WakeFreeLife
<1>5. ASSUME NEW t \in Thread, Lifecycle(t) PROVE LifeInv'
  <2>1. ASSUME NEW v \in Thread, KillRead(t, v) PROVE LifeInv'
    BY <2>1, ReadLife
  <2>2. CASE ExitRead(t)
    BY <2>2, ReadLife
  <2>3. ASSUME NEW v \in Thread, CreateScan(t, v) PROVE LifeInv'
    BY <2>3, CreateScanLife
  <2>. QED BY <1>5, <2>1, <2>2, <2>3, SleepLife, ExitMarkLife, KillMarkLife, KillFreeLife,
              CreateClaimLife, CreateFailLife, CreatePublishLife DEF Lifecycle
<1>. QED BY <1>1, <1>2, <1>3, <1>4, <1>5 DEF Next, Interrupt

\* The invariant holds in every behaviour that keeps the discipline.
LEMMA SpecLife == Spec /\ []Discipline => [](TInv /\ CoreInv /\ LifeInv)
<1> DEFINE Inv == TInv /\ CoreInv /\ LifeInv
<1>1. Init => Inv
  BY InitTInv, InitCoreInv, InitLife
<1>2. Inv /\ Discipline /\ [Next]_vars => Inv'
  BY NextTInv, NextCoreInv, NextLife
<1>. QED BY <1>1, <1>2, PTL DEF Spec

-----------------------------------------------------------------------------
(* The theorems *)

\* Outside the windows of Discipline no list of the kernel holds a freed thread
\* or one thread twice, and a BLOCKED thread can always be found by a wake-up:
\* waiter_enqueue(), sched_block(), sched_unblock() and sched_kill() together.
THEOREM SchedListsSafe == Spec /\ []Discipline => []ListsSafe
<1>1. TInv /\ CoreInv /\ LifeInv => ListsSafe
  <2> SUFFICES ASSUME TInv, LifeInv PROVE ListsSafe
    OBVIOUS
  <2>1. \A t \in Thread : Queued(t) /\ Waits(t) => pc[t] = "enqueued"
    BY DEF LifeInv, Lives, Life
  <2>2. OneLink
    BY <2>1 DEF OneLink, LifeInv, Lists, QueueOK, WaitersOK
  <2>3. ASSUME NEW t \in Thread, Waits(t)
        PROVE  /\ tcb_used[t]
               /\ tstate[t] \in {"blocked", "zombie"} \/ (Executing(t) /\ pc[t] = "enqueued")
    BY <2>3 DEF LifeInv, Lives, Life, Places, IrqOff
  <2>4. ASSUME NEW t \in Thread, InHand(t)
        PROVE  tcb_used[t] /\ tstate[t] \in {"blocked", "zombie"}
    BY <2>4 DEF InHand, LifeInv, Hands, Waker
  <2>5. WaitersAlive
    BY <2>3, <2>4 DEF WaitersAlive
  <2>6. BlockedIsListed
    BY DEF BlockedIsListed, LifeInv, Lives, Found
  <2>. QED BY <2>2, <2>5, <2>6 DEF ListsSafe
<1>. QED BY <1>1, SpecLife, PTL

\* Nobody else frees x beside the one it was left to.
LEMMA OneReaper ==
  ASSUME TInv, CoreInv, LifeInv, NEW x \in Thread, tstate[x] = "zombie"
  PROVE  \E r : Reapers(x) = {r}
<1> DEFINE Wakers == {w \in WaitList : x \in Linked(waiters[w])}
           Holding == {k \in Thread : tgt[k] = x /\ Freer(k)}
           Switches == {c \in Core : current_tcb[c] = x}
<1>0. /\ \A a, b : {a} \X {b} = {<<a, b>>}
      /\ \A a : {a} \X {} = {}
      /\ \A A, B, D, r : /\ A = {r} /\ B = {} /\ D = {} => A \union B \union D = {r}
                         /\ B = {r} /\ A = {} /\ D = {} => A \union B \union D = {r}
                         /\ D = {r} /\ A = {} /\ B = {} => A \union B \union D = {r}
  OBVIOUS
<1>1. Reapers(x) =
        ({"switch"} \X Switches) \union ({"waker"} \X Wakers) \union ({"hand"} \X Holding)
  BY DEF Reapers, Freer
<1>2. /\ Executing(x) <=> Switches # {}
      /\ Waits(x) <=> Wakers # {}
      /\ (InHand(x) \/ Doomed(x)) <=> Holding # {}
  BY DEF Executing, Waits, InHand, Doomed, Freer
<1>3. Executing(x) \/ Waits(x) \/ InHand(x) \/ Doomed(x)
  BY DEF LifeInv, Lives, Found
<1>4. /\ Waits(x) => ~Executing(x)
      /\ Holding # {} => ~Executing(x) /\ ~Waits(x)
  BY DEF LifeInv, Lives, Life, Hands
<1>5. \A c, d \in Switches : c = d
  BY DEF CoreInv, OneCore, Core
<1>6. \A v, w \in Wakers : v = w
  BY DEF LifeInv, Lists, WaitersOK
<1>7. \A k, l \in Holding : k = l
  BY DEF LifeInv, Hands, Freer
<1> HIDE DEF Switches, Wakers, Holding
<1>8. CASE Executing(x)
  <2>1. PICK c : Switches = {c}
    BY <1>2, <1>5, <1>8
  <2>2. Wakers = {} /\ Holding = {}
    BY <1>2, <1>4, <1>8
  <2>3. {"switch"} \X Switches = {<<"switch", c>>}
    BY <1>0, <2>1
  <2>4. {"waker"} \X Wakers = {} /\ {"hand"} \X Holding = {}
    BY <1>0, <2>2
  <2>5. Reapers(x) = {<<"switch", c>>}
    BY <1>0, <1>1, <2>3, <2>4, Zenon
  <2>. QED BY <2>5
<1>9. CASE Waits(x)
  <2>1. PICK w : Wakers = {w}
    BY <1>2, <1>6, <1>9
  <2>2. Switches = {} /\ Holding = {}
    BY <1>2, <1>4, <1>9
  <2>3. {"waker"} \X Wakers = {<<"waker", w>>}
    BY <1>0, <2>1
  <2>4. {"switch"} \X Switches = {} /\ {"hand"} \X Holding = {}
    BY <1>0, <2>2
  <2>5. Reapers(x) = {<<"waker", w>>}
    BY <1>0, <1>1, <2>3, <2>4, Zenon
  <2>. QED BY <2>5
<1>10. CASE InHand(x) \/ Doomed(x)
  <2>1. PICK k : Holding = {k}
    <3>1. Holding # {}
      BY <1>2, <1>10
    <3>. QED BY <1>7, <3>1
  <2>2. Switches = {} /\ Wakers = {}
    BY <1>2, <1>4, <1>10
  <2>3. {"hand"} \X Holding = {<<"hand", k>>}
    BY <1>0, <2>1
  <2>4. {"switch"} \X Switches = {} /\ {"waker"} \X Wakers = {}
    BY <1>0, <2>2
  <2>5. Reapers(x) = {<<"hand", k>>}
    BY <1>0, <1>1, <2>3, <2>4, Zenon
  <2>. QED BY <2>5
<1>. QED BY <1>3, <1>8, <1>9, <1>10

\* Outside those windows no thread is freed while a core runs on its stack, and a
\* killed or exited thread has exactly one to free it: the switch, the waker or
\* the killer, whichever sched_kill() left it to.
THEOREM SchedFreedOnce == Spec /\ []Discipline => []FreedOnce
<1>1. TInv /\ CoreInv /\ LifeInv => FreedOnce
  <2> SUFFICES ASSUME TInv, CoreInv, LifeInv PROVE FreedOnce
    OBVIOUS
  <2>1. CurrentAlive
    BY DEF CurrentAlive, TInv, TypeOK, Executing, LifeInv, Lives, Life
  <2>2. ASSUME NEW x \in Thread, tstate[x] = "zombie"
        PROVE  Cardinality(Reapers(x)) = 1
    <3>1. PICK r : Reapers(x) = {r}
      BY <2>2, OneReaper
    <3>. QED BY <3>1, FS_Singleton
  <2>3. ZombieHasOneReaper
    BY <2>2 DEF ZombieHasOneReaper
  <2>. QED BY <2>1, <2>3 DEF FreedOnce
<1>. QED BY <1>1, SpecLife, PTL

\* One step of the kill: what KillIsFinal says of it.
KillEnds(t) ==
  /\ tstate[t] = "zombie" => tstate'[t] \in {"zombie", "new"}
  /\ kill_pending[t] /\ ~kill_pending'[t] => tstate'[t] \in {"zombie", "new"}

\* task_free_thread() zeroes the slot.
LEMMA FreeEnds ==
  ASSUME TInv, NEW v, FreeSlot(v)
  PROVE  \A x \in Thread : KillEnds(x)
<1>1. \A x \in Thread : tstate'[x] = tstate[x] \/ tstate'[x] = "new"
  BY DEF FreeSlot, TInv, TypeOK
<1>2. \A x \in Thread : tstate'[x] = "new" \/ (x # v /\ (kill_pending'[x] <=> kill_pending[x]))
  BY DEF FreeSlot, TInv, TypeOK
<1>. QED BY <1>1, <1>2 DEF KillEnds

\* No step of the scheduler revives the dead or forgets a pending kill.
LEMMA StepKillEnds ==
  ASSUME TInv, CoreInv, LifeInv, Discipline, [Next]_vars
  PROVE  \A x \in Thread : KillEnds(x)
<1> USE DEF KillEnds
<1>1. CASE UNCHANGED vars
  BY <1>1 DEF vars
<1>2. ASSUME NEW c \in Core, Slice(c) \/ Yield(c)
      PROVE  \A x \in Thread : KillEnds(x)
  <2>1. PICK cur \in Thread : cur = current_tcb[c]
    BY DEF TInv, TypeOK
  <2>2. SchedNext(c)
    BY <1>2 DEF Slice, Yield
  <2>3. PICK n \in Thread :
           /\ n # cur => tstate[n] = "ready"
           /\ n = cur => LeavingState(cur) = "ready" /\ ~Reaped(cur)
           /\ tstate' = [[tstate EXCEPT ![cur] = IF Reaped(cur) THEN "new" ELSE LeavingState(cur)]
                           EXCEPT ![n] = "running"]
    BY <2>1, <2>2, SwitchEffect
  <2>4. \A x \in Thread : x # cur => (kill_pending'[x] <=> kill_pending[x])
    BY <2>1, <2>2 DEF SchedNext, TInv, TypeOK
  <2>5. tstate[cur] = "zombie" \/ kill_pending[cur] => LeavingState(cur) = "zombie"
    BY DEF LeavingState
  <2>6. KillEnds(cur)
    BY <2>3, <2>5 DEF TInv, TypeOK
  <2>7. \A x \in Thread : x # cur => KillEnds(x)
    BY <2>3, <2>4 DEF TInv, TypeOK
  <2>. QED BY <2>6, <2>7
<1>3. ASSUME NEW t \in Thread, TickWake(t)
      PROVE  \A x \in Thread : KillEnds(x)
  BY <1>3 DEF TickWake, TInv, TypeOK
<1>4. ASSUME NEW t \in Thread, Waiting(t)
      PROVE  \A x \in Thread : KillEnds(x)
  <2> PICK w \in WaitList :
        \/ WaitEnqueue(t, w) \/ WaitBlock(t, w)
        \/ WakeBegin(t, w)   \/ WakeUnblock(t, w)
        \/ WakeZombie(t, w)  \/ WakeFree(t, w)
    BY <1>4 DEF Waiting
  <2>1. CASE WaitEnqueue(t, w) \/ WakeBegin(t, w) \/ WakeZombie(t, w)
    BY <2>1 DEF WaitEnqueue, WakeBegin, WakeZombie
  <2>2. CASE WaitBlock(t, w)
    <3>1. tstate[t] = "running"
      BY <2>2 DEF WaitBlock, At, LifeInv, Lives, Life
    <3>. QED BY <2>2, <3>1 DEF WaitBlock, TInv, TypeOK
  <2>3. CASE WakeUnblock(t, w)
    BY <2>3 DEF WakeUnblock, Dead, TInv, TypeOK
  <2>4. CASE WakeFree(t, w)
    BY <2>4, FreeEnds DEF WakeFree
  <2>. QED BY <2>1, <2>2, <2>3, <2>4
<1>5. ASSUME NEW t \in Thread, Lifecycle(t)
      PROVE  \A x \in Thread : KillEnds(x)
  <2>1. CASE Sleep(t)
    <3>1. tstate[t] = "running"
      BY <2>1 DEF Sleep, Enters, LifeInv, Lives, Life
    <3>. QED BY <2>1, <3>1 DEF Sleep, TInv, TypeOK
  <2>2. CASE ExitMark(t)
    BY <2>2 DEF ExitMark, TInv, TypeOK
  <2>3. CASE KillMark(t)
    <3>1. PICK v : v = tgt[t]
      OBVIOUS
    <3>2. \A x \in Thread : tstate'[x] = tstate[x] \/ tstate'[x] = "zombie"
      BY <2>3, <3>1 DEF KillMark, TInv, TypeOK
    <3>3. \A x \in Thread : kill_pending[x] => kill_pending'[x]
      <4>1. PICK b : kill_pending' = [kill_pending EXCEPT ![v] = kill_pending[v] \/ b]
        BY <2>3, <3>1 DEF KillMark
      <4>. QED BY <4>1, Zenon DEF TInv, TypeOK
    <3>. QED BY <3>2, <3>3
  <2>4. CASE KillFree(t)
    BY <2>4, FreeEnds DEF KillFree
  <2>5. CASE CreateClaim(t)
    <3>1. pc[t] = "scanned"
      BY <2>5 DEF CreateClaim, At
    <3>2. PICK v \in Thread : v = tgt[t]
      BY <2>5 DEF CreateClaim, At, TInv, HasTarget
    <3>3. ~tcb_used[v]
      BY <3>1, <3>2 DEF LifeInv, Births
    <3>4. ~Doomed(v)
      BY <3>1, CreatesAlone DEF Doomed
    <3>5. tstate[v] = "new" /\ ~kill_pending[v]
      BY <3>3, <3>4, VacantLife
    <3>6. \A x \in Thread : x # v =>
            tstate'[x] = tstate[x] /\ (kill_pending'[x] <=> kill_pending[x])
      BY <2>5, <3>2 DEF CreateClaim, TInv, TypeOK
    <3>. QED BY <3>5, <3>6
  <2>6. CASE UNCHANGED <<tstate, kill_pending>>
    BY <2>6
  <2>. QED BY <1>5, <2>1, <2>2, <2>3, <2>4, <2>5, <2>6
           DEF Lifecycle, ExitRead, KillRead, CreateScan, CreateFail, CreatePublish
<1>. QED BY <1>1, <1>2, <1>3, <1>4, <1>5 DEF Next, Interrupt

\* Outside the windows of Discipline a ZOMBIE is never made runnable or blocked
\* again, and a pending kill ends in ZOMBIE or in the free (sched_next_thread).
THEOREM SchedKillIsFinal == Spec /\ []Discipline => KillIsFinal
<1>1. (TInv /\ CoreInv /\ LifeInv) /\ Discipline /\ [Next]_vars
        => [\A t \in Thread :
              /\ tstate[t] = "zombie" => tstate'[t] \in {"zombie", "new"}
              /\ kill_pending[t] /\ ~kill_pending'[t] => tstate'[t] \in {"zombie", "new"}]_vars
  BY StepKillEnds DEF KillEnds
<1>. QED BY <1>1, SpecLife, PTL DEF Spec, KillIsFinal

-----------------------------------------------------------------------------
(* A READY thread can be found: what cutting a queue must not do *)

\* RUNNING threads stay in their ready queue; a switch makes them READY again.
Runnable == \A x \in Thread : tstate[x] \in {"ready", "running"} /\ ~Nascent(x) => Queued(x)

\* It is enough that a thread made runnable is queued and no queued one is lost.
LEMMA RunnableKept ==
  ASSUME Runnable,
         \A x \in Thread : tstate'[x] \in {"ready", "running"} =>
            \/ Queued(x)' \/ Nascent(x)'
            \/ /\ tstate[x] \in {"ready", "running"}
               /\ Queued(x) => Queued(x)'
               /\ Nascent(x) => Nascent(x)'
  PROVE  Runnable'
BY DEF Runnable

\* Only the creator's own step ends a birth, and a switch never frees it.
LEMMA NascentKept ==
  ASSUME NEW x, \A k \in Thread : pc[k] = "claimed" => pc'[k] = "claimed" /\ tgt'[k] = tgt[k]
  PROVE  Nascent(x) => Nascent(x)'
BY DEF Nascent

\* No other operation of the life cycle ends a birth either.
LEMMA LifecyclePlace ==
  ASSUME TInv, CoreInv, LifeInv, Discipline, NEW t \in Thread, Lifecycle(t), ~CreatePublish(t)
  PROVE  \A k \in Thread : pc[k] = "claimed" => pc'[k] = "claimed" /\ tgt'[k] = tgt[k]
<1>1. CASE KillFree(t)
  <2>1. PICK v \in Thread : v = tgt[t]
    BY <1>1 DEF KillFree, At, TInv, HasTarget
  <2>2. pc[t] = "killfree"
    BY <1>1 DEF KillFree, At
  <2>3. \A k \in Thread : pc[k] # "claimed"
    BY <2>2 DEF Discipline, OneAtATime
  <2>. QED BY <1>1, <2>1, <2>2, <2>3 DEF KillFree, TInv, TypeOK
<1>2. CASE CreateClaim(t)
  <2>1. \A k \in Thread : pc[k] # "claimed"
    BY <1>2, CreatesAlone DEF CreateClaim, At
  <2>. QED BY <2>1
<1>3. CASE ~KillFree(t) /\ ~CreateClaim(t)
  <2>1. pc[t] # "claimed"
    BY <1>3 DEF Lifecycle, Sleep, ExitRead, ExitMark, KillRead, KillMark, CreateScan,
                CreateFail, Enters, At
  <2>2. /\ \E l : pc' = [pc EXCEPT ![t] = l]
        /\ UNCHANGED tgt \/ \E z : tgt' = [tgt EXCEPT ![t] = z]
    BY <1>3 DEF Lifecycle, Sleep, ExitRead, ExitMark, KillRead, KillMark, CreateScan,
                CreateFail, Goto
  <2>. QED BY <2>1, <2>2 DEF TInv, TypeOK
<1>. QED BY <1>1, <1>2, <1>3

\* So a step keeps every runnable thread in its ready queue.
LEMMA NextRunnable ==
  ASSUME TInv, CoreInv, LifeInv, Runnable, Discipline, CreatorsLive, OwnQueue, [Next]_vars
  PROVE  Runnable'
<1>1. CASE UNCHANGED vars
  BY <1>1 DEF vars, Runnable, Queued, Nascent
<1>2. ASSUME NEW c \in Core, Slice(c) \/ Yield(c)
      PROVE  Runnable'
  <2>1. PICK cur \in Thread : cur = current_tcb[c] /\ Executing(cur)
    BY DEF TInv, TypeOK, Executing
  <2>2. SchedNext(c)
    BY <1>2 DEF Slice, Yield
  <2>3. PICK n \in Thread :
           /\ Queued(n)
           /\ n = cur => ~Reaped(cur)
           /\ tstate' = [[tstate EXCEPT ![cur] = IF Reaped(cur) THEN "new" ELSE LeavingState(cur)]
                           EXCEPT ![n] = "running"]
           /\ \A x : Queued(x)' <=> Queued(x) /\ ~(Reaped(cur) /\ x = cur)
    BY <2>1, <2>2, SwitchEffect
  <2>4. PICK l : /\ pc' = [pc EXCEPT ![cur] = l]
                 /\ \/ l = pc[cur] /\ ~Reaped(cur)
                    \/ l = "run" /\ (Reaped(cur) \/ pc[cur] \in {"yield", "dead"})
    BY <1>2, <2>1, SwitchPlace
  <2>5. tgt' = [tgt EXCEPT ![cur] = IF Reaped(cur) THEN Null ELSE @]
    BY <2>1, <2>2 DEF SchedNext
  <2>6. Reaped(cur) => pc[cur] # "claimed"
    <3>1. Reaped(cur) => kill_pending[cur] \/ tstate[cur] = "zombie"
      BY DEF Reaped, LeavingState
    <3>. QED BY <3>1 DEF CreatorsLive
  <2>7. \A k \in Thread : pc[k] = "claimed" => pc'[k] = "claimed" /\ tgt'[k] = tgt[k]
    BY <2>4, <2>5, <2>6 DEF TInv, TypeOK
  <2>8. \A x \in Thread : Nascent(x) => Nascent(x)'
    BY <2>7, NascentKept
  <2>9. \A x \in Thread : tstate'[x] \in {"ready", "running"} =>
           \/ Queued(x)'
           \/ tstate[x] \in {"ready", "running"} /\ ~(Reaped(cur) /\ x = cur)
    BY <2>3 DEF LeavingState, TInv, TypeOK
  <2>. QED BY <2>3, <2>8, <2>9, RunnableKept
<1>3. ASSUME NEW t \in Thread, TickWake(t)
      PROVE  Runnable'
  <2>1. ~Queued(t)
    BY <1>3 DEF TickWake, LifeInv, Lives, Life
  <2>2. \A x : Queued(x)' <=> Queued(x) \/ x = t
    BY <1>3, <2>1, AddQueued DEF TickWake, LifeInv
  <2>3. \A x \in Thread : Nascent(x) => Nascent(x)'
    BY <1>3 DEF TickWake, Nascent
  <2>. QED BY <1>3, <2>2, <2>3, RunnableKept DEF TickWake, TInv, TypeOK
<1>4. ASSUME NEW t \in Thread, Waiting(t)
      PROVE  Runnable'
  <2> PICK w \in WaitList :
        \/ WaitEnqueue(t, w) \/ WaitBlock(t, w)
        \/ WakeBegin(t, w)   \/ WakeUnblock(t, w)
        \/ WakeZombie(t, w)  \/ WakeFree(t, w)
    BY <1>4 DEF Waiting
  <2>1. \A k \in Thread : pc[k] = "claimed" => pc'[k] = "claimed" /\ tgt'[k] = tgt[k]
    BY DEF WaitEnqueue, WaitBlock, WakeBegin, WakeUnblock, WakeZombie, WakeFree, Dequeue,
           Goto, Enters, At, TInv, TypeOK
  <2>2. \A x \in Thread : Nascent(x) => Nascent(x)'
    BY <2>1, NascentKept
  <2>3. CASE WaitEnqueue(t, w)
    <3>1. \A x \in Thread : Queued(x) => Queued(x)'
      BY <2>3, CutQueued DEF WaitEnqueue, Enters, OwnQueue, LifeInv
    <3>. QED BY <2>2, <2>3, <3>1, RunnableKept DEF WaitEnqueue
  <2>4. CASE WaitBlock(t, w)
    <3>1. \A x : Queued(x)' <=> Queued(x) /\ x # t
      BY <2>4, RemoveQueued DEF WaitBlock, LifeInv
    <3>. QED BY <2>2, <2>4, <3>1, RunnableKept DEF WaitBlock, TInv, TypeOK
  <2>5. CASE WakeBegin(t, w) \/ WakeZombie(t, w)
    BY <2>2, <2>5, RunnableKept DEF WakeBegin, WakeZombie, Queued
  <2>6. CASE WakeUnblock(t, w)
    <3>1. PICK h \in Thread : h = tgt[t] /\ tstate[h] = "blocked"
      BY <2>6 DEF WakeUnblock, At, Dead, LifeInv, Hands, Waker, TInv, HasTarget
    <3>2. ~Queued(h)
      BY <3>1 DEF LifeInv, Lives, Life
    <3>3. \A x : Queued(x)' <=> Queued(x) \/ x = h
      BY <2>6, <3>1, <3>2, AddQueued DEF WakeUnblock, LifeInv
    <3>4. tstate' = [tstate EXCEPT ![h] = "ready"]
      BY <2>6, <3>1 DEF WakeUnblock
    <3>. QED BY <2>2, <3>3, <3>4, RunnableKept DEF TInv, TypeOK
  <2>7. CASE WakeFree(t, w)
    <3>1. \A x \in Thread : tstate'[x] \in {"ready", "running"} => tstate[x] = tstate'[x]
      BY <2>7 DEF WakeFree, FreeSlot, TInv, TypeOK
    <3>2. \A x : Queued(x)' <=> Queued(x)
      BY <2>7 DEF WakeFree, Queued
    <3>. QED BY <2>2, <3>1, <3>2, RunnableKept
  <2>. QED BY <2>3, <2>4, <2>5, <2>6, <2>7
<1>5. ASSUME NEW t \in Thread, Lifecycle(t)
      PROVE  Runnable'
  <2>1. CASE Sleep(t)
    <3>1. \A x : Queued(x)' <=> Queued(x) /\ x # t
      BY <2>1, RemoveQueued DEF Sleep, LifeInv
    <3>2. \A x \in Thread : Nascent(x) => Nascent(x)'
      BY <2>1, NascentKept DEF Sleep, Enters, Goto, TInv, TypeOK
    <3>. QED BY <2>1, <3>1, <3>2, RunnableKept DEF Sleep, TInv, TypeOK
  <2>2. CASE UNCHANGED <<tstate, ready_queues>> /\ ~CreatePublish(t)
    <3>1. \A k \in Thread : pc[k] = "claimed" => pc'[k] = "claimed" /\ tgt'[k] = tgt[k]
      BY <1>5, <2>2, LifecyclePlace
    <3>. QED BY <2>2, <3>1, NascentKept, RunnableKept DEF Queued
  <2>3. CASE ExitMark(t)
    <3>1. \A x \in Thread : Nascent(x) => Nascent(x)'
      BY <2>3, NascentKept DEF ExitMark, At, Goto, TInv, TypeOK
    <3>2. \A x \in Thread : tstate'[x] \in {"ready", "running"} => tstate[x] = tstate'[x]
      BY <2>3 DEF ExitMark, TInv, TypeOK
    <3>. QED BY <2>3, <3>1, <3>2, RunnableKept DEF ExitMark, Queued
  <2>4. CASE KillMark(t)
    <3>1. PICK v \in Thread : v = tgt[t]
      BY <2>4 DEF KillMark, At, TInv, HasTarget
    <3>2. \A x \in Thread : Nascent(x) => Nascent(x)'
      BY <2>4, NascentKept DEF KillMark, At, Goto, TInv, TypeOK
    <3>3. \/ UNCHANGED ready_queues
          \/ /\ ready_queues' = RemoveReady(ready_queues, v)
             /\ tstate' = [tstate EXCEPT ![v] = "zombie"]
      BY <2>4, <3>1 DEF KillMark
    <3>4. \A x \in Thread : tstate'[x] \in {"ready", "running"} => tstate[x] = tstate'[x]
      BY <2>4, <3>1 DEF KillMark, TInv, TypeOK
    <3>5. \A x \in Thread : Queued(x) => Queued(x)' \/ tstate'[x] = "zombie"
      <4>1. CASE UNCHANGED ready_queues
        BY <4>1 DEF Queued
      <4>2. CASE /\ ready_queues' = RemoveReady(ready_queues, v)
                 /\ tstate' = [tstate EXCEPT ![v] = "zombie"]
        <5>1. \A x : Queued(x)' <=> Queued(x) /\ x # v
          BY <4>2, RemoveQueued DEF LifeInv
        <5>. QED BY <4>2, <5>1 DEF TInv, TypeOK
      <4>. QED BY <3>3, <4>1, <4>2
    <3>. QED BY <3>2, <3>4, <3>5, RunnableKept
  <2>5. CASE KillFree(t)
    <3>1. \A x \in Thread : tstate'[x] \in {"ready", "running"} => tstate[x] = tstate'[x]
      BY <2>5 DEF KillFree, FreeSlot, TInv, TypeOK
    <3>2. \A k \in Thread : pc[k] = "claimed" => pc'[k] = "claimed" /\ tgt'[k] = tgt[k]
      BY <1>5, <2>5, LifecyclePlace DEF KillFree, CreatePublish, At
    <3>. QED BY <2>5, <3>1, <3>2, NascentKept, RunnableKept DEF KillFree, Queued
  <2>6. CASE CreateClaim(t)
    <3>1. PICK v \in Thread : v = tgt[t]
      BY <2>6 DEF CreateClaim, At, TInv, HasTarget
    <3>2. pc[t] = "scanned" /\ v # t
      BY <2>6, <3>1 DEF CreateClaim, At, LifeInv, Places, Births, Lives, Life
    <3>3. \A k \in Thread : pc[k] # "claimed"
      BY <3>2, CreatesAlone
    <3>4. Nascent(v)'
      BY <2>6, <3>1, <3>2 DEF CreateClaim, Nascent, TInv, TypeOK
    <3>5. \A x \in Thread : ~Nascent(x)
      BY <3>3 DEF Nascent
    <3>6. \A x \in Thread : (Queued(x)' <=> Queued(x)) /\ (x # v => tstate'[x] = tstate[x])
      BY <2>6, <3>1 DEF CreateClaim, Queued, TInv, TypeOK
    <3>. QED BY <3>4, <3>5, <3>6, RunnableKept
  <2>7. CASE CreatePublish(t)
    <3>1. PICK v \in Thread : v = tgt[t]
      BY <2>7 DEF CreatePublish, At, TInv, HasTarget
    <3>2. pc[t] = "claimed" /\ ~Queued(v)
      BY <2>7, <3>1 DEF CreatePublish, At, LifeInv, Places, Births
    <3>3. \A x : Queued(x)' <=> Queued(x) \/ x = v
      BY <2>7, <3>1, <3>2, AddQueued DEF CreatePublish, LifeInv
    <3>4. \A x \in Thread : Nascent(x) => x = v
      BY <3>1, <3>2, CreatesAlone DEF Nascent
    <3>. QED BY <2>7, <3>3, <3>4, RunnableKept DEF CreatePublish
  <2>. QED BY <1>5, <2>1, <2>2, <2>3, <2>4, <2>5, <2>6, <2>7
           DEF Lifecycle, ExitRead, KillRead, CreateScan, CreateFail
<1>. QED BY <1>1, <1>2, <1>3, <1>4, <1>5 DEF Next, Interrupt

\* Where no two waiting threads share a priority, sched_next_thread() can find
\* every READY thread; waiter_enqueue() is the one operation that could cut a
\* peer off its queue, and a killed creator the one way to leave a slot behind.
THEOREM SchedReadyIsQueued ==
  ASSUME OwnQueue
  PROVE  Spec /\ []Discipline /\ []CreatorsLive => []ReadyIsQueued
<1>1. Init => Runnable
  <2> SUFFICES ASSUME Init, NEW x \in Thread, tstate[x] \in {"ready", "running"} PROVE Queued(x)
    BY DEF Runnable
  <2>1. tcb_used[x]
    BY InitLife DEF LifeInv, Lives, Life
  <2>2. x \in Created
    BY <2>1, Zenon DEF Init
  <2>. QED BY <2>2 DEF Init, Created, Queued
<1>2. (TInv /\ CoreInv /\ LifeInv) /\ Discipline /\ CreatorsLive /\ Runnable /\ [Next]_vars
        => Runnable'
  BY NextRunnable
<1>3. Runnable => ReadyIsQueued
  BY DEF Runnable, ReadyIsQueued
<1>. QED BY <1>1, <1>2, <1>3, SpecLife, PTL DEF Spec

-----------------------------------------------------------------------------
(* Programs that keep the discipline by themselves *)

\* Where a program may be, and who may be a ZOMBIE.
InProgram == \A t \in Thread :
  /\ pc[t] \in {"kill", "killfree"} => "kill" \in Calls[t]
  /\ pc[t] \in {"scanned", "claimed"} => "create" \in Calls[t]
  /\ pc[t] \in {"exit", "kill"} => core[t] = Affinity[t]
  /\ tstate[t] = "zombie" => t \in Target \/ pc[t] = "dead"

\* A thread that may kill or exit executes on the core it is pinned to.
LEMMA PinnedHere ==
  ASSUME TInv, LifeInv, KillersPinned, NEW t \in Thread, Executing(t),
         Calls[t] \intersect {"kill", "exit"} # {}
  PROVE  current_tcb[Affinity[t]] = t /\ CoreOf(t) = Affinity[t]
<1>1. Affinity[t] \in Core
  BY DEF KillersPinned
<1>2. \A c \in Core : current_tcb[c] = t => c = Affinity[t]
  BY <1>1 DEF LifeInv, Cores, Fits, Core, AnyCore
<1>3. current_tcb[Affinity[t]] = t
  BY <1>2 DEF Executing
<1>. QED BY <1>1, <1>2, <1>3 DEF CoreOf

\* What such programs can do keeps to the discipline.
LEMMA CarefulKeeps ==
  ASSUME TInv, LifeInv, InProgram, Careful
  PROVE  Discipline /\ CreatorsLive
<1>1. Unmoved
  BY PinnedHere DEF Unmoved, InProgram, Careful, LifeInv, Places
<1>2. OneAtATime
  BY DEF OneAtATime, InProgram, Careful, CreatorAlone
<1>3. \A k \in Thread : pc[k] \in {"killfree", "claimed"} => k \notin Target
  BY DEF InProgram, Careful, TargetsPlain
<1>4. KillersLive /\ CreatorsLive
  BY <1>3 DEF KillersLive, CreatorsLive, InProgram, LifeInv, Lives, Life
<1>. QED BY <1>1, <1>2, <1>4 DEF Discipline

\* No step takes a thread out of its program.
LEMMA NextInProgram ==
  ASSUME TInv, CoreInv, LifeInv, InProgram, Careful, [Next]_vars
  PROVE  InProgram'
<1> USE DEF InProgram
<1>1. CASE UNCHANGED vars
  BY <1>1 DEF vars
<1>2. ASSUME NEW c \in Core, Slice(c) \/ Yield(c)
      PROVE  InProgram'
  <2>1. PICK cur \in Thread : cur = current_tcb[c] /\ Executing(cur)
    BY DEF TInv, TypeOK, Executing
  <2>2. SchedNext(c)
    BY <1>2 DEF Slice, Yield
  <2>3. PICK n \in Thread :
           /\ n = cur => ~Reaped(cur)
           /\ tstate' = [[tstate EXCEPT ![cur] = IF Reaped(cur) THEN "new" ELSE LeavingState(cur)]
                           EXCEPT ![n] = "running"]
    BY <2>1, <2>2, SwitchEffect
  <2>4. PICK l : /\ pc' = [pc EXCEPT ![cur] = l]
                 /\ \/ l = pc[cur] /\ ~Reaped(cur)
                    \/ l = "run" /\ (Reaped(cur) \/ pc[cur] \in {"yield", "dead"})
    BY <1>2, <2>1, SwitchPlace
  <2>5. UNCHANGED core
    BY <2>2 DEF SchedNext
  <2>6. ~Reaped(cur) /\ LeavingState(cur) = "zombie" => cur \in Target
    BY <2>1 DEF Reaped, LeavingState, LifeInv, Lives, Life
  <2>. QED BY <2>3, <2>4, <2>5, <2>6 DEF TInv, TypeOK
<1>3. ASSUME NEW t \in Thread, TickWake(t)
      PROVE  InProgram'
  BY <1>3 DEF TickWake, TInv, TypeOK
<1>4. ASSUME NEW t \in Thread, Waiting(t)
      PROVE  InProgram'
  <2> PICK w \in WaitList :
        \/ WaitEnqueue(t, w) \/ WaitBlock(t, w)
        \/ WakeBegin(t, w)   \/ WakeUnblock(t, w)
        \/ WakeZombie(t, w)  \/ WakeFree(t, w)
    BY <1>4 DEF Waiting
  <2>1. /\ UNCHANGED core /\ pc[t] # "dead"
        /\ \E l : l \in {"run", "yield"} \union IrqOff /\ pc' = [pc EXCEPT ![t] = l]
    BY DEF WaitEnqueue, WaitBlock, WakeBegin, WakeUnblock, WakeZombie, WakeFree, Dequeue,
           Goto, Enters, At, IrqOff
  <2>2. \A x \in Thread : tstate'[x] = "zombie" => tstate[x] = "zombie"
    BY DEF WaitEnqueue, WaitBlock, WakeBegin, WakeUnblock, WakeZombie, WakeFree, FreeSlot,
           TInv, TypeOK
  <2>. QED BY <2>1, <2>2 DEF TInv, TypeOK, IrqOff
<1>5. ASSUME NEW t \in Thread, Lifecycle(t)
      PROVE  InProgram'
  <2>1. CASE Sleep(t) \/ (\E x \in Thread : CreateScan(t, x)) \/ CreateFail(t) \/ CreatePublish(t)
    <3>1. /\ UNCHANGED core /\ pc[t] # "dead"
          /\ \E l : l \in {"run", "yield", "scanned"} /\ pc' = [pc EXCEPT ![t] = l]
                    /\ (l = "scanned" => "create" \in Calls[t])
      BY <2>1 DEF Sleep, CreateScan, CreateFail, CreatePublish, Goto, Enters, At
    <3>2. \A x \in Thread : tstate'[x] = "zombie" => tstate[x] = "zombie"
      BY <2>1 DEF Sleep, CreateScan, CreateFail, CreatePublish, TInv, TypeOK
    <3>. QED BY <3>1, <3>2 DEF TInv, TypeOK
  <2>2. CASE ExitRead(t) \/ \E v \in Thread : KillRead(t, v)
    <3>1. /\ pc[t] = "run" /\ tstate[t] = "running" /\ Calls[t] \intersect {"kill", "exit"} # {}
          /\ Executing(t) /\ UNCHANGED tstate
          /\ core' = [core EXCEPT ![t] = CoreOf(t)]
          /\ \/ pc' = [pc EXCEPT ![t] = "exit"]
             \/ pc' = [pc EXCEPT ![t] = "kill"] /\ "kill" \in Calls[t]
      BY <2>2 DEF ExitRead, KillRead, Enters, Goto, LifeInv, Lives, Life
    <3>2. CoreOf(t) = Affinity[t]
      BY <3>1, PinnedHere DEF Careful
    <3>. QED BY <3>1, <3>2 DEF TInv, TypeOK
  <2>3. CASE ExitMark(t)
    <3>1. current_tcb[core[t]] = t
      BY <2>3, CarefulKeeps DEF Discipline, Unmoved, ExitMark, At
    <3>. QED BY <2>3, <3>1 DEF ExitMark, Goto, TInv, TypeOK
  <2>4. CASE KillMark(t)
    <3>1. tgt[t] \in Target /\ pc[t] = "kill" /\ UNCHANGED core
      BY <2>4 DEF KillMark, At, LifeInv, Places
    <3>2. \A x \in Thread : tstate'[x] = "zombie" => tstate[x] = "zombie" \/ x \in Target
      BY <2>4, <3>1 DEF KillMark, TInv, TypeOK
    <3>3. \E l : l \in {"run", "yield", "killfree"} /\ pc' = [pc EXCEPT ![t] = l]
      BY <2>4 DEF KillMark, Goto
    <3>. QED BY <3>1, <3>2, <3>3 DEF TInv, TypeOK
  <2>5. CASE KillFree(t)
    <3>1. pc[t] = "killfree" /\ tgt[t] \in Thread /\ UNCHANGED core
          /\ tstate' = [tstate EXCEPT ![tgt[t]] = "new"]
          /\ pc' = [pc EXCEPT ![t] = "run", ![tgt[t]] = "run"]
      BY <2>5 DEF KillFree, FreeSlot, At, TInv, HasTarget
    <3>. QED BY <3>1 DEF TInv, TypeOK
  <2>6. CASE CreateClaim(t)
    <3>1. pc[t] = "scanned" /\ tgt[t] \in Thread /\ UNCHANGED core
          /\ tstate' = [tstate EXCEPT ![tgt[t]] = "ready"]
          /\ pc' = [pc EXCEPT ![t] = "claimed", ![tgt[t]] = "run"]
      BY <2>6 DEF CreateClaim, At, TInv, HasTarget
    <3>. QED BY <3>1 DEF TInv, TypeOK
  <2>. QED BY <1>5, <2>1, <2>2, <2>3, <2>4, <2>5, <2>6 DEF Lifecycle
<1>. QED BY <1>1, <1>2, <1>3, <1>4, <1>5 DEF Next, Interrupt

\* The hypotheses of the theorems above follow from the programs alone: with
\* killers and exiting threads pinned, and one creator beside no killer, no
\* behaviour of the scheduler enters a window.
THEOREM SchedCarefulKeeps ==
  ASSUME Careful
  PROVE  Spec => [](Discipline /\ CreatorsLive)
<1> DEFINE Inv == TInv /\ CoreInv /\ LifeInv /\ InProgram
<1>1. Init => Inv
  <2>1. Init => InProgram
    <3> SUFFICES ASSUME Init, NEW t \in Thread PROVE pc[t] = "run" /\ tstate[t] # "zombie"
      BY DEF InProgram
    <3>. QED BY DEF Init
  <2>. QED BY <2>1, InitTInv, InitCoreInv, InitLife
<1>2. Inv => Discipline /\ CreatorsLive
  BY CarefulKeeps
<1>3. Inv /\ [Next]_vars => Inv'
  BY <1>2, NextTInv, NextCoreInv, NextLife, NextInProgram
<1>. QED BY <1>1, <1>2, <1>3, PTL DEF Spec
-----------------------------------------------------------------------------
(***************************************************************************)
(* The waiting loops of sync.c lose no wake-up: what mutexes, semaphores   *)
(* and message queues have in common, for any number of threads and lists. *)
(*                                                                         *)
(* The argument.  A list w has a supply of n: the mutex is free, there are *)
(* n units, n messages, n slots.  While a live thread waits in w, n woken  *)
(* threads are on their way to test (Sought).  Whoever adds to the supply  *)
(* wakes one, and until that one is unblocked its waker has the stripe;    *)
(* whoever takes from the supply may have been one of them; and a thread   *)
(* goes to sleep only where the supply is nothing, under the stripe that   *)
(* keeps the supply from growing before it is BLOCKED.                     *)
(***************************************************************************)

(* The invariant *)

\* A thread in a list, or in a waker's hand, is inside a call on that list.
Wanting ==
  /\ want = [t \in Thread |-> want[t]]
  /\ \A t \in Thread : ~tcb_used[t] => want[t] = Null
  /\ \A w \in WaitList : \A x \in Linked(waiters[w]) : want[x] # Null /\ want[x][1] = w
  /\ \A t \in Thread, w \in WaitList :
       Waker(t) /\ Holds(t, w) => want[tgt[t]] # Null /\ want[tgt[t]][1] = w

\* A thread holds at most one stripe, with its interrupts off.
Holding == \A t \in Thread, w \in WaitList :
  Holds(t, w) => pc[t] \in IrqOff /\ \A v \in WaitList : Holds(t, v) => v = w

LoopInv == Wanting /\ Holding

Quiet(w) == \A t \in Thread : ~Holds(t, w)

\* w has a supply of n: where a thread waits, somebody seeks every part of it;
\* nobody goes to sleep beside a supply; and a waker has one seeker in hand.
Sought(w, n) ==
  /\ Quiet(w) /\ LiveWaiter(w) => n <= Cardinality(Seekers(w))
  /\ \A t \in Thread : Holds(t, w) /\ pc[t] = "enqueued" => n <= 0
  /\ \A t \in Thread : Holds(t, w) /\ Waker(t) /\ (LiveWaiter(w) \/ tstate[tgt[t]] = "blocked")
                         => n <= Cardinality(Seekers(w)) + 1

\* A supply nobody works on is sought while a live thread waits.
LEMMA SoughtStill ==
  ASSUME TypeOK, NEW w \in WaitList, NEW n, Sought(w, n), StillWaits(w)
  PROVE  n <= Cardinality(Seekers(w))
<1>1. \A t \in Thread : <<t, w>> # Null
  BY SchedAssumption
<1>. QED BY <1>1 DEF Sought, StillWaits, Quiet, Unlocked, Holds

\* Sets of threads are finite.
LEMMA ThreadSets ==
  ASSUME NEW S \in SUBSET Thread, NEW R \in SUBSET Thread
  PROVE  /\ Cardinality(S) \in Nat
         /\ S \subseteq R => Cardinality(S) <= Cardinality(R)
         /\ \A t \in R : t \notin S /\ S \subseteq R => Cardinality(S) + 1 <= Cardinality(R)
         /\ \A t \in Thread : S \ {t} \subseteq R => Cardinality(S) - 1 <= Cardinality(R)
<1>1. IsFiniteSet(S) /\ IsFiniteSet(R)
  BY UsesAssumption, FS_Subset
<1>2. Cardinality(S) \in Nat /\ Cardinality(R) \in Nat
  BY <1>1, FS_CardinalityType
<1>3. ASSUME NEW Q \in SUBSET Thread, Q \subseteq R PROVE Cardinality(Q) <= Cardinality(R)
  BY <1>1, <1>3, FS_Subset
<1>4. ASSUME NEW t \in R, t \notin S, S \subseteq R PROVE Cardinality(S) + 1 <= Cardinality(R)
  <2>1. Cardinality(S \union {t}) = Cardinality(S) + 1
    BY <1>1, <1>4, FS_AddElement
  <2>. QED BY <1>3, <1>4, <2>1
<1>5. ASSUME NEW t \in Thread, S \ {t} \subseteq R PROVE Cardinality(S) - 1 <= Cardinality(R)
  <2>1. Cardinality(S \ {t}) = IF t \in S THEN Cardinality(S) - 1 ELSE Cardinality(S)
    BY <1>1, FS_RemoveElement
  <2>2. Cardinality(S \ {t}) <= Cardinality(R)
    BY <1>3, <1>5
  <2>. QED BY <1>2, <2>1, <2>2
<1>. QED BY <1>2, <1>3, <1>4, <1>5
-----------------------------------------------------------------------------
(* Steps *)

\* A step that leaves w's list and stripe to those who had them and takes no
\* seeker away.
LEMMA SoughtKept ==
  ASSUME NEW w \in WaitList, NEW n \in Int, Sought(w, n),
         \A x \in Thread : Holds(x, w)' <=> Holds(x, w),
         \A x \in Thread : Holds(x, w) /\ pc'[x] = "enqueued" => pc[x] = "enqueued",
         \A x \in Thread : Holds(x, w) /\ Waker(x)' => Waker(x) /\ tgt'[x] = tgt[x],
         LiveWaiter(w)' => LiveWaiter(w),
         \A x \in Thread : Holds(x, w) /\ Waker(x)' /\ tstate'[tgt[x]] = "blocked"
                             => tstate[tgt[x]] = "blocked",
         Seekers(w) \subseteq Seekers(w)'
  PROVE  Sought(w, n)'
<1>1. Cardinality(Seekers(w)) <= Cardinality(Seekers(w)') /\ Cardinality(Seekers(w)) \in Nat
      /\ Cardinality(Seekers(w)') \in Nat
  BY ThreadSets DEF Seekers
<1>2. Quiet(w)' => Quiet(w)
  BY DEF Quiet
<1>3. ASSUME Quiet(w)', LiveWaiter(w)' PROVE n <= Cardinality(Seekers(w)')
  BY <1>1, <1>2, <1>3 DEF Sought
<1>4. ASSUME NEW t \in Thread, Holds(t, w)', pc'[t] = "enqueued" PROVE n <= 0
  BY <1>4 DEF Sought
<1>5. ASSUME NEW t \in Thread, Holds(t, w)', Waker(t)',
             LiveWaiter(w)' \/ tstate'[tgt'[t]] = "blocked"
      PROVE  n <= Cardinality(Seekers(w)') + 1
  BY <1>1, <1>5 DEF Sought
<1>. QED BY <1>3, <1>4, <1>5 DEF Sought

\* A thread that sought still does when it keeps its call and its readiness.
LEMMA SeekersKept ==
  ASSUME NEW w \in WaitList,
         \A x \in Seekers(w) : /\ want'[x] = want[x] /\ ~Waits(x)'
                               /\ tstate'[x] \in {"ready", "running"}
  PROVE  Seekers(w) \subseteq Seekers(w)'
BY DEF Seekers

\* In a step of the scheduler a thread that stays allocated keeps its call.
LEMMA ForgetKeeps ==
  ASSUME TInv, Wanting, Forget, NEW x \in Thread
  PROVE  want'[x] = IF tcb_used'[x] THEN want[x] ELSE Null
BY DEF Forget

\* A step that dequeues at most puts nobody where nobody wants anything.
LEMMA LoopKept ==
  ASSUME TInv, TInv', LifeInv', LoopInv, Forget,
         \A v \in WaitList : Linked(waiters'[v]) \subseteq Linked(waiters[v]),
         \A x \in Thread, v \in WaitList : Holds(x, v)' => Holds(x, v) /\ pc'[x] \in IrqOff,
         \A x \in Thread, v \in WaitList : Holds(x, v)' /\ Waker(x)' =>
            (Waker(x) /\ tgt'[x] = tgt[x]) \/ tgt'[x] \in Linked(waiters[v])
  PROVE  LoopInv'
<1>1. \A x \in Thread : want'[x] = IF tcb_used'[x] THEN want[x] ELSE Null
  BY DEF Forget
<1>2. want' = [t \in Thread |-> want'[t]]
  BY DEF Forget
<1>3. ASSUME NEW w \in WaitList, NEW x \in Linked(waiters'[w])
      PROVE  want'[x] # Null /\ want'[x][1] = w
  <2>1. x \in Linked(waiters[w])
    BY <1>3
  <2>2. x \in Thread /\ Waits(x)'
    BY <1>3, <2>1, WaitsThread DEF Waits
  <2>3. tcb_used'[x]
    BY <2>2 DEF LifeInv, Lives, Life
  <2>. QED BY <1>1, <2>1, <2>2, <2>3 DEF LoopInv, Wanting
<1>4. ASSUME NEW t \in Thread, NEW w \in WaitList, Waker(t)', Holds(t, w)'
      PROVE  want'[tgt'[t]] # Null /\ want'[tgt'[t]][1] = w
  <2>1. tgt'[t] \in Thread /\ tcb_used'[tgt'[t]]
    BY <1>4 DEF TInv, HasTarget, LifeInv, Hands, Waker
  <2>2. want[tgt'[t]] # Null /\ want[tgt'[t]][1] = w
    BY <1>4 DEF LoopInv, Wanting
  <2>. QED BY <1>1, <2>1, <2>2
<1>5. Wanting'
  BY <1>1, <1>2, <1>3, <1>4 DEF Wanting
<1>6. Holding'
  BY DEF LoopInv, Holding
<1>. QED BY <1>5, <1>6 DEF LoopInv

\* A step of the scheduler that works on no waiter list.
Mild ==
  /\ UNCHANGED <<spin, waiters>>
  /\ \A x \in Thread : pc[x] \in IrqOff => /\ pc'[x] \in IrqOff
                                           /\ pc'[x] = "enqueued" => pc[x] = "enqueued"
                                           /\ Waker(x)' => Waker(x) /\ tgt'[x] = tgt[x]
  /\ \A x \in Thread : tstate'[x] = "blocked" => tstate[x] = "blocked"
  /\ \A x \in Thread : want[x] # Null /\ ~Waits(x) /\ tstate[x] \in {"ready", "running"}
                         => tcb_used'[x] /\ tstate'[x] \in {"ready", "running"}

LEMMA MildKeeps ==
  ASSUME TInv, TInv', LifeInv', LoopInv, Forget, Mild
  PROVE  LoopInv' /\ \A w \in WaitList, n \in Int : Sought(w, n) => Sought(w, n)'
<1>1. \A x \in Thread, v \in WaitList : Holds(x, v)' <=> Holds(x, v)
  BY DEF Mild, Holds
<1>2. \A x \in Thread, v \in WaitList : Holds(x, v) => pc[x] \in IrqOff
  BY DEF LoopInv, Holding
<1>3. LoopInv'
  BY <1>1, <1>2, LoopKept DEF Mild
<1>4. ASSUME NEW w \in WaitList, NEW n \in Int, Sought(w, n) PROVE Sought(w, n)'
  <2>1. LiveWaiter(w)' => LiveWaiter(w)
    <3>1. \A x \in Linked(waiters[w]) : x \in Thread
      BY WaitsThread
    <3>. QED BY <3>1 DEF Mild, LiveWaiter
  <2>2. Seekers(w) \subseteq Seekers(w)'
    <3>1. ASSUME NEW x \in Seekers(w)
          PROVE  want'[x] = want[x] /\ ~Waits(x)' /\ tstate'[x] \in {"ready", "running"}
      <4>1. x \in Thread /\ want[x] # Null /\ ~Waits(x) /\ tstate[x] \in {"ready", "running"}
        BY DEF Seekers
      <4>2. tcb_used'[x] /\ tstate'[x] \in {"ready", "running"}
        BY <4>1 DEF Mild
      <4>3. ~Waits(x)'
        BY <4>1 DEF Mild, Waits
      <4>. QED BY <4>1, <4>2, <4>3 DEF Forget
    <3>. QED BY <3>1, SeekersKept
  <2>3. \A x \in Thread : Holds(x, w) => pc[x] \in IrqOff
    BY <1>2
  <2>4. \A x \in Thread : Waker(x) => tgt[x] \in Thread
    BY DEF TInv, HasTarget, Waker
  <2>5. /\ \A x \in Thread : Holds(x, w)' <=> Holds(x, w)
        /\ \A x \in Thread : Holds(x, w) /\ pc'[x] = "enqueued" => pc[x] = "enqueued"
        /\ \A x \in Thread : Holds(x, w) /\ Waker(x)' => Waker(x) /\ tgt'[x] = tgt[x]
        /\ \A x \in Thread : Holds(x, w) /\ Waker(x)' /\ tstate'[tgt[x]] = "blocked"
                             => tstate[tgt[x]] = "blocked"
    BY <1>1, <2>3, <2>4 DEF Mild
  <2>. QED BY <1>4, <2>1, <2>2, <2>5, SoughtKept
<1>. QED BY <1>3, <1>4

\* A thread that is awake is in nobody's hand, and is not being killed.
LEMMA AwakeLives ==
  ASSUME LifeInv, WokenLive, NEW x \in Thread, want[x] # Null, ~Waits(x),
         tstate[x] \in {"ready", "running"}
  PROVE  ~kill_pending[x] /\ ~InHand(x)
BY DEF LifeInv, Hands, Waker, InHand, WokenLive

\* The context switch
LEMMA SwitchMild ==
  ASSUME TInv, CoreInv, LifeInv, Discipline, Wanting, WokenLive,
         NEW c \in Core, Slice(c) \/ Yield(c)
  PROVE  Mild
<1>1. PICK cur \in Thread : cur = current_tcb[c]
  BY DEF TInv, TypeOK
<1>2. SchedNext(c) /\ pc[cur] \notin IrqOff
  BY <1>1 DEF Slice, Yield, IrqOff
<1>3. PICK n \in Thread :
           /\ n # cur => tstate[n] = "ready"
           /\ n = cur => LeavingState(cur) = "ready" /\ ~Reaped(cur)
           /\ tstate' = [[tstate EXCEPT ![cur] = IF Reaped(cur) THEN "new" ELSE LeavingState(cur)]
                           EXCEPT ![n] = "running"]
  BY <1>1, <1>2, SwitchEffect
<1>4. PICK l : pc' = [pc EXCEPT ![cur] = l]
  BY <1>1, SwitchPlace
<1>5. /\ tcb_used' = [tcb_used EXCEPT ![cur] = tcb_used[cur] /\ ~Reaped(cur)]
      /\ tgt' = [tgt EXCEPT ![cur] = IF Reaped(cur) THEN Null ELSE @]
      /\ UNCHANGED <<waiters, spin>>
  BY <1>1, <1>2 DEF SchedNext
<1>6. \A x \in Thread : pc[x] \in IrqOff =>
         x # cur /\ pc'[x] = pc[x] /\ tgt'[x] = tgt[x]
  BY <1>2, <1>4, <1>5 DEF TInv, TypeOK
<1>7. \A x \in Thread : x # cur /\ x # n => tstate'[x] = tstate[x]
  BY <1>3 DEF TInv, TypeOK
<1>8. tstate'[n] = "running"
  BY <1>3 DEF TInv, TypeOK
<1>9. n # cur => tstate'[cur] = IF Reaped(cur) THEN "new" ELSE LeavingState(cur)
  BY <1>3 DEF TInv, TypeOK
<1>10. ASSUME NEW x \in Thread, want[x] # Null, ~Waits(x), tstate[x] \in {"ready", "running"}
       PROVE  tcb_used'[x] /\ tstate'[x] \in {"ready", "running"}
  <2>1. tcb_used[x] /\ ~kill_pending[x]
    BY <1>10, AwakeLives DEF Wanting
  <2>2. x = cur => ~Reaped(cur) /\ LeavingState(cur) = "ready"
    BY <1>10, <2>1 DEF Reaped, LeavingState
  <2>. QED BY <1>5, <1>7, <1>8, <1>9, <1>10, <2>1, <2>2 DEF TInv, TypeOK
<1>11. ASSUME NEW x \in Thread, tstate'[x] = "blocked" PROVE tstate[x] = "blocked"
  BY <1>7, <1>8, <1>9, <1>11 DEF LeavingState
<1>. QED BY <1>5, <1>6, <1>10, <1>11 DEF Mild, Waker, IrqOff

\* A timer that expires
LEMMA TickMild ==
  ASSUME TInv, Wanting, NEW t \in Thread, TickWake(t)
  PROVE  Mild
BY DEF TickWake, Mild, Waker, TInv, TypeOK, Wanting

\* A waker finds that its waiter was killed.
LEMMA WakeZombieMild ==
  ASSUME TInv, Wanting, NEW t \in Thread, NEW w \in WaitList, WakeZombie(t, w)
  PROVE  Mild
<1>1. pc[t] = "wake" /\ pc' = [pc EXCEPT ![t] = "wakefree"]
      /\ UNCHANGED <<tstate, tcb_used, waiters, spin, tgt>>
  BY DEF WakeZombie, At, Goto
<1>2. \A x \in Thread : (x # t => pc'[x] = pc[x]) /\ pc'[t] = "wakefree"
  BY <1>1 DEF TInv, TypeOK
<1>. QED BY <1>1, <1>2 DEF Mild, Waker, IrqOff, Wanting

\* What a thread does outside its loops: it marks itself, or a victim that is
\* not on its way to a test, and frees only what nobody waits with.
LEMMA LifecycleMild ==
  ASSUME TInv, CoreInv, LifeInv, Discipline, Wanting, WokenLive, WokenLive',
         Forget, NEW t \in Thread, CallsOut(t)
  PROVE  Mild
<1>0. want[t] = Null /\ Lifecycle(t) /\ UNCHANGED <<spin, waiters>>
  BY DEF CallsOut, Lifecycle, Sleep, ExitRead, ExitMark, KillRead, KillMark, KillFree,
         CreateScan, CreateClaim, CreateFail, CreatePublish
<1>1. \A x \in Thread : want[x] # Null => tcb_used[x] /\ x # t
  BY <1>0 DEF Wanting
<1>2. CASE Sleep(t) \/ ExitRead(t) \/ CreatePublish(t) \/ CreateFail(t)
           \/ \E v \in Thread : KillRead(t, v) \/ CreateScan(t, v)
  <2>1. pc[t] \notin IrqOff
    BY <1>2 DEF Sleep, ExitRead, KillRead, CreateScan, CreateFail, CreatePublish, Enters, At,
                IrqOff
  <2>2. /\ \E l : pc' = [pc EXCEPT ![t] = l]
        /\ UNCHANGED tgt \/ \E z : tgt' = [tgt EXCEPT ![t] = z]
        /\ UNCHANGED tstate \/ tstate' = [tstate EXCEPT ![t] = "sleeping"]
    BY <1>2 DEF Sleep, ExitRead, KillRead, CreateScan, CreateFail, CreatePublish, Goto
  <2>3. \A x \in Thread : tcb_used[x] => tcb_used'[x]
    <3>1. CASE CreateFail(t)
      BY <3>1 DEF CreateFail, At, LifeInv, Births, TInv, TypeOK
    <3>2. CASE ~CreateFail(t)
      BY <1>2, <3>2 DEF Sleep, ExitRead, KillRead, CreateScan, CreatePublish
    <3>. QED BY <3>1, <3>2
  <2>4. \A x \in Thread : x # t => pc'[x] = pc[x] /\ tgt'[x] = tgt[x] /\ tstate'[x] = tstate[x]
    BY <2>2 DEF TInv, TypeOK
  <2>5. tstate'[t] = "blocked" => tstate[t] = "blocked"
    BY <2>2 DEF TInv, TypeOK
  <2>. QED BY <1>0, <1>1, <2>1, <2>3, <2>4, <2>5 DEF Mild, Waker, IrqOff
<1>3. CASE ExitMark(t)
  <2>1. current_tcb[core[t]] = t /\ pc[t] = "exit"
    BY <1>3 DEF Discipline, Unmoved, ExitMark, At
  <2>2. /\ tstate' = [tstate EXCEPT ![t] = "zombie"] /\ pc' = [pc EXCEPT ![t] = "dead"]
        /\ UNCHANGED <<tcb_used, tgt>>
    BY <1>3, <2>1 DEF ExitMark, Goto
  <2>3. \A x \in Thread : x # t => pc'[x] = pc[x] /\ tstate'[x] = tstate[x]
    BY <2>2 DEF TInv, TypeOK
  <2>4. tstate'[t] = "zombie"
    BY <2>2 DEF TInv, TypeOK
  <2>. QED BY <1>0, <1>1, <2>1, <2>2, <2>3, <2>4 DEF Mild, Waker, IrqOff
<1>4. CASE KillMark(t)
  <2>1. PICK v \in Thread : v = tgt[t] /\ pc[t] = "kill"
    BY <1>4 DEF KillMark, At, TInv, HasTarget
  <2>2. /\ tcb_used' = tcb_used
        /\ tstate'[v] = tstate[v] \/ tstate'[v] = "zombie"
        /\ \A x \in Thread : x # v => tstate'[x] = tstate[x]
    BY <1>4, <2>1 DEF KillMark, TInv, TypeOK
  <2>3. \A x \in Thread : x # t => pc'[x] = pc[x] /\ tgt'[x] = tgt[x]
    BY <1>4 DEF KillMark, Goto, TInv, TypeOK
  <2>4. pc'[t] \in {"killfree", "yield", "run"}
    BY <1>4 DEF KillMark, Goto, TInv, TypeOK
  <2>5. ASSUME NEW x \in Thread, want[x] # Null, ~Waits(x), tstate[x] \in {"ready", "running"},
               tstate'[x] = "zombie"
        PROVE  FALSE
    <3>1. ~InHand(x)
      BY <2>5, AwakeLives
    <3>2. ~InHand(x)'
      BY <2>1, <2>3, <2>4, <3>1 DEF InHand
    <3>3. ~Waits(x)'
      BY <1>0, <2>5 DEF Waits
    <3>4. want'[x] # Null
      BY <1>1, <2>2, <2>5 DEF Forget
    <3>. QED BY <2>5, <3>2, <3>3, <3>4 DEF WokenLive
  <2>6. \A x \in Thread : want[x] # Null /\ ~Waits(x) /\ tstate[x] \in {"ready", "running"}
                            => tcb_used'[x] /\ tstate'[x] \in {"ready", "running"}
    BY <1>1, <2>2, <2>5
  <2>7. \A x \in Thread : tstate'[x] = "blocked" => tstate[x] = "blocked"
    BY <2>2
  <2>8. \A x \in Thread : pc[x] \in IrqOff => x # t
    BY <2>1 DEF IrqOff
  <2>. QED BY <1>0, <2>3, <2>6, <2>7, <2>8 DEF Mild, Waker, IrqOff
<1>5. CASE KillFree(t)
  <2>1. PICK v \in Thread : v = tgt[t] /\ pc[t] = "killfree"
    BY <1>5 DEF KillFree, At, TInv, HasTarget
  <2>2. tstate[v] = "zombie" /\ ~Executing(v)
    BY <2>1 DEF LifeInv, Hands, Freer
  <2>3. pc[v] \notin IrqOff
    BY <2>2 DEF LifeInv, Places
  <2>4. /\ tcb_used' = [tcb_used EXCEPT ![v] = FALSE] /\ tstate' = [tstate EXCEPT ![v] = "new"]
        /\ tgt' = [tgt EXCEPT ![t] = Null, ![v] = Null]
        /\ pc' = [pc EXCEPT ![t] = "run", ![v] = "run"]
    BY <1>5, <2>1 DEF KillFree, FreeSlot
  <2>5. /\ \A x \in Thread : x # v => tcb_used'[x] = tcb_used[x] /\ tstate'[x] = tstate[x]
        /\ \A x \in Thread : x # v /\ x # t => tgt'[x] = tgt[x] /\ pc'[x] = pc[x]
        /\ tstate'[v] = "new"
    BY <2>4 DEF TInv, TypeOK
  <2>6. \A x \in Thread : pc[x] \in IrqOff => x # t /\ x # v
    BY <2>1, <2>3 DEF IrqOff
  <2>7. \A x \in Thread : tstate[x] \in {"ready", "running"} => x # v
    BY <2>2
  <2>8. \A x \in Thread : tstate'[x] = "blocked" => tstate[x] = "blocked"
    BY <2>5
  <2>9. \A x \in Thread : want[x] # Null /\ ~Waits(x) /\ tstate[x] \in {"ready", "running"}
                            => tcb_used'[x] /\ tstate'[x] \in {"ready", "running"}
    BY <1>1, <2>5, <2>7
  <2>. QED BY <1>0, <2>5, <2>6, <2>8, <2>9 DEF Mild, Waker, IrqOff
<1>6. CASE CreateClaim(t)
  <2>1. PICK v \in Thread : v = tgt[t] /\ pc[t] = "scanned"
    BY <1>6 DEF CreateClaim, At, TInv, HasTarget
  <2>2. ~tcb_used[v]
    BY <2>1 DEF LifeInv, Births
  <2>3. pc[v] \notin IrqOff
    BY <2>2 DEF LifeInv, Places, Lives, Life
  <2>4. /\ tcb_used' = [tcb_used EXCEPT ![v] = TRUE] /\ tstate' = [tstate EXCEPT ![v] = "ready"]
        /\ UNCHANGED tgt /\ pc' = [pc EXCEPT ![t] = "claimed", ![v] = "run"]
    BY <1>6, <2>1 DEF CreateClaim
  <2>5. /\ \A x \in Thread : x # v => tcb_used'[x] = tcb_used[x] /\ tstate'[x] = tstate[x]
        /\ \A x \in Thread : x # v /\ x # t => pc'[x] = pc[x]
        /\ tstate'[v] = "ready"
    BY <2>4 DEF TInv, TypeOK
  <2>6. \A x \in Thread : pc[x] \in IrqOff => x # t /\ x # v
    BY <2>1, <2>3 DEF IrqOff
  <2>7. \A x \in Thread : want[x] # Null => x # v
    BY <1>1, <2>2
  <2>8. \A x \in Thread : tstate'[x] = "blocked" => tstate[x] = "blocked"
    BY <2>5
  <2>9. \A x \in Thread : want[x] # Null /\ ~Waits(x) /\ tstate[x] \in {"ready", "running"}
                            => tcb_used'[x] /\ tstate'[x] \in {"ready", "running"}
    BY <1>1, <2>5, <2>7
  <2>. QED BY <1>0, <2>4, <2>5, <2>6, <2>8, <2>9 DEF Mild, Waker, IrqOff
<1>. QED BY <1>0, <1>2, <1>3, <1>4, <1>5, <1>6 DEF Lifecycle

\* Whoever has w's stripe for work on v has no list of that stripe for other
\* work, and setting it free disturbs only v's holder.
LEMMA OthersHold ==
  ASSUME TInv, NEW t \in Thread, NEW v \in WaitList, Holds(t, v) \/ Unlocked(v),
         NEW h, h = Null \/ h = <<t, v>>, spin' = [spin EXCEPT ![StripeOf[v]] = h]
  PROVE  /\ \A x \in Thread, w \in WaitList : w # v => (Holds(x, w)' <=> Holds(x, w))
         /\ \A x \in Thread : Holds(x, v)' <=> h = <<t, v>> /\ x = t
<1>1. \A x \in Thread, w \in WaitList : <<x, w>> # Null
  BY SchedAssumption
<1>2. \A w \in WaitList : StripeOf[w] \in Stripe
  BY SchedAssumption
<1>3. \A w \in WaitList : spin'[StripeOf[w]] = IF StripeOf[w] = StripeOf[v] THEN h
                                                ELSE spin[StripeOf[w]]
  BY <1>2 DEF TInv, TypeOK
<1>4. ASSUME NEW x \in Thread, NEW w \in WaitList, w # v
      PROVE  Holds(x, w)' <=> Holds(x, w)
  <2>1. CASE StripeOf[w] = StripeOf[v]
    BY <1>1, <1>3, <1>4, <2>1 DEF Holds, Unlocked
  <2>2. CASE StripeOf[w] # StripeOf[v]
    BY <1>3, <2>2 DEF Holds
  <2>. QED BY <2>1, <2>2
<1>5. ASSUME NEW x \in Thread PROVE Holds(x, v)' <=> h = <<t, v>> /\ x = t
  BY <1>1, <1>3 DEF Holds
<1>. QED BY <1>4, <1>5

\* sched_block(): the thread is BLOCKED beside no supply.
LEMMA WaitBlockSought ==
  ASSUME TInv, TInv', LifeInv, LifeInv', LoopInv, Forget,
         NEW t \in Thread, NEW v \in WaitList, WaitBlock(t, v)
  PROVE  LoopInv' /\ \A w \in WaitList, n \in Int : Sought(w, n) => Sought(w, n)'
<1>1. /\ pc[t] = "enqueued" /\ Holds(t, v) /\ Waits(t)
      /\ tstate' = [tstate EXCEPT ![t] = "blocked"] /\ pc' = [pc EXCEPT ![t] = "yield"]
      /\ UNCHANGED <<tcb_used, waiters, tgt>>
      /\ spin' = [spin EXCEPT ![StripeOf[v]] = Null]
  BY DEF WaitBlock, At, Goto, Unlocks, LifeInv, Places
<1>2. /\ \A x \in Thread, w \in WaitList : w # v => (Holds(x, w)' <=> Holds(x, w))
      /\ \A x \in Thread : ~Holds(x, v)'
  <2>1. <<t, v>> # Null
    BY SchedAssumption
  <2>2. \A h : (h = Null \/ h = <<t, v>>) /\ spin' = [spin EXCEPT ![StripeOf[v]] = h] =>
          /\ \A x \in Thread, w \in WaitList : w # v => (Holds(x, w)' <=> Holds(x, w))
          /\ \A x \in Thread : Holds(x, v)' <=> h = <<t, v>> /\ x = t
    BY <1>1, OthersHold
  <2>. QED BY <1>1, <2>1, <2>2
<1>3. \A x \in Thread : x # t => pc'[x] = pc[x] /\ tstate'[x] = tstate[x]
  BY <1>1 DEF TInv, TypeOK
<1>4. pc'[t] = "yield" /\ tstate'[t] = "blocked"
  BY <1>1 DEF TInv, TypeOK
<1>5. \A x \in Thread : want'[x] = want[x]
  BY <1>1 DEF Forget, LoopInv, Wanting
<1>6. \A w \in WaitList : w # v => ~Holds(t, w)
  BY <1>1 DEF LoopInv, Holding
<1>7. LoopInv'
  <2>1. \A x \in Thread, w \in WaitList : Holds(x, w)' => x # t
    BY <1>2, <1>6
  <2>2. \A x \in Thread, w \in WaitList : Holds(x, w)' => Holds(x, w) /\ pc'[x] \in IrqOff
    BY <1>2, <1>3, <2>1 DEF LoopInv, Holding
  <2>3. \A x \in Thread, w \in WaitList : Holds(x, w)' /\ Waker(x)' => Waker(x) /\ tgt'[x] = tgt[x]
    BY <1>1, <1>3, <2>1 DEF Waker
  <2>. QED BY <1>1, <2>2, <2>3, LoopKept
<1>8. \A w \in WaitList : Seekers(w) \subseteq Seekers(w)'
  <2>1. ASSUME NEW w \in WaitList, NEW x \in Seekers(w)
        PROVE  want'[x] = want[x] /\ ~Waits(x)' /\ tstate'[x] \in {"ready", "running"}
    <3>1. x \in Thread /\ ~Waits(x) /\ tstate[x] \in {"ready", "running"}
      BY DEF Seekers
    <3>2. x # t /\ (Waits(x)' <=> Waits(x))
      BY <1>1, <3>1 DEF Waits
    <3>. QED BY <1>3, <1>5, <3>1, <3>2
  <2>. QED BY <2>1, SeekersKept
<1>9. ASSUME NEW w \in WaitList, NEW n \in Int, Sought(w, n) PROVE Sought(w, n)'
  <2>1. CASE w = v
    <3>1. n <= 0
      BY <1>1, <1>9, <2>1 DEF Sought
    <3>2. Cardinality(Seekers(w)') \in Nat
      BY ThreadSets DEF Seekers
    <3>3. n <= Cardinality(Seekers(w)')
      BY <3>1, <3>2
    <3>. QED BY <1>2, <2>1, <3>3 DEF Sought
  <2>2. CASE w # v
    <3>1. \A x \in Thread : Holds(x, w) => x # t
      BY <1>6, <2>2
    <3>2. LiveWaiter(w)' => LiveWaiter(w)
      <4>1. t \notin Linked(waiters[w])
        <5>1. \A u \in WaitList : t \in Linked(waiters[u]) => want[t][1] = u
          BY DEF LoopInv, Wanting
        <5>2. t \in Linked(waiters[v])
          BY <1>1 DEF TInv, LifeInv, Locked, Waits, LoopInv, Holding
        <5>. QED BY <2>2, <5>1, <5>2
      <4>2. \A x \in Linked(waiters[w]) : x \in Thread /\ x # t
        BY <4>1, WaitsThread
      <4>. QED BY <1>1, <1>3, <4>2 DEF LiveWaiter
    <3>3. \A x \in Thread : Holds(x, w) /\ Waker(x)' => tgt[x] # t /\ tgt[x] \in Thread
      <4>1. \A x \in Thread : Waker(x) => tgt[x] \in Thread /\ ~Waits(tgt[x])
        BY DEF TInv, HasTarget, Waker, LifeInv, Hands, Freer
      <4>. QED BY <1>1, <1>3, <3>1, <4>1 DEF Waker
    <3>. QED BY <1>1, <1>2, <1>3, <1>8, <1>9, <2>2, <3>1, <3>2, <3>3, SoughtKept DEF Waker
  <2>. QED BY <2>1, <2>2
<1>. QED BY <1>7, <1>9

\* sched_unblock() of a live waiter: one more seeker.
LEMMA WakeUnblockSought ==
  ASSUME TInv, TInv', LifeInv, LifeInv', LoopInv, Forget,
         NEW t \in Thread, NEW v \in WaitList, WakeUnblock(t, v)
  PROVE  LoopInv' /\ \A w \in WaitList, n \in Int : Sought(w, n) => Sought(w, n)'
<1>1. PICK y \in Thread : y = tgt[t] /\ pc[t] = "wake" /\ Holds(t, v)
  BY DEF WakeUnblock, At, TInv, HasTarget
<1>2. /\ tstate' = [tstate EXCEPT ![y] = "ready"] /\ pc' = [pc EXCEPT ![t] = "run"]
      /\ UNCHANGED <<tcb_used, waiters>> /\ tgt' = [tgt EXCEPT ![t] = Null]
      /\ spin' = [spin EXCEPT ![StripeOf[v]] = Null]
  BY <1>1 DEF WakeUnblock, Goto, Unlocks
<1>3. tstate[y] = "blocked" /\ ~Waits(y) /\ want[y] # Null /\ want[y][1] = v
  BY <1>1 DEF WakeUnblock, Dead, LifeInv, Hands, Waker, Freer, LoopInv, Wanting
<1>4. /\ \A x \in Thread, w \in WaitList : w # v => (Holds(x, w)' <=> Holds(x, w))
      /\ \A x \in Thread : ~Holds(x, v)'
  <2>1. <<t, v>> # Null
    BY SchedAssumption
  <2>2. \A h : (h = Null \/ h = <<t, v>>) /\ spin' = [spin EXCEPT ![StripeOf[v]] = h] =>
          /\ \A x \in Thread, w \in WaitList : w # v => (Holds(x, w)' <=> Holds(x, w))
          /\ \A x \in Thread : Holds(x, v)' <=> h = <<t, v>> /\ x = t
    BY <1>1, OthersHold
  <2>. QED BY <1>1, <1>2, <2>1, <2>2
<1>5. /\ \A x \in Thread : x # t => pc'[x] = pc[x] /\ tgt'[x] = tgt[x]
      /\ \A x \in Thread : x # y => tstate'[x] = tstate[x]
      /\ tstate'[y] = "ready"
  BY <1>2 DEF TInv, TypeOK
<1>6. \A x \in Thread : want'[x] = want[x]
  BY <1>2 DEF Forget, LoopInv, Wanting
<1>7. \A w \in WaitList : w # v => ~Holds(t, w)
  BY <1>1 DEF LoopInv, Holding
<1>8. \A x \in Thread, w \in WaitList : Holds(x, w)' => x # t /\ w # v
  BY <1>4, <1>7
<1>9. LoopInv'
  <2>1. \A x \in Thread, w \in WaitList : Holds(x, w)' => Holds(x, w) /\ pc'[x] \in IrqOff
    BY <1>4, <1>5, <1>8 DEF LoopInv, Holding
  <2>2. \A x \in Thread, w \in WaitList : Holds(x, w)' /\ Waker(x)' => Waker(x) /\ tgt'[x] = tgt[x]
    BY <1>5, <1>8 DEF Waker
  <2>. QED BY <1>2, <2>1, <2>2, LoopKept
<1>10. \A x \in Thread : Waits(x)' <=> Waits(x)
  BY <1>2 DEF Waits
<1>11. \A w \in WaitList : Seekers(w) \subseteq Seekers(w)'
  <2>1. ASSUME NEW w \in WaitList, NEW x \in Seekers(w)
        PROVE  want'[x] = want[x] /\ ~Waits(x)' /\ tstate'[x] \in {"ready", "running"}
    BY <1>5, <1>6, <1>10 DEF Seekers
  <2>. QED BY <2>1, SeekersKept
<1>12. \A w \in WaitList : LiveWaiter(w)' => LiveWaiter(w)
  <2>1. \A w \in WaitList : \A x \in Linked(waiters[w]) : x \in Thread
    BY WaitsThread
  <2>. QED BY <1>2, <1>5, <2>1 DEF LiveWaiter
<1>13. ASSUME NEW w \in WaitList, NEW n \in Int, Sought(w, n) PROVE Sought(w, n)'
  <2>1. CASE w = v
    <3>1. n <= Cardinality(Seekers(w)) + 1
      BY <1>1, <1>3, <1>13, <2>1 DEF Sought, Waker
    <3>2. y \in Seekers(w)' /\ y \notin Seekers(w)
      BY <1>3, <1>5, <1>6, <1>10, <2>1 DEF Seekers
    <3>3. Cardinality(Seekers(w)) + 1 <= Cardinality(Seekers(w)')
      BY <1>11, <3>2, ThreadSets DEF Seekers
    <3>4. Cardinality(Seekers(w)) \in Nat /\ Cardinality(Seekers(w)') \in Nat
      BY ThreadSets DEF Seekers
    <3>5. n <= Cardinality(Seekers(w)')
      BY <3>1, <3>3, <3>4
    <3>. QED BY <1>4, <2>1, <3>5 DEF Sought
  <2>2. CASE w # v
    <3>1. \A x \in Thread : Holds(x, w) => x # t
      BY <1>7, <2>2
    <3>2. \A x \in Thread : Holds(x, w) /\ Waker(x)' => tgt[x] \in Thread
      BY <1>5, <3>1 DEF TInv, HasTarget, Waker
    <3>. QED BY <1>4, <1>5, <1>11, <1>12, <1>13, <2>2, <3>1, <3>2, SoughtKept DEF Waker
  <2>. QED BY <2>1, <2>2
<1>. QED BY <1>9, <1>13

\* waiter_dequeue(): the next waiter is in hand and the stripe is held, or the
\* list is empty and the stripe is free.
LEMMA DequeueEffect ==
  ASSUME TInv, LifeInv, NEW t \in Thread, NEW v \in WaitList,
         Holds(t, v) \/ Unlocked(v), Dequeue(t, v)
  PROVE  /\ \A w \in WaitList : Linked(waiters'[w]) \subseteq Linked(waiters[w])
         /\ \A x : Waits(x)' => Waits(x)
         /\ \A x \in Thread, w \in WaitList : w # v => (Holds(x, w)' <=> Holds(x, w))
         /\ \A x \in Thread : x # t => pc'[x] = pc[x] /\ tgt'[x] = tgt[x]
         /\ \/ /\ Linked(waiters'[v]) = {} /\ pc'[t] = "run"
               /\ \A x \in Thread : ~Holds(x, v)'
            \/ /\ tgt'[t] \in Linked(waiters[v]) /\ pc'[t] = "wake"
               /\ \A x \in Thread : Holds(x, v)' <=> x = t
<1>1. <<t, v>> # Null
  BY SchedAssumption
<1>2. \A h : (h = Null \/ h = <<t, v>>) /\ spin' = [spin EXCEPT ![StripeOf[v]] = h] =>
          /\ \A x \in Thread, w \in WaitList : w # v => (Holds(x, w)' <=> Holds(x, w))
          /\ \A x \in Thread : Holds(x, v)' <=> h = <<t, v>> /\ x = t
  BY OthersHold
<1>3. CASE waiters[v] = <<>>
  <2>1. /\ waiters' = waiters /\ spin' = [spin EXCEPT ![StripeOf[v]] = Null]
        /\ tgt' = [tgt EXCEPT ![t] = Null] /\ pc' = [pc EXCEPT ![t] = "run"]
    BY <1>3 DEF Dequeue, Unlocks, Goto
  <2>2. Linked(waiters[v]) = {}
    BY <1>3, LinkedIndex DEF TInv, TypeOK
  <2>3. \A x : Waits(x)' => Waits(x)
    BY <2>1 DEF Waits
  <2>4. /\ \A x \in Thread : x # t => pc'[x] = pc[x] /\ tgt'[x] = tgt[x]
        /\ pc'[t] = "run"
    BY <2>1 DEF TInv, TypeOK
  <2>. QED BY <1>1, <1>2, <2>1, <2>2, <2>3, <2>4
<1>4. CASE waiters[v] # <<>>
  <2>1. /\ waiters' = [waiters EXCEPT ![v] = Tail(@)]
        /\ spin' = [spin EXCEPT ![StripeOf[v]] = <<t, v>>]
        /\ tgt' = [tgt EXCEPT ![t] = Head(waiters[v])] /\ pc' = [pc EXCEPT ![t] = "wake"]
    BY <1>4 DEF Dequeue, Locks, Goto, Rest
  <2>2. /\ Head(waiters[v]) \in Linked(waiters[v])
        /\ \A w \in WaitList : \A x :
             x \in Linked(waiters'[w]) <=> x \in Linked(waiters[w]) /\ x # Head(waiters[v])
    BY <1>4, <2>1, DequeueWaits DEF LifeInv
  <2>3. \A x : Waits(x)' => Waits(x)
    BY <2>2 DEF Waits
  <2>4. /\ \A x \in Thread : x # t => pc'[x] = pc[x] /\ tgt'[x] = tgt[x]
        /\ pc'[t] = "wake" /\ tgt'[t] = Head(waiters[v])
    BY <2>1, <2>2, WaitsThread DEF TInv, TypeOK
  <2>. QED BY <1>1, <1>2, <2>1, <2>2, <2>3, <2>4
<1>. QED BY <1>3, <1>4

\* A dead waiter is freed and the next one tried: nobody is passed over who
\* lives.
LEMMA WakeFreeSought ==
  ASSUME TInv, TInv', LifeInv, LifeInv', LoopInv, Forget,
         NEW t \in Thread, NEW v \in WaitList, WakeFree(t, v)
  PROVE  LoopInv' /\ \A w \in WaitList, n \in Int : Sought(w, n) => Sought(w, n)'
<1>1. PICK y \in Thread : y = tgt[t] /\ pc[t] = "wakefree" /\ Holds(t, v) /\ Dequeue(t, v)
  BY DEF WakeFree, At, TInv, HasTarget
<1>2. /\ tstate' = [tstate EXCEPT ![y] = "new"] /\ tcb_used' = [tcb_used EXCEPT ![y] = FALSE]
      /\ tstate[y] = "zombie"
  BY <1>1 DEF WakeFree, FreeSlot, LifeInv, Hands
<1>3. /\ \A w \in WaitList : Linked(waiters'[w]) \subseteq Linked(waiters[w])
      /\ \A x : Waits(x)' => Waits(x)
      /\ \A x \in Thread, w \in WaitList : w # v => (Holds(x, w)' <=> Holds(x, w))
      /\ \A x \in Thread : x # t => pc'[x] = pc[x] /\ tgt'[x] = tgt[x]
      /\ \/ /\ Linked(waiters'[v]) = {} /\ pc'[t] = "run"
            /\ \A x \in Thread : ~Holds(x, v)'
         \/ /\ tgt'[t] \in Linked(waiters[v]) /\ pc'[t] = "wake"
            /\ \A x \in Thread : Holds(x, v)' <=> x = t
  BY <1>1, DequeueEffect
<1>4. /\ \A x \in Thread : x # y => tstate'[x] = tstate[x] /\ tcb_used'[x] = tcb_used[x]
      /\ tstate'[y] = "new"
  BY <1>2 DEF TInv, TypeOK
<1>5. \A w \in WaitList : w # v => ~Holds(t, w)
  BY <1>1 DEF LoopInv, Holding
<1>6. \A x \in Thread : Holds(x, v) => x = t
  BY <1>1 DEF Holds
<1>7. LoopInv'
  <2>1. \A x \in Thread, w \in WaitList : Holds(x, w)' => Holds(x, w) /\ pc'[x] \in IrqOff
    BY <1>1, <1>3, <1>5 DEF LoopInv, Holding, IrqOff
  <2>2. \A x \in Thread, w \in WaitList : Holds(x, w)' /\ Waker(x)' =>
            (Waker(x) /\ tgt'[x] = tgt[x]) \/ tgt'[x] \in Linked(waiters[w])
    BY <1>3, <1>5 DEF Waker
  <2>. QED BY <1>3, <2>1, <2>2, LoopKept
<1>8. \A w \in WaitList : Seekers(w) \subseteq Seekers(w)'
  <2>1. ASSUME NEW w \in WaitList, NEW x \in Seekers(w)
        PROVE  want'[x] = want[x] /\ ~Waits(x)' /\ tstate'[x] \in {"ready", "running"}
    <3>1. x \in Thread /\ ~Waits(x) /\ tstate[x] \in {"ready", "running"} /\ want[x] # Null
      BY DEF Seekers
    <3>2. tcb_used'[x]
      BY <1>2, <1>4, <3>1 DEF LoopInv, Wanting
    <3>. QED BY <1>2, <1>3, <1>4, <3>1, <3>2 DEF Forget
  <2>. QED BY <2>1, SeekersKept
<1>9. \A w \in WaitList : \A x \in Linked(waiters[w]) : x \in Thread
  BY WaitsThread
<1>10. \A x \in Thread : tstate'[x] = "blocked" => tstate[x] = "blocked"
  BY <1>4
<1>11. \A w \in WaitList : LiveWaiter(w)' => LiveWaiter(w)
  BY <1>3, <1>9, <1>10 DEF LiveWaiter
<1>12. ASSUME NEW w \in WaitList, NEW n \in Int, Sought(w, n) PROVE Sought(w, n)'
  <2>1. CASE w # v
    <3>1. \A x \in Thread : Holds(x, w) => x # t
      BY <1>5, <2>1
    <3>2. \A x \in Thread : Holds(x, w) /\ Waker(x)' => tgt[x] \in Thread
      BY <1>3, <3>1 DEF TInv, HasTarget, Waker
    <3>. QED BY <1>3, <1>8, <1>10, <1>11, <1>12, <2>1, <3>1, <3>2, SoughtKept DEF Waker
  <2>2. CASE w = v /\ Linked(waiters'[v]) = {} /\ \A x \in Thread : ~Holds(x, v)'
    BY <2>2 DEF Sought, LiveWaiter
  <2>3. CASE w = v /\ tgt'[t] \in Linked(waiters[v]) /\ pc'[t] = "wake"
             /\ \A x \in Thread : Holds(x, v)' <=> x = t
    <3>1. LiveWaiter(w) => n <= Cardinality(Seekers(w)) + 1
      BY <1>1, <1>12, <2>3 DEF Sought, Waker
    <3>2. Cardinality(Seekers(w)) <= Cardinality(Seekers(w)') /\ Cardinality(Seekers(w)) \in Nat
          /\ Cardinality(Seekers(w)') \in Nat
      BY <1>8, ThreadSets DEF Seekers
    <3>3. LiveWaiter(w)' \/ tstate'[tgt'[t]] = "blocked" => LiveWaiter(w)
      BY <1>9, <1>10, <1>11, <2>3 DEF LiveWaiter
    <3>4. LiveWaiter(w)' \/ tstate'[tgt'[t]] = "blocked" => n <= Cardinality(Seekers(w)') + 1
      BY <3>1, <3>2, <3>3
    <3>. QED BY <2>3, <3>4 DEF Sought, Quiet
  <2>. QED BY <1>3, <2>1, <2>2, <2>3
<1>. QED BY <1>7, <1>12

\* Whatever the scheduler does, no supply is forgotten.
LEMMA SchedStepSought ==
  ASSUME TInv, TInv', CoreInv, LifeInv, LifeInv', Discipline, LoopInv, WokenLive, WokenLive',
         SchedStep
  PROVE  LoopInv' /\ \A w \in WaitList, n \in Int : Sought(w, n) => Sought(w, n)'
<1>1. Forget /\ Wanting
  BY DEF SchedStep, LoopInv
<1>2. ASSUME NEW c \in Core, Slice(c) \/ Yield(c)
      PROVE  LoopInv' /\ \A w \in WaitList, n \in Int : Sought(w, n) => Sought(w, n)'
  BY <1>1, <1>2, SwitchMild, MildKeeps
<1>3. ASSUME NEW t \in Thread, TickWake(t)
      PROVE  LoopInv' /\ \A w \in WaitList, n \in Int : Sought(w, n) => Sought(w, n)'
  BY <1>1, <1>3, TickMild, MildKeeps
<1>4. ASSUME NEW t \in Thread, CallsOut(t)
      PROVE  LoopInv' /\ \A w \in WaitList, n \in Int : Sought(w, n) => Sought(w, n)'
  BY <1>1, <1>4, LifecycleMild, MildKeeps
<1>5. ASSUME NEW t \in Thread, WaitingRest(t)
      PROVE  LoopInv' /\ \A w \in WaitList, n \in Int : Sought(w, n) => Sought(w, n)'
  <2> PICK v \in WaitList : WaitBlock(t, v) \/ WakeUnblock(t, v) \/ WakeZombie(t, v)
                            \/ WakeFree(t, v)
    BY <1>5 DEF WaitingRest
  <2>1. CASE WaitBlock(t, v)
    BY <1>1, <2>1, WaitBlockSought
  <2>2. CASE WakeUnblock(t, v)
    BY <1>1, <2>2, WakeUnblockSought
  <2>3. CASE WakeZombie(t, v)
    BY <1>1, <2>3, WakeZombieMild, MildKeeps
  <2>4. CASE WakeFree(t, v)
    BY <1>1, <2>4, WakeFreeSought
  <2>. QED BY <2>1, <2>2, <2>3, <2>4
<1>. QED BY <1>2, <1>3, <1>4, <1>5 DEF SchedStep, Interrupt
-----------------------------------------------------------------------------
(* Calls *)

\* A caller is in no list and in nobody's hand, and holds nothing.
LEMMA CallerFree ==
  ASSUME LifeInv, LoopInv, NEW t \in Thread, At(t, "run")
  PROVE  /\ tcb_used[t] /\ tstate[t] = "running" /\ ~Waits(t) /\ ~InHand(t)
         /\ \A w \in WaitList : ~Holds(t, w)
<1>1. tcb_used[t] /\ tstate[t] = "running" /\ ~Waits(t)
  BY DEF At, LifeInv, Lives, Life
<1>2. ~InHand(t)
  BY <1>1 DEF LifeInv, Hands, InHand, Waker
<1>3. \A w \in WaitList : ~Holds(t, w)
  BY DEF At, LoopInv, Holding, IrqOff
<1>. QED BY <1>1, <1>2, <1>3

\* t returns from its call, or was in none.
LeavesCall(t) == (want' = want /\ want[t] = Null) \/ Returns(t)

LEMMA LeavesWant ==
  ASSUME Wanting, NEW t \in Thread, LeavesCall(t)
  PROVE  /\ want' = [x \in Thread |-> want'[x]]
         /\ want'[t] = Null /\ \A x \in Thread : x # t => want'[x] = want[x]
BY DEF Wanting, LeavesCall, Returns

\* A call that takes from v's supply, or none, and wakes nobody.
LEMMA TakeSought ==
  ASSUME TInv, LifeInv, LoopInv, NEW t \in Thread, At(t, "run"), NEW v \in WaitList,
         want[t] # Null => want[t][1] = v,
         UNCHANGED vars, LeavesCall(t)
  PROVE  /\ LoopInv'
         /\ \A w \in WaitList, n, m \in Int :
              Sought(w, n) /\ m <= n /\ (w = v => m <= n - 1) => Sought(w, m)'
<1>1. /\ UNCHANGED <<tstate, tcb_used, waiters, spin, pc, tgt>>
      /\ \A x \in Thread, w \in WaitList : Holds(x, w)' <=> Holds(x, w)
      /\ \A x : Waits(x)' <=> Waits(x)
      /\ \A w \in WaitList : LiveWaiter(w)' <=> LiveWaiter(w)
      /\ \A x \in Thread : Waker(x)' <=> Waker(x)
  BY DEF vars, Holds, Waits, LiveWaiter, Waker
<1>2. /\ tcb_used[t] /\ ~Waits(t) /\ ~InHand(t)
      /\ \A w \in WaitList : ~Holds(t, w)
  BY CallerFree
<1>3. /\ want' = [x \in Thread |-> want'[x]]
      /\ want'[t] = Null /\ \A x \in Thread : x # t => want'[x] = want[x]
  BY LeavesWant DEF LoopInv
<1>4. LoopInv'
  <2>1. \A w \in WaitList : \A x \in Linked(waiters[w]) : x \in Thread /\ x # t
    BY <1>2, WaitsThread
  <2>2. \A k \in Thread : Waker(k) => tgt[k] # t /\ tgt[k] \in Thread
    BY <1>2 DEF InHand, Waker, TInv, HasTarget
  <2>3. Wanting'
    BY <1>1, <1>3, <2>1, <2>2 DEF LoopInv, Wanting
  <2>4. Holding'
    BY <1>1 DEF LoopInv, Holding
  <2>. QED BY <2>3, <2>4 DEF LoopInv
<1>5. ASSUME NEW w \in WaitList, NEW n \in Int, NEW m \in Int,
             Sought(w, n), m <= n, w = v => m <= n - 1
      PROVE  Sought(w, m)'
  <2>1. Seekers(w) \ {t} \subseteq Seekers(w)'
    BY <1>1, <1>3 DEF Seekers
  <2>2. w # v => Seekers(w) \subseteq Seekers(w)'
    BY <2>1 DEF Seekers
  <2>3. /\ Cardinality(Seekers(w)) \in Nat /\ Cardinality(Seekers(w)') \in Nat
        /\ Cardinality(Seekers(w)) - 1 <= Cardinality(Seekers(w)')
        /\ w # v => Cardinality(Seekers(w)) <= Cardinality(Seekers(w)')
    BY <2>1, <2>2, ThreadSets DEF Seekers
  <2>4. ASSUME Quiet(w)', LiveWaiter(w)' PROVE m <= Cardinality(Seekers(w)')
    <3>1. n <= Cardinality(Seekers(w))
      BY <1>1, <1>5, <2>4 DEF Sought, Quiet
    <3>. QED BY <1>5, <2>3, <3>1
  <2>5. ASSUME NEW x \in Thread, Holds(x, w)', pc'[x] = "enqueued" PROVE m <= 0
    <3>1. n <= 0
      BY <1>1, <1>5, <2>5 DEF Sought
    <3>. QED BY <1>5, <3>1
  <2>6. ASSUME NEW x \in Thread, Holds(x, w)', Waker(x)',
               LiveWaiter(w)' \/ tstate'[tgt'[x]] = "blocked"
        PROVE  m <= Cardinality(Seekers(w)') + 1
    <3>1. n <= Cardinality(Seekers(w)) + 1
      BY <1>1, <1>5, <2>6 DEF Sought
    <3>. QED BY <1>5, <2>3, <3>1
  <2>. QED BY <2>4, <2>5, <2>6 DEF Sought
<1>. QED BY <1>4, <1>5

\* A call that adds to v's supply and wakes one of v's waiters, on its way out
\* of a call on another list from whose supply it takes.
LEMMA GiveSought ==
  ASSUME TInv, LifeInv, LoopInv, NEW t \in Thread, NEW v \in WaitList, WakeBegin(t, v),
         want[t] # Null => want[t][1] # v, LeavesCall(t)
  PROVE  /\ LoopInv'
         /\ \A w \in WaitList, n, m \in Int :
              Sought(w, n) /\ (IF w = v THEN m <= n + 1
                               ELSE m <= n /\ (want[t] # Null /\ want[t][1] = w => m <= n - 1))
              => Sought(w, m)'
<1>1. /\ At(t, "run") /\ Unlocked(v) /\ Dequeue(t, v) /\ UNCHANGED <<tstate, tcb_used>>
  BY DEF WakeBegin, Enters, At
<1>2. /\ tcb_used[t] /\ ~Waits(t) /\ ~InHand(t)
      /\ \A w \in WaitList : ~Holds(t, w)
  BY <1>1, CallerFree
<1>3. /\ want' = [x \in Thread |-> want'[x]]
      /\ want'[t] = Null /\ \A x \in Thread : x # t => want'[x] = want[x]
  BY LeavesWant DEF LoopInv
<1>4. /\ \A w \in WaitList : Linked(waiters'[w]) \subseteq Linked(waiters[w])
      /\ \A x : Waits(x)' => Waits(x)
      /\ \A x \in Thread, w \in WaitList : w # v => (Holds(x, w)' <=> Holds(x, w))
      /\ \A x \in Thread : x # t => pc'[x] = pc[x] /\ tgt'[x] = tgt[x]
      /\ \/ /\ Linked(waiters'[v]) = {} /\ pc'[t] = "run"
            /\ \A x \in Thread : ~Holds(x, v)'
         \/ /\ tgt'[t] \in Linked(waiters[v]) /\ pc'[t] = "wake"
            /\ \A x \in Thread : Holds(x, v)' <=> x = t
  BY <1>1, DequeueEffect
<1>5. \A w \in WaitList : \A x \in Linked(waiters[w]) : x \in Thread /\ x # t
  BY <1>2, WaitsThread
<1>6. \A k \in Thread : Waker(k) => tgt[k] # t /\ tgt[k] \in Thread
  BY <1>2 DEF InHand, Waker, TInv, HasTarget
<1>7. LoopInv'
  <2>1. ASSUME NEW k \in Thread, NEW w \in WaitList, Waker(k)', Holds(k, w)'
        PROVE  want'[tgt'[k]] # Null /\ want'[tgt'[k]][1] = w
    <3>1. CASE k = t
      <4>1. w = v /\ tgt'[t] \in Linked(waiters[v])
        BY <1>2, <1>4, <2>1, <3>1
      <4>. QED BY <1>3, <1>5, <3>1, <4>1 DEF LoopInv, Wanting
    <3>2. CASE k # t
      <4>1. Waker(k) /\ Holds(k, w) /\ tgt'[k] = tgt[k]
        BY <1>4, <2>1, <3>2 DEF Waker
      <4>. QED BY <1>3, <1>6, <4>1 DEF LoopInv, Wanting
    <3>. QED BY <3>1, <3>2
  <2>2. Wanting'
    BY <1>1, <1>2, <1>3, <1>4, <1>5, <2>1 DEF LoopInv, Wanting
  <2>3. Holding'
    <3>1. ASSUME NEW k \in Thread, NEW w \in WaitList, Holds(k, w)'
          PROVE  pc'[k] \in IrqOff /\ \A u \in WaitList : Holds(k, u)' => u = w
      <4>1. CASE k = t
        BY <1>2, <1>4, <3>1, <4>1 DEF IrqOff
      <4>2. CASE k # t
        BY <1>4, <3>1, <4>2 DEF LoopInv, Holding
      <4>. QED BY <4>1, <4>2
    <3>. QED BY <3>1 DEF Holding
  <2>. QED BY <2>2, <2>3 DEF LoopInv
<1>8. \A w \in WaitList : Seekers(w) \ {t} \subseteq Seekers(w)'
  BY <1>1, <1>3, <1>4 DEF Seekers
<1>9. \A w \in WaitList : LiveWaiter(w)' => LiveWaiter(w)
  BY <1>1, <1>4 DEF LiveWaiter
<1>10. \A x \in Thread : ~Holds(x, v)
  <2>1. <<t, v>> # Null /\ \A x \in Thread : <<x, v>> # Null
    BY SchedAssumption
  <2>. QED BY <1>1, <2>1 DEF Holds, Unlocked
<1>11. ASSUME NEW w \in WaitList, NEW n \in Int, NEW m \in Int, Sought(w, n),
              w # v, m <= n, want[t] # Null /\ want[t][1] = w => m <= n - 1
       PROVE  Sought(w, m)'
  <2>1. ~(want[t] # Null /\ want[t][1] = w) => Seekers(w) \subseteq Seekers(w)'
    BY <1>8 DEF Seekers
  <2>2. /\ Cardinality(Seekers(w)) \in Nat /\ Cardinality(Seekers(w)') \in Nat
        /\ Cardinality(Seekers(w)) - 1 <= Cardinality(Seekers(w)')
        /\ ~(want[t] # Null /\ want[t][1] = w)
             => Cardinality(Seekers(w)) <= Cardinality(Seekers(w)')
    BY <1>8, <2>1, ThreadSets DEF Seekers
  <2>3. \A x \in Thread : Holds(x, w)' => Holds(x, w) /\ x # t
    BY <1>2, <1>4, <1>11
  <2>4. ASSUME Quiet(w)', LiveWaiter(w)' PROVE m <= Cardinality(Seekers(w)')
    <3>1. n <= Cardinality(Seekers(w))
      BY <1>4, <1>9, <1>11, <2>4 DEF Sought, Quiet
    <3>. QED BY <1>11, <2>2, <3>1
  <2>5. ASSUME NEW x \in Thread, Holds(x, w)', pc'[x] = "enqueued" PROVE m <= 0
    <3>1. n <= 0
      BY <1>4, <1>11, <2>3, <2>5 DEF Sought
    <3>. QED BY <1>11, <3>1
  <2>6. ASSUME NEW x \in Thread, Holds(x, w)', Waker(x)',
               LiveWaiter(w)' \/ tstate'[tgt'[x]] = "blocked"
        PROVE  m <= Cardinality(Seekers(w)') + 1
    <3>1. n <= Cardinality(Seekers(w)) + 1
      BY <1>1, <1>4, <1>9, <1>11, <2>3, <2>6 DEF Sought, Waker
    <3>. QED BY <1>11, <2>2, <3>1
  <2>. QED BY <2>4, <2>5, <2>6 DEF Sought
<1>12. ASSUME NEW n \in Int, NEW m \in Int, Sought(v, n), m <= n + 1
       PROVE  Sought(v, m)'
  <2>1. CASE Linked(waiters'[v]) = {} /\ \A x \in Thread : ~Holds(x, v)'
    BY <2>1 DEF Sought, LiveWaiter
  <2>2. CASE tgt'[t] \in Linked(waiters[v]) /\ pc'[t] = "wake"
             /\ \A x \in Thread : Holds(x, v)' <=> x = t
    <3>1. LiveWaiter(v) => n <= Cardinality(Seekers(v))
      BY <1>10, <1>12 DEF Sought, Quiet
    <3>2. Seekers(v) \subseteq Seekers(v)'
      BY <1>8 DEF Seekers
    <3>3. Cardinality(Seekers(v)) <= Cardinality(Seekers(v)') /\ Cardinality(Seekers(v)) \in Nat
          /\ Cardinality(Seekers(v)') \in Nat
      BY <3>2, ThreadSets DEF Seekers
    <3>4. LiveWaiter(v)' \/ tstate'[tgt'[t]] = "blocked" => LiveWaiter(v)
      BY <1>1, <1>9, <2>2 DEF LiveWaiter
    <3>5. LiveWaiter(v)' \/ tstate'[tgt'[t]] = "blocked" => m <= Cardinality(Seekers(v)') + 1
      BY <1>12, <3>1, <3>3, <3>4
    <3>. QED BY <2>2, <3>5 DEF Sought, Quiet
  <2>. QED BY <1>4, <2>1, <2>2
<1>. QED BY <1>7, <1>11, <1>12

\* A call that finds no supply and goes to sleep under the stripe.
LEMMA SleepSought ==
  ASSUME TInv, LifeInv, LoopInv, NEW t \in Thread, NEW v \in WaitList, NEW call,
         call # Null, call[1] = v, Tests(t, call), Blocks(t, call)
  PROVE  /\ LoopInv'
         /\ \A w \in WaitList, n \in Int : Sought(w, n) /\ (w = v => n <= 0) => Sought(w, n)'
<1>1. /\ At(t, "run") /\ Unlocked(v) /\ UNCHANGED <<tstate, tcb_used, tgt>>
      /\ waiters' = [waiters EXCEPT ![v] = Append(@, t)]
      /\ spin' = [spin EXCEPT ![StripeOf[v]] = <<t, v>>]
      /\ pc' = [pc EXCEPT ![t] = "enqueued"]
      /\ want' = [want EXCEPT ![t] = call] /\ want[t] \in {Null, call}
  BY DEF Tests, Blocks, WaitEnqueue, Enters, At, Locks, Goto
<1>2. /\ tcb_used[t] /\ ~Waits(t) /\ ~InHand(t)
      /\ \A w \in WaitList : ~Holds(t, w)
  BY <1>1, CallerFree
<1>3. /\ want' = [x \in Thread |-> want'[x]]
      /\ want'[t] = call /\ \A x \in Thread : x # t => want'[x] = want[x]
  BY <1>1 DEF LoopInv, Wanting
<1>4. /\ \A w \in WaitList : \A x :
           x \in Linked(waiters'[w]) <=> x \in Linked(waiters[w]) \/ (w = v /\ x = t)
      /\ \A x : Waits(x)' <=> Waits(x) \/ x = t
  BY <1>1, <1>2, EnqueueWaits DEF LifeInv
<1>5. /\ \A x \in Thread, w \in WaitList : w # v => (Holds(x, w)' <=> Holds(x, w))
      /\ \A x \in Thread : Holds(x, v)' <=> x = t
  <2>1. Unlocked(v)
    BY <1>1
  <2>2. PICK h : h = <<t, v>>
    OBVIOUS
  <2>3. spin' = [spin EXCEPT ![StripeOf[v]] = h]
    BY <1>1, <2>2
  <2>4. /\ \A x \in Thread, w \in WaitList : w # v => (Holds(x, w)' <=> Holds(x, w))
        /\ \A x \in Thread : Holds(x, v)' <=> h = <<t, v>> /\ x = t
    BY <2>1, <2>2, <2>3, OthersHold
  <2>. QED BY <2>2, <2>4
<1>6. pc'[t] = "enqueued" /\ \A x \in Thread : x # t => pc'[x] = pc[x]
  BY <1>1 DEF TInv, TypeOK
<1>7. \A w \in WaitList : \A x \in Linked(waiters[w]) : x \in Thread /\ x # t
  BY <1>2, WaitsThread
<1>8. \A k \in Thread : Waker(k) => tgt[k] # t /\ tgt[k] \in Thread
  BY <1>2 DEF InHand, Waker, TInv, HasTarget
<1>9. \A k \in Thread : Waker(k)' => Waker(k) /\ k # t
  BY <1>6 DEF Waker
<1>10. LoopInv'
  <2>1. ASSUME NEW w \in WaitList, NEW x \in Linked(waiters'[w])
        PROVE  want'[x] # Null /\ want'[x][1] = w
    BY <1>3, <1>4, <1>7 DEF LoopInv, Wanting
  <2>2. ASSUME NEW k \in Thread, NEW w \in WaitList, Waker(k)', Holds(k, w)'
        PROVE  want'[tgt'[k]] # Null /\ want'[tgt'[k]][1] = w
    <3>1. Waker(k) /\ Holds(k, w) /\ tgt'[k] = tgt[k] /\ tgt[k] # t /\ tgt[k] \in Thread
      BY <1>1, <1>5, <1>8, <1>9, <2>2
    <3>. QED BY <1>3, <3>1 DEF LoopInv, Wanting
  <2>3. \A x \in Thread : ~tcb_used'[x] => want'[x] = Null
    BY <1>1, <1>2, <1>3 DEF LoopInv, Wanting
  <2>4. Wanting'
    BY <1>3, <2>1, <2>2, <2>3 DEF Wanting
  <2>5. Holding'
    <3>1. ASSUME NEW k \in Thread, NEW w \in WaitList, Holds(k, w)'
          PROVE  pc'[k] \in IrqOff /\ \A u \in WaitList : Holds(k, u)' => u = w
      <4>1. CASE k = t
        BY <1>2, <1>5, <1>6, <3>1, <4>1 DEF IrqOff
      <4>2. CASE k # t
        BY <1>5, <1>6, <3>1, <4>2 DEF LoopInv, Holding
      <4>. QED BY <4>1, <4>2
    <3>. QED BY <3>1 DEF Holding
  <2>. QED BY <2>4, <2>5 DEF LoopInv
<1>11. ASSUME NEW w \in WaitList, NEW n \in Int, Sought(w, n), w = v => n <= 0
       PROVE  Sought(w, n)'
  <2>1. CASE w = v
    <3>1. ~Quiet(w)'
      BY <1>5, <2>1 DEF Quiet
    <3>2. \A x \in Thread : Holds(x, w)' => ~Waker(x)'
      BY <1>5, <1>9, <2>1
    <3>. QED BY <1>11, <2>1, <3>1, <3>2 DEF Sought
  <2>2. CASE w # v
    <3>1. Seekers(w) \subseteq Seekers(w)'
      <4>1. ASSUME NEW x \in Seekers(w)
            PROVE  want'[x] = want[x] /\ ~Waits(x)' /\ tstate'[x] \in {"ready", "running"}
        <5>1. x \in Thread /\ want[x] # Null /\ want[x][1] = w /\ ~Waits(x)
              /\ tstate[x] \in {"ready", "running"}
          BY DEF Seekers
        <5>2. x # t
          BY <1>1, <2>2, <5>1
        <5>. QED BY <1>1, <1>3, <1>4, <5>1, <5>2
      <4>. QED BY <4>1, SeekersKept
    <3>2. LiveWaiter(w)' => LiveWaiter(w)
      BY <1>1, <1>4, <2>2 DEF LiveWaiter
    <3>3. \A x \in Thread : Holds(x, w) => x # t
      BY <1>2
    <3>. QED BY <1>1, <1>5, <1>6, <1>9, <1>11, <2>2, <3>1, <3>2, <3>3, SoughtKept
  <2>. QED BY <2>1, <2>2
<1>. QED BY <1>10, <1>11
-----------------------------------------------------------------------------
(* Behaviours *)

\* At the start nobody waits and no stripe is held.
LEMMA InitLoop ==
  ASSUME LInit
  PROVE  LoopInv /\ \A w \in WaitList : \A n : Sought(w, n)
<1>1. /\ \A w \in WaitList : waiters[w] = <<>>
      /\ \A x \in Thread : pc[x] = "run" /\ want[x] = Null
      /\ want = [x \in Thread |-> Null]
      /\ \A w \in WaitList : spin[StripeOf[w]] = Null
  BY SchedAssumption DEF LInit, Init
<1>2. \A w \in WaitList : Linked(waiters[w]) = {}
  <2>1. PICK q : q = <<>>
    OBVIOUS
  <2>2. q \in Seq(Thread) /\ 1..Len(q) = {}
    BY <2>1, EmptySeq
  <2>3. Linked(q) = {}
    BY <2>2, LinkedIndex
  <2>. QED BY <1>1, <2>1, <2>3
<1>3. \A x \in Thread, w \in WaitList : ~Holds(x, w)
  <2>1. \A x \in Thread, w \in WaitList : <<x, w>> # Null
    BY SchedAssumption
  <2>. QED BY <1>1, <2>1 DEF Holds
<1>. QED BY <1>1, <1>2, <1>3 DEF LoopInv, Wanting, Holding, Sought, LiveWaiter, Waker

\* A program of primitives is a program of the scheduler.
LEMMA SchedStepNext == SchedStep => Next
BY DEF SchedStep, WaitingRest, CallsOut, Next, Waiting

LEMMA CallNext ==
  ASSUME NEW t \in Thread, NEW v \in WaitList, WaitEnqueue(t, v) \/ WakeBegin(t, v)
  PROVE  Next
BY DEF Next, Waiting

\* Where no thread that waits may be killed, one that dies has returned from
\* its calls.
DiesOutside == \A x \in Thread :
  want[x] # Null => "wait" \in Calls[x] /\ tstate[x] # "zombie"

LEMMA OutsideLives ==
  ASSUME LifeInv, DiesOutside, WaitersSpared
  PROVE  WokenLive
BY DEF LifeInv, Lives, Life, DiesOutside, WokenLive, WaitersSpared

LEMMA InitOutside == LInit => DiesOutside
BY DEF LInit, DiesOutside

LEMMA SchedStepOutside ==
  ASSUME TInv, CoreInv, LifeInv, Discipline, WaitersSpared, DiesOutside, SchedStep
  PROVE  DiesOutside'
<1> SUFFICES ASSUME NEW x \in Thread, want[x] # Null, tstate[x] # "zombie", tstate'[x] = "zombie"
             PROVE  FALSE
  BY DEF DiesOutside, SchedStep, Forget
<1>1. x \notin Target
  BY DEF DiesOutside, WaitersSpared
<1>2. ASSUME NEW c \in Core, Slice(c) \/ Yield(c) PROVE FALSE
  <2>1. PICK cur \in Thread : cur = current_tcb[c]
    BY DEF TInv, TypeOK
  <2>2. SchedNext(c)
    BY <1>2 DEF Slice, Yield
  <2>3. PICK n \in Thread :
           tstate' = [[tstate EXCEPT ![cur] = IF Reaped(cur) THEN "new" ELSE LeavingState(cur)]
                           EXCEPT ![n] = "running"]
    BY <2>1, <2>2, SwitchEffect
  <2>4. x = cur /\ LeavingState(cur) = "zombie"
    BY <2>3 DEF TInv, TypeOK
  <2>5. ~kill_pending[cur]
    BY <1>1, <2>4 DEF LifeInv, Lives, Life
  <2>. QED BY <2>4, <2>5 DEF LeavingState
<1>3. ASSUME NEW t \in Thread, TickWake(t) PROVE FALSE
  BY <1>3 DEF TickWake, TInv, TypeOK
<1>4. ASSUME NEW t \in Thread, WaitingRest(t) PROVE FALSE
  BY <1>4 DEF WaitingRest, WaitBlock, WakeUnblock, WakeZombie, WakeFree, FreeSlot, TInv, TypeOK
<1>5. ASSUME NEW t \in Thread, CallsOut(t) PROVE FALSE
  <2>1. x # t /\ Lifecycle(t)
    BY <1>5 DEF CallsOut
  <2>2. ~ExitMark(t)
    BY <2>1 DEF ExitMark, At, Discipline, Unmoved, TInv, TypeOK
  <2>3. ~KillMark(t)
    <3> SUFFICES ASSUME KillMark(t) PROVE FALSE
      OBVIOUS
    <3>1. tgt[t] # x
      BY <1>1 DEF KillMark, At, LifeInv, Places
    <3>. QED BY <3>1 DEF KillMark, At, TInv, TypeOK
  <2>4. CASE Sleep(t) \/ ExitRead(t) \/ (\E v \in Thread : KillRead(t, v) \/ CreateScan(t, v))
             \/ CreateFail(t) \/ CreatePublish(t)
    BY <2>1, <2>4 DEF Sleep, ExitRead, KillRead, CreateScan, CreateFail, CreatePublish,
                      TInv, TypeOK
  <2>5. CASE KillFree(t) \/ CreateClaim(t)
    BY <2>1, <2>5 DEF KillFree, FreeSlot, CreateClaim, TInv, TypeOK
  <2>. QED BY <2>1, <2>2, <2>3, <2>4, <2>5 DEF Lifecycle
<1>. QED BY <1>2, <1>3, <1>4, <1>5 DEF SchedStep, Interrupt

LEMMA CallOutside ==
  ASSUME LifeInv, LoopInv, DiesOutside, NEW t \in Thread, UNCHANGED tstate,
         LeavesCall(t) \/ \E call : Tests(t, call) /\ Blocks(t, call)
  PROVE  DiesOutside'
<1>1. CASE LeavesCall(t)
  BY <1>1, LeavesWant DEF LoopInv, DiesOutside
<1>2. ASSUME NEW call, Tests(t, call), Blocks(t, call) PROVE DiesOutside'
  <2>1. tstate[t] = "running" /\ "wait" \in Calls[t]
    BY <1>2, CallerFree DEF Tests
  <2>. QED BY <1>2, <2>1 DEF Blocks, DiesOutside, LoopInv, Wanting
<1>. QED BY <1>1, <1>2
=============================================================================

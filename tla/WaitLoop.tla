------------------------------ MODULE WaitLoop ------------------------------
(***************************************************************************)
(* What kmutex_lock(), ksemaphore_wait(), mqueue_send() and mqueue_recv()  *)
(* have in common: a loop that takes the primitive's spinlock, tests a     *)
(* condition and either goes ahead or enqueues, blocks, yields and, when   *)
(* woken, starts over.  A wake-up is a hint, not a hand-off.               *)
(***************************************************************************)
EXTENDS Sched, FiniteSets

CONSTANT
  Uses   \* the calls each thread's program makes on the primitives

UseNames == {"lock", "take", "signal", "send", "recv", "try_send", "try_recv",
             "await", "set", "clear"}

\* tcb_pool[] is an array, and so finite; no call is mistaken for none.
ASSUME UsesAssumption ==
  /\ Uses \in [Thread -> SUBSET UseNames]
  /\ IsFiniteSet(Thread)
  /\ \A w \in WaitList : <<w, Null>> # Null

VARIABLE
  want   \* the call each thread is inside, <<waiter list, argument>>, or Null

lvars == <<vars, want>>

LInit == Init /\ want = [t \in Thread |-> Null]

\* The spinlock is free and t tests the condition of its call, for the first
\* time or again after a wake-up.
Tests(t, call) ==
  /\ At(t, "run") /\ "wait" \in Calls[t] /\ Unlocked(call[1])
  /\ want[t] \in {Null, call}

\* The condition is false: waiter_enqueue(), then sched_block() and sched_yield().
Blocks(t, call) ==
  /\ WaitEnqueue(t, call[1])
  /\ want' = [want EXCEPT ![t] = call]

\* The call returns, or another call made from outside the loop does.
Returns(t) == want' = [want EXCEPT ![t] = Null]

\* A freed thread is inside no call.
Forget == want' = [t \in Thread |-> IF tcb_used'[t] THEN want[t] ELSE Null]

\* What the scheduler does on its own: inside its loop a thread makes no call.
WaitingRest(t) == \E w \in WaitList : \/ WaitBlock(t, w)  \/ WakeUnblock(t, w)
                                      \/ WakeZombie(t, w) \/ WakeFree(t, w)
CallsOut(t) == want[t] = Null /\ Lifecycle(t)

SchedStep == /\ \/ Interrupt
                \/ \E c \in Core : Yield(c)
                \/ \E t \in Thread : WaitingRest(t) \/ CallsOut(t)
             /\ Forget

\* t was woken and will test the condition of its call on list w again.
Seekers(w) == {t \in Thread : /\ want[t] # Null /\ want[t][1] = w
                              /\ ~Waits(t) /\ tstate[t] \in {"ready", "running"}}

LiveWaiter(w) == \E t \in Linked(waiters[w]) : tstate[t] = "blocked"

\* w's primitive is at rest and a thread that was not killed waits in w.
StillWaits(w) == Unlocked(w) /\ LiveWaiter(w)

\* A kill finds a thread before its wake-up or after its call, never between
\* being woken and testing its condition again (sched.c:262): what the loops
\* need of those who kill.
WokenLive ==
  \A t \in Thread : want[t] # Null /\ (tstate[t] = "zombie" \/ kill_pending[t])
                     => Waits(t) \/ InHand(t)

\* ... which is so when nobody kills a thread that uses the primitives.
WaitersSpared == \A t \in Target : "wait" \notin Calls[t]
=============================================================================

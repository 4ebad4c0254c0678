------------------------------- MODULE KMutex -------------------------------
(***************************************************************************)
(* kmutex_t: kmutex_lock() is a WaitLoop, kmutex_unlock() ends in the wake *)
(* path of Sched.  A mutex is its own waiter list: Mutex is a part of      *)
(* WaitList.                                                               *)
(***************************************************************************)
EXTENDS WaitLoop

CONSTANT Mutex   \* the mutexes among the waiter lists

ASSUME MutexAssumption == Mutex \subseteq WaitList

VARIABLES
  owner_tid,  \* kmutex_t.owner_tid, Null for -1
  holds       \* the mutexes a thread has locked and not unlocked

mvars == <<owner_tid, holds>>

MInit == /\ owner_tid = [m \in Mutex |-> Null]
         /\ holds = [t \in Thread |-> {}]

LockCall(m) == <<m, Null>>

\* Mutant: the owner is not tested.
AlwaysFree(m) == TRUE

Free(m) == owner_tid[m] = Null

\* kmutex_lock(): the mutex is free - claim it.  Nothing is asked of what the
\* caller holds already: vfs.c takes fs.c's mutex inside its own.
Lock(t, m) ==
  /\ "lock" \in Uses[t] /\ Tests(t, LockCall(m)) /\ Free(m)
  /\ owner_tid' = [owner_tid EXCEPT ![m] = t]
  /\ holds' = [holds EXCEPT ![t] = @ \union {m}]
  /\ Returns(t)
  /\ UNCHANGED vars

\* Mutant: the owner was tested before the spinlock was taken.
LockWaitStale(t, m) ==
  /\ "lock" \in Uses[t] /\ Tests(t, LockCall(m))
  /\ Blocks(t, LockCall(m))
  /\ UNCHANGED <<owner_tid, holds>>

\* kmutex_lock(): held, by another thread or by the caller itself, who then
\* waits for ever - block and start over.
LockWait(t, m) ==
  /\ "lock" \in Uses[t] /\ Tests(t, LockCall(m)) /\ ~Free(m)
  /\ Blocks(t, LockCall(m))
  /\ UNCHANGED <<owner_tid, holds>>

Released(m) == [owner_tid EXCEPT ![m] = Null]

\* kmutex_unlock(): free first, then wake the first live waiter.
Unlock(t, m) ==
  /\ want[t] = Null /\ m \in holds[t]
  /\ WakeBegin(t, m)
  /\ owner_tid' = Released(m)
  /\ holds' = [holds EXCEPT ![t] = @ \ {m}]
  /\ UNCHANGED want

\* A freed thread holds nothing; the owner field is not touched.
MutexRest == /\ holds' = [t \in Thread |-> IF tcb_used'[t] THEN holds[t] ELSE {}]
             /\ UNCHANGED owner_tid

MutexCall(t, m) == Lock(t, m) \/ LockWait(t, m) \/ Unlock(t, m)
-----------------------------------------------------------------------------
MTypeOK == /\ owner_tid \in [Mutex -> Thread \union {Null}]
           /\ holds \in [Thread -> SUBSET Mutex]

\* Two threads never both believe they hold m, and a live holder is the owner:
\* a woken waiter re-tests, it is not handed the mutex.
MutualExclusion ==
  \A t \in Thread : \A m \in holds[t] : owner_tid[m] = t

\* wake_one's comment: a wake-up is passed on "or the live waiters behind it
\* would stay blocked on a free mutex": while one waits on a free mutex,
\* another thread is on its way to take it.
NoLostWakeup ==
  \A m \in Mutex : Free(m) /\ StillWaits(m) => Seekers(m) # {}

\* A free mutex that a thread waits for is taken again.
FreeMutexIsTaken ==
  \A m \in Mutex : (Free(m) /\ LiveWaiter(m)) ~> ~Free(m)
=============================================================================

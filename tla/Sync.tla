-------------------------------- MODULE Sync --------------------------------
(***************************************************************************)
(* Mutexes and semaphores together over the scheduler, as an application   *)
(* uses them: one thread may go from one to the other, hold a mutex while  *)
(* it waits for a unit, and be killed anywhere; primitives may share a     *)
(* stripe of prim_pool[].                                                  *)
(***************************************************************************)
EXTENDS KMutex, KSemaphore

ASSUME SyncAssumption == Mutex \intersect Semaphore = {}

syncvars == <<lvars, mvars, count>>

SyncInit == LInit /\ MInit /\ SInit

SyncSched == SchedStep /\ MutexRest /\ UNCHANGED count

SyncCall(t) == \/ \E m \in Mutex : MutexCall(t, m) /\ UNCHANGED count
               \/ \E s \in Semaphore : SemaphoreCall(t, s) /\ UNCHANGED mvars

SyncNext == SyncSched \/ \E t \in Thread : SyncCall(t)

SyncSpec == SyncInit /\ [][SyncNext]_syncvars

\* Beyond the scheduler's fairness: a thread inside a waiting loop that is
\* given the processor again and again gets through the loop.
SyncFairness ==
  /\ \A c \in Core : /\ SF_syncvars(Slice(c) /\ SyncSched)
                     /\ WF_syncvars(Yield(c) /\ SyncSched)
  /\ \A t \in Thread : /\ WF_syncvars(WaitingRest(t) /\ SyncSched)
                       /\ SF_syncvars(want[t] # Null /\ SyncCall(t))

SyncFairSpec == SyncSpec /\ SyncFairness

\* No live thread waits for ever beside a free mutex or a unit: between the
\* unlock or the signal and the woken thread's next test nothing is lost, on
\* either primitive, while a thread goes from one to the other.
NothingLies == FreeMutexIsTaken /\ UnitIsTaken

SyncTypeOK ==
  /\ TypeOK /\ MTypeOK /\ STypeOK
  /\ want \in [Thread -> {LockCall(m) : m \in Mutex} \union
                         {WaitCall(s) : s \in Semaphore} \union {Null}]
=============================================================================

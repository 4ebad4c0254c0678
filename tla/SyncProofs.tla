----------------------------- MODULE SyncProofs -----------------------------
(***************************************************************************)
(* Mutexes, semaphores and event flags, for any number of threads and      *)
(* objects and any programs: a mutex excludes whoever is killed, no        *)
(* wake-up is lost unless a woken thread is killed before it tests again,  *)
(* and nobody sleeps through the flags it waits for.                       *)
(***************************************************************************)
EXTENDS Sync, KEvent, SchedProofs

-----------------------------------------------------------------------------
(* Types and mutual exclusion *)

HInv == MTypeOK /\ MutualExclusion

\* Nothing is locked when kmutex_init() returns.
LEMMA InitHInv == SyncInit => HInv
BY DEF SyncInit, MInit, HInv, MTypeOK, MutualExclusion

\* One call on a mutex: lock takes only what is free, unlock gives back only
\* what the caller holds, and waiting changes neither.
LEMMA CallHInv ==
  ASSUME HInv, NEW t \in Thread, NEW m \in Mutex, MutexCall(t, m)
  PROVE  HInv'
<1> USE SchedAssumption DEF HInv, MTypeOK, MutualExclusion
<1>1. CASE Lock(t, m)
  BY <1>1 DEF Lock, Free
<1>2. CASE LockWait(t, m)
  BY <1>2 DEF LockWait
<1>3. CASE Unlock(t, m)
  <2>1. owner_tid' = [owner_tid EXCEPT ![m] = Null]
    BY <1>3 DEF Unlock, Released
  <2>2. m \in holds[t] /\ holds' = [holds EXCEPT ![t] = @ \ {m}]
    BY <1>3 DEF Unlock
  <2>3. \A u \in Thread : u # t => m \notin holds[u]
    BY <2>2
  <2>. QED BY <2>1, <2>2, <2>3
<1>. QED BY <1>1, <1>2, <1>3 DEF MutexCall

\* Every step: the scheduler and the semaphores take holds away from threads
\* that are freed, and touch no mutex.
LEMMA NextHInv == HInv /\ [SyncNext]_syncvars => HInv'
<1> SUFFICES ASSUME HInv, [SyncNext]_syncvars PROVE HInv'
  OBVIOUS
<1>1. CASE SyncSched
  BY <1>1 DEF SyncSched, MutexRest, HInv, MTypeOK, MutualExclusion
<1>2. ASSUME NEW t \in Thread, SyncCall(t) PROVE HInv'
  <2>1. CASE \E m \in Mutex : MutexCall(t, m)
    BY <2>1, CallHInv
  <2>2. CASE UNCHANGED mvars
    BY <2>2 DEF mvars, HInv, MTypeOK, MutualExclusion
  <2>. QED BY <1>2, <2>1, <2>2 DEF SyncCall
<1>3. CASE UNCHANGED syncvars
  BY <1>3 DEF syncvars, mvars, HInv, MTypeOK, MutualExclusion
<1>. QED BY <1>1, <1>2, <1>3 DEF SyncNext

\* A mutex excludes: a thread that believes it holds a mutex is its owner,
\* although wake-ups are hints, anyone may barge in, and any thread may be
\* killed while it holds the mutex, waits for it or has just been woken.
THEOREM SyncMutualExclusion == SyncSpec => []MutualExclusion
<1>1. HInv => MutualExclusion
  BY DEF HInv
<1>. QED BY <1>1, InitHInv, NextHInv, PTL DEF SyncSpec

\* A count is never negative: a unit is taken where there is one.
LEMMA NextCount == STypeOK /\ [SyncNext]_syncvars => STypeOK'
<1> SUFFICES ASSUME STypeOK, [SyncNext]_syncvars PROVE STypeOK'
  OBVIOUS
<1>1. CASE UNCHANGED count
  BY <1>1 DEF STypeOK
<1>2. ASSUME NEW t \in Thread, NEW s \in Semaphore, SemaphoreCall(t, s) PROVE STypeOK'
  <2>1. count[s] \in 0..MaxCount /\ MaxCount \in Nat
    BY SemaphoreAssumption DEF STypeOK
  <2>2. CASE Take(t, s)
    BY <2>1, <2>2 DEF Take, Available, STypeOK
  <2>3. CASE TakeWait(t, s)
    BY <1>1, <2>3 DEF TakeWait
  <2>4. CASE Signal(t, s)
    BY <2>1, <2>4 DEF Signal, STypeOK
  <2>. QED BY <1>2, <2>2, <2>3, <2>4 DEF SemaphoreCall
<1>3. CASE UNCHANGED syncvars
  BY <1>1, <1>3 DEF syncvars
<1>. QED BY <1>1, <1>2, <1>3 DEF SyncNext, SyncSched, SyncCall
-----------------------------------------------------------------------------
(* The program of primitives over the scheduler *)

LEMMA NextIsSched == [SyncNext]_syncvars => [Next]_vars
<1> SUFFICES ASSUME [SyncNext]_syncvars PROVE [Next]_vars
  OBVIOUS
<1>1. CASE SyncSched
  BY <1>1, SchedStepNext DEF SyncSched
<1>2. ASSUME NEW t \in Thread, NEW m \in Mutex, MutexCall(t, m) PROVE [Next]_vars
  BY <1>2, CallNext, MutexAssumption DEF MutexCall, Lock, LockWait, Unlock, Blocks, LockCall
<1>3. ASSUME NEW t \in Thread, NEW s \in Semaphore, SemaphoreCall(t, s) PROVE [Next]_vars
  BY <1>3, CallNext, SemaphoreAssumption
     DEF SemaphoreCall, Take, TakeWait, Signal, Blocks, WaitCall
<1>4. CASE UNCHANGED syncvars
  BY <1>4 DEF syncvars, lvars
<1>. QED BY <1>1, <1>2, <1>3, <1>4 DEF SyncNext, SyncCall

\* Threads that use mutexes and semaphores are threads of the scheduler: what
\* is proved of every program there is true of theirs.
THEOREM SyncIsSched == SyncSpec => Spec
<1>1. SyncInit => Init
  BY DEF SyncInit, LInit
<1>. QED BY <1>1, NextIsSched, PTL DEF SyncSpec, Spec

\* Above all, their waiter lists and ready queues are safe.
THEOREM SyncListsSafe == SyncSpec /\ []Discipline => []ListsSafe
BY SyncIsSched, SchedListsSafe, PTL
-----------------------------------------------------------------------------
(* Wake-ups *)

\* What a thread that waits on w waits for: the free mutex, or the units.
\* The other objects of WaitList supply nothing here.
Supply(w) == IF w \in Mutex THEN (IF Free(w) THEN 1 ELSE 0)
             ELSE IF w \in Semaphore THEN count[w] ELSE 0

SoughtInv == HInv /\ STypeOK /\ LoopInv /\ \A w \in WaitList : Sought(w, Supply(w))

LEMMA SupplyInt == ASSUME STypeOK, NEW w \in WaitList PROVE Supply(w) \in Int
BY SyncAssumption DEF STypeOK, Supply

LEMMA InitSought == SyncInit => SoughtInv
<1> SUFFICES ASSUME SyncInit PROVE SoughtInv
  OBVIOUS
<1>1. STypeOK
  BY SemaphoreAssumption DEF SyncInit, SInit, STypeOK
<1>2. LInit
  BY DEF SyncInit
<1>. QED BY <1>1, <1>2, InitLoop, InitHInv DEF SoughtInv

\* A step after which every supply is sought that was sought before.
LEMMA NextSupply ==
  ASSUME SoughtInv, STypeOK', NEW w \in WaitList,
         \A n, m \in Int : n = Supply(w) /\ m = Supply(w)' /\ Sought(w, n) => Sought(w, m)'
  PROVE  Sought(w, Supply(w))'
<1>1. PICK n \in Int : n = Supply(w)
  BY SupplyInt DEF SoughtInv
<1>2. Supply(w)' \in Int
  BY SyncAssumption DEF STypeOK, Supply
<1>3. PICK m \in Int : m = Supply(w)'
  BY <1>2
<1>4. Sought(w, n)
  BY <1>1 DEF SoughtInv
<1>5. Sought(w, m)'
  BY <1>1, <1>3, <1>4
<1>. QED BY <1>3, <1>5 DEF Sought

LEMMA NextSought ==
  ASSUME TInv, TInv', CoreInv, LifeInv, LifeInv', Discipline, WokenLive, WokenLive',
         SoughtInv, [SyncNext]_syncvars
  PROVE  SoughtInv'
<1>0. STypeOK' /\ HInv'
  BY NextCount, NextHInv DEF SoughtInv
<1> USE DEF SoughtInv
<1>1. CASE SyncSched
  <2>1. /\ LoopInv' /\ \A w \in WaitList, n \in Int : Sought(w, n) => Sought(w, n)'
        /\ UNCHANGED <<owner_tid, count>>
    BY <1>1, SchedStepSought DEF SyncSched, MutexRest
  <2>2. \A w \in WaitList : Supply(w)' = Supply(w)
    BY <2>1 DEF Supply, Free
  <2>3. ASSUME NEW w \in WaitList PROVE Sought(w, Supply(w))'
    BY <1>0, <2>1, <2>2, NextSupply
  <2>. QED BY <1>0, <2>1, <2>3
<1>2. ASSUME NEW t \in Thread, NEW v \in Mutex, MutexCall(t, v), UNCHANGED count
      PROVE  SoughtInv'
  <2>1. v \in WaitList /\ v \notin Semaphore /\ LockCall(v) # Null /\ LockCall(v)[1] = v
    BY MutexAssumption, SyncAssumption, UsesAssumption DEF LockCall
  <2>2. CASE Lock(t, v)
    <3>1. /\ At(t, "run") /\ UNCHANGED vars /\ LeavesCall(t)
          /\ want[t] # Null => want[t][1] = v
          /\ Free(v) /\ owner_tid' = [owner_tid EXCEPT ![v] = t]
      BY <2>1, <2>2 DEF Lock, Tests, LeavesCall
    <3>2. /\ LoopInv'
          /\ \A w \in WaitList, n, m \in Int :
               Sought(w, n) /\ m <= n /\ (w = v => m <= n - 1) => Sought(w, m)'
      BY <2>1, <3>1, TakeSought
    <3>3. ASSUME NEW w \in WaitList PROVE Sought(w, Supply(w))'
      <4>1. w # v => Supply(w)' = Supply(w)
        BY <1>2, <3>1 DEF Supply, Free
      <4>2. w = v => Supply(w) = 1 /\ Supply(w)' \in {0, 1}
        BY <3>1 DEF Supply
      <4>3. w = v => Supply(w)' = 0
        BY <2>1, <3>1, SchedAssumption DEF Supply, Free, HInv, MTypeOK
      <4>. QED BY <1>0, <3>2, <4>1, <4>2, <4>3, NextSupply
    <3>. QED BY <1>0, <3>2, <3>3
  <2>3. CASE LockWait(t, v)
    <3>1. Tests(t, LockCall(v)) /\ Blocks(t, LockCall(v)) /\ ~Free(v) /\ UNCHANGED owner_tid
      BY <2>3 DEF LockWait
    <3>2. /\ LoopInv'
          /\ \A w \in WaitList, n \in Int : Sought(w, n) /\ (w = v => n <= 0) => Sought(w, n)'
      BY <2>1, <3>1, SleepSought
    <3>3. ASSUME NEW w \in WaitList PROVE Sought(w, Supply(w))'
      <4>1. Supply(w)' = Supply(w) /\ (w = v => Supply(w) <= 0)
        BY <1>2, <3>1 DEF Supply, Free
      <4>. QED BY <1>0, <3>2, <4>1, NextSupply
    <3>. QED BY <1>0, <3>2, <3>3
  <2>4. CASE Unlock(t, v)
    <3>1. /\ WakeBegin(t, v) /\ want[t] = Null /\ LeavesCall(t)
          /\ owner_tid' = [owner_tid EXCEPT ![v] = Null]
      BY <2>4 DEF Unlock, Released, LeavesCall
    <3>2. /\ LoopInv'
          /\ \A w \in WaitList, n, m \in Int :
              Sought(w, n) /\ (IF w = v THEN m <= n + 1
                               ELSE m <= n /\ (want[t] # Null /\ want[t][1] = w => m <= n - 1))
              => Sought(w, m)'
      BY <2>1, <3>1, GiveSought
    <3>3. ASSUME NEW w \in WaitList PROVE Sought(w, Supply(w))'
      <4>1. w # v => Supply(w)' = Supply(w)
        BY <1>2, <3>1 DEF Supply, Free
      <4>2. w = v => Supply(w) \in {0, 1} /\ Supply(w)' \in {0, 1}
        BY DEF Supply
      <4>3. w = v => Supply(w)' <= Supply(w) + 1
        BY <4>2
      <4>. QED BY <1>0, <3>1, <3>2, <4>1, <4>3, NextSupply
    <3>. QED BY <1>0, <3>2, <3>3
  <2>. QED BY <1>2, <2>2, <2>3, <2>4 DEF MutexCall
<1>3. ASSUME NEW t \in Thread, NEW v \in Semaphore, SemaphoreCall(t, v), UNCHANGED mvars
      PROVE  SoughtInv'
  <2>1. v \in WaitList /\ v \notin Mutex /\ WaitCall(v) # Null /\ WaitCall(v)[1] = v
        /\ count[v] \in Int /\ UNCHANGED owner_tid
    BY <1>3, SemaphoreAssumption, SyncAssumption, UsesAssumption DEF WaitCall, STypeOK, mvars
  <2>2. CASE Take(t, v)
    <3>1. /\ At(t, "run") /\ UNCHANGED vars /\ LeavesCall(t)
          /\ want[t] # Null => want[t][1] = v
          /\ count' = [count EXCEPT ![v] = @ - 1]
      BY <2>1, <2>2 DEF Take, Tests, LeavesCall
    <3>2. /\ LoopInv'
          /\ \A w \in WaitList, n, m \in Int :
               Sought(w, n) /\ m <= n /\ (w = v => m <= n - 1) => Sought(w, m)'
      BY <2>1, <3>1, TakeSought
    <3>3. ASSUME NEW w \in WaitList PROVE Sought(w, Supply(w))'
      <4>1. w # v => Supply(w)' = Supply(w)
        BY <2>1, <3>1 DEF Supply, Free, STypeOK
      <4>2. w = v => Supply(w) = count[v] /\ Supply(w)' = count[v] - 1
        BY <2>1, <3>1 DEF Supply, STypeOK
      <4>. QED BY <1>0, <2>1, <3>2, <4>1, <4>2, NextSupply
    <3>. QED BY <1>0, <3>2, <3>3
  <2>3. CASE TakeWait(t, v)
    <3>1. Tests(t, WaitCall(v)) /\ Blocks(t, WaitCall(v)) /\ ~(count[v] > 0) /\ UNCHANGED count
      BY <2>3 DEF TakeWait, Available
    <3>2. /\ LoopInv'
          /\ \A w \in WaitList, n \in Int : Sought(w, n) /\ (w = v => n <= 0) => Sought(w, n)'
      BY <2>1, <3>1, SleepSought
    <3>3. ASSUME NEW w \in WaitList PROVE Sought(w, Supply(w))'
      <4>1. Supply(w)' = Supply(w) /\ (w = v => Supply(w) <= 0)
        BY <2>1, <3>1 DEF Supply, Free
      <4>. QED BY <1>0, <3>2, <4>1, NextSupply
    <3>. QED BY <1>0, <3>2, <3>3
  <2>4. CASE Signal(t, v)
    <3>1. /\ WakeBegin(t, v) /\ want[t] = Null /\ LeavesCall(t)
          /\ count' = [count EXCEPT ![v] = @ + 1]
      BY <2>4 DEF Signal, LeavesCall
    <3>2. /\ LoopInv'
          /\ \A w \in WaitList, n, m \in Int :
              Sought(w, n) /\ (IF w = v THEN m <= n + 1
                               ELSE m <= n /\ (want[t] # Null /\ want[t][1] = w => m <= n - 1))
              => Sought(w, m)'
      BY <2>1, <3>1, GiveSought
    <3>3. ASSUME NEW w \in WaitList PROVE Sought(w, Supply(w))'
      <4>1. w # v => Supply(w)' = Supply(w)
        BY <2>1, <3>1 DEF Supply, Free, STypeOK
      <4>2. w = v => Supply(w)' = Supply(w) + 1
        BY <2>1, <3>1 DEF Supply, STypeOK
      <4>. QED BY <1>0, <3>1, <3>2, <4>1, <4>2, NextSupply
    <3>. QED BY <1>0, <3>2, <3>3
  <2>. QED BY <1>3, <2>2, <2>3, <2>4 DEF SemaphoreCall
<1>4. CASE UNCHANGED syncvars
  <2>1. UNCHANGED <<vars, want, owner_tid, count>>
    BY <1>4 DEF syncvars, mvars, lvars
  <2>2. LoopInv'
    BY <2>1 DEF vars, LoopInv, Wanting, Holding, Holds, Waker
  <2>3. ASSUME NEW w \in WaitList PROVE Sought(w, Supply(w))'
    <3>1. /\ Supply(w)' = Supply(w) /\ Seekers(w)' = Seekers(w)
          /\ Quiet(w)' <=> Quiet(w)
          /\ LiveWaiter(w)' <=> LiveWaiter(w)
      BY <2>1 DEF vars, Supply, Free, Seekers, Waits, Quiet, Holds, LiveWaiter
    <3>2. \A x \in Thread : (Holds(x, w)' <=> Holds(x, w)) /\ (Waker(x)' <=> Waker(x))
      BY <2>1 DEF vars, Holds, Waker
    <3>. QED BY <2>1, <3>1, <3>2 DEF vars, Sought
  <2>. QED BY <1>0, <2>2, <2>3
<1>. QED BY <1>1, <1>2, <1>3, <1>4 DEF SyncNext, SyncCall

LEMMA SpecSought == SyncSpec /\ []Discipline /\ []WokenLive => [](TInv /\ SoughtInv)
<1>1. SyncSpec /\ []Discipline => [](TInv /\ CoreInv /\ LifeInv)
  BY SyncIsSched, SpecLife, PTL
<1> DEFINE Sched == TInv /\ CoreInv /\ LifeInv
<1>2. Sched /\ Sched' /\ Discipline /\ WokenLive /\ WokenLive' /\ SoughtInv
      /\ [SyncNext]_syncvars => SoughtInv'
  BY NextSought
<1>. QED BY <1>1, <1>2, InitSought, PTL DEF SyncSpec

\* While a live thread waits on a free mutex, another is on its way to take it;
\* while one waits on a semaphore, so is one for every unit - unless a woken
\* thread is killed before it tests again, which is the one hole in wake_one().
THEOREM SyncWakeups ==
  SyncSpec /\ []Discipline /\ []WokenLive => []NoLostWakeup /\ []EveryUnitSought
<1>1. TInv /\ SoughtInv => NoLostWakeup
  <2> SUFFICES ASSUME TInv, SoughtInv, NEW m \in Mutex, Free(m), StillWaits(m)
               PROVE  Seekers(m) # {}
    BY DEF NoLostWakeup
  <2>1. m \in WaitList /\ Supply(m) = 1
    BY MutexAssumption DEF Supply
  <2>2. 1 <= Cardinality(Seekers(m))
    BY <2>1, SoughtStill DEF SoughtInv, TInv
  <2>. QED BY <2>2, FS_EmptySet
<1>2. TInv /\ SoughtInv => EveryUnitSought
  <2> SUFFICES ASSUME TInv, SoughtInv, NEW s \in Semaphore, StillWaits(s)
               PROVE  count[s] <= Cardinality(Seekers(s))
    BY DEF EveryUnitSought
  <2>1. s \in WaitList /\ Supply(s) = count[s]
    BY SemaphoreAssumption, SyncAssumption DEF Supply
  <2>. QED BY <2>1, SoughtStill DEF SoughtInv, TInv
<1>. QED BY <1>1, <1>2, SpecSought, PTL

\* The conditions hold of programs that kill no thread that uses the primitives
\* and whose killers and exiting threads are pinned.
THEOREM SyncCarefulWakeups ==
  ASSUME Careful, WaitersSpared
  PROVE  SyncSpec => []NoLostWakeup /\ []EveryUnitSought
<1> DEFINE Inv == TInv /\ CoreInv /\ LifeInv /\ Discipline
           Outside == SoughtInv /\ DiesOutside
<1>1. SyncSpec => []Inv
  <2>1. Spec => [](Discipline /\ CreatorsLive)
    BY SchedCarefulKeeps
  <2>2. Spec /\ []Discipline => [](TInv /\ CoreInv /\ LifeInv)
    BY SpecLife
  <2>. QED BY <2>1, <2>2, SyncIsSched, PTL
<1>2. SyncInit => DiesOutside
  BY InitOutside DEF SyncInit
<1>3. Inv /\ Outside /\ [SyncNext]_syncvars => DiesOutside'
  <2> SUFFICES ASSUME Inv, SoughtInv, DiesOutside, [SyncNext]_syncvars PROVE DiesOutside'
    OBVIOUS
  <2>1. LoopInv
    BY DEF SoughtInv
  <2>2. CASE SyncSched
    BY <2>2, SchedStepOutside DEF SyncSched
  <2>3. ASSUME NEW t \in Thread, NEW m \in Mutex, MutexCall(t, m) PROVE DiesOutside'
    <3>1. /\ UNCHANGED tstate
          /\ LeavesCall(t) \/ (\E call : Tests(t, call) /\ Blocks(t, call))
      BY <2>3 DEF MutexCall, Lock, LockWait, Unlock, LeavesCall, vars, WakeBegin, Blocks,
                  WaitEnqueue
    <3>. QED BY <2>1, <3>1, CallOutside
  <2>4. ASSUME NEW t \in Thread, NEW s \in Semaphore, SemaphoreCall(t, s) PROVE DiesOutside'
    <3>1. /\ UNCHANGED tstate
          /\ LeavesCall(t) \/ (\E call : Tests(t, call) /\ Blocks(t, call))
      BY <2>4 DEF SemaphoreCall, Take, TakeWait, Signal, LeavesCall, vars, WakeBegin, Blocks,
                  WaitEnqueue
    <3>. QED BY <2>1, <3>1, CallOutside
  <2>5. CASE UNCHANGED syncvars
    BY <2>5 DEF syncvars, lvars, vars, DiesOutside
  <2>. QED BY <2>2, <2>3, <2>4, <2>5 DEF SyncNext, SyncCall
<1>4. Inv /\ DiesOutside => WokenLive
  BY OutsideLives
<1>5. Inv /\ Inv' /\ WokenLive /\ WokenLive' /\ SoughtInv /\ [SyncNext]_syncvars => SoughtInv'
  BY NextSought
<1>6. Inv /\ Inv' /\ Outside /\ [SyncNext]_syncvars => Outside'
  BY <1>3, <1>4, <1>5, PTL
<1>7. SyncSpec => []WokenLive
  BY <1>1, <1>2, <1>4, <1>6, InitSought, PTL DEF SyncSpec
<1>. QED BY <1>1, <1>7, SyncWakeups, PTL
-----------------------------------------------------------------------------
(* Event flags: the walk of event_flags_set() along a waiter list *)

\* The lowest of some places is one of them.
LEMMA LowestIn ==
  ASSUME NEW S \in SUBSET Nat, S # {}
  PROVE  Lowest(S) \in S
BY LeastNat DEF Lowest

\* The waiter at place k leaves its list: the walk unlinks from the middle.
LEMMA UnlinkAt ==
  ASSUME NEW q \in Seq(Thread), NEW k \in 1..Len(q)
  PROVE  /\ RemoveAt(q, k) \in Seq(Thread)
         /\ IsInjective(q) => /\ IsInjective(RemoveAt(q, k))
                              /\ Linked(RemoveAt(q, k)) = Linked(q) \ {q[k]}
<1>1. RemoveAt(q, k) \in Seq(Thread)
  <2>1. SubSeq(q, 1, k-1) \in Seq(Thread) /\ SubSeq(q, k+1, Len(q)) \in Seq(Thread)
    OBVIOUS
  <2>. QED BY <2>1 DEF RemoveAt
<1>2. ASSUME IsInjective(q)
      PROVE  /\ IsInjective(RemoveAt(q, k))
             /\ Linked(RemoveAt(q, k)) = Linked(q) \ {q[k]}
  <2>1. PICK t \in Thread : t = q[k]
    OBVIOUS
  <2> DEFINE I == {i \in 1..Len(q) : q[i] = t}
  <2>2. I = {k}
    BY <1>2, <2>1, LinkedIndex
  <2>3. Min(I) = k
    <3>1. I \in SUBSET Nat /\ I # {}
      BY <2>2
    <3>2. Min(I) \in I
      BY <3>1, MinNat
    <3>. QED BY <2>2, <3>2
  <2>4. RemoveFirst(q, t) = RemoveAt(q, k)
    BY <2>2, <2>3 DEF RemoveFirst, SelectInSeq
  <2>5. /\ IsInjective(RemoveFirst(q, t))
        /\ Linked(RemoveFirst(q, t)) = Linked(q) \ {t}
    BY <1>2, RemoveFirstLinks
  <2>. QED BY <2>1, <2>4, <2>5
<1>. QED BY <1>1, <1>2

\* One call of Walk: no satisfied waiter is left and the stripe is free, or the
\* first satisfied waiter is taken off the list and the pool.
LEMMA WalkEffect ==
  ASSUME TInv, NEW t \in Thread, NEW e \in WaitList, NEW f, Walk(t, e, f)
  PROVE  \/ /\ EndsWake(t, e) /\ UNCHANGED event_waiter_pool
            /\ \A x \in Linked(waiters[e]) : ~Satisfied(f, ParamsOf(x))
         \/ \E h \in Linked(waiters[e]) :
              /\ spin' = [spin EXCEPT ![StripeOf[e]] = <<t, e>>]
              /\ tgt' = [tgt EXCEPT ![t] = h] /\ pc' = [pc EXCEPT ![t] = "wake"]
              /\ waiters' \in [WaitList -> Seq(Thread)]
              /\ Lists => TakesWaiter(t, e, h)
              /\ EventWaiterFree(h)
<1>0. waiters[e] \in Seq(Thread)
  BY DEF TInv, TypeOK
<1>1. CASE ToWake(t, e, f) = {}
  <2>1. EndsWake(t, e) /\ UNCHANGED event_waiter_pool
    BY <1>1 DEF Walk, EndsWake, Unlocks, Goto
  <2>2. \A x \in Linked(waiters[e]) : ~Satisfied(f, ParamsOf(x))
    BY <1>0, <1>1, LinkedIndex DEF ToWake
  <2>. QED BY <2>1, <2>2
<1>2. CASE ToWake(t, e, f) # {}
  <2>1. PICK k \in 1..Len(waiters[e]) : k = Lowest(ToWake(t, e, f))
    <3>1. ToWake(t, e, f) \in SUBSET Nat /\ ToWake(t, e, f) \subseteq 1..Len(waiters[e])
      BY <1>0 DEF ToWake
    <3>. QED BY <1>2, <3>1, LowestIn
  <2>2. PICK h : h = waiters[e][k]
    OBVIOUS
  <2>3. h \in Linked(waiters[e])
    BY <1>0, <2>2, LinkedIndex
  <2>4. /\ spin' = [spin EXCEPT ![StripeOf[e]] = <<t, e>>]
        /\ tgt' = [tgt EXCEPT ![t] = h] /\ pc' = [pc EXCEPT ![t] = "wake"]
        /\ waiters' = [waiters EXCEPT ![e] = RemoveAt(waiters[e], k)]
        /\ EventWaiterFree(h)
    BY <1>2, <2>1, <2>2 DEF Walk, Locks, Goto
  <2>5. waiters' \in [WaitList -> Seq(Thread)]
    BY <1>0, <2>4, UnlinkAt DEF TInv, TypeOK
  <2>6. ASSUME Lists PROVE TakesWaiter(t, e, h)
    <3>1. WaitersOK(waiters) /\ waiters \in [WaitList -> Seq(Thread)]
      BY <2>6 DEF Lists, TInv, TypeOK
    <3>2. IsInjective(waiters'[e]) /\ Linked(waiters'[e]) = Linked(waiters[e]) \ {h}
      BY <1>0, <2>2, <2>4, <3>1, UnlinkAt DEF WaitersOK
    <3>3. \A v \in WaitList : v # e => waiters'[v] = waiters[v] /\ h \notin Linked(waiters[v])
      BY <2>3, <2>4, <3>1 DEF WaitersOK
    <3>4. \A v \in WaitList : \A x : x \in Linked(waiters'[v]) <=> x \in Linked(waiters[v]) /\ x # h
      BY <3>2, <3>3
    <3>5. WaitersOK(waiters')
      BY <3>1, <3>2, <3>3, <3>4 DEF WaitersOK
    <3>. QED BY <2>3, <2>4, <2>5, <3>4, <3>5 DEF TakesWaiter
  <2>. QED BY <2>3, <2>4, <2>5, <2>6
<1>. QED BY <1>1, <1>2
-----------------------------------------------------------------------------
(* Event flags: the steps *)

\* A walk of event_flags_set(): of its first stretch, and of those behind a
\* waiter that was unblocked or freed.
Stretch(t, e) == EventSet(t, e) \/ EventUnblock(t, e) \/ EventFree(t, e)

\* All else that happens is a step of the scheduler.
LEMMA EventSteps ==
  ASSUME [EventNext]_<<lvars, evars>>
  PROVE  [Next]_vars \/ \E t \in Thread, e \in WaitList : Stretch(t, e)
<1>1. CASE EventSched
  BY <1>1 DEF EventSched, Aside, CallsOut, Next, Waiting
<1>2. ASSUME NEW t \in Thread, EventCall(t)
      PROVE  [Next]_vars \/ \E e \in WaitList : Stretch(t, e)
  <2>1. PICK e \in WaitList : \/ \E p \in Masks[t] : Await(t, e, p) \/ AwaitBlocks(t, e, p)
                              \/ EventSet(t, e) \/ EventClear(t, e)
    BY <1>2 DEF EventCall
  <2>2. ASSUME NEW p, Await(t, e, p) PROVE UNCHANGED vars
    BY <2>2 DEF Await
  <2>3. ASSUME NEW p, AwaitBlocks(t, e, p) PROVE Next
    <3>1. WaitEnqueue(t, e)
      BY <2>3 DEF AwaitBlocks, Blocks, AwaitCall
    <3>. QED BY <3>1, CallNext
  <2>4. ASSUME EventClear(t, e) PROVE UNCHANGED vars
    BY <2>4 DEF EventClear, lvars
  <2>. QED BY <2>1, <2>2, <2>3, <2>4 DEF Stretch
<1>3. ASSUME NEW t \in Thread, EventWake(t)
      PROVE  [Next]_vars \/ \E e \in WaitList : Stretch(t, e)
  <2>1. PICK e \in WaitList : EventUnblock(t, e) \/ EventZombie(t, e) \/ EventFree(t, e)
    BY <1>3 DEF EventWake
  <2>. QED BY <2>1 DEF Stretch, EventZombie, Next, Waiting
<1>4. CASE UNCHANGED <<lvars, evars>>
  BY <1>4 DEF lvars
<1>. QED BY <1>1, <1>2, <1>3, <1>4 DEF EventNext

\* The walk keeps the types of the scheduler ...
LEMMA StretchTInv ==
  ASSUME TInv, NEW t \in Thread, NEW e \in WaitList, Stretch(t, e)
  PROVE  TInv'
<1>1. PICK f : Walk(t, e, f)
  BY DEF Stretch, EventSet, EventUnblock, EventFree
<1>2. /\ UNCHANGED <<current_tcb, core>>
      /\ tstate' \in [Thread -> State] /\ tcb_used' \in [Thread -> BOOLEAN]
      /\ kill_pending' \in [Thread -> BOOLEAN] /\ ready_queues' \in [Prio -> Seq(Thread)]
  <2>1. CASE EventSet(t, e)
    BY <2>1 DEF EventSet, TInv, TypeOK
  <2>2. CASE EventUnblock(t, e)
    <3>1. tgt[t] \in Thread
      BY <2>2 DEF EventUnblock, At, TInv, HasTarget
    <3>2. ready_queues' \in [Prio -> Seq(Thread)]
      BY <2>2, <3>1, QueueType DEF EventUnblock, TInv, TypeOK
    <3>. QED BY <2>2, <3>2 DEF EventUnblock, TInv, TypeOK, State
  <2>3. CASE EventFree(t, e)
    BY <2>3 DEF EventFree, FreeSlot, TInv, TypeOK, State
  <2>. QED BY <2>1, <2>2, <2>3 DEF Stretch
<1>3. /\ spin' \in [Stripe -> (Thread \X WaitList) \union {Null}]
      /\ waiters' \in [WaitList -> Seq(Thread)]
      /\ tgt' \in [Thread -> Thread \union {Null}] /\ pc' \in [Thread -> PC] /\ HasTarget'
  <2>1. CASE EndsWake(t, e)
    <3>1. /\ spin' \in [Stripe -> (Thread \X WaitList) \union {Null}]
          /\ waiters' \in [WaitList -> Seq(Thread)]
      BY <2>1, SchedAssumption DEF EndsWake, TInv, TypeOK
    <3>2. tgt' \in [Thread -> Thread \union {Null}] /\ pc' \in [Thread -> PC] /\ HasTarget'
      BY <2>1 DEF EndsWake, TInv, TypeOK, PC, HasTarget
    <3>. QED BY <3>1, <3>2
  <2>2. ASSUME NEW h \in Linked(waiters[e]),
               spin' = [spin EXCEPT ![StripeOf[e]] = <<t, e>>],
               tgt' = [tgt EXCEPT ![t] = h], pc' = [pc EXCEPT ![t] = "wake"],
               waiters' \in [WaitList -> Seq(Thread)]
        PROVE  /\ spin' \in [Stripe -> (Thread \X WaitList) \union {Null}]
               /\ waiters' \in [WaitList -> Seq(Thread)]
               /\ tgt' \in [Thread -> Thread \union {Null}] /\ pc' \in [Thread -> PC] /\ HasTarget'
    <3>1. h \in Thread
      BY WaitsThread
    <3>2. spin' \in [Stripe -> (Thread \X WaitList) \union {Null}]
      BY <2>2, SchedAssumption DEF TInv, TypeOK
    <3>3. tgt' \in [Thread -> Thread \union {Null}] /\ pc' \in [Thread -> PC] /\ HasTarget'
      BY <2>2, <3>1 DEF TInv, TypeOK, PC, HasTarget
    <3>. QED BY <2>2, <3>2, <3>3
  <2>. QED BY <1>1, <2>1, <2>2, WalkEffect
<1>. QED BY <1>2, <1>3 DEF TInv, TypeOK

\* ... runs no thread ...
LEMMA StretchCoreInv ==
  ASSUME TInv, CoreInv, NEW t \in Thread, NEW e \in WaitList, Stretch(t, e)
  PROVE  CoreInv'
<1>1. UNCHANGED current_tcb /\ \A x \in Thread : tstate'[x] = "running" => tstate[x] = "running"
  BY DEF Stretch, EventSet, EventUnblock, EventFree, FreeSlot, TInv, TypeOK
<1>. QED BY <1>1 DEF CoreInv, OneCore, RunningIsCurrent, Executing

\* ... and keeps what is known of the lists and of who frees a thread.
LEMMA StretchLife ==
  ASSUME TInv, CoreInv, LifeInv, Discipline, NEW t \in Thread, NEW e \in WaitList, Stretch(t, e)
  PROVE  LifeInv'
<1>1. ASSUME NEW f, Walk(t, e, f) PROVE WalksOn(t, e)
  BY <1>1, WalkEffect DEF WalksOn, LifeInv
<1>2. CASE EventSet(t, e)
  BY <1>1, <1>2, BeginLife DEF EventSet
<1>3. CASE EventUnblock(t, e)
  BY <1>1, <1>3, UnblockedLife DEF EventUnblock
<1>4. CASE EventFree(t, e)
  BY <1>1, <1>4, FreedLife DEF EventFree
<1>. QED BY <1>2, <1>3, <1>4 DEF Stretch

\* So the walk of event_flags_set() leaves the lists as safe as wake_one() does.
LEMMA SpecEventLife == EventSpec /\ []Discipline => [](TInv /\ CoreInv /\ LifeInv)
<1> DEFINE Inv == TInv /\ CoreInv /\ LifeInv
<1>1. EventInit => Inv
  BY InitTInv, InitCoreInv, InitLife DEF EventInit, LInit
<1>2. Inv /\ Discipline /\ [EventNext]_<<lvars, evars>> => Inv'
  <2> SUFFICES ASSUME Inv, Discipline, [EventNext]_<<lvars, evars>> PROVE Inv'
    OBVIOUS
  <2>1. CASE [Next]_vars
    BY <2>1, NextTInv, NextCoreInv, NextLife
  <2>2. ASSUME NEW t \in Thread, NEW e \in WaitList, Stretch(t, e) PROVE Inv'
    BY <2>2, StretchTInv, StretchCoreInv, StretchLife
  <2>. QED BY <2>1, <2>2, EventSteps
<1>. QED BY <1>1, <1>2, PTL DEF EventSpec
-----------------------------------------------------------------------------
(* Event flags: the pool and the sleepers *)

\* A listed thread is inside event_flags_wait() on that object.
Listed == \A e \in WaitList : \A x \in Linked(waiters[e]) :
  want[x] # Null /\ want[x][1] = e /\ "await" \in Uses[x]

\* Slot i is t's, with the parameters p.
Names(i, t, p) == /\ event_waiter_pool[i] # Null
                  /\ event_waiter_pool[i][1] = t /\ event_waiter_pool[i][2] = p

\* A thread that waits has one slot, with what it waits for; nobody else has one.
PoolOK ==
  /\ \A t \in Thread : Waits(t) => \E i \in Slot : Names(i, t, want[t][2])
  /\ \A i, j \in Slot : event_waiter_pool[i] # Null /\ event_waiter_pool[j] # Null
                        /\ event_waiter_pool[i][1] = event_waiter_pool[j][1] => i = j
  /\ \A i \in Slot : \A t : event_waiter_pool[i] # Null /\ event_waiter_pool[i][1] = t => Waits(t)

\* No walk is under way on e.
AtRest(e) == \A k \in Thread : Holds(k, e) => ~Waker(k)

\* The flags of an object at rest satisfy nobody in its list: a killed waiter or
\* one that has yet to block no more than the others.
Asleep == \A e \in WaitList : AtRest(e) =>
  \A x \in Linked(waiters[e]) : ~Satisfied(flags[e], want[x][2])

EventInv == Listed /\ PoolOK /\ Asleep /\ Holding

\* What event_flags_set() and event_waiter_free() find for a listed waiter.
LEMMA SlotFound ==
  ASSUME PoolOK, NEW t \in Thread, Waits(t)
  PROVE  \E i \in Slot : /\ SlotsOf(t) = {i} /\ Lowest(SlotsOf(t)) = i
                         /\ ParamsOf(t) = want[t][2]
<1>1. PICK i \in Slot : Names(i, t, want[t][2])
  BY DEF PoolOK
<1>2. SlotsOf(t) = {i}
  BY <1>1 DEF SlotsOf, PoolOK, Names
<1>3. Lowest(SlotsOf(t)) = i
  <2>1. SlotsOf(t) \in SUBSET Nat /\ SlotsOf(t) # {}
    BY <1>2 DEF Slot
  <2>2. Lowest(SlotsOf(t)) \in SlotsOf(t)
    BY <2>1, LowestIn
  <2>. QED BY <1>2, <2>2
<1>4. ParamsOf(t) = want[t][2]
  BY <1>1, <1>2, <1>3 DEF ParamsOf, Names
<1>. QED BY <1>2, <1>3, <1>4

\* A thread that comes to wait finds a slot: MAX_EVENT_WAITERS is MAX_THREADS.
LEMMA SlotLeft ==
  ASSUME EnoughSlots, TInv, Listed, PoolOK, NEW t \in Thread, "await" \in Uses[t], ~Waits(t)
  PROVE  FreeSlots(event_waiter_pool) # {}
<1> SUFFICES ASSUME \A i \in Slot : event_waiter_pool[i] # Null PROVE FALSE
  BY DEF FreeSlots
<1> DEFINE B == {u \in Thread : "await" \in Uses[u]}
           f == [i \in Slot |-> event_waiter_pool[i][1]]
<1>1. IsFiniteSet(B) /\ Cardinality(B) \in Nat
  BY UsesAssumption, FS_Subset, FS_CardinalityType
<1>2. IsFiniteSet(B \ {t}) /\ Cardinality(B \ {t}) = Cardinality(B) - 1
  <2>1. t \in B
    OBVIOUS
  <2> HIDE DEF B
  <2>. QED BY <1>1, <2>1, FS_RemoveElement
<1>3. f \in Injection(Slot, B \ {t})
  <2>1. ASSUME NEW i \in Slot PROVE event_waiter_pool[i][1] \in B \ {t}
    <3>1. Waits(event_waiter_pool[i][1])
      BY DEF PoolOK
    <3>2. PICK x : x = event_waiter_pool[i][1]
      OBVIOUS
    <3>3. PICK e \in WaitList : x \in Linked(waiters[e])
      BY <3>1, <3>2 DEF Waits
    <3>4. x \in Thread /\ "await" \in Uses[x]
      BY <3>3, WaitsThread DEF Listed
    <3>5. x # t
      BY <3>1, <3>2
    <3>. QED BY <3>2, <3>4, <3>5
  <2>2. \A i, j \in Slot : event_waiter_pool[i][1] = event_waiter_pool[j][1] => i = j
    BY DEF PoolOK
  <2> HIDE DEF B
  <2>3. f \in [Slot -> B \ {t}]
    BY <2>1
  <2>4. IsInjective(f)
    BY <2>2 DEF IsInjective
  <2>. QED BY <2>3, <2>4 DEF Injection
<1>4. Cardinality(Slot) <= Cardinality(B \ {t})
  <2> HIDE DEF B, f
  <2>. QED BY <1>2, <1>3, FS_Injection
<1>5. Cardinality(Slot) = MaxEventWaiters
  BY EventAssumption, FS_Interval DEF Slot
<1>6. Cardinality(B) <= MaxEventWaiters /\ MaxEventWaiters \in Nat
  BY EventAssumption DEF EnoughSlots
<1> HIDE DEF B
<1>. QED BY <1>1, <1>2, <1>4, <1>5, <1>6

\* A step that works on no waiter list: no walk begins or ends.
Calm ==
  /\ UNCHANGED waiters
  /\ \A x \in Thread, e \in WaitList : Holds(x, e)' => Holds(x, e) /\ pc'[x] \in IrqOff
  /\ \A x \in Thread, e \in WaitList : Holds(x, e) /\ Waker(x) => Holds(x, e)' /\ Waker(x)'

\* It disturbs nothing, if it sets no flags either.
LEMMA CalmKeeps ==
  ASSUME TInv, EventInv, Calm, UNCHANGED event_waiter_pool,
         \A e \in WaitList : \A p : Satisfied(flags'[e], p) => Satisfied(flags[e], p),
         \A x \in Thread : Waits(x) => want'[x] = want[x]
  PROVE  EventInv'
<1>1. /\ UNCHANGED waiters /\ \A x : Waits(x)' <=> Waits(x)
      /\ \A e \in WaitList : \A x \in Linked(waiters[e]) : x \in Thread /\ want'[x] = want[x]
  BY WaitsThread DEF Calm, Waits
<1>2. Listed'
  BY <1>1 DEF EventInv, Listed
<1>3. PoolOK'
  BY <1>1 DEF EventInv, PoolOK, Names
<1>4. \A e \in WaitList : AtRest(e)' => AtRest(e)
  BY DEF Calm, AtRest
<1>5. Asleep'
  BY <1>1, <1>4 DEF EventInv, Asleep
<1>6. Holding'
  BY DEF Calm, EventInv, Holding
<1>. QED BY <1>2, <1>3, <1>5, <1>6 DEF EventInv

\* It is enough that a thread with its interrupts off stays where it is, or
\* goes from one section of a walk to the next.
LEMMA QuietCalm ==
  ASSUME Holding, UNCHANGED <<spin, waiters>>,
         \A x \in Thread : pc[x] \in IrqOff => pc'[x] = pc[x] \/ (Waker(x) /\ Waker(x)')
  PROVE  Calm
<1>1. \A x \in Thread, e \in WaitList : Holds(x, e)' <=> Holds(x, e)
  BY DEF Holds
<1>. QED BY <1>1 DEF Calm, Holding, Waker, IrqOff

\* The switch, the timers and the life cycle keep off the threads that have
\* their interrupts off; sched_block() frees its own stripe.
LEMMA SchedCalm ==
  ASSUME TInv, CoreInv, LifeInv, Discipline, Holding,
         \/ Interrupt
         \/ \E c \in Core : Yield(c)
         \/ \E t \in Thread : \/ Lifecycle(t)
                              \/ \E e \in WaitList : WaitBlock(t, e) \/ WakeZombie(t, e)
  PROVE  Calm
<1>1. ASSUME NEW c \in Core, Slice(c) \/ Yield(c) PROVE Calm
  <2>1. PICK cur \in Thread : cur = current_tcb[c]
    BY DEF TInv, TypeOK
  <2>2. pc[cur] \notin IrqOff /\ UNCHANGED <<spin, waiters>>
    BY <1>1, <2>1 DEF Slice, Yield, SchedNext, IrqOff
  <2>3. PICK l : pc' = [pc EXCEPT ![cur] = l]
    BY <1>1, <2>1, SwitchPlace
  <2>. QED BY <2>2, <2>3, QuietCalm DEF TInv, TypeOK
<1>2. ASSUME NEW t \in Thread, TickWake(t) PROVE Calm
  BY <1>2, QuietCalm DEF TickWake
<1>3. ASSUME NEW t \in Thread, Lifecycle(t) PROVE Calm
  <2>1. UNCHANGED <<spin, waiters>> /\ pc[t] \notin IrqOff
    BY <1>3 DEF Lifecycle, Sleep, ExitRead, ExitMark, KillRead, KillMark, KillFree,
                CreateScan, CreateClaim, CreateFail, CreatePublish, Enters, At, IrqOff
  <2>2. CASE KillFree(t) \/ CreateClaim(t)
    <3>1. PICK v \in Thread : v = tgt[t]
      BY <2>2 DEF KillFree, CreateClaim, At, TInv, HasTarget
    <3>2. \E l : pc' = [pc EXCEPT ![t] = l, ![v] = "run"]
      BY <2>2, <3>1 DEF KillFree, CreateClaim
    <3>3. ~Executing(v)
      <4>1. CASE KillFree(t)
        BY <3>1, <4>1 DEF KillFree, At, LifeInv, Hands, Freer
      <4>2. CASE CreateClaim(t)
        BY <3>1, <4>2 DEF CreateClaim, At, LifeInv, Births, Lives, Life
      <4>. QED BY <2>2, <4>1, <4>2
    <3>4. pc[v] \notin IrqOff
      BY <3>3 DEF LifeInv, Places
    <3>. QED BY <2>1, <3>2, <3>4, QuietCalm DEF TInv, TypeOK
  <2>3. CASE ~(KillFree(t) \/ CreateClaim(t))
    <3>1. \E l : pc' = [pc EXCEPT ![t] = l]
      BY <1>3, <2>3 DEF Lifecycle, Sleep, ExitRead, ExitMark, KillRead, KillMark, CreateScan,
                        CreateFail, CreatePublish, Goto
    <3>. QED BY <2>1, <3>1, QuietCalm DEF TInv, TypeOK
  <2>. QED BY <2>2, <2>3
<1>4. ASSUME NEW t \in Thread, NEW e \in WaitList, WaitBlock(t, e) PROVE Calm
  <2>1. /\ pc[t] = "enqueued" /\ Holds(t, e) /\ UNCHANGED waiters
        /\ pc' = [pc EXCEPT ![t] = "yield"] /\ spin' = [spin EXCEPT ![StripeOf[e]] = Null]
    BY <1>4 DEF WaitBlock, At, Goto, Unlocks
  <2>2. \A x \in Thread : x # t => pc'[x] = pc[x]
    BY <2>1 DEF TInv, TypeOK
  <2>3. /\ \A x \in Thread, w \in WaitList : w # e => (Holds(x, w)' <=> Holds(x, w))
        /\ \A x \in Thread : ~Holds(x, e)'
    <3>1. <<t, e>> # Null
      BY SchedAssumption
    <3>2. \A h : (h = Null \/ h = <<t, e>>) /\ spin' = [spin EXCEPT ![StripeOf[e]] = h] =>
            /\ \A x \in Thread, w \in WaitList : w # e => (Holds(x, w)' <=> Holds(x, w))
            /\ \A x \in Thread : Holds(x, e)' <=> h = <<t, e>> /\ x = t
      BY <2>1, OthersHold
    <3>. QED BY <2>1, <3>1, <3>2
  <2>4. \A w \in WaitList : Holds(t, w) => w = e
    BY <2>1 DEF Holding
  <2>5. \A x \in Thread : Holds(x, e) => x = t
    BY <2>1 DEF Holds
  <2>6. ~Waker(t)
    BY <2>1 DEF Waker
  <2>7. \A x \in Thread, w \in WaitList : Holds(x, w)' => Holds(x, w) /\ x # t
    BY <2>3, <2>4
  <2>. QED BY <2>1, <2>2, <2>3, <2>5, <2>6, <2>7 DEF Calm, Holding, Waker
<1>5. ASSUME NEW t \in Thread, NEW e \in WaitList, WakeZombie(t, e) PROVE Calm
  BY <1>5, QuietCalm DEF WakeZombie, At, Goto, Waker, TInv, TypeOK
<1>. QED BY <1>1, <1>2, <1>3, <1>4, <1>5 DEF Interrupt

\* No thread that waits is freed behind its waker's back.
LEMMA ForgetWaits ==
  ASSUME TInv, LifeInv', Forget, NEW x \in Thread, Waits(x)'
  PROVE  want'[x] = want[x]
BY DEF Forget, LifeInv, Lives, Life

\* event_flags_wait() goes to sleep with a slot, beside flags that do not
\* satisfy it.
LEMMA BlocksKeeps ==
  ASSUME EnoughSlots, TInv, LifeInv, EventTypeOK, EventInv, NEW t \in Thread, NEW e \in WaitList,
         NEW p \in Masks[t], AwaitBlocks(t, e, p)
  PROVE  EventInv'
<1>1. /\ "await" \in Uses[t] /\ ~Satisfied(flags[e], p) /\ UNCHANGED flags
      /\ Executing(t) /\ pc[t] = "run" /\ Unlocked(e)
      /\ EventWaiterAlloc(t, p) /\ want' = [want EXCEPT ![t] = <<e, p>>]
      /\ waiters' = [waiters EXCEPT ![e] = Append(@, t)]
      /\ spin' = [spin EXCEPT ![StripeOf[e]] = <<t, e>>]
      /\ pc' = [pc EXCEPT ![t] = "enqueued"]
  BY DEF AwaitBlocks, Tests, At, Blocks, AwaitCall, WaitEnqueue, Locks, Goto
<1>2. ~Waits(t)
  BY <1>1 DEF LifeInv, Lives, Life
<1>3. /\ \A v \in WaitList : \A x :
           x \in Linked(waiters'[v]) <=> x \in Linked(waiters[v]) \/ (v = e /\ x = t)
      /\ \A x : Waits(x)' <=> Waits(x) \/ x = t
  BY <1>1, <1>2, EnqueueWaits DEF LifeInv
<1>4. PICK i \in Slot : /\ event_waiter_pool[i] = Null
                        /\ event_waiter_pool' = [event_waiter_pool EXCEPT ![i] = <<t, p>>]
  <2>1. FreeSlots(event_waiter_pool) # {}
    BY <1>1, <1>2, SlotLeft DEF EventInv
  <2>2. FreeSlots(event_waiter_pool) \in SUBSET Nat
    BY DEF FreeSlots, Slot
  <2>3. Lowest(FreeSlots(event_waiter_pool)) \in FreeSlots(event_waiter_pool)
    BY <2>1, <2>2, LowestIn
  <2>. QED BY <1>1, <2>1, <2>3 DEF EventWaiterAlloc, FreeSlots
<1>5. /\ event_waiter_pool'[i] = <<t, p>> /\ <<t, p>> # Null
      /\ \A j \in Slot : j # i => event_waiter_pool'[j] = event_waiter_pool[j]
  BY <1>4, EventAssumption DEF EventTypeOK
<1>6. /\ want'[t] = <<e, p>> /\ <<e, p>> # Null
      /\ \A x \in Thread : x # t => want'[x] = want[x]
  BY <1>1, EventAssumption DEF EventTypeOK
<1>7. /\ \A x \in Thread, w \in WaitList : w # e => (Holds(x, w)' <=> Holds(x, w))
      /\ \A x \in Thread : Holds(x, e)' <=> x = t
  <2>1. PICK h : h = <<t, e>>
    OBVIOUS
  <2>2. spin' = [spin EXCEPT ![StripeOf[e]] = h]
    BY <1>1, <2>1
  <2>3. /\ \A x \in Thread, w \in WaitList : w # e => (Holds(x, w)' <=> Holds(x, w))
        /\ \A x \in Thread : Holds(x, e)' <=> h = <<t, e>> /\ x = t
    BY <1>1, <2>1, <2>2, OthersHold
  <2>. QED BY <2>1, <2>3
<1>8. /\ pc'[t] = "enqueued" /\ \A x \in Thread : x # t => pc'[x] = pc[x]
      /\ \A w \in WaitList : ~Holds(t, w)
  BY <1>1 DEF TInv, TypeOK, EventInv, Holding, IrqOff
<1>9. \A w \in WaitList : \A x \in Linked(waiters[w]) : x \in Thread /\ x # t
  BY <1>2, WaitsThread
<1>10. Listed'
  <2>1. want'[t] # Null /\ want'[t][1] = e
    BY <1>6
  <2>2. ASSUME NEW w \in WaitList, NEW x, x \in Linked(waiters'[w])
        PROVE  want'[x] # Null /\ want'[x][1] = w /\ "await" \in Uses[x]
    <3>1. CASE x \in Linked(waiters[w])
      <4>1. want'[x] = want[x]
        BY <1>6, <1>9, <3>1
      <4>. QED BY <3>1, <4>1 DEF EventInv, Listed
    <3>2. CASE w = e /\ x = t
      BY <1>1, <2>1, <3>2
    <3>. QED BY <1>3, <2>2, <3>1, <3>2
  <2>. QED BY <2>2 DEF Listed
<1>11. PoolOK'
  <2>1. ASSUME NEW x \in Thread, Waits(x)' PROVE \E j \in Slot : Names(j, x, want[x][2])'
    <3>1. CASE x = t
      <4>1. /\ event_waiter_pool'[i] # Null /\ event_waiter_pool'[i][1] = t
            /\ event_waiter_pool'[i][2] = p /\ want'[t][2] = p
        BY <1>5, <1>6
      <4>. QED BY <3>1, <4>1 DEF Names
    <3>2. CASE x # t
      <4>1. Waits(x) /\ want'[x] = want[x]
        BY <1>3, <1>6, <2>1, <3>2
      <4>2. PICK j \in Slot : Names(j, x, want[x][2])
        BY <4>1 DEF EventInv, PoolOK
      <4>3. j # i
        BY <1>4, <4>2 DEF Names
      <4>. QED BY <1>5, <4>1, <4>2, <4>3 DEF Names
    <3>. QED BY <3>1, <3>2
  <2>2. \A j \in Slot : event_waiter_pool[j] # Null => event_waiter_pool[j][1] # t
    BY <1>2 DEF EventInv, PoolOK
  <2>3. \A j, k \in Slot : event_waiter_pool'[j] # Null /\ event_waiter_pool'[k] # Null
                           /\ event_waiter_pool'[j][1] = event_waiter_pool'[k][1] => j = k
    BY <1>5, <2>2 DEF EventInv, PoolOK
  <2>4. \A j \in Slot : \A u : event_waiter_pool'[j] # Null /\ event_waiter_pool'[j][1] = u => Waits(u)'
    BY <1>3, <1>5 DEF EventInv, PoolOK
  <2>. QED BY <2>1, <2>3, <2>4 DEF PoolOK
<1>12. Asleep'
  <2>1. ASSUME NEW w \in WaitList, AtRest(w)' PROVE AtRest(w)
    <3>1. CASE w = e
      <4>1. \A k \in Thread : <<k, e>> # Null
        BY SchedAssumption
      <4>. QED BY <1>1, <3>1, <4>1 DEF AtRest, Holds, Unlocked
    <3>2. CASE w # e
      BY <1>7, <1>8, <2>1, <3>2 DEF AtRest, Waker
    <3>. QED BY <3>1, <3>2
  <2>2. ASSUME NEW w \in WaitList, AtRest(w)', NEW x \in Linked(waiters'[w])
        PROVE  ~Satisfied(flags'[w], want'[x][2])
    <3>1. CASE w = e /\ x = t
      BY <1>1, <1>6, <3>1
    <3>2. CASE ~(w = e /\ x = t)
      BY <1>1, <1>3, <1>6, <1>9, <2>1, <2>2, <3>2 DEF EventInv, Asleep
    <3>. QED BY <3>1, <3>2
  <2>. QED BY <2>2 DEF Asleep
<1>13. Holding'
  <2>1. ASSUME NEW k \in Thread, NEW w \in WaitList, Holds(k, w)'
        PROVE  pc'[k] \in IrqOff /\ \A u \in WaitList : Holds(k, u)' => u = w
    <3>1. CASE k = t
      BY <1>7, <1>8, <2>1, <3>1 DEF IrqOff
    <3>2. CASE k # t
      BY <1>7, <1>8, <2>1, <3>2 DEF EventInv, Holding
    <3>. QED BY <3>1, <3>2
  <2>. QED BY <2>1 DEF Holding
<1>. QED BY <1>10, <1>11, <1>12, <1>13 DEF EventInv

\* A stretch of the walk takes a waiter from its list and its slot, or leaves
\* nobody asleep whom the flags satisfy.
LEMMA WalkKeeps ==
  ASSUME TInv, LifeInv, LifeInv', EventTypeOK, EventInv, NEW t \in Thread, NEW e \in WaitList,
         Holds(t, e) \/ (Unlocked(e) /\ pc[t] = "run"),
         NEW f, flags' = [flags EXCEPT ![e] = f], Walk(t, e, f),
         \A x \in Thread : Waits(x)' => want'[x] = want[x]
  PROVE  EventInv'
<1>1. flags'[e] = f /\ \A w \in WaitList : w # e => flags'[w] = flags[w]
  BY DEF EventTypeOK
<1>2. \A w \in WaitList : w # e => ~Holds(t, w)
  BY DEF EventInv, Holding, IrqOff
<1>3. \A x \in Thread : x # t => ~Holds(x, e)
  <2>1. <<t, e>> # Null /\ \A x \in Thread : <<x, e>> # Null
    BY SchedAssumption
  <2>. QED BY <2>1 DEF Holds, Unlocked
<1>4. <<t, e>> # Null
  BY SchedAssumption
<1>5. \A h : (h = Null \/ h = <<t, e>>) /\ spin' = [spin EXCEPT ![StripeOf[e]] = h] =>
        /\ \A x \in Thread, w \in WaitList : w # e => (Holds(x, w)' <=> Holds(x, w))
        /\ \A x \in Thread : Holds(x, e)' <=> h = <<t, e>> /\ x = t
  BY OthersHold
<1>6. ASSUME \A x \in Thread : x # t => pc'[x] = pc[x],
             \A x \in Thread, w \in WaitList : w # e => (Holds(x, w)' <=> Holds(x, w))
      PROVE  \A w \in WaitList : w # e /\ AtRest(w)' => AtRest(w)
  BY <1>2, <1>6 DEF AtRest, Waker
<1>7. \A w \in WaitList : \A x \in Linked(waiters[w]) : x \in Thread /\ Waits(x)
  BY WaitsThread
<1>8. CASE /\ EndsWake(t, e) /\ UNCHANGED event_waiter_pool
           /\ \A x \in Linked(waiters[e]) : ~Satisfied(f, ParamsOf(x))
  <2>1. /\ UNCHANGED <<waiters, event_waiter_pool>> /\ \A x : Waits(x)' <=> Waits(x)
        /\ \A x \in Thread : x # t => pc'[x] = pc[x]
    BY <1>8 DEF EndsWake, Waits, TInv, TypeOK
  <2>2. /\ \A x \in Thread, w \in WaitList : w # e => (Holds(x, w)' <=> Holds(x, w))
        /\ \A x \in Thread : ~Holds(x, e)'
    BY <1>4, <1>5, <1>8 DEF EndsWake
  <2>3. \A w \in WaitList : \A x \in Linked(waiters[w]) : want'[x] = want[x]
    BY <1>7, <2>1
  <2>4. Listed'
    BY <2>1, <2>3 DEF EventInv, Listed
  <2>5. PoolOK'
    BY <2>1 DEF EventInv, PoolOK, Names
  <2>6. Asleep'
    <3>1. ASSUME NEW x \in Linked(waiters[e]) PROVE ~Satisfied(f, want[x][2])
      BY <1>7, <1>8, SlotFound DEF EventInv
    <3>. QED BY <1>1, <1>6, <2>1, <2>2, <2>3, <3>1 DEF EventInv, Asleep
  <2>7. Holding'
    BY <1>2, <2>1, <2>2 DEF EventInv, Holding
  <2>. QED BY <2>4, <2>5, <2>6, <2>7 DEF EventInv
<1>9. ASSUME NEW h \in Linked(waiters[e]), TakesWaiter(t, e, h), EventWaiterFree(h)
      PROVE  EventInv'
  <2>1. /\ h \in Thread /\ Waits(h) /\ \A x : Waits(x)' <=> Waits(x) /\ x # h
        /\ \A v \in WaitList : \A x : x \in Linked(waiters'[v]) <=> x \in Linked(waiters[v]) /\ x # h
    BY <1>9, TakenWaits DEF TakesWaiter
  <2>2. pc'[t] = "wake" /\ \A x \in Thread : x # t => pc'[x] = pc[x]
    BY <1>9 DEF TakesWaiter, TInv, TypeOK
  <2>3. /\ \A x \in Thread, w \in WaitList : w # e => (Holds(x, w)' <=> Holds(x, w))
        /\ \A x \in Thread : Holds(x, e)' <=> x = t
    BY <1>4, <1>5, <1>9 DEF TakesWaiter
  <2>4. PICK i \in Slot : SlotsOf(h) = {i} /\ Lowest(SlotsOf(h)) = i
    BY <2>1, SlotFound DEF EventInv
  <2>5. /\ event_waiter_pool' = [event_waiter_pool EXCEPT ![i] = Null]
        /\ event_waiter_pool[i] # Null /\ event_waiter_pool[i][1] = h
        /\ \A j \in Slot : event_waiter_pool[j] # Null /\ event_waiter_pool[j][1] = h => j = i
    BY <1>9, <2>4 DEF EventWaiterFree, SlotsOf
  <2>6. /\ event_waiter_pool'[i] = Null
        /\ \A j \in Slot : j # i => event_waiter_pool'[j] = event_waiter_pool[j]
    BY <2>5 DEF EventTypeOK
  <2>7. \A w \in WaitList : \A x \in Linked(waiters'[w]) :
          x \in Linked(waiters[w]) /\ want'[x] = want[x]
    BY <1>7, <2>1
  <2>8. Listed'
    BY <2>7 DEF EventInv, Listed
  <2>9. PoolOK'
    <3>1. ASSUME NEW x \in Thread, Waits(x)' PROVE \E j \in Slot : Names(j, x, want[x][2])'
      <4>1. Waits(x) /\ x # h /\ want'[x] = want[x]
        BY <2>1, <3>1
      <4>2. PICK j \in Slot : Names(j, x, want[x][2])
        BY <4>1 DEF EventInv, PoolOK
      <4>3. j # i
        BY <2>5, <4>1, <4>2 DEF Names
      <4>. QED BY <2>6, <4>1, <4>2, <4>3 DEF Names
    <3>2. \A j, k \in Slot : event_waiter_pool'[j] # Null /\ event_waiter_pool'[k] # Null
                             /\ event_waiter_pool'[j][1] = event_waiter_pool'[k][1] => j = k
      BY <2>6 DEF EventInv, PoolOK
    <3>3. \A j \in Slot : \A u : event_waiter_pool'[j] # Null /\ event_waiter_pool'[j][1] = u => Waits(u)'
      BY <2>1, <2>5, <2>6 DEF EventInv, PoolOK
    <3>. QED BY <3>1, <3>2, <3>3 DEF PoolOK
  <2>10. Asleep'
    <3>1. ~AtRest(e)'
      BY <2>2, <2>3 DEF AtRest, Waker
    <3>. QED BY <1>1, <1>6, <2>2, <2>3, <2>7, <3>1 DEF EventInv, Asleep
  <2>11. Holding'
    <3>1. ASSUME NEW k \in Thread, NEW w \in WaitList, Holds(k, w)'
          PROVE  pc'[k] \in IrqOff /\ \A u \in WaitList : Holds(k, u)' => u = w
      <4>1. CASE k = t
        BY <1>2, <2>2, <2>3, <3>1, <4>1 DEF IrqOff
      <4>2. CASE k # t
        BY <2>2, <2>3, <3>1, <4>2 DEF EventInv, Holding
      <4>. QED BY <4>1, <4>2
    <3>. QED BY <3>1 DEF Holding
  <2>. QED BY <2>8, <2>9, <2>10, <2>11 DEF EventInv
<1>. QED BY <1>8, <1>9, WalkEffect DEF LifeInv

\* Every step keeps the types: the flags are bits, a slot is empty or names a
\* thread and what it may wait for.
ETInv == TInv /\ EventTypeOK

LEMMA NextETInv == ETInv /\ [EventNext]_<<lvars, evars>> => ETInv'
<1> SUFFICES ASSUME ETInv, [EventNext]_<<lvars, evars>> PROVE ETInv'
  OBVIOUS
<1>1. TInv'
  BY EventSteps, NextTInv, StretchTInv DEF ETInv
<1>2. ASSUME UNCHANGED <<want, flags, event_waiter_pool>> PROVE ETInv'
  BY <1>1, <1>2 DEF ETInv, EventTypeOK, TInv
<1>3. ASSUME Forget, UNCHANGED evars PROVE ETInv'
  BY <1>1, <1>3 DEF ETInv, EventTypeOK, TInv, Forget, evars
<1>4. CASE EventSched
  BY <1>3, <1>4 DEF EventSched, Aside
<1>5. ASSUME NEW t \in Thread, NEW e \in WaitList, NEW f, Walk(t, e, f)
      PROVE  event_waiter_pool' \in
               [Slot -> {<<u, p>> : u \in Thread, p \in UNION {Masks[u] : u \in Thread}} \union {Null}]
  <2>1. CASE UNCHANGED event_waiter_pool
    BY <2>1 DEF ETInv, EventTypeOK
  <2>2. ASSUME NEW h, EventWaiterFree(h)
        PROVE  event_waiter_pool' \in
                 [Slot -> {<<u, p>> : u \in Thread, p \in UNION {Masks[u] : u \in Thread}} \union {Null}]
    <3>1. event_waiter_pool' = event_waiter_pool
          \/ \E i : event_waiter_pool' = [event_waiter_pool EXCEPT ![i] = Null]
      BY <2>2 DEF EventWaiterFree
    <3>2. CASE event_waiter_pool' = event_waiter_pool
      BY <2>1, <3>2
    <3>3. ASSUME NEW i, event_waiter_pool' = [event_waiter_pool EXCEPT ![i] = Null]
          PROVE  event_waiter_pool' \in
                   [Slot -> {<<u, p>> : u \in Thread, p \in UNION {Masks[u] : u \in Thread}} \union {Null}]
      <4> DEFINE Entry == {<<u, p>> : u \in Thread, p \in UNION {Masks[u] : u \in Thread}} \union {Null}
      <4>1. event_waiter_pool \in [Slot -> Entry]
        BY DEF ETInv, EventTypeOK
      <4>2. Null \in Entry
        OBVIOUS
      <4> HIDE DEF Entry
      <4>3. event_waiter_pool' \in [Slot -> Entry]
        BY <3>3, <4>1, <4>2
      <4>. QED BY <4>3 DEF Entry
    <3>. QED BY <3>1, <3>2, <3>3
  <2>. QED BY <1>5, <2>1, <2>2, WalkEffect DEF ETInv
<1>6. ASSUME NEW t \in Thread, EventCall(t) PROVE ETInv'
  <2>1. PICK e \in WaitList : \/ \E p \in Masks[t] : Await(t, e, p) \/ AwaitBlocks(t, e, p)
                              \/ EventSet(t, e) \/ EventClear(t, e)
    BY <1>6 DEF EventCall
  <2>2. SetMask[t] \subseteq Bit
    BY EventAssumption
  <2>3. ASSUME NEW p \in Masks[t], Await(t, e, p) PROVE ETInv'
    BY <1>1, <2>3 DEF Await, Returns, evars, ETInv, EventTypeOK, TInv
  <2>4. ASSUME NEW p \in Masks[t], AwaitBlocks(t, e, p) PROVE ETInv'
    <3>1. p \in UNION {Masks[u] : u \in Thread}
      OBVIOUS
    <3>2. want' = [want EXCEPT ![t] = AwaitCall(e, p)] /\ UNCHANGED flags /\ EventWaiterAlloc(t, p)
      BY <2>4 DEF AwaitBlocks, Blocks
    <3>3. event_waiter_pool' = event_waiter_pool
          \/ \E i : event_waiter_pool' = [event_waiter_pool EXCEPT ![i] = <<t, p>>]
      BY <3>2 DEF EventWaiterAlloc
    <3>. QED BY <1>1, <3>1, <3>2, <3>3 DEF ETInv, EventTypeOK, TInv
  <2>5. CASE EventSet(t, e)
    <3>1. /\ UNCHANGED want /\ flags' = [flags EXCEPT ![e] = flags[e] \union SetMask[t]]
          /\ Walk(t, e, flags[e] \union SetMask[t])
      BY <2>5 DEF EventSet
    <3>2. flags' \in [WaitList -> SUBSET Bit]
      BY <2>2, <3>1 DEF ETInv, EventTypeOK
    <3>. QED BY <1>1, <1>5, <3>1, <3>2 DEF ETInv, EventTypeOK, TInv
  <2>6. CASE EventClear(t, e)
    <3>1. /\ UNCHANGED <<want, event_waiter_pool>>
          /\ flags' = [flags EXCEPT ![e] = flags[e] \ SetMask[t]]
      BY <2>6 DEF EventClear, lvars
    <3>2. flags' \in [WaitList -> SUBSET Bit]
      BY <3>1 DEF ETInv, EventTypeOK
    <3>. QED BY <1>1, <3>1, <3>2 DEF ETInv, EventTypeOK, TInv
  <2>. QED BY <2>1, <2>3, <2>4, <2>5, <2>6
<1>7. ASSUME NEW t \in Thread, EventWake(t) PROVE ETInv'
  <2>1. PICK e \in WaitList : EventUnblock(t, e) \/ EventZombie(t, e) \/ EventFree(t, e)
    BY <1>7 DEF EventWake
  <2>2. CASE EventZombie(t, e)
    BY <1>2, <2>2 DEF EventZombie, evars
  <2>3. CASE EventUnblock(t, e)
    BY <1>1, <1>5, <2>3 DEF EventUnblock, ETInv, EventTypeOK, TInv
  <2>4. CASE EventFree(t, e)
    BY <1>1, <1>5, <2>4 DEF EventFree, Forget, ETInv, EventTypeOK, TInv
  <2>. QED BY <2>1, <2>2, <2>3, <2>4
<1>8. CASE UNCHANGED <<lvars, evars>>
  BY <1>2, <1>8 DEF lvars, evars
<1>. QED BY <1>4, <1>6, <1>7, <1>8 DEF EventNext

\* Every step keeps pool and sleepers.
LEMMA NextEventInv ==
  ASSUME EnoughSlots, ETInv, ETInv', CoreInv, LifeInv, LifeInv', Discipline, EventInv,
         [EventNext]_<<lvars, evars>>
  PROVE  EventInv'
<1> USE DEF ETInv
<1>1. CASE EventSched
  <2>1. Calm /\ Forget /\ UNCHANGED evars
    BY <1>1, SchedCalm DEF EventSched, Aside, CallsOut, EventInv
  <2>2. \A x \in Thread : Waits(x) => want'[x] = want[x]
    BY <2>1, ForgetWaits DEF Calm, Waits
  <2>. QED BY <2>1, <2>2, CalmKeeps DEF evars
<1>2. ASSUME UNCHANGED <<spin, waiters, pc, event_waiter_pool>>,
             \A e \in WaitList : \A p : Satisfied(flags'[e], p) => Satisfied(flags[e], p),
             \A x \in Thread : Waits(x) => want'[x] = want[x]
      PROVE  EventInv'
  <2>1. Calm
    BY <1>2, QuietCalm DEF EventInv
  <2>. QED BY <1>2, <2>1, CalmKeeps
<1>3. ASSUME NEW t \in Thread, EventCall(t) PROVE EventInv'
  <2>1. PICK e \in WaitList : \/ \E p \in Masks[t] : Await(t, e, p) \/ AwaitBlocks(t, e, p)
                              \/ EventSet(t, e) \/ EventClear(t, e)
    BY <1>3 DEF EventCall
  <2>2. ASSUME NEW p, Await(t, e, p) PROVE EventInv'
    <3>1. ~Waits(t) /\ UNCHANGED <<spin, waiters, pc, evars>>
      BY <2>2 DEF Await, Tests, At, vars, LifeInv, Lives, Life
    <3>2. \A x \in Thread : Waits(x) => want'[x] = want[x]
      BY <2>2, <3>1 DEF Await, Returns, EventTypeOK
    <3>. QED BY <1>2, <3>1, <3>2 DEF evars
  <2>3. ASSUME NEW p \in Masks[t], AwaitBlocks(t, e, p) PROVE EventInv'
    BY <2>3, BlocksKeeps
  <2>4. CASE EventSet(t, e)
    <3>1. PICK f : f = flags[e] \union SetMask[t]
      OBVIOUS
    <3>2. /\ Unlocked(e) /\ pc[t] = "run" /\ UNCHANGED want
          /\ flags' = [flags EXCEPT ![e] = f] /\ Walk(t, e, f)
      BY <2>4, <3>1 DEF EventSet, Enters
    <3>. QED BY <3>2, WalkKeeps
  <2>5. CASE EventClear(t, e)
    <3>1. /\ UNCHANGED <<spin, waiters, pc, want, event_waiter_pool>>
          /\ flags' = [flags EXCEPT ![e] = flags[e] \ SetMask[t]]
      BY <2>5 DEF EventClear, lvars, vars
    <3>2. \A w \in WaitList : flags'[w] \subseteq flags[w]
      BY <3>1 DEF EventTypeOK
    <3>3. \A w \in WaitList : \A p : Satisfied(flags'[w], p) => Satisfied(flags[w], p)
      BY <3>2 DEF Satisfied
    <3>. QED BY <1>2, <3>1, <3>3
  <2>. QED BY <2>1, <2>2, <2>3, <2>4, <2>5
<1>4. ASSUME NEW t \in Thread, EventWake(t) PROVE EventInv'
  <2>1. PICK e \in WaitList : EventUnblock(t, e) \/ EventZombie(t, e) \/ EventFree(t, e)
    BY <1>4 DEF EventWake
  <2>2. CASE EventZombie(t, e)
    <3>1. Calm /\ UNCHANGED <<want, evars>>
      BY <2>2, SchedCalm DEF EventZombie, EventInv
    <3>. QED BY <3>1, CalmKeeps DEF evars
  <2>3. CASE EventUnblock(t, e) \/ EventFree(t, e)
    <3>1. PICK f : f = flags[e]
      OBVIOUS
    <3>2. /\ Holds(t, e) /\ Walk(t, e, f) /\ UNCHANGED flags
          /\ UNCHANGED want \/ Forget
      BY <2>3, <3>1 DEF EventUnblock, EventFree
    <3>3. flags' = [flags EXCEPT ![e] = f]
      BY <3>1, <3>2 DEF EventTypeOK
    <3>4. \A x \in Thread : Waits(x)' => want'[x] = want[x]
      BY <3>2, ForgetWaits
    <3>. QED BY <3>2, <3>3, <3>4, WalkKeeps
  <2>. QED BY <2>1, <2>2, <2>3
<1>5. CASE UNCHANGED <<lvars, evars>>
  BY <1>2, <1>5 DEF lvars, vars, evars
<1>. QED BY <1>1, <1>3, <1>4, <1>5 DEF EventNext

\* At the start nobody waits and no slot is in use.
LEMMA InitEvents == EventInit => ETInv /\ EventInv
<1> SUFFICES ASSUME EventInit PROVE ETInv /\ EventInv
  OBVIOUS
<1>1. TInv /\ LoopInv
  BY InitTInv, InitLoop DEF EventInit, LInit
<1>2. EventTypeOK
  BY <1>1 DEF EventInit, LInit, EInit, EventTypeOK, TInv
<1>3. \A w \in WaitList : Linked(waiters[w]) = {}
  <2>1. PICK q : q = <<>>
    OBVIOUS
  <2>2. q \in Seq(Thread) /\ 1..Len(q) = {}
    BY <2>1, EmptySeq
  <2>3. Linked(q) = {}
    BY <2>2, LinkedIndex
  <2>. QED BY <2>1, <2>3 DEF EventInit, LInit, Init
<1>4. EventInv
  BY <1>1, <1>3 DEF EventInit, EInit, EventInv, Listed, PoolOK, Asleep, Waits, LoopInv
<1>. QED BY <1>1, <1>2, <1>4 DEF ETInv

\* event_flags_set(), _clear() and _wait() keep flags, slots and calls typed.
THEOREM EventTypes == EventSpec => []EventTypeOK
<1>1. ETInv => EventTypeOK
  BY DEF ETInv
<1>. QED BY <1>1, InitEvents, NextETInv, PTL DEF EventSpec

\* What the waiting threads have in the pool ...
LEMMA PoolMatches == EventInv => PoolMatchesLists
<1> SUFFICES ASSUME EventInv, NEW t \in Thread
             PROVE  /\ Waits(t) => Cardinality(SlotsOf(t)) = 1 /\ ParamsOf(t) = want[t][2]
                    /\ SlotsOf(t) # {} => Waits(t)
  BY DEF PoolMatchesLists
<1>1. ASSUME Waits(t) PROVE Cardinality(SlotsOf(t)) = 1 /\ ParamsOf(t) = want[t][2]
  <2>1. PICK i \in Slot : SlotsOf(t) = {i} /\ ParamsOf(t) = want[t][2]
    BY <1>1, SlotFound DEF EventInv
  <2>. QED BY <2>1, FS_Singleton
<1>2. SlotsOf(t) # {} => Waits(t)
  BY DEF EventInv, PoolOK, SlotsOf
<1>. QED BY <1>1, <1>2

\* ... and that none of them should have been woken.
LEMMA NobodyOversleeps == TInv /\ EventInv => NoSatisfiedSleeper
<1> SUFFICES ASSUME TInv, EventInv, NEW e \in WaitList, Unlocked(e),
                    NEW x \in Linked(waiters[e])
             PROVE  ~Met(x)
  BY DEF NoSatisfiedSleeper
<1>1. \A k \in Thread : <<k, e>> # Null
  BY SchedAssumption
<1>2. AtRest(e)
  BY <1>1 DEF AtRest, Holds, Unlocked
<1>3. want[x][1] = e /\ ~Satisfied(flags[e], want[x][2])
  BY <1>2 DEF EventInv, Listed, Asleep
<1>. QED BY <1>3 DEF Met

\* The pool of event_flags_wait() never runs out and can always be indexed by
\* the waiters of all lists, and no set leaves a thread asleep that its flags
\* satisfy: whatever sets, clears and kills come between, with the walk of
\* event_flags_set() interrupted behind each waiter.  MAX_EVENT_WAITERS is
\* MAX_THREADS (EnoughSlots).
THEOREM EventWakeups ==
  ASSUME EnoughSlots
  PROVE  EventSpec /\ []Discipline => []PoolMatchesLists /\ []NoSatisfiedSleeper
<1> DEFINE Inv == TInv /\ CoreInv /\ LifeInv
<1>1. EventSpec /\ []Discipline => []Inv
  BY SpecEventLife
<1>2. Inv /\ Inv' /\ Discipline /\ ETInv /\ EventInv /\ [EventNext]_<<lvars, evars>>
      => ETInv' /\ EventInv'
  <2> SUFFICES ASSUME Inv, Inv', Discipline, ETInv, EventInv, [EventNext]_<<lvars, evars>>
               PROVE  ETInv' /\ EventInv'
    OBVIOUS
  <2>1. ETInv'
    BY NextETInv
  <2>. QED BY <2>1, NextEventInv
<1>3. Inv /\ EventInv => PoolMatchesLists /\ NoSatisfiedSleeper
  BY PoolMatches, NobodyOversleeps
<1>. QED BY <1>1, <1>2, <1>3, InitEvents, PTL DEF EventSpec

\* The walk takes no thread out of its program.
LEMMA StretchInProgram ==
  ASSUME TInv, InProgram, NEW t \in Thread, NEW e \in WaitList, Stretch(t, e)
  PROVE  InProgram'
<1>1. PICK f : Walk(t, e, f)
  BY DEF Stretch, EventSet, EventUnblock, EventFree
<1>2. \E l \in {"run", "wake"} : pc' = [pc EXCEPT ![t] = l]
  BY <1>1 DEF Walk, Goto
<1>3. /\ UNCHANGED core /\ pc[t] # "dead"
      /\ \A x \in Thread : tstate'[x] = "zombie" => tstate[x] = "zombie"
  BY DEF Stretch, EventSet, EventUnblock, EventFree, FreeSlot, Enters, At, TInv, TypeOK
<1>. QED BY <1>2, <1>3 DEF InProgram, TInv, TypeOK

\* The discipline holds by itself of programs that kill and exit on one core
\* and create beside nobody.
THEOREM EventCarefulWakeups ==
  ASSUME Careful, EnoughSlots
  PROVE  EventSpec => []PoolMatchesLists /\ []NoSatisfiedSleeper
<1> DEFINE Inv == TInv /\ CoreInv /\ LifeInv /\ InProgram
<1>1. EventInit => Inv
  <2>1. EventInit => InProgram
    <3> SUFFICES ASSUME EventInit, NEW t \in Thread PROVE pc[t] = "run" /\ tstate[t] # "zombie"
      BY DEF InProgram
    <3>. QED BY DEF EventInit, LInit, Init
  <2>. QED BY <2>1, InitTInv, InitCoreInv, InitLife DEF EventInit, LInit
<1>2. Inv => Discipline
  BY CarefulKeeps
<1>3. Inv /\ [EventNext]_<<lvars, evars>> => Inv'
  <2> SUFFICES ASSUME Inv, [EventNext]_<<lvars, evars>> PROVE Inv'
    OBVIOUS
  <2>1. CASE [Next]_vars
    BY <1>2, <2>1, NextTInv, NextCoreInv, NextLife, NextInProgram
  <2>2. ASSUME NEW t \in Thread, NEW e \in WaitList, Stretch(t, e) PROVE Inv'
    BY <1>2, <2>2, StretchTInv, StretchCoreInv, StretchLife, StretchInProgram
  <2>. QED BY <2>1, <2>2, EventSteps
<1>. QED BY <1>1, <1>2, <1>3, EventWakeups, PTL DEF EventSpec
=============================================================================

------------------------------- MODULE Sched -------------------------------
(***************************************************************************)
(* The preemptive SMP scheduler of picoOS: the ready queues, the two       *)
(* current_tcb[] entries and the life of a TCB, as sched.c, task.c and the *)
(* waiter lists of sync.c change them.                                     *)
(*                                                                         *)
(* Grain of atomicity.  A section under sched_lock (interrupts off) is one *)
(* action.  Everything that happens outside it is a step of its own: the   *)
(* window between waiter_enqueue() and sched_block(), between dequeuing a  *)
(* waiter and sched_unblock(), between reading get_core_num() and using    *)
(* it, between sched_kill() and task_free_thread().  A PendSV may come at  *)
(* any point where the core has its interrupts on.  Two things are one     *)
(* step here that task_create_thread(), which scans tcb_used[] without a   *)
(* lock, can see parts of: task_free_thread(), which clears tcb_used[]     *)
(* before it zeroes the slot (in Tasks these are two steps), and, from the *)
(* other core, a switch that frees the thread it leaves.                   *)
(*                                                                         *)
(* A ready queue or a waiter list is a sequence, although both are         *)
(* threaded through the one tcb_t.next field.  That is exact as long as no *)
(* list holds a freed TCB, because every routine that links a TCB first    *)
(* clears its next: waiter_enqueue() on a thread that is still in its      *)
(* ready queue cuts that queue behind it (CutBehind below).                *)
(***************************************************************************)
EXTENDS Integers, Sequences, SequencesExt

CONSTANTS
  Thread,        \* the slots of tcb_pool
  Null,          \* a NULL tcb_t pointer
  NumPrio,       \* NUM_PRIORITIES
  Priority,      \* tcb_t.priority of the thread made in a slot
  Affinity,      \* tcb_t.affinity: a core or AnyCore
  IdleOf,        \* the idle thread pinned to each core (main.c)
  WaitList,      \* the waiter lists of the primitives in use
  Stripe,        \* the hardware spinlocks of prim_pool[]
  StripeOf,      \* the one prim_pool_assign() gave to a list's primitive
  Calls,         \* the kernel calls each thread's program makes
  Target,        \* the threads a kill may name: those outside PIDs 1..9
  InitialQueue   \* ready_queues[] when main() calls sched_start()

Core    == 0..1
AnyCore == -1                  \* THREAD_AFFINITY_ANY
Prio    == 0..NumPrio-1        \* 0 is the highest
IdlePrio == NumPrio - 1

State == {"new", "ready", "running", "blocked", "sleeping", "zombie"}
Call  == {"wait", "wake", "sleep", "exit", "kill", "create"}
PC    == {"run", "yield", "enqueued", "wake", "wakefree", "exit", "dead",
          "kill", "killfree", "scanned", "claimed"}

\* The places where the running core has interrupts off between two actions.
IrqOff == {"enqueued", "wake", "wakefree"}

Linked(q) == ToSet(q)

ASSUME SchedAssumption ==
  /\ NumPrio \in Nat \ {0}
  /\ Null \notin Thread \union (Thread \X WaitList)
  /\ Priority \in [Thread -> Prio]
  /\ Affinity \in [Thread -> Core \union {AnyCore}]
  /\ Calls \in [Thread -> SUBSET Call]
  /\ Target \subseteq Thread
  /\ StripeOf \in [WaitList -> Stripe]
  /\ InitialQueue \in [Prio -> Seq(Thread)]
  /\ \A p \in Prio : /\ \A t \in Linked(InitialQueue[p]) : Priority[t] = p
                     /\ \A i, j \in 1..Len(InitialQueue[p]) :
                           InitialQueue[p][i] = InitialQueue[p][j] => i = j

\* main() pins one idle thread to each core; nothing else runs at the lowest
\* priority, an idle thread makes no blocking call and is a kernel thread.
ASSUME IdleAssumption ==
  /\ IdleOf \in [Core -> Thread]
  /\ \A c \in Core : /\ Affinity[IdleOf[c]] = c
                     /\ Calls[IdleOf[c]] = {}
                     /\ IdleOf[c] \notin Target
                     /\ IdleOf[c] \in Linked(InitialQueue[IdlePrio])
  /\ \A t \in Thread : Priority[t] = IdlePrio => \E c \in Core : t = IdleOf[c]

VARIABLES
  tstate,        \* tcb_t.state of each slot
  tcb_used,      \* tcb_used[]: the slot and its stack are allocated
  kill_pending,  \* tcb_t.kill_pending
  ready_queues,  \* ready_queues[], one FIFO per priority
  current_tcb,   \* current_tcb[], the thread on each core
  waiters,       \* the waiter list of each primitive
  spin,          \* the holder of each stripe and the list it works on
  pc,            \* where each thread is in the kernel
  tgt,           \* its local tcb_t pointer (waiter, victim or new thread)
  core           \* its local copy of get_core_num()

vars == <<tstate, tcb_used, kill_pending, ready_queues, current_tcb,
          waiters, spin, pc, tgt, core>>
-----------------------------------------------------------------------------
(* Queues *)

Other(c) == 1 - c

Fits(t, c) == Affinity[t] \in {AnyCore, c}

\* waiter_enqueue() clears t->next while t, RUNNING, is in its ready queue.
CutBehind(q, t) ==
  IF t \in Linked(q) THEN SubSeq(q, 1, SelectInSeq(q, LAMBDA x : x = t)) ELSE q

\* Mutant: the walk to the tail of a queue that is not empty is forgotten.
AddReadyIfEmpty(rq, t) == [rq EXCEPT ![Priority[t]] = IF @ = <<>> THEN <<t>> ELSE @]

AddReady(rq, t)    == [rq EXCEPT ![Priority[t]] = Append(@, t)]
RemoveReady(rq, t) == [rq EXCEPT ![Priority[t]] = RemoveFirst(@, t)]

Executing(t) == \E c \in Core : current_tcb[c] = t
CoreOf(t)    == CHOOSE c \in Core : current_tcb[c] = t

\* Thread t is executing and its program makes kernel call k now.
Enters(t, k) == Executing(t) /\ pc[t] = "run" /\ k \in Calls[t]
At(t, l)     == Executing(t) /\ pc[t] = l

\* The stripe of w's primitive is free, or t has it for its work on w.
Unlocked(w) == spin[StripeOf[w]] = Null
Holds(t, w) == spin[StripeOf[w]] = <<t, w>>
Locks(t, w) == spin' = [spin EXCEPT ![StripeOf[w]] = <<t, w>>]
Unlocks(w)  == spin' = [spin EXCEPT ![StripeOf[w]] = Null]

Goto(t, l) == pc' = [pc EXCEPT ![t] = l]

\* sched_start() and sched_start_core1(): the first queued thread that fits.
BootPick(t, c, taken) ==
  \E p \in Prio : \E k \in 1..Len(InitialQueue[p]) :
     LET free(x) == Fits(x, c) /\ x \notin taken IN
     /\ t = InitialQueue[p][k] /\ free(t)
     /\ \A j \in 1..k-1 : ~free(InitialQueue[p][j])
     /\ \A o \in 0..p-1 : \A x \in Linked(InitialQueue[o]) : ~free(x)

Created == UNION {Linked(InitialQueue[p]) : p \in Prio}

\* Both cores have started: main() made the threads, sched_start() claimed
\* the first for core 0 and sched_start_core1() the next for core 1.
Init ==
  /\ \E t0, t1 \in Thread :
       /\ BootPick(t0, 0, {}) /\ BootPick(t1, 1, {t0})
       /\ current_tcb = [c \in Core |-> IF c = 0 THEN t0 ELSE t1]
       /\ tstate = [t \in Thread |-> IF t \in {t0, t1} THEN "running"
                                     ELSE IF t \in Created THEN "ready"
                                     ELSE "new"]
  /\ tcb_used = [t \in Thread |-> t \in Created]
  /\ kill_pending = [t \in Thread |-> FALSE]
  /\ ready_queues = InitialQueue
  /\ waiters = [w \in WaitList |-> <<>>]
  /\ spin = [s \in Stripe |-> Null]
  /\ pc = [t \in Thread |-> "run"]
  /\ tgt = [t \in Thread |-> Null]
  /\ core = [t \in Thread |-> 0]
-----------------------------------------------------------------------------
(* The context switch: sched_next_thread(), called from PendSV *)

\* Mutant: a RUNNING thread is not made READY.
StillRunning(cur) == IF kill_pending[cur] THEN "zombie" ELSE tstate[cur]

\* Mutant: kill_pending is cleared and otherwise ignored.
LeavesAlive(cur) == IF tstate[cur] = "running" THEN "ready" ELSE tstate[cur]

\* The state cur leaves with: a pending kill makes it a ZOMBIE.
LeavingState(cur) ==
  CASE kill_pending[cur]         -> "zombie"
    [] ~kill_pending[cur] /\ tstate[cur] = "running" -> "ready"
    [] OTHER                     -> tstate[cur]

\* A ZOMBIE is freed here, except one killed just after it had blocked.
Reaped(cur) == /\ LeavingState(cur) = "zombie"
               /\ ~(kill_pending[cur] /\ tstate[cur] = "blocked")

\* Mutant: the check against the other core's current thread is dropped.
EligibleTwice(t, c, st) == st[t] = "ready" /\ Fits(t, c)

Eligible(t, c, st) == st[t] = "ready" /\ t # current_tcb[Other(c)] /\ Fits(t, c)

\* Mutant: no rotation.
NotRotated(q, cur, st) == q

\* The outgoing thread, if still READY, gives its place at the head away.
Rotated(q, cur, st) ==
  IF q # <<>> /\ Head(q) = cur /\ st[cur] = "ready" THEN Append(Tail(q), cur) ELSE q

\* st and rq are the states and queues once the outgoing thread is dealt with.
Select(c, st, rq) ==
  LET cur == current_tcb[c]
      some(q) == \E i \in 1..Len(q) : Eligible(q[i], c, st)
  IN \/ \E p \in Prio : \E k \in 1..Len(rq[p]) :
          LET q == Rotated(rq[p], cur, st) IN
          /\ Eligible(q[k], c, st)
          /\ \A j \in 1..k-1 : ~Eligible(q[j], c, st)
          /\ \A o \in 0..p-1 : ~some(rq[o])
          /\ ready_queues' = [rq EXCEPT ![p] = q]
          /\ tstate' = [st EXCEPT ![q[k]] = "running"]
          /\ current_tcb' = [current_tcb EXCEPT ![c] = q[k]]
     \/ /\ \A p \in Prio : ~some(rq[p])       \* selected == NULL
        /\ ready_queues' = rq
        /\ tstate' = st
        /\ UNCHANGED current_tcb

SchedNext(c) ==
  LET cur == current_tcb[c]
      dies == Reaped(cur)
  IN /\ kill_pending' = [kill_pending EXCEPT ![cur] = FALSE]
     /\ tcb_used' = [tcb_used EXCEPT ![cur] = @ /\ ~dies]
     /\ Select(c,
               [tstate EXCEPT ![cur] = IF dies THEN "new" ELSE LeavingState(cur)],
               IF dies THEN RemoveReady(ready_queues, cur) ELSE ready_queues)
     /\ tgt' = [tgt EXCEPT ![cur] = IF dies THEN Null ELSE @]
     /\ UNCHANGED <<waiters, spin, core>>

\* SysTick pends PendSV when a slice runs out: the thread stays where it is.
Slice(c) ==
  LET cur == current_tcb[c] IN
  /\ pc[cur] \notin IrqOff
  /\ SchedNext(c)
  /\ Goto(cur, IF Reaped(cur) THEN "run" ELSE pc[cur])

\* sched_yield(): PendSV at once; the thread resumes behind the call, except
\* in thread_exit(), which yields for ever.
Yield(c) ==
  LET cur == current_tcb[c] IN
  /\ pc[cur] \in {"yield", "dead"}
  /\ SchedNext(c)
  /\ Goto(cur, IF pc[cur] = "dead" /\ ~Reaped(cur) THEN "dead" ELSE "run")
-----------------------------------------------------------------------------
(* Sleeping *)

\* sched_sleep(): SLEEPING and out of the ready queue under sched_lock.
Sleep(t) ==
  /\ Enters(t, "sleep")
  /\ tstate' = [tstate EXCEPT ![t] = "sleeping"]
  /\ ready_queues' = RemoveReady(ready_queues, t)
  /\ Goto(t, "yield")
  /\ UNCHANGED <<tcb_used, kill_pending, current_tcb, waiters, spin, tgt, core>>

\* SysTick on core 0: an alarm has expired.
TickWake(t) ==
  /\ pc[current_tcb[0]] \notin IrqOff
  /\ tcb_used[t] /\ tstate[t] = "sleeping"
  /\ tstate' = [tstate EXCEPT ![t] = "ready"]
  /\ ready_queues' = AddReady(ready_queues, t)
  /\ UNCHANGED <<tcb_used, kill_pending, current_tcb, waiters, spin, pc, tgt, core>>
-----------------------------------------------------------------------------
(* Blocking on a primitive: the wait path common to every *_wait/_lock *)

\* The condition is false: waiter_enqueue() under the primitive's spinlock.
WaitEnqueue(t, w) ==
  /\ Enters(t, "wait") /\ Unlocked(w)
  /\ Locks(t, w)
  /\ waiters' = [waiters EXCEPT ![w] = Append(@, t)]
  /\ ready_queues' = [ready_queues EXCEPT ![Priority[t]] = CutBehind(@, t)]
  /\ Goto(t, "enqueued")
  /\ UNCHANGED <<tstate, tcb_used, kill_pending, current_tcb, tgt, core>>

\* sched_block(), then the primitive's spinlock is released.
WaitBlock(t, w) ==
  /\ At(t, "enqueued") /\ Holds(t, w)
  /\ tstate' = [tstate EXCEPT ![t] = "blocked"]
  /\ ready_queues' = RemoveReady(ready_queues, t)
  /\ Unlocks(w)
  /\ Goto(t, "yield")
  /\ UNCHANGED <<tcb_used, kill_pending, current_tcb, waiters, tgt, core>>

Rest(q) == Tail(q)

\* waiter_dequeue() for wake_one(): the next waiter, or the list is empty and
\* the spinlock is released.
Dequeue(t, w) ==
  IF waiters[w] = <<>>
  THEN /\ Unlocks(w)
       /\ tgt' = [tgt EXCEPT ![t] = Null]
       /\ Goto(t, "run")
       /\ UNCHANGED waiters
  ELSE /\ Locks(t, w)
       /\ tgt' = [tgt EXCEPT ![t] = Head(waiters[w])]
       /\ waiters' = [waiters EXCEPT ![w] = Rest(@)]
       /\ Goto(t, "wake")

\* The wake path: the spinlock is taken, the state changed, wake_one() starts.
WakeBegin(t, w) ==
  /\ Enters(t, "wake") /\ Unlocked(w)
  /\ Dequeue(t, w)
  /\ UNCHANGED <<tstate, tcb_used, kill_pending, ready_queues, current_tcb, core>>

\* Mutant: sched_unblock() does not look at the state.
NeverDead(x) == FALSE

Dead(x) == tstate[x] = "zombie"

\* sched_unblock() of a live waiter: READY and queued; wake_one() is done.
WakeUnblock(t, w) ==
  /\ At(t, "wake") /\ Holds(t, w) /\ ~Dead(tgt[t])
  /\ tstate' = [tstate EXCEPT ![tgt[t]] = "ready"]
  /\ ready_queues' = AddReady(ready_queues, tgt[t])
  /\ Unlocks(w)
  /\ tgt' = [tgt EXCEPT ![t] = Null]
  /\ Goto(t, "run")
  /\ UNCHANGED <<tcb_used, kill_pending, current_tcb, waiters, core>>

\* sched_unblock() finds a waiter killed while blocked and lets sched_lock go.
WakeZombie(t, w) ==
  /\ At(t, "wake") /\ Holds(t, w) /\ Dead(tgt[t])
  /\ Goto(t, "wakefree")
  /\ UNCHANGED <<tstate, tcb_used, kill_pending, ready_queues, current_tcb,
                 waiters, spin, tgt, core>>

\* Mutant: the freed slot is poisoned instead of zeroed.
PoisonSlot(x) ==
  /\ tcb_used' = [tcb_used EXCEPT ![x] = FALSE]
  /\ tstate' = [tstate EXCEPT ![x] = "poison"]
  /\ kill_pending' = [kill_pending EXCEPT ![x] = FALSE]

\* task_free_thread(x): the slot is zeroed and its stack goes to the heap.
FreeSlot(x) ==
  /\ tcb_used' = [tcb_used EXCEPT ![x] = FALSE]
  /\ tstate' = [tstate EXCEPT ![x] = "new"]
  /\ kill_pending' = [kill_pending EXCEPT ![x] = FALSE]

\* ... the dead waiter is freed and wake_one() tries the next.
WakeFree(t, w) ==
  /\ At(t, "wakefree") /\ Holds(t, w)
  /\ FreeSlot(tgt[t])
  /\ Dequeue(t, w)
  /\ UNCHANGED <<ready_queues, current_tcb, core>>
-----------------------------------------------------------------------------
(* Exit and kill *)

\* thread_exit(): CURRENT_TCB is current_tcb[get_core_num()], read without a
\* lock and with interrupts on: first the core number ...
ExitRead(t) ==
  /\ Enters(t, "exit")
  /\ core' = [core EXCEPT ![t] = CoreOf(t)]
  /\ Goto(t, "exit")
  /\ UNCHANGED <<tstate, tcb_used, kill_pending, ready_queues, current_tcb,
                 waiters, spin, tgt>>

\* ... then the thread that core runs now becomes a ZOMBIE.
ExitMark(t) ==
  /\ At(t, "exit")
  /\ tstate' = [tstate EXCEPT ![current_tcb[core[t]]] = "zombie"]
  /\ Goto(t, "dead")
  /\ UNCHANGED <<tcb_used, kill_pending, ready_queues, current_tcb,
                 waiters, spin, tgt, core>>

\* SYS_KILL: task_find_thread() finds the victim, sched_kill() reads the core
\* number before it takes sched_lock.
KillRead(t, v) ==
  /\ Enters(t, "kill") /\ v \in Target /\ tcb_used[v]
  /\ tgt' = [tgt EXCEPT ![t] = v]
  /\ core' = [core EXCEPT ![t] = CoreOf(t)]
  /\ Goto(t, "kill")
  /\ UNCHANGED <<tstate, tcb_used, kill_pending, ready_queues, current_tcb,
                 waiters, spin>>

\* Mutants: sched_kill() forgets the other core, or a BLOCKED victim.
NeverElsewhere(v, c) == FALSE
UnlistedUnlessDead(v) == tstate[v] # "zombie"

\* Where sched_kill() looks for its victim: on the core that is not the
\* caller's, and in no waiter list and nobody else's hands.
RunsElsewhere(v, c) == v = current_tcb[Other(c)]
Unlisted(v) == tstate[v] \notin {"blocked", "zombie"}

\* sched_kill() under sched_lock: mark the victim and decide who frees it.
\* A thread that killed itself yields, any other goes on.
KillMark(t) ==
  LET v == tgt[t]
      here  == v = current_tcb[core[t]]
      there == ~here /\ RunsElsewhere(v, core[t])
      now   == ~here /\ ~there /\ Unlisted(v)
  IN /\ At(t, "kill")
     /\ tstate' = [tstate EXCEPT ![v] = IF there THEN @ ELSE "zombie"]
     /\ kill_pending' = [kill_pending EXCEPT ![v] = @ \/ there]
     /\ ready_queues' = IF now THEN RemoveReady(ready_queues, v) ELSE ready_queues
     /\ tgt' = [tgt EXCEPT ![t] = IF now THEN v ELSE Null]
     /\ Goto(t, IF now THEN "killfree" ELSE IF v = t THEN "yield" ELSE "run")
     /\ UNCHANGED <<tcb_used, current_tcb, waiters, spin, core>>

\* task_kill_thread() frees the victim it was told to free; whatever call the
\* victim was in the middle of is never finished.
KillFree(t) ==
  /\ At(t, "killfree")
  /\ FreeSlot(tgt[t])
  /\ tgt' = [tgt EXCEPT ![t] = Null, ![tgt[t]] = Null]
  /\ pc' = [pc EXCEPT ![t] = "run", ![tgt[t]] = "run"]
  /\ UNCHANGED <<ready_queues, current_tcb, waiters, spin, core>>
-----------------------------------------------------------------------------
(* task_create_thread(): no lock until sched_add_thread() *)

Vacant(x) == ~tcb_used[x]

\* The scan of tcb_used[] finds a free slot ...
CreateScan(t, x) ==
  /\ Enters(t, "create") /\ Vacant(x)
  /\ tgt' = [tgt EXCEPT ![t] = x]
  /\ Goto(t, "scanned")
  /\ UNCHANGED <<tstate, tcb_used, kill_pending, ready_queues, current_tcb,
                 waiters, spin, core>>

\* ... the slot is taken and filled in, ready to run from its entry ...
CreateClaim(t) ==
  /\ At(t, "scanned")
  /\ tcb_used' = [tcb_used EXCEPT ![tgt[t]] = TRUE]
  /\ tstate' = [tstate EXCEPT ![tgt[t]] = "ready"]
  /\ kill_pending' = [kill_pending EXCEPT ![tgt[t]] = FALSE]
  /\ pc' = [pc EXCEPT ![t] = "claimed", ![tgt[t]] = "run"]
  /\ UNCHANGED <<ready_queues, current_tcb, waiters, spin, tgt, core>>

\* ... or given back, when the heap has no room for the stack ...
CreateFail(t) ==
  /\ At(t, "scanned")
  /\ tcb_used' = [tcb_used EXCEPT ![tgt[t]] = FALSE]
  /\ tgt' = [tgt EXCEPT ![t] = Null]
  /\ Goto(t, "run")
  /\ UNCHANGED <<tstate, kill_pending, ready_queues, current_tcb, waiters, spin, core>>

\* ... and queued under sched_lock.
CreatePublish(t) ==
  /\ At(t, "claimed")
  /\ ready_queues' = AddReady(ready_queues, tgt[t])
  /\ tgt' = [tgt EXCEPT ![t] = Null]
  /\ Goto(t, "run")
  /\ UNCHANGED <<tstate, tcb_used, kill_pending, current_tcb, waiters, spin, core>>
-----------------------------------------------------------------------------
Interrupt == \/ \E c \in Core : Slice(c)
             \/ \E t \in Thread : TickWake(t)

Waiting(t) == \E w \in WaitList :
                \/ WaitEnqueue(t, w) \/ WaitBlock(t, w)
                \/ WakeBegin(t, w)   \/ WakeUnblock(t, w)
                \/ WakeZombie(t, w)  \/ WakeFree(t, w)

Lifecycle(t) == \/ Sleep(t)
                \/ ExitRead(t) \/ ExitMark(t)
                \/ \E v \in Thread : KillRead(t, v)
                \/ KillMark(t) \/ KillFree(t)
                \/ \E x \in Thread : CreateScan(t, x)
                \/ CreateClaim(t) \/ CreateFail(t) \/ CreatePublish(t)

Next == \/ Interrupt
        \/ \E c \in Core : Yield(c)
        \/ \E t \in Thread : Waiting(t) \/ Lifecycle(t)

Spec == Init /\ [][Next]_vars

\* A pended PendSV is taken as soon as interrupts are on again, however often
\* they go off in between; a section with interrupts off runs to its end.
Fairness ==
  /\ \A c \in Core : SF_vars(Slice(c)) /\ WF_vars(Yield(c))
  /\ \A t \in Thread, w \in WaitList :
       WF_vars(WaitBlock(t, w) \/ WakeUnblock(t, w) \/ WakeZombie(t, w) \/ WakeFree(t, w))

FairSpec == Spec /\ Fairness
-----------------------------------------------------------------------------
(* Properties *)

TypeOK ==
  /\ tstate \in [Thread -> State]
  /\ tcb_used \in [Thread -> BOOLEAN]
  /\ kill_pending \in [Thread -> BOOLEAN]
  /\ ready_queues \in [Prio -> Seq(Thread)]
  /\ current_tcb \in [Core -> Thread]
  /\ waiters \in [WaitList -> Seq(Thread)]
  /\ spin \in [Stripe -> (Thread \X WaitList) \union {Null}]
  /\ pc \in [Thread -> PC]
  /\ tgt \in [Thread -> Thread \union {Null}]
  /\ core \in [Thread -> Core]

Queued(t)  == \E p \in Prio : t \in Linked(ready_queues[p])
Waits(t)   == \E w \in WaitList : t \in Linked(waiters[w])
\* A waker has taken t off its waiter list and not yet unblocked or freed it.
InHand(t)  == \E k \in Thread : pc[k] \in {"wake", "wakefree"} /\ tgt[k] = t
\* task_create_thread() has taken t's slot and not yet queued it.
Nascent(t) == \E k \in Thread : pc[k] = "claimed" /\ tgt[k] = t

\* Every thread that may still free x.
Reapers(x) ==
  LET switches == {c \in Core : current_tcb[c] = x}
      wakers   == {w \in WaitList : x \in Linked(waiters[w])}
      hands    == {k \in Thread : tgt[k] = x /\ pc[k] \in {"wake", "wakefree", "killfree"}}
  IN ({"switch"} \X switches) \union ({"waker"} \X wakers) \union ({"hand"} \X hands)

\* No thread executes on both cores (the check against current_tcb[core ^ 1]
\* in sched_next_thread(): a woken thread may be READY before it switched out).
OneCore == current_tcb[0] # current_tcb[1]

\* A thread in state RUNNING is the current thread of a core.
RunningIsCurrent == \A t \in Thread : tstate[t] = "running" => Executing(t)

\* No core executes on the stack of a freed TCB (task_kill_thread's comment:
\* "would pull the stack out from under a running CPU").
CurrentAlive == \A c \in Core : tcb_used[current_tcb[c]]

\* The one next field of a TCB links it into one list, and only once; the
\* exception is a thread between waiter_enqueue() and sched_block().
OneLink ==
  /\ \A p \in Prio : IsInjective(ready_queues[p])
  /\ \A w \in WaitList : IsInjective(waiters[w])
  /\ \A w, x \in WaitList : w # x => Linked(waiters[w]) \intersect Linked(waiters[x]) = {}
  /\ \A t \in Thread : Queued(t) /\ Waits(t) => pc[t] = "enqueued"

\* A waiter list holds no dangling pointer: its threads are allocated and
\* blocked, or killed since, or about to be BLOCKED by themselves.
WaitersAlive ==
  \A t \in Thread : Waits(t) \/ InHand(t) =>
    /\ tcb_used[t]
    /\ tstate[t] \in {"blocked", "zombie"} \/ (Executing(t) /\ pc[t] = "enqueued")

\* A killed or exited thread is left to exactly one of sched_next_thread(),
\* sched_unblock() and the killer to free: no TCB leaks, and no two of them
\* free it.  (A killer whose victim is gone before its mark frees the zeroed
\* slot once more.)
ZombieHasOneReaper ==
  \A x \in Thread : tstate[x] = "zombie" => Cardinality(Reapers(x)) = 1

\* A blocked thread can be found by the next wake-up of its primitive.
BlockedIsListed ==
  \A t \in Thread : tstate[t] = "blocked" => Waits(t) \/ InHand(t)

\* The lists of sync.c and sched.c hold no freed TCB, no TCB twice and every
\* thread that is to be found there, whatever kills and wake-ups come between
\* waiter_enqueue() and sched_block().
ListsSafe == OneLink /\ WaitersAlive /\ BlockedIsListed

\* One has the duty to free a thread, which sched_kill() hands to the switch,
\* to the waker or to the killer, and no core runs on the stack of a freed one.
FreedOnce == CurrentAlive /\ ZombieHasOneReaper

\* A READY thread can be found by sched_next_thread().
ReadyIsQueued ==
  \A t \in Thread : tstate[t] = "ready" /\ ~Nascent(t) => Queued(t)

\* A kill is final: a ZOMBIE is never made runnable or blocked again, and a
\* pending kill ends in ZOMBIE or in the free.
KillIsFinal ==
  [][\A t \in Thread :
       /\ tstate[t] = "zombie" => tstate'[t] \in {"zombie", "new"}
       /\ kill_pending[t] /\ ~kill_pending'[t] => tstate'[t] \in {"zombie", "new"}
    ]_vars

\* "reaps it ... when it switches out - at most one time slice away": a kill
\* that was left pending frees the thread or leaves it to its waker.
PendingKillEnds ==
  \A t \in Thread : kill_pending[t] ~> (~tcb_used[t] \/ tstate[t] = "zombie")

\* "rotate it to the tail to give peers a turn": no queued thread stays READY
\* for ever while threads of its priority run on a core it may use.  True where
\* nothing preempts the peers; the rotation is lost when something does.
PeerRuns(t) == \E c \in Core : Fits(t, c) /\ Priority[current_tcb[c]] = Priority[t]
PeersTakeTurns ==
  \A t \in Thread :
    []<>~(tstate[t] = "ready" /\ Queued(t) /\ Priority[t] # IdlePrio /\ PeerRuns(t))
-----------------------------------------------------------------------------
(* What the callers have to keep to.  task.c and sched_kill() leave these     *)
(* windows open; at the grain of this module, the lists and the duty to free  *)
(* are safe outside them.                                                     *)

\* No thread changes cores between reading get_core_num() and the mark that
\* thread_exit() or sched_kill() sets with it (task.c:258, sched.c:286).
Unmoved == \A t \in Thread :
  pc[t] \in {"exit", "kill"} /\ Executing(t) => current_tcb[core[t]] = t

\* The unlocked operations of task.c do not overlap: while a thread fills a
\* slot, nobody else looks for one, kills or frees (task.c:146).
OneAtATime == \A k, l \in Thread :
  /\ pc[k] \in {"scanned", "claimed"}
  /\ pc[l] \in {"scanned", "claimed", "kill", "killfree"}
  => k = l

\* Nobody kills a thread that has yet to free its own victim (task.c:470).
KillersLive == \A k \in Thread :
  pc[k] = "killfree" => tstate[k] # "zombie" /\ ~kill_pending[k]

Discipline == Unmoved /\ OneAtATime /\ KillersLive

\* A thread that waits on a primitive has its priority for itself, so that
\* waiter_enqueue() cuts nobody off the ready queue.
OwnQueue == \A t, u \in Thread : "wait" \in Calls[t] /\ Priority[t] = Priority[u] => t = u

\* ... and nobody kills a thread that has yet to queue the slot it has filled.
CreatorsLive == \A k \in Thread :
  pc[k] = "claimed" => tstate[k] # "zombie" /\ ~kill_pending[k]

\* A thread that kills, or returns from its entry, stays on its core ...
KillersPinned == \A t \in Thread :
  Calls[t] \intersect {"kill", "exit"} # {} => Affinity[t] \in Core

\* ... no thread that kills or creates can be killed ...
TargetsPlain == \A t \in Target : Calls[t] \intersect {"kill", "create"} = {}

\* ... and nobody creates or kills beside a creator.
CreatorAlone == \A t, u \in Thread :
  "create" \in Calls[t] /\ Calls[u] \intersect {"create", "kill"} # {} => t = u

\* Constants for which a program keeps to all of this by itself.
Careful == KillersPinned /\ TargetsPlain /\ CreatorAlone
=============================================================================

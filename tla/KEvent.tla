------------------------------- MODULE KEvent -------------------------------
(***************************************************************************)
(* event_flags_t over the scheduler: event_flags_wait() is a WaitLoop on   *)
(* its mask, event_flags_set() walks the whole waiter list and wakes every *)
(* satisfied waiter.  A tcb_t has no room for a mask, so each waiter also  *)
(* takes a slot of event_waiter_pool[], which all event objects share.     *)
(***************************************************************************)
EXTENDS WaitLoop

CONSTANTS
  Bit,            \* the flag bits in use
  MaxEventWaiters,\* MAX_EVENT_WAITERS
  Masks,          \* the <<mask, wait_for_all>> each thread waits for
  SetMask         \* the bits each thread sets and clears

\* A slot in use and a call are not mistaken for none.
ASSUME EventAssumption ==
  /\ MaxEventWaiters \in Nat
  /\ Masks \in [Thread -> SUBSET ((SUBSET Bit) \X BOOLEAN)]
  /\ SetMask \in [Thread -> SUBSET Bit]
  /\ \A t \in Thread : \A p \in Masks[t] : \A u \in Thread \union WaitList : <<u, p>> # Null

VARIABLES
  flags,              \* event_flags_t.flags
  event_waiter_pool   \* event_waiter_pool[]: <<thread, <<mask, wait_for_all>>>> or Null

evars == <<flags, event_waiter_pool>>

Slot == 1..MaxEventWaiters

EInit == /\ flags = [e \in WaitList |-> {}]
         /\ event_waiter_pool = [i \in Slot |-> Null]

AwaitCall(e, p) == <<e, p>>

\* p is <<mask, wait_for_all>>, f the flags.
Satisfied(f, p) == IF p[2] THEN p[1] \subseteq f ELSE p[1] \intersect f # {}

\* Mutant: the last entry is never handed out.
FreeButLast(pool) == {i \in Slot : pool[i] = Null /\ i < MaxEventWaiters}

FreeSlots(pool) == {i \in Slot : pool[i] = Null}
SlotsOf(t)      == {i \in Slot : event_waiter_pool[i] # Null /\ event_waiter_pool[i][1] = t}
Lowest(S)       == CHOOSE i \in S : \A j \in S : i <= j

\* event_waiter_alloc(): the first free slot; its failure is not looked at.
EventWaiterAlloc(t, p) ==
  LET free == FreeSlots(event_waiter_pool) IN
  event_waiter_pool' = IF free = {} THEN event_waiter_pool
                       ELSE [event_waiter_pool EXCEPT ![Lowest(free)] = <<t, p>>]

\* event_waiter_free(): the first slot that names t.
EventWaiterFree(t) ==
  event_waiter_pool' = IF SlotsOf(t) = {} THEN event_waiter_pool
                       ELSE [event_waiter_pool EXCEPT ![Lowest(SlotsOf(t))] = Null]

\* What event_flags_set() finds in the pool for a waiter; without a slot it
\* waits for any bit of an empty mask.
ParamsOf(t) == IF SlotsOf(t) = {} THEN <<{}, FALSE>>
               ELSE event_waiter_pool[Lowest(SlotsOf(t))][2]
-----------------------------------------------------------------------------
\* event_flags_wait(): the flags are there ...
Await(t, e, p) ==
  /\ "await" \in Uses[t] /\ Tests(t, AwaitCall(e, p)) /\ Satisfied(flags[e], p)
  /\ Returns(t)
  /\ UNCHANGED <<vars, evars>>

\* ... or the thread takes a slot, enqueues and blocks.
AwaitBlocks(t, e, p) ==
  /\ "await" \in Uses[t] /\ Tests(t, AwaitCall(e, p)) /\ ~Satisfied(flags[e], p)
  /\ EventWaiterAlloc(t, p)
  /\ Blocks(t, AwaitCall(e, p))
  /\ UNCHANGED flags

\* event_flags_clear(): nobody is woken, nobody is put back to sleep.
EventClear(t, e) ==
  /\ "clear" \in Uses[t] /\ Enters(t, "wake") /\ want[t] = Null /\ Unlocked(e)
  /\ flags' = [flags EXCEPT ![e] = @ \ SetMask[t]]
  /\ UNCHANGED <<lvars, event_waiter_pool>>

\* Mutant: set wakes one waiter, as a semaphore does.
WakesOne(t, e, f) ==
  {k \in 1..Len(waiters[e]) : pc[t] = "run" /\ Satisfied(f, ParamsOf(waiters[e][k]))}

\* Mutant: the walk starts behind the first waiter.
WakesBehindHead(t, e, f) == {k \in 2..Len(waiters[e]) : Satisfied(f, ParamsOf(waiters[e][k]))}

\* The waiters of e that flags f satisfy, by their place in the list.
ToWake(t, e, f) == {k \in 1..Len(waiters[e]) : Satisfied(f, ParamsOf(waiters[e][k]))}

\* The walk of event_flags_set(): the next satisfied waiter leaves the list
\* and the pool, or there is none and the spinlock is released.
Walk(t, e, f) ==
  LET sat == ToWake(t, e, f) IN
  IF sat = {}
  THEN /\ Unlocks(e)
       /\ tgt' = [tgt EXCEPT ![t] = Null]
       /\ Goto(t, "run")
       /\ UNCHANGED <<waiters, event_waiter_pool>>
  ELSE LET x == waiters[e][Lowest(sat)] IN
       /\ Locks(t, e)
       /\ tgt' = [tgt EXCEPT ![t] = x]
       /\ waiters' = [waiters EXCEPT ![e] = RemoveAt(@, Lowest(sat))]
       /\ EventWaiterFree(x)
       /\ Goto(t, "wake")

\* event_flags_set() takes the spinlock, adds its bits and starts its walk.
EventSet(t, e) ==
  /\ "set" \in Uses[t] /\ Enters(t, "wake") /\ want[t] = Null /\ Unlocked(e)
  /\ flags' = [flags EXCEPT ![e] = @ \union SetMask[t]]
  /\ Walk(t, e, flags[e] \union SetMask[t])
  /\ UNCHANGED <<tstate, tcb_used, kill_pending, ready_queues, current_tcb, core, want>>

\* sched_unblock() of a live waiter, and on with the walk.
EventUnblock(t, e) ==
  /\ At(t, "wake") /\ Holds(t, e) /\ ~Dead(tgt[t])
  /\ tstate' = [tstate EXCEPT ![tgt[t]] = "ready"]
  /\ ready_queues' = AddReady(ready_queues, tgt[t])
  /\ Walk(t, e, flags[e])
  /\ UNCHANGED <<tcb_used, kill_pending, current_tcb, core, want, flags>>

\* sched_unblock() finds a dead waiter ...
EventZombie(t, e) == WakeZombie(t, e) /\ UNCHANGED <<want, evars>>

\* ... and frees it before the walk goes on.
EventFree(t, e) ==
  /\ At(t, "wakefree") /\ Holds(t, e)
  /\ FreeSlot(tgt[t])
  /\ Walk(t, e, flags[e])
  /\ Forget
  /\ UNCHANGED <<ready_queues, current_tcb, core, flags>>

EventWake(t) == \E e \in WaitList : EventUnblock(t, e) \/ EventZombie(t, e) \/ EventFree(t, e)

\* A step of the scheduler leaves the event objects alone.
Aside(A) == A /\ Forget /\ UNCHANGED evars

\* The scheduler, and every call outside the event objects.
EventSched ==
  \/ Aside(Interrupt)
  \/ \E c \in Core : Aside(Yield(c))
  \/ \E t \in Thread : Aside(CallsOut(t)) \/ \E e \in WaitList : Aside(WaitBlock(t, e))

EventCall(t) ==
  \E e \in WaitList : \/ \E p \in Masks[t] : Await(t, e, p) \/ AwaitBlocks(t, e, p)
                      \/ EventSet(t, e) \/ EventClear(t, e)

EventInit == LInit /\ EInit

EventNext == EventSched \/ \E t \in Thread : EventCall(t) \/ EventWake(t)

EventSpec == EventInit /\ [][EventNext]_<<lvars, evars>>

\* What t does without a choice while it has a core: it leaves a section with
\* interrupts off, yields as its call says, or goes on with event_flags_wait().
Advance(t) == \/ EventWake(t)
              \/ want[t] # Null /\ EventCall(t)
              \/ \E e \in WaitList : Aside(WaitBlock(t, e))
              \/ \E c \in Core : current_tcb[c] = t /\ Aside(Yield(c))

\* SysTick's PendSV is taken on each core, and a thread that is given the
\* processor again and again, on either core, advances.
EventFairness ==
  /\ \A c \in Core : SF_<<lvars, evars>>(Aside(Slice(c)))
  /\ \A t \in {u \in Thread : Uses[u] # {}} : SF_<<lvars, evars>>(Advance(t))

EventFairSpec == EventSpec /\ EventFairness
-----------------------------------------------------------------------------
EventTypeOK ==
  /\ TypeOK
  /\ flags \in [WaitList -> SUBSET Bit]
  /\ event_waiter_pool \in
       [Slot -> {<<t, p>> : t \in Thread, p \in UNION {Masks[u] : u \in Thread}} \union {Null}]
  /\ want \in [Thread -> {AwaitCall(e, p) : e \in WaitList, p \in UNION {Masks[u] : u \in Thread}}
                         \union {Null}]

\* event_waiter_pool[] can be indexed by the waiters of all lists: the slots in
\* use are those of the listed threads, dead ones included, one each and with
\* the mask it waits for - so MAX_THREADS slots never run out.
PoolMatchesLists ==
  /\ \A t \in Thread : Waits(t) =>
       /\ Cardinality(SlotsOf(t)) = 1
       /\ tstate[t] = "blocked" => ParamsOf(t) = want[t][2]
  /\ \A t \in Thread : SlotsOf(t) # {} => Waits(t)

\* MAX_EVENT_WAITERS is MAX_THREADS: a slot for each thread that may wait.
EnoughSlots == Cardinality({t \in Thread : "await" \in Uses[t]}) <= MaxEventWaiters

\* The flags t waits for are set.
Met(t) == want[t] # Null /\ Satisfied(flags[want[t][1]], want[t][2])

\* No thread sleeps through its event: while an event object is at rest, the
\* flags satisfy none of the live threads in its list.
NoSatisfiedSleeper ==
  \A e \in WaitList : Unlocked(e) =>
    \A t \in Linked(waiters[e]) : tstate[t] = "blocked" => ~Met(t)

\* The threads that always find a core, whatever the others do.
HasCore(t) == Cardinality({u \in Thread \ {t} : Priority[u] <= Priority[t]}) < 2

\* event_flags_wait() returns once its flags are set, unless they are cleared
\* again before the woken thread looks, or the thread is killed.
AwaitReturns ==
  \A t \in Thread : HasCore(t) => (Met(t) ~> (~Met(t) \/ tstate[t] = "zombie"))
=============================================================================

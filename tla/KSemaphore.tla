----------------------------- MODULE KSemaphore -----------------------------
(***************************************************************************)
(* ksemaphore_t: ksemaphore_wait() is a WaitLoop on count > 0;             *)
(* ksemaphore_signal() adds a unit and ends in the wake path.  A semaphore *)
(* is its own waiter list: Semaphore is a part of WaitList.                *)
(***************************************************************************)
EXTENDS WaitLoop

CONSTANTS
  Semaphore,     \* the semaphores among the waiter lists
  InitialCount,  \* the initial_count given to ksemaphore_init()
  MaxCount       \* bound of the model: no signal beyond it

ASSUME SemaphoreAssumption == /\ Semaphore \subseteq WaitList
                              /\ MaxCount \in Nat /\ InitialCount \in 0..MaxCount

VARIABLE count   \* ksemaphore_t.count

SInit == count = [s \in Semaphore |-> InitialCount]

WaitCall(s) == <<s, Null>>

Available(s) == count[s] > 0

\* ksemaphore_wait(): take a unit ...
Take(t, s) ==
  /\ "take" \in Uses[t] /\ Tests(t, WaitCall(s)) /\ Available(s)
  /\ count' = [count EXCEPT ![s] = @ - 1]
  /\ Returns(t)
  /\ UNCHANGED vars

\* ... or block without touching count.
TakeWait(t, s) ==
  /\ "take" \in Uses[t] /\ Tests(t, WaitCall(s)) /\ ~Available(s)
  /\ Blocks(t, WaitCall(s))
  /\ UNCHANGED count

\* Mutant: signal wakes a waiter only when it makes count positive.
SignalFirst(t, s) ==
  /\ "signal" \in Uses[t] /\ want[t] = Null /\ count[s] < MaxCount
  /\ IF count[s] = 0 THEN WakeBegin(t, s) ELSE Enters(t, "wake") /\ Unlocked(s) /\ UNCHANGED vars
  /\ count' = [count EXCEPT ![s] = @ + 1]
  /\ UNCHANGED want

\* ksemaphore_signal(): one more unit, and always a wake-up.
Signal(t, s) ==
  /\ "signal" \in Uses[t] /\ want[t] = Null /\ count[s] < MaxCount
  /\ WakeBegin(t, s)
  /\ count' = [count EXCEPT ![s] = @ + 1]
  /\ UNCHANGED want

SemaphoreCall(t, s) == Take(t, s) \/ TakeWait(t, s) \/ Signal(t, s)
-----------------------------------------------------------------------------
STypeOK == count \in [Semaphore -> 0..MaxCount]

\* "count > 0 ensures it will succeed": while a live thread waits, every unit
\* has a woken thread on its way to it, so no unit is left lying - although
\* new callers may take units that the woken ones were woken for.
EveryUnitSought ==
  \A s \in Semaphore : StillWaits(s) => count[s] <= Cardinality(Seekers(s))

\* A unit that a thread waits for does not stay there for ever.
UnitIsTaken ==
  \A s \in Semaphore : (count[s] > 0 /\ LiveWaiter(s)) ~> (count[s] = 0 \/ ~LiveWaiter(s))
=============================================================================

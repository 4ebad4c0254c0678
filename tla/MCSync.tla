------------------------------- MODULE MCSync -------------------------------
(***************************************************************************)
(* Instances of Sync: three threads of distinct priorities, a mutex and a  *)
(* semaphore; in the killing instance d is a killer pinned to core 0.      *)
(***************************************************************************)
EXTENDS Sync

CONSTANTS i0, i1, a, b, d

MCThread   == {i0, i1, a, b, d}
MCIdleOf   == [c \in Core |-> IF c = 0 THEN i0 ELSE i1]
MCQueue    == [p \in 0..3 |-> CASE p = 0 -> <<a>> [] p = 1 -> <<b>> [] p = 2 -> <<d>>
                                [] OTHER -> <<i0, i1>>]
MCPriority == [t \in MCThread |-> CHOOSE p \in 0..3 : t \in Linked(MCQueue[p])]
MCFree     == [t \in MCThread |-> CASE t = i0 -> 0 [] t = i1 -> 1 [] OTHER -> AnyCore]
MCPinned   == [MCFree EXCEPT ![d] = 0]
MCStripeOf == [w \in WaitList |-> CHOOSE s \in Stripe : TRUE]

\* a and b contend for the mutex, a and d for the units that b gives.
BothCalls  == [t \in MCThread |-> IF t \in {i0, i1} THEN {} ELSE {"wait", "wake"}]
BothUses   == [t \in MCThread |-> CASE t = a -> {"lock", "take"}
                                     [] t = b -> {"lock", "signal"}
                                     [] t = d -> {"take"}
                                     [] OTHER -> {}]

\* All three contend for the mutex and d kills the others.
KillCalls  == [BothCalls EXCEPT ![d] = {"kill", "wait", "wake"}]
LockUses   == [t \in MCThread |-> IF t \in {i0, i1} THEN {} ELSE {"lock"}]

\* Both are careful, but in the killing one it is waiting threads that die.
ASSUME KillAssumption == Careful /\ (WaitersSpared <=> Calls = BothCalls)
=============================================================================

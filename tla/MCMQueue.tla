------------------------------ MODULE MCMQueue ------------------------------
(***************************************************************************)
(* Instances of MQueue: threads of distinct priorities send x and y        *)
(* through a ring of two slots.                                            *)
(***************************************************************************)
EXTENDS MQueue

CONSTANTS i0, i1, a, b, d

MCWaitList == {send_waiters, recv_waiters}
MCIdleOf   == [c \in Core |-> IF c = 0 THEN i0 ELSE i1]
MCStripeOf == [w \in MCWaitList |-> CHOOSE s \in Stripe : TRUE]
PriorityIn(rqs) == [t \in Thread |-> CHOOSE p \in DOMAIN rqs : t \in Linked(rqs[p])]
MCAffinity == [t \in Thread |-> CASE t = i0 -> 0 [] t = i1 -> 1 [] OTHER -> AnyCore]
MCCalls    == [t \in Thread |-> IF t \in {i0, i1} THEN {} ELSE {"wait", "wake"}]

\* a and b block on either side, d makes the calls that never block.
TrioThread   == {i0, i1, a, b, d}
TrioQueue    == [p \in 0..3 |-> CASE p = 0 -> <<a>> [] p = 1 -> <<b>> [] p = 2 -> <<d>>
                                  [] OTHER -> <<i0, i1>>]
TrioPriority == PriorityIn(TrioQueue)
TrioUses     == [t \in TrioThread |-> CASE t \in {a, b} -> {"send", "recv"}
                                        [] t = d -> {"try_send", "try_recv"}
                                        [] OTHER -> {}]

ASSUME TrioAssumption == Careful /\ WaitersSpared
=============================================================================

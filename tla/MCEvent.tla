------------------------------ MODULE MCEvent ------------------------------
(***************************************************************************)
(* Two event objects on stripes of their own, two bits: a waits for either *)
(* bit, b sets f1 and waits for both, d sets and clears both, and kills the *)
(* other two from core 0.                                                  *)
(***************************************************************************)
EXTENDS KEvent

CONSTANTS i0, i1, a, b, d, f1, f2, ev1, ev2, s1, s2

MCThread   == {i0, i1, a, b, d}
MCIdleOf   == [c \in Core |-> IF c = 0 THEN i0 ELSE i1]
MCQueue    == [p \in 0..3 |-> CASE p = 0 -> <<a>> [] p = 1 -> <<b>> [] p = 2 -> <<d>>
                                [] OTHER -> <<i0, i1>>]
MCPriority == [t \in MCThread |-> CHOOSE p \in 0..3 : t \in Linked(MCQueue[p])]
MCAffinity == [t \in MCThread |-> CASE t \in {i0, d} -> 0 [] t = i1 -> 1 [] OTHER -> AnyCore]
MCStripeOf == [w \in WaitList |-> IF w = ev1 THEN s1 ELSE s2]
MCCalls    == [t \in MCThread |-> CASE t \in {a, b} -> {"wait", "wake"}
                                    [] t = d -> {"wake", "kill"} [] OTHER -> {}]
MCUses     == [t \in MCThread |-> CASE t = a -> {"await"} [] t = b -> {"await", "set"}
                                    [] t = d -> {"set", "clear"} [] OTHER -> {}]
MCMasks    == [t \in MCThread |-> CASE t = a -> {<<{f1, f2}, FALSE>>}
                                    [] t = b -> {<<{f1, f2}, TRUE>>} [] OTHER -> {}]
MCSetMask  == [t \in MCThread |-> CASE t = b -> {f1} [] t = d -> {f1, f2} [] OTHER -> {}]
=============================================================================

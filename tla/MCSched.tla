------------------------------ MODULE MCSched ------------------------------
(***************************************************************************)
(* Instances of Sched for TLC.  i0 and i1 are the idle threads, alone at   *)
(* the lowest priority; the other threads and what they do differ from run *)
(* to run.  A cfg names one operator per constant.                         *)
(***************************************************************************)
EXTENDS Sched

CONSTANTS i0, i1, a, b, d, e

Idles == {i0, i1}
MCIdleOf == [c \in Core |-> IF c = 0 THEN i0 ELSE i1]

\* The threads T, each at the place the sequence of queues rqs gives it.
PrioIn(rqs) == [t \in UNION {Linked(rqs[p]) : p \in DOMAIN rqs} |->
                  CHOOSE p \in DOMAIN rqs : t \in Linked(rqs[p])]
\* Pinned as the function pins says; all others, but the idle ones, run anywhere.
PinnedTo(T, pins) == [t \in T |-> IF t \in DOMAIN pins THEN pins[t]
                                  ELSE IF t \in Idles THEN IF t = i0 THEN 0 ELSE 1
                                  ELSE AnyCore]

\* The lists of all primitives share a stripe.
OneStripe == [w \in WaitList |-> CHOOSE s \in Stripe : TRUE]

\* --- two peers of one priority, a killer pinned to each core --------------
KillQueue    == [p \in 0..2 |-> CASE p = 0 -> <<d, e>> [] p = 1 -> <<a, b>>
                                  [] OTHER -> <<i0, i1>>]
KillThreads  == {i0, i1, a, b, d, e}
KillPriority == PrioIn(KillQueue)
KillAffinity == PinnedTo(KillThreads, (d :> 0) @@ (e :> 1))
KillCalls    == [t \in KillThreads |-> CASE t \in {a, b} -> {"wait", "wake", "sleep"}
                                         [] t = d -> {"kill", "wake", "sleep"}
                                         [] t = e -> {"kill", "sleep"}
                                         [] OTHER -> {}]

\* --- distinct priorities, one killer that runs on both cores ---------------
LadderQueue    == [p \in 0..3 |-> CASE p = 0 -> <<a>> [] p = 1 -> <<b>>
                                    [] p = 2 -> <<d>> [] OTHER -> <<i0, i1>>]
LadderThreads  == {i0, i1, a, b, d}
LadderPriority == PrioIn(LadderQueue)
LadderFree     == PinnedTo(LadderThreads, <<>>)
LadderCalls    == [t \in LadderThreads |->
                     CASE t \in {a, b} -> {"wait", "wake", "sleep"}
                       [] t = d -> {"kill", "wait", "wake", "sleep"}
                       [] OTHER -> {}]

\* --- three peers that share a primitive -------------------------------------
PeerQueue     == [p \in 0..2 |-> CASE p = 1 -> <<a, b, d>> [] p = 0 -> <<>>
                                   [] OTHER -> <<i0, i1>>]
PeerThreads   == {i0, i1, a, b, d}
PeerPriority  == PrioIn(PeerQueue)
PeerFree      == PinnedTo(PeerThreads, <<>>)
WaitCalls     == [t \in PeerThreads |-> IF t \in Idles THEN {} ELSE {"wait", "wake"}]

\* --- d on core 0 fills the slots a and b, peers that exit on core 1 ---------
BirthQueue    == [p \in 0..2 |-> CASE p = 0 -> <<d>> [] p = 2 -> <<i0, i1>> [] OTHER -> <<>>]
BirthThreads  == {i0, i1, a, b, d}
BirthPriority == [t \in BirthThreads |-> CASE t = d -> 0 [] t \in {a, b} -> 1 [] OTHER -> 2]
BirthAffinity == PinnedTo(BirthThreads, (a :> 1) @@ (b :> 1) @@ (d :> 0))
BirthCalls    == [t \in BirthThreads |-> CASE t = d -> {"create", "kill", "wait", "sleep"}
                                           [] t \in {a, b} -> {"exit", "wake", "sleep"}
                                           [] OTHER -> {}]

\* --- everybody roams, and those who create, kill and exit can be killed ------
RoamQueue    == [p \in 0..2 |-> CASE p = 0 -> <<d>> [] p = 1 -> <<a, b>>
                                  [] OTHER -> <<i0, i1>>]
RoamThreads  == {i0, i1, a, b, d}
RoamPriority == PrioIn(RoamQueue)
RoamAffinity == PinnedTo(RoamThreads, <<>>)
RoamCalls    == [t \in RoamThreads |->
                   CASE t = d -> {"create", "kill", "wait", "exit"}
                     [] t = a -> {"create", "kill", "wait", "wake", "exit"}
                     [] t = b -> {"kill", "wait", "wake", "sleep"}
                     [] OTHER -> {}]

\* The other two passing instances keep to Discipline by themselves.
ASSUME CarefulInstances ==
  /\ Calls \in {KillCalls, BirthCalls} => Careful
  /\ Calls = BirthCalls => OwnQueue
=============================================================================

------------------------------ MODULE MCBtScan ------------------------------
(***************************************************************************)
(* Instances of BtScan: a subscriber p, and s, the shell, that scans once  *)
(* and may stop the subscriber; two processes that each scan once.         *)
(***************************************************************************)
EXTENDS BtScan

CONSTANTS p, s

MCUses  == [c \in {p, s} |-> IF c = p THEN {"pull", "callback", "exit"} ELSE {"scan", "stop"}]

MCAgain == [c \in {p, s} |-> {"scan"}]

ASSUME WatchAssumption == Uses = MCUses => OneSubscriber
=============================================================================

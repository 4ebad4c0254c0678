----------------------------- MODULE MCWifiScan -----------------------------
(***************************************************************************)
(* Instances of WifiScan: a subscriber p, and s, the shell, that scans     *)
(* once and stops whoever is scanning.                                     *)
(***************************************************************************)
EXTENDS WifiScan

CONSTANTS p, s

MCUses  == [c \in {p, s} |-> IF c = p THEN {"pull", "callback", "exit"}
                                      ELSE {"scan", "connect", "stop"}]
\* One subscribes while the other begins to scan once.
MCRace  == [c \in {p, s} |-> IF c = p THEN {"pull"} ELSE {"scan"}]
\* Two subscribe, one after the other.
MCTwo   == [c \in {p, s} |-> IF c = p THEN {"pull"} ELSE {"pull", "stop"}]

\* Nothing depends on the counts of windows, which every step leaves, raises by
\* one or sets to zero; and once a restoring ioctl was refused nothing asks for
\* the dwell times any more.
Seen == <<pc, [sb EXCEPT !.seq = 0, !.dropped = 0], lists, g_cont, g_owner, g_listen,
          g_cont_lock, flags, tgt_cont, reads, oneshot, g_pass_running, radio,
          IF refused THEN <<"refused">> ELSE <<dwell, saved>>>>

ASSUME WatchAssumption == Uses = MCUses => OneSubscriber
=============================================================================

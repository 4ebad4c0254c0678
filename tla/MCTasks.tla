------------------------------ MODULE MCTasks -------------------------------
(***************************************************************************)
(* Instances of Tasks: the shell, a button and a caller of SYS_SPAWN make  *)
(* processes and the shell kills them; two callers of SYS_SPAWN; and what  *)
(* becomes of the pools when operations are less apart than SerialSpec     *)
(* keeps them.                                                             *)
(***************************************************************************)
EXTENDS Tasks, TLC

\* One PID each: a range is full while its process lives, and its PID is
\* reused as soon as it may be.
MCLimits == ("run" :> <<100, 100>>) @@ ("spawn" :> <<10, 10>>)
            @@ ("autorun" :> <<50, 50>>) @@ ("button" :> <<200, 200>>)

\* PendSV comes into the compaction of threads[], too.
CompactionNext ==
  \/ At(reaper, "idle") /\ Operations /\ OneAtATime
  \/ At(reaper, "idle") /\ AppThreads
  \/ FreesThread(reaper)
CompactionSpec == TasksInit /\ [][CompactionNext]_tvars

\* PendSV frees a thread on one core while an operation goes on on the other.
CoresNext ==
  \/ Operations /\ OneAtATime
  \/ ~At(shell, "shift") /\ AppThreads
  \/ FreesThread(reaper)
CoresSpec == TasksInit /\ [][CoresNext]_tvars
=============================================================================

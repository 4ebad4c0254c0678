------------------------------- MODULE Tasks --------------------------------
(***************************************************************************)
(* Threads and processes: the pools of TCBs and PCBs, the PID ranges, the  *)
(* stacks on the heap, and everything that makes or frees them: run and    *)
(* SYS_SPAWN, thread exit, kill and killproc.  None of it takes a lock but *)
(* the heap's, so an operation is a row of steps, between which anything   *)
(* else may come: another operation, on this core or the other, PendSV,    *)
(* which frees a thread under the scheduler's lock, a kill.  TasksSpec     *)
(* lets all of it happen; the pools do not survive that.  SerialSpec keeps *)
(* operations apart, which the code leaves to its users.  Which threads a  *)
(* kill may free at once, and which it must leave, is Sched's subject.     *)
(***************************************************************************)
EXTENDS Heap, FiniteSets

CONSTANTS
  shell, button, Spawner,    \* who makes processes: two kernel threads, and callers of SYS_SPAWN
  Limits,                    \* the <<base, limit>> of each PID range
  MAX_THREADS, MAX_PROCESSES,
  StackSize, ArgSize,
  Kills,                     \* does the shell kill apps?
  Waiters,                   \* the TCBs whose threads wait on primitives
  None

Manager == {shell, button} \union Spawner
\* A thread of an app that makes threads in its own process; and PendSV, or the
\* waker that frees a killed waiter.
app    == "app"
reaper == "reaper"
Actor  == Manager \union {app, reaper}

PidRange == {"spawn", "autorun", "run", "button"}
PidsOf(r) == Limits[r][1]..Limits[r][2]
Pid == UNION {PidsOf(r) : r \in PidRange}
Tcb == 0..MAX_THREADS-1
Pcb == 0..MAX_PROCESSES-1

ASSUME TasksAssumption ==
  /\ {app, reaper} \intersect Manager = {}
  /\ \A r \in PidRange : Limits[r][1] \in Nat \ {0} /\ Limits[r][2] \in Nat /\ Limits[r][1] <= Limits[r][2]
  /\ MAX_THREADS \in Nat \ {0} /\ MAX_PROCESSES \in Nat \ {0}
  /\ StackSize \in Nat \ {0} /\ ArgSize \in Nat \ {0}
  /\ Kills \in BOOLEAN /\ Waiters \subseteq Tcb
  /\ None \notin Nat

VARIABLES
  tcb_used, tcb,       \* the TCBs: owner's pid, stack, argument not yet taken, state
  pcb_used, pcb,       \* the PCBs: pid, alive, threads
  next_pid,            \* where each range goes on
  heap,
  args,                \* arguments on the heap: not yet taken, or never to be
  op                   \* what each actor is in the middle of

pools == <<tcb_used, tcb, pcb_used, pcb>>
tvars == <<pools, next_pid, heap, args, op>>

Zeroed == [pid |-> 0, stack |-> None, arg |-> None, state |-> "new"]
NoThreads == [i \in 1..MAX_THREADS |-> None]
ZeroedProcess == [pid |-> 0, alive |-> FALSE, count |-> 0, threads |-> NoThreads]
NoOp == [at |-> "idle", range |-> None, pid |-> 0, proc |-> None, tcb |-> None, arg |-> None,
         by |-> None, stack |-> None, slot |-> 0, list |-> <<>>]

TasksInit ==
  /\ tcb_used = [t \in Tcb |-> FALSE] /\ tcb = [t \in Tcb |-> Zeroed]
  /\ pcb_used = [p \in Pcb |-> FALSE] /\ pcb = [p \in Pcb |-> ZeroedProcess]
  /\ next_pid = [r \in PidRange |-> Limits[r][1]]
  /\ heap = kmem_init /\ args = {}
  /\ op = [a \in Actor |-> IF a = shell THEN [NoOp EXCEPT !.at = "boot"] ELSE NoOp]

\* Mutant: a process that is no longer alive is not found.
FindAlive(pid) == {p \in Pcb : pcb_used[p] /\ pcb[p].alive /\ pcb[p].pid = pid}

task_find_process(pid) == {p \in Pcb : pcb_used[p] /\ pcb[p].pid = pid}
-----------------------------------------------------------------------------
(* Operations.                                                             *)

At(a, where) == op[a].at = where
Busy == {a \in Actor : ~At(a, "idle")}

Goes(a, where) == op' = [op EXCEPT ![a].at = where]
Done(a) == op' = [op EXCEPT ![a] = NoOp]
-----------------------------------------------------------------------------
(* run, SYS_SPAWN: a process and its first thread.                         *)

\* From next on, the first PID of the range no process has; 0 if there is none.
FreePids(r) == {pid \in PidsOf(r) : task_find_process(pid) = {}}
NextFree(r) ==
  LET ahead == {pid \in FreePids(r) : pid >= next_pid[r]}
  IN  IF FreePids(r) = {} THEN 0 ELSE IF ahead # {} THEN Min(ahead) ELSE Min(FreePids(r))

\* task_alloc_pid() finds a PID ...
FindPid(m, r) ==
  /\ op' = [op EXCEPT ![m] = [NoOp EXCEPT !.at = "pid", !.range = r, !.pid = NextFree(r)]]
  /\ UNCHANGED <<pools, next_pid, heap, args>>

\* Mutant: the range has no end.
AfterNoWrap(r, pid) == pid + 1

After(r, pid) == IF pid = Limits[r][2] THEN Limits[r][1] ELSE pid + 1

\* ... and the range goes on behind it.
TakePid(m) ==
  LET r == op[m].range
      pid == op[m].pid
  IN  /\ At(m, "pid")
      /\ next_pid' = IF pid = 0 THEN next_pid ELSE [next_pid EXCEPT ![r] = After(r, pid)]
      /\ Goes(m, "arg")
      /\ UNCHANGED <<pools, heap, args>>

cmd_run   == At(shell, "idle") /\ FindPid(shell, "run")
SYS_SPAWN(m) == At(m, "idle") /\ FindPid(m, "spawn")

\* Once, before its prompt, the shell may run the app that config.txt names.
shell_autorun_init ==
  /\ At(shell, "boot")
  /\ FindPid(shell, "autorun") \/ (Done(shell) /\ UNCHANGED <<pools, next_pid, heap, args>>)

\* A button was pressed whose app does not run yet.
btn_monitor_thread == At(button, "idle") /\ FindPid(button, "button")

\* The argument is copied to the heap, if there is one and it fits there.
CopyArg(m) ==
  /\ At(m, "arg")
  /\ \/ Goes(m, "check") /\ UNCHANGED <<heap, args>>
     \/ /\ op[m].range = "run" /\ Fits(heap, ArgSize) # {}
        /\ heap' = Malloc(heap, ArgSize)
        /\ args' = args \union {MallocAt(heap, ArgSize)}
        /\ op' = [op EXCEPT ![m].at = "check", ![m].arg = MallocAt(heap, ArgSize)]
  /\ UNCHANGED <<pools, next_pid>>

\* The operation failed: the argument is freed with it.
GivesUp(m) ==
  LET arg == op[m].arg
  IN  /\ IF arg = None THEN UNCHANGED <<heap, args>>
         ELSE heap' = Free(heap, arg) /\ args' = args \ {arg}
      /\ Done(m)

FreePcbs == {p \in Pcb : ~pcb_used[p]}
FreeTcbs == {t \in Tcb : ~tcb_used[t]}

\* task_create_process(): is the PID still free ...
CheckPid(m) ==
  /\ At(m, "check")
  /\ IF op[m].pid = 0 \/ task_find_process(op[m].pid) # {} THEN GivesUp(m)
     ELSE Goes(m, "pool") /\ UNCHANGED <<heap, args>>
  /\ UNCHANGED <<pools, next_pid>>

\* ... is there a slot ...
ScanProcesses(m) ==
  /\ At(m, "pool")
  /\ IF FreePcbs = {} THEN GivesUp(m)
     ELSE /\ op' = [op EXCEPT ![m].at = "process", ![m].proc = Min(FreePcbs)]
          /\ UNCHANGED <<heap, args>>
  /\ UNCHANGED <<pools, next_pid>>

\* ... which is then the process's.
ClaimProcess(m) ==
  LET p == op[m].proc
  IN  /\ At(m, "process")
      /\ pcb_used' = [pcb_used EXCEPT ![p] = TRUE]
      /\ pcb' = [pcb EXCEPT ![p] = [pid |-> op[m].pid, alive |-> TRUE, count |-> 0, threads |-> NoThreads]]
      /\ Goes(m, "scan")
      /\ UNCHANGED <<tcb_used, tcb, next_pid, heap, args>>

\* Mutant: the process made for a thread that cannot be made is left.
NoThreadLeft(m) == GivesUp(m) /\ UNCHANGED <<pcb_used, pcb>>

\* No thread could be made: the process made for it goes again.
NoThread(m) ==
  LET p == op[m].proc
  IN  /\ IF m = app THEN UNCHANGED <<pcb_used, pcb>>
         ELSE /\ pcb_used' = [pcb_used EXCEPT ![p] = FALSE]
              /\ pcb' = [pcb EXCEPT ![p] = ZeroedProcess]
      /\ GivesUp(m)

\* task_create_thread(): the scan of tcb_used[].
ScanThreads(m) ==
  /\ At(m, "scan")
  /\ IF FreeTcbs = {} THEN NoThread(m)
     ELSE /\ op' = [op EXCEPT ![m].at = "claim", ![m].tcb = Min(FreeTcbs)]
          /\ UNCHANGED <<pcb_used, pcb, heap, args>>
  /\ UNCHANGED <<tcb_used, tcb, next_pid>>

ClaimThread(m) ==
  /\ At(m, "claim")
  /\ tcb_used' = [tcb_used EXCEPT ![op[m].tcb] = TRUE]
  /\ Goes(m, "stack")
  /\ UNCHANGED <<tcb, pcb_used, pcb, next_pid, heap, args>>

\* Its stack, or the slot is given back.
AllocStack(m) ==
  LET t == op[m].tcb
  IN  /\ At(m, "stack")
      /\ IF Fits(heap, StackSize) = {}
         THEN tcb_used' = [tcb_used EXCEPT ![t] = FALSE] /\ NoThread(m) /\ UNCHANGED tcb
         ELSE /\ heap' = Malloc(heap, StackSize)
              /\ tcb' = [tcb EXCEPT ![t].stack = MallocAt(heap, StackSize)]
              /\ Goes(m, "fill")
              /\ UNCHANGED <<tcb_used, pcb_used, pcb, args>>
      /\ UNCHANGED next_pid

\* The TCB is filled and linked into its process; sched_add_thread() then lets
\* it run.
Publish(m) ==
  LET t == op[m].tcb
      p == op[m].proc
  IN  /\ At(m, "fill")
      /\ tcb' = [tcb EXCEPT ![t].pid = pcb[p].pid, ![t].state = "ready", ![t].arg = op[m].arg]
      /\ pcb' = [pcb EXCEPT ![p].count = @ + 1, ![p].threads[pcb[p].count + 1] = t]
      /\ Done(m)
      /\ UNCHANGED <<tcb_used, pcb_used, next_pid, heap, args>>

\* The thread c of an app makes another in its own process.
ThreadCreate(c) ==
  /\ At(app, "idle") /\ tcb_used[c] /\ tcb[c].state = "ready"
  /\ \E p \in task_find_process(tcb[c].pid) :
       op' = [op EXCEPT ![app] = [NoOp EXCEPT !.at = "scan", !.proc = p, !.by = c]]
  /\ UNCHANGED <<pools, next_pid, heap, args>>

MakesProcess(m) == TakePid(m) \/ CopyArg(m) \/ CheckPid(m) \/ ScanProcesses(m) \/ ClaimProcess(m)
MakesThread(m) == ScanThreads(m) \/ ClaimThread(m) \/ AllocStack(m) \/ Publish(m)
-----------------------------------------------------------------------------
(* task_free_thread(), by a killer or by PendSV.                           *)

Threads(p) == {pcb[p].threads[i] : i \in 1..pcb[p].count}

\* thread_count goes down first ...
Unlink(a) ==
  LET t == op[a].tcb
      owner == task_find_process(tcb[t].pid)
      p == CHOOSE q \in owner : TRUE
  IN  /\ At(a, "unlink")
      /\ IF owner = {} THEN Goes(a, "unuse") /\ UNCHANGED pcb
         ELSE IF t \notin Threads(p)
         THEN op' = [op EXCEPT ![a].at = "unuse", ![a].proc = p] /\ UNCHANGED pcb
         ELSE /\ op' = [op EXCEPT ![a].at = "shift", ![a].proc = p,
                          ![a].slot = CHOOSE i \in 1..pcb[p].count : pcb[p].threads[i] = t]
              /\ pcb' = [pcb EXCEPT ![p].count = @ - 1]
      /\ UNCHANGED <<tcb_used, tcb, pcb_used, next_pid, heap, args>>

\* ... and what follows t in threads[] then moves up.
Shift(a) ==
  LET p == op[a].proc
      count == pcb[p].count
  IN  /\ At(a, "shift")
      /\ pcb' = [pcb EXCEPT ![p].threads =
           [i \in 1..MAX_THREADS |->
              IF i = count + 1 THEN None ELSE IF i \in op[a].slot..count THEN @[i + 1] ELSE @[i]]]
      /\ Goes(a, "unuse")
      /\ UNCHANGED <<tcb_used, tcb, pcb_used, next_pid, heap, args>>

Unuse(a) ==
  LET t == op[a].tcb
  IN  /\ At(a, "unuse")
      /\ tcb_used' = [tcb_used EXCEPT ![t] = FALSE]
      /\ op' = [op EXCEPT ![a].at = "wipe", ![a].stack = tcb[t].stack]
      /\ UNCHANGED <<tcb, pcb_used, pcb, next_pid, heap, args>>

Wipe(a) ==
  LET stack == op[a].stack
  IN  /\ At(a, "wipe")
      /\ tcb' = [tcb EXCEPT ![op[a].tcb] = Zeroed]
      /\ heap' = IF stack = None THEN heap ELSE Free(heap, stack)
      /\ Goes(a, "process?")
      /\ UNCHANGED <<tcb_used, pcb_used, pcb, next_pid, args>>

\* What a killer does next: the rest of its list.
GoesOn(a) ==
  op' = [op EXCEPT ![a] = IF Len(@.list) > 1 THEN [NoOp EXCEPT !.at = "mark", !.list = Tail(op[a].list)]
                          ELSE NoOp]

\* The process goes with its last thread.
FreeProcess(a) ==
  LET p == op[a].proc
  IN  /\ At(a, "process?")
      /\ IF p # None /\ pcb[p].count = 0
         THEN /\ pcb_used' = [pcb_used EXCEPT ![p] = FALSE]
              /\ pcb' = [pcb EXCEPT ![p] = ZeroedProcess]
         ELSE UNCHANGED <<pcb_used, pcb>>
      /\ GoesOn(a)
      /\ UNCHANGED <<tcb_used, tcb, next_pid, heap, args>>

FreesThread(a) == Unlink(a) \/ Shift(a) \/ Unuse(a) \/ Wipe(a) \/ FreeProcess(a)
-----------------------------------------------------------------------------
(* kill and killproc.  The victim does not run: its killer does.           *)

cmd_kill ==
  \E t \in Tcb :
    /\ Kills /\ At(shell, "idle") /\ tcb_used[t]
    /\ op' = [op EXCEPT ![shell] = [NoOp EXCEPT !.at = "mark", !.list = <<t>>]]
    /\ UNCHANGED <<pools, next_pid, heap, args>>

cmd_killproc ==
  \E p \in Pcb :
    /\ Kills /\ At(shell, "idle") /\ pcb_used[p]
    /\ op' = [op EXCEPT ![shell] = [NoOp EXCEPT !.at = "snapshot", !.proc = p]]
    /\ UNCHANGED <<pools, next_pid, heap, args>>

\* task_kill_process(): the PCB may be free again by now, and has no threads then.
Snapshot(m) ==
  LET p == op[m].proc
      list == SubSeq(pcb[p].threads, 1, pcb[p].count)
  IN  /\ At(m, "snapshot")
      /\ pcb' = [pcb EXCEPT ![p].alive = FALSE]
      /\ IF list = <<>> THEN Done(m)
         ELSE op' = [op EXCEPT ![m] = [NoOp EXCEPT !.at = "mark", !.list = list]]
      /\ UNCHANGED <<tcb_used, tcb, pcb_used, next_pid, heap, args>>

\* sched_kill(): a waiter is left to its waker, a zombie to whoever frees it.
\* What the victim was in the middle of making stays as it is.
Mark(m) ==
  LET t == Head(op[m].list)
  IN  /\ At(m, "mark")
      /\ \/ t = None /\ GoesOn(m) /\ UNCHANGED tcb
         \/ /\ t # None /\ tcb[t].state \in {"new", "ready"}
            /\ tcb' = [tcb EXCEPT ![t].state = "zombie"]
            /\ op' = [op EXCEPT ![m].at = "unlink", ![m].tcb = t,
                                ![app] = IF ~At(app, "idle") /\ @.by = t THEN NoOp ELSE @]
         \/ /\ t # None /\ tcb[t].state = "blocked"
            /\ tcb' = [tcb EXCEPT ![t].state = "dying"]
            /\ GoesOn(m)
         \/ t # None /\ tcb[t].state \in {"zombie", "dying"} /\ GoesOn(m) /\ UNCHANGED tcb
      /\ UNCHANGED <<tcb_used, pcb_used, pcb, next_pid, heap, args>>

-----------------------------------------------------------------------------
(* What the apps' threads do between the steps of the managers.            *)

Live(t) == tcb_used[t] /\ tcb[t].state = "ready"

Reaps(t) ==
  /\ At(reaper, "idle")
  /\ op' = [op EXCEPT ![reaper] = [NoOp EXCEPT !.at = "unlink", !.tcb = t]]

\* It takes its argument and frees it.
TakesArg(t) ==
  /\ Live(t) /\ tcb[t].arg # None
  /\ heap' = Free(heap, tcb[t].arg) /\ args' = args \ {tcb[t].arg}
  /\ tcb' = [tcb EXCEPT ![t].arg = None]
  /\ UNCHANGED <<tcb_used, pcb_used, pcb, next_pid, op>>

\* It returns, or calls SYS_EXIT, which also says that the process is over;
\* PendSV reaps it.
Exits(t) ==
  LET Over(p) == \A u \in Threads(p) \ {t, None} : tcb[u].state \in {"zombie", "dying"}
  IN  /\ Live(t) /\ tcb[t].arg = None /\ op[app].by # t
      /\ tcb' = [tcb EXCEPT ![t].state = "zombie"]
      /\ \/ UNCHANGED pcb
         \/ \E p \in task_find_process(tcb[t].pid) :
              Over(p) /\ pcb' = [pcb EXCEPT ![p].alive = FALSE]
      /\ Reaps(t)
      /\ UNCHANGED <<tcb_used, pcb_used, next_pid, heap, args>>

Waits(t) ==
  /\ t \in Waiters /\ Live(t) /\ op[app].by # t
  /\ tcb' = [tcb EXCEPT ![t].state = "blocked"]
  /\ UNCHANGED <<tcb_used, pcb_used, pcb, next_pid, heap, args, op>>

\* sched_unblock(), by whoever signals what t waits on.
Woken(t) ==
  /\ \/ /\ tcb[t].state = "blocked"
        /\ tcb' = [tcb EXCEPT ![t].state = "ready"]
        /\ UNCHANGED op
     \/ /\ tcb[t].state = "dying"
        /\ tcb' = [tcb EXCEPT ![t].state = "zombie"]
        /\ Reaps(t)
  /\ UNCHANGED <<tcb_used, pcb_used, pcb, next_pid, heap, args>>

\* A thread that is in SYS_SPAWN is killed: the call stops where it is.
CutOff(m) == Kills /\ ~At(m, "idle") /\ Done(m) /\ UNCHANGED <<pools, next_pid, heap, args>>

Operations ==
  \/ cmd_run \/ shell_autorun_init \/ btn_monitor_thread
  \/ \E m \in Spawner : SYS_SPAWN(m)
  \/ \E t \in Tcb : ThreadCreate(t)
  \/ cmd_kill \/ cmd_killproc \/ Snapshot(shell) \/ Mark(shell)
  \/ \E m \in Manager : MakesProcess(m) \/ MakesThread(m)
  \/ MakesThread(app)
  \/ FreesThread(shell)
AppThreads == \E t \in Tcb : TakesArg(t) \/ Exits(t) \/ Waits(t) \/ Woken(t)

TasksNext == Operations \/ AppThreads \/ FreesThread(reaper) \/ \E m \in Spawner : CutOff(m)

TasksSpec == TasksInit /\ [][TasksNext]_tvars
-----------------------------------------------------------------------------
(* The same with operations apart.  Nothing in the code sees to it.        *)

\* An operation is begun while no other is under way.
OneAtATime == \A a \in Manager \union {app} : At(a, "idle") => op'[a] = op[a] \/ Busy = {}

\* On one core PendSV is never interrupted; it comes between any two steps of
\* an operation, but not into the compaction of threads[].
SerialNext ==
  \/ At(reaper, "idle") /\ Operations /\ OneAtATime
  \/ At(reaper, "idle") /\ ~At(shell, "shift") /\ AppThreads
  \/ FreesThread(reaper)

SerialSpec == TasksInit /\ [][SerialNext]_tvars

\* No two callers of SYS_SPAWN are past the test for the same PID.
SpawnsApart ==
  \A m, n \in Spawner :
    m # n /\ {op[m].at, op[n].at} \subseteq {"pool", "process"} => op[m].pid # op[n].pid
-----------------------------------------------------------------------------
TasksTypeOK ==
  /\ tcb_used \in [Tcb -> BOOLEAN] /\ pcb_used \in [Pcb -> BOOLEAN]
  /\ \A t \in Tcb : /\ tcb[t].pid \in Pid \union {0}
                    /\ tcb[t].state \in {"new", "ready", "blocked", "dying", "zombie"}
  /\ \A p \in Pcb : /\ pcb[p].pid \in Pid \union {0} /\ pcb[p].count \in 0..MAX_THREADS
                    /\ pcb[p].threads \in [1..MAX_THREADS -> Tcb \union {None}]
  /\ \A r \in PidRange : next_pid[r] \in PidsOf(r)
  /\ DOMAIN op = Actor

\* The heap is whole and merged, and every block of it is the stack of one
\* thread or an argument: no failed or interrupted operation leaks a stack,
\* frees one twice or gives one to two threads.
HeapAccounted ==
  LET Stacked == {t \in Tcb : tcb[t].stack # None}
  IN  /\ Tiles(heap) /\ Coalesced(heap)
      /\ UsedBlocks(heap) = {tcb[t].stack : t \in Stacked} \union args
      /\ Cardinality(UsedBlocks(heap)) = Cardinality(Stacked) + Cardinality(args)

\* While no operation is under way the two pools agree: a process has at least
\* one thread, threads[] lists the threads that carry its PID, each once, and
\* every thread has its process: the PCB is freed with its last thread.
PoolsAgree ==
  LET Of(pid) == {t \in Tcb : tcb_used[t] /\ tcb[t].pid = pid}
  IN  Busy = {} =>
        /\ \A p \in Pcb : pcb_used[p] =>
             /\ pcb[p].count > 0 /\ Threads(p) = Of(pcb[p].pid)
             /\ Cardinality(Threads(p)) = pcb[p].count
        /\ \A t \in Tcb : tcb_used[t] => task_find_process(tcb[t].pid) # {}

\* No two processes share a PID, also while one of them is dead and waits for
\* its last thread to be freed.
PidsUnique ==
  \A p, q \in Pcb : pcb_used[p] /\ pcb_used[q] /\ pcb[p].pid = pcb[q].pid => p = q
=============================================================================

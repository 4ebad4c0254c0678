# picoOS in TLA+

picoOS is a preemptive kernel for the two cores of the RP2040. This directory
models the part of it that cannot be tested well, two cores and a timer
interrupt sharing queues, and proves what it can for any number of threads. All
paths below are relative to the repository; `kernel/` is `src/kernel/`.

## The system

| Part | State | Operations | Talks to |
|---|---|---|---|
| scheduler (`kernel/sched.c`) | `ready_queues[]`, `current_tcb[]`, each TCB's `state`, `kill_pending`, `wake_time` | `sched_next_thread` (from PendSV), `isr_systick`, `sched_block`, `sched_unblock`, `sched_sleep`, `sched_yield`, `sched_kill` | all, under `sched_lock` |
| waiter lists, spinlocks (`kernel/sync.c`) | a list per primitive through `tcb_t.next`; a pool of 4 hardware spinlocks (`PRIM_POOL_SIZE`) | `waiter_enqueue`, `waiter_dequeue`, `wake_one`, `spinlock_irq_*` | the scheduler, with the primitive's spinlock held |
| mutex, semaphore | `owner_tid`; `count` | lock, unlock; wait, signal | waiter lists |
| message queue | ring `buf`, `head`, `tail`, `count`, two waiter lists | send, recv and their `try_` forms | waiter lists |
| event flags | `flags`, the shared `event_waiter_pool[]` | set, clear, wait | waiter lists |
| threads and processes (`kernel/task.c`) | `tcb_pool`, `tcb_used`, `pcb_pool`, PIDs | create, exit, free, kill a thread or a process | scheduler, heap |
| heap (`kernel/mem.c`) | one block list | `kmalloc`, `kfree`, `kmem_stats` | its own spinlock |
| filesystem (`kernel/fs.c`) | superblock mirror, one write buffer, open fds, flash | open, read, write, close, delete, format | a mutex; flash on core 0 only |
| VFS (`kernel/vfs.c`) | fd table, device mounts | open, read, write, close | filesystem, devices, a mutex |
| Wi-Fi, Bluetooth, scan buffers (`kernel/wifi.c`, `bluetooth.c`, `scanbuf.c`) | one-shot and continuous scan, its owner, three result windows; sockets | start, stop, wait, poll, publish, take, reclaim | task.c (is the owner alive), event flags, a mutex, the chip's async context |
| display (`drivers/display.c`) | framebuffer, the dirty rows, the panel | draw, flush | SPI; nothing serialises its callers |
| shell, system calls, applications (`shell/shell.c`, `kernel/syscall.c`, `apps/`) | PIDs of what they start; `cray_one`'s socket, colours and queue | run, kill, killproc, AUTORUN, buttons, file commands, `display`, `wifi`, `bt` | everything above |
| devices, boot (`kernel/dev.c`, `main.c`) | a table of function pointers | forwarding, start-up | the above |

What is hard here: both cores run the scheduler; a PendSV may come wherever
interrupts are on; a thread can be READY before the core it blocked on has left
it; a thread may be killed in any state from either core and must be freed
exactly once, not too early; wake-ups are hints and newcomers barge in; slots
are recycled. The filesystem adds power loss between two flash operations. What
makes each part correct:

* scheduler: one core per thread, no lost thread, kills are final, are carried
  out in the end and free their victim once; peers take turns;
* mutex, semaphore, queue, flags: the condition holds when a call returns, and no
  thread sleeps while its condition is true and nobody is coming for it;
* message queue: bounded, first in first out, nothing lost or invented;
* threads and processes: no slot, PID or stack is shared or leaked;
* heap: the blocks tile the heap, no two free neighbours, nothing overlaps;
* filesystem: what was closed is still there after a power loss, a reader never
  sees another file's bytes, one writer at a time;
* VFS: an fd names the file it was opened for, or fails;
* scans: publisher and consumer never share a window; a dead owner is replaced;
  the two kinds of scan keep out of each other's results;
* display and `cray_one`: the panel follows the framebuffer, the grid shows whole
  announcements, the socket is not lost, the three threads end together.

## Modules

| Module | Models |
|---|---|
| `Sched` | scheduler, waiter lists and spinlocks, thread life cycle, SYS_KILL |
| `WaitLoop` | the test / enqueue / block / yield / start over loop of every primitive |
| `KMutex`, `KSemaphore` | the two primitives, on `WaitLoop` |
| `Sync` | mutexes and semaphores together over the scheduler, with its fairness |
| `MQueue` | one message queue on `WaitLoop` |
| `BoundedFifo` | what a message queue promises; `MQueue` implements it |
| `KEvent` | event flags on `WaitLoop`: the walk and the waiter pool |
| `Heap` | `kmalloc` and `kfree` as operators on the list of blocks |
| `Tasks` | processes, threads, PIDs and stacks, on `Heap`; shell, button, SYS_SPAWN as callers |
| `Fs` | filesystem: mirror, write buffer, fds, flash operations, power loss |
| `Vfs` | the VFS and devices, composed with `Fs` |
| `ScanBuf` | the three rotating windows as operators |
| `ContScan` | what the continuous scans of both radios share |
| `Mailbox` | what a continuous scan promises; `ContScan`'s state implements it |
| `WifiScan`, `BtScan` | the two services on `ContScan`: one-shot scan, poll, radio |
| `Display` | framebuffer rows, dirty range, flush |
| `Cray` | `cray_one`, its threads, callback, sockets and `cmd_display`, on `Display` |
| `MCSched`, `MCSync`, `MCMQueue`, `MCEvent`, `MCTasks`, `MCVfs`, `MCWifiScan`, `MCBtScan`, `MCCray` | constants of the instances that TLC checks |
| `SchedProofs` | theorems about `Sched`: types and cores; lists, kills and frees; lemmas about the loop: it loses no wake-up |
| `SyncProofs`, `MQueueProofs` | theorems about the primitives; `SyncProofs` also about `KEvent` |
| `VfsProofs` | theorems about `Fs` and `Vfs` |
| `ContProofs`, `WifiProofs`, `BtProofs` | theorems about the scans; `WifiProofs` also about `Cray` and `Display` |
| `TasksProofs` | theorems about `Heap` and `Tasks` |

### How `Sched` corresponds to the code

*Threads.* A thread is a slot of `tcb_pool`. Its priority and affinity are
constants of the slot, and what its program may do is the constant `Calls`: a
thread may make any kernel call of that set at any time, in any order, or
compute for ever. `Target` holds the threads outside PIDs 1 to 9, which the
system call refuses to kill.

*Atomicity.* Everything under `sched_lock` is one action, since interrupts are
off and both cores exclude each other. What happens between two such sections is
a step of its own, recorded in `pc`: after `waiter_enqueue` and before
`sched_block` (`enqueued`), between dequeuing a waiter and `sched_unblock`
(`wake`), before a killed waiter is freed (`wakefree`), between reading
`get_core_num()` and using it (`exit`, `kill`), between `sched_kill` and
`task_free_thread` (`killfree`), between the slot scan, the claim and
`sched_add_thread` (`scanned`, `claimed`). `Slice` may happen in all of these
where the code has interrupts on, `IrqOff` lists the others. `spin` records who
has a stripe, because the wake path keeps the spinlock while it works through a
list; primitives on one stripe exclude each other.

*Lists.* `ready_queues` and `waiters` are sequences, while the code threads both
through the single field `tcb_t.next`. This is exact as long as no list holds a
freed TCB (`WaitersAlive`, `OneLink`), because every routine that links a TCB
first clears its `next`. The one place where a TCB is linked twice is kept:
`WaitEnqueue` cuts the ready queue behind the thread (`CutBehind`).

*The switch.* PendSV is atomic: it saves the registers, calls
`sched_next_thread`, restores the registers of the thread chosen. `SchedNext`
follows the function in its order: pending kill, RUNNING to READY, reap,
rotation, pick by priority with the checks of the other core and the affinity,
and the case in which nothing can be picked. `Slice` and `Yield` differ in where
the outgoing thread resumes.

*Start.* `Init` is the state after `sched_start` and `sched_start_core1` have each
claimed the first queued thread that fits (`BootPick`).

*Abstracted.* Wake times (an alarm of a sleeper may expire at any tick), the
length of a slice (it may run out at any time), stacks, registers, canaries,
names, statistics, the trace ring, the printing of the deadlock scanner,
and processes: `Tasks` has those.

*Coarser than the code.* `task_free_thread` is one action, `FreeSlot`, and a switch that
frees the thread it leaves is one action with that. But `task_create_thread` scans
`tcb_used[]` without a lock: it can see the flag cleared before the TCB is zeroed
(`kernel/task.c:431`), from the other core or after a PendSV into a killer that frees, and, from the
other core, the slot free before the core that frees it has left it. The first is two steps in `Tasks` and goes wrong there (`MCTasks_cores.cfg`). The
second is in no model: what makes it harmless is that the new thread is queued by
`sched_add_thread`, which waits for the `sched_lock` that the switch holds. A killer whose victim is
freed before its mark marks and frees the zeroed slot once more; `FreedOnce` speaks of who
has the duty to free, and does not notice.

### The primitives

`WaitLoop` adds `want`, the call a thread is inside. While it is inside, the
thread makes no other call (`CallsOut`), and after a wake-up it tests its
condition again (`Tests`) before it takes or blocks. A lock, take, send or
receive that succeeds is one action: the test and the change happen under the
primitive's spinlock; those that end in `wake_one` start the wake path in that
action and go on in `Sched`. `Seekers(w)` are the threads that were woken and have
yet to test. The threads of these runs have pairwise different priorities; with
peers the defect of the run `shared_queue` would hide everything else. A thread may
lock a mutex while it holds others, as `vfs.c` does with that of `fs.c`, and even the one it
holds, on which it then waits for ever; the run has one mutex, the theorems any number.

`KEvent` has the walk of `event_flags_set` as it is: the waiters satisfied now are
unblocked one after the other with the object's spinlock held, and the walk
looks again after each (`Walk`): since flags cannot change under the spinlock, and a
waiter left behind stays unsatisfied, starting again at the head finds the same
threads as the pointer the code keeps. `event_waiter_pool` is shared by all objects
and a full one is ignored, as in `kernel/sync.c:675`. The masks of a thread are
constants.

### Processes and the heap

In `Tasks` an operation (start an app, make a thread, kill, free) is a record in
`op`, one step for every stretch between two reads or writes that another
operation could see. None of it takes a lock but the heap's, threads have affinity ANY and
there are two cores, so anything may come between two steps: another operation, an
exit, the reaping, a kill of the caller (`CutOff`). This is `TasksSpec`. The pools do not survive it, as the
three configurations under *Disagreements* show, and so `SerialSpec` is the part of it on which they are
checked: an operation begins when no other is under way (`OneAtATime`), while between any two of
its steps a thread of an app may exit, take its argument, wait or be woken, and
PendSV, or the waker of a killed waiter, may free it (`reaper`), itself not interrupted and not in the
middle of the compaction of `threads[]`. Nothing in the code enforces that; it is what a system with one
busy user looks like. PIDs are unique in all of `TasksSpec` but for two spawners (`SpawnsApart`). There is
one freer of the scheduler at a time, and a killer frees at once what `Sched` would leave to the switch
of the other core: which of them frees is the subject of `Sched`. `Heap` is the list of blocks in address order; a block is named by its
address. The length of an argument, TIDs and names are left out. A button that
is pressed while its app runs does nothing, so that test is not a step. An app
that is killed before it frees its argument leaks it, as in the code: the
argument stays in `args`. A process that kills itself is not modelled.

### The filesystem and the VFS

`Fs` is not built on `Sched`: `fs_mutex` excludes (`SyncMutualExclusion`), so an
operation is a begin step under the mutex, its flash operations one by one
(`todo`), and an end step. A call that needs no flash operation is one step.
The test of `open_fds[fd].used` before the mutex is a step of its own (`Tests`).
`FlashFailed` is a return code other than PICO_OK, after which the code skips
what is left; `fs_format` alone goes on with the next sector. `PowerCycle` loses
RAM between any two flash operations and runs `fs_init`. Calls that return -1
without changing anything have no action in `Fs`. Not distinguished: a sector that is
half erased or half programmed, `file_count`, the number of bytes of one read or
write (a cell at a time). A name that is too long is cut when it is stored and not
when it is looked up (`Stored`), as in `kernel/fs.c:365`.

`Vfs` runs the actions of `Fs` inside a call that holds `vfs_lock`; `asked` is the
call, `fd_table` says what an entry names, `vfd` which entry a user holds. The last
step of the filesystem, the change of the entry and the unlock are one step. The
shell's commands call the filesystem directly, as `shell.c` does. A user may be
killed between two calls (`Killed`): nothing closes its entry, and it may be started again. It may be
killed inside one (`KilledInside`), between any two of its flash operations, too: then `vfs_lock`, and `fs_mutex` if it
had it, stay taken until the power goes (`stuck`), and what was to be flushed is not.

Three ghost variables say what a file should be. `store` is its content as of the
last operation that returned success; `draft` what the client writing it means it to
hold; `limbo` the files of which the mirror says something new that is not on
flash yet. A file truncated by an open and closed without a write stays in
`limbo`: `fs_close` does not flush it. After a power loss what is mounted is the
new truth; the flash half of `Settled` says, before it, that this is what it should
be.

### The scans

`ContScan` is the code that `wifi.c` and `bluetooth.c` have in common: owner and
listener, the three lists with the roles `scanbuf_t` gives them, the event flags
READY and STOP, and the mutex `g_cont_lock`. `pc` says where a thread is; a
`Listener(c)` is the callback thread of subscriber `c`. The async-context lock is owned by
a core and recursive (`kernel/wifi.c:43`), and threads run on any core and move between them, so it keeps
nobody out: it has no guard in the model. What it does is to hold off the chip's interrupt
(`Interrupts`). Sections under `g_cont_lock` are one step, except a start, whose
`claimed` and `armed` stages matter. `wifi_scan`'s test and start are two steps under
the async-context lock. What `wifi_connect` and `wifi_disconnect` write to `g_state` after the lock
(`kernel/wifi.c:258`, `:298`) may come at any time. The dwell times are those the firmware has (`dwell`) and those
`g_dwell[]` will put back (`saved`); a request may be refused, and of a refused restoring nobody hears
(`refused`). A subscriber dies only outside the lock; its process is
gone at once, `g_owner` and `g_listen` become `Null`. Of `g_state` in `WifiScan` DOWN,
CONNECTING and ERROR are one value ("quiet"): no scan tells them apart. The status of
the link, the end of a pass, whether a window has lasted long enough and every
refusal of the chip are choices. `BtScan` adds the inquiry, which reports its end late
and also after it was stopped, and the advertising scan. The unlocked test at the
head of `bt_scan_poll` is merged with the locked one.

`Mailbox` copies where the code rotates indices. `Copies` in `ContScan` maps the fill
list to the open window, the fresh ready list to the box, and the held list to the
subscriber's copy: `ByCopy` says that the rotation is as good as copying. `ContNext` says what
a step of either service may be to the state they share, whatever cores it runs on;
`WifiSpec` and `BtSpec` imply `ContSpec`, so what follows from it is proved once.

### Display and `cray_one`

`Display` has the dirty range, the rows the panel shows as they are in the framebuffer
(`shown`) and, per user, the row a flush has reached (`flush`) and the rows whose pixels are stored but
not yet marked (`drawing`): a drawer stores first and marks afterwards, and may be killed in between. A kill leaves
the range as it is (`Abandoned`); the ghost `missed` has the rows that a drawer killed then had yet to mark. In `Cray` a set of colours is one value, and a row of the
display is a row of blocks. `main`, `tx` and `disp` are the places of the three
threads, `job` the paint under way; `mcast_recv_cb` runs between any two steps. A
killed process leaves all the file-scope variables, and its socket, to the next run.
It may be killed at any step, also between opening the socket and storing the handle (`lost`).
The callback may use the queue before the first `mqueue_init` (`sized`): it then queues a message of
no bytes, node 0 in black. Killing one thread alone, the LED, `g_net_error` and the random generator are left out;
`mqueue_init` and the kill of the process are one step each, although the callback may come in the middle of
the former.

## Runs

| Run | Instance | States | Properties and what they show |
|---|---|---|---|
| `kill` | peers a, b that wait, wake, sleep; a killer on each core, one of which wakes waiters too | 251 k | `OneCore`, `RunningIsCurrent`; `ListsSafe`: no TCB in two lists, none freed in one, a BLOCKED thread is in one; `FreedOnce`: no core on a freed stack, every ZOMBIE has one thread or list that has to free it; `KillIsFinal` |
| `birth` | a creator on core 0, peers that exit on core 1, recycled slots, fair | 18 k | `ReadyIsQueued` under recycling; `PeersTakeTurns`; `PendingKillEnds`: a kill left to the other core takes effect |
| `sync` | a mutex and a semaphore on one stripe, three threads, fair | 9 k | `MutualExclusion`; `NoLostWakeup`, `EveryUnitSought`: no waiter beside a free mutex or an unclaimed unit nobody is coming for; `NothingLies`: mutex and units are taken in the end |
| `mqueue` | ring of two, two threads that block on both sides, one that tries | 171 k | `IsFifo`: implements `BoundedFifo`; `EverySought`: no free slot and no message overlooked |
| `events` | two objects, two bits, a pool of two, an any-waiter, an all-waiter, a setter that clears and kills, fair | 30 k | `PoolMatchesLists`; `NoSatisfiedSleeper`; `AwaitReturns`: a set that stays is answered |
| `tasks` | three TCBs, two PCBs, a heap of 12 units, one PID per range, operations one at a time | 4.1 M | `HeapAccounted`: the blocks tile the heap, are merged, and each is one stack or one argument; `PoolsAgree`: PCBs list their threads and go with the last; `PidsUnique` |
| `files` | two files of one cell, two names (one is cut to the other when stored), the shell beside two users of the VFS and a device, a failing flash operation, kills between and inside calls, power loss | 3.5 M | `Settled`: a file whose close succeeded is what its writer meant, in RAM and on flash; `BufferHasOneWriter`; `TablesAgree`: an entry of the VFS names an open fd of its own |
| `wifi` | a subscriber that pulls or is called back and may die, a shell that scans, connects and stops, a chip that refuses; where `ScanAlone` holds | 2.6 M | `ReaderUndisturbed`, `ByCopy`; `FreshIsSignalled`; `OneShotUndisturbed`: results of a one-shot scan only grow, are not reported early, with normal dwell times unless a restoring ioctl was refused |
| `bluetooth` | the same callers, inquiries refused, stopped and late, fair | 329 k | `RadioAgrees`: continuous mode, state and inquiry agree, also when the report of one comes late; `Attended`: a dead owner's session ends and a waiting subscriber is served |
| `cray_one` | two nodes that may swap places between runs, a refused configuration, datagrams of three senders, two sockets, fair | 3.0 M | `PanelCurrent`: a row the next flush leaves out is shown, or about to be marked, or was missed by a kill, and a new run makes that good; `BlocksFollow`, `SocketKept`, `EndsTogether` |
| `shared_queue` | three peers of one priority and one primitive | fails | see below |
| `mutex_killed_waiter` | killer and two contenders | fails | see below |

The type invariants are checked in `kill`, `files`, `tasks`, `wifi` and `cray_one`, and
proved for `Sched`, `Vfs`, `Tasks`, `WifiScan` and `Cray`; `SyncTypeOK`, `QTypeOK`, `EventTypeOK`
and `BtTypeOK` are stated for use in proofs.

*Bounds.* Two cores are the hardware. Every hazard of the scheduler is a meeting
of at most four parties: victim, killer, waker, and the other core's switch. Two
peers and a killer per core, above the idle threads, give all of them. A ring of
two slots wraps and is both full and empty with two waiters on one side.
`MaxCount` bounds the semaphore at two units, as many as there are takers.
`MaxEventWaiters` is the number of threads that wait, as in the code: the run shows
that the entries of killed waiters never leave one without a slot. `HEAP_SIZE` holds three stacks, or two and an argument, with remainders on both
sides of the split; with one PID per range a range is full while its process lives
and a PID is used again at once. Two files are what it takes to damage one by
working on the other; `FS_MAX_FILE_DATA = 1` is one cell per file; with two fds and
two entries the third opener finds none free. `MaxFailures` bounds the failing flash
operations between two mounts. `Deletes = "closed"` limits deletes and formats to
files that are not open: otherwise `fs_delete` closes the fds of others, an entry of
the VFS goes on naming a slot that the next open takes, and `TablesAgree` fails. `Live` identifies states that differ in what a closed fd or
the unclaimed buffer still holds; `Seen` those that differ in the counts of windows, on which nothing
depends, or in the dwell times after a refused restoring. `Wrap` bounds the counters of the windows, which
wrap in the code at 2^32. Two rows of two blocks give each node a block on each row.
Other bounds are the sets in the `.cfg` files; no counter grows.

*Pinned killers and exits.* In the passing runs of `Sched` killers, and threads that
return, are pinned to a core. Without this the window described under
`MCSched_moving_killer.cfg` is open and the invariants about freed threads fail for
that one reason. No killer is a target. `Discipline` in `Sched` names the three windows
in state predicates: nobody moves between reading its core and using it (`Unmoved`),
task.c's unlocked operations do not overlap (`OneAtATime`), a killer lives until it has
freed (`KillersLive`). `MCSched_windows.cfg` lets killers and exiting threads roam over both cores,
kill each other and recycle slots, and checks the same properties where `Discipline` holds
(as a constraint; 0.9 M states): at the grain of `Sched` nothing goes wrong outside the windows. The two
interleavings below that grain are named under *Coarser than the code*. `Careful` is
a condition on the constants under which they stay closed; `MCSched` checks that it
holds in the passing runs.

*Fairness.* A slice that runs out pends PendSV, which is taken as soon as
interrupts are on: they may go off again and again in between, hence strong
fairness of `Slice`. A core that has called `sched_yield` switches (weak), and a
section with interrupts off ends (weak: nothing in it waits but for a spinlock
whose holder has interrupts off too). In `Sync` and `KEvent` a thread inside a waiting
loop that is given the processor again and again gets through it (strong): kernel
priorities are fixed, but the threads of these runs block. In `BtScan` the poll thread
runs every 10 ms and gets the locks in time (strong, because others hold them in
between), a caller inside a call goes on, and a listener whose flag is set wakes. In
`Cray` each of the three threads makes its next step (weak: every step of theirs
that waits is a timed sleep or an event). Nothing is assumed of sleepers, of
programs making a call, of killers, of the chip or of datagrams.

## Disagreements between the code and what it says

* `shared_queue`: `kernel/sync.c:320` clears `next` of a thread that is RUNNING and
  still linked in its ready queue. `docs/locking.md:64` calls the sharing of the
  field "safe because a BLOCKED thread is not on any ready queue", but the thread
  is not BLOCKED yet. Every peer behind it falls out of the ready queue.
* `mutex_killed_waiter`: the comment at `kernel/sync.c:348` says a killed waiter is
  skipped so that those behind it do not stay blocked on a free mutex. A waiter
  killed after the wake-up and before its next test takes the wake-up with it.

More of them can be seen with the other `.cfg` files, or with one constant of a
run changed; each names the property that fails:

* `MCSched_moving_killer.cfg` (`WaitersAlive`): `kernel/sched.c:286` reads the core
  number before the lock. A killer that moves to the other core frees a thread that
  is entering a waiter list, which the comment at `kernel/task.c:461` says cannot
  happen. In the same way `thread_exit` (`kernel/task.c:258`) may mark the thread of
  the core it has just left.
* `MCVfs_reader.cfg` (`InProgressVisible`): `kernel/fs.c:454` tests the `dirty` flag of
  the reader's own fd, so a second fd on a file being written returns the bytes of
  the old sector, up to the new size. The comment at `kernel/fs.c:432` says "read from
  fs_buffer so that in-progress writes are visible".
* `MCTasks_killproc.cfg` (`PoolsAgree`): PendSV reaps a sibling while `killproc` is between
  `thread_count--` and the shift (`kernel/task.c:417`); the process keeps a freed thread
  and is never freed.
* `MCTasks_cores.cfg` (`HeapAccounted`): PendSV frees a thread on one core while an app makes
  one on the other; the creator claims the slot between `tcb_used[i] = false` and the `memset`
  (`kernel/task.c:431`), which then zeroes the new TCB: its stack is lost.
* `MCTasks_spawners.cfg` (`PidsUnique`): two callers of `SYS_SPAWN` are both past the test of
  `kernel/task.c:275` before either has its PCB.
* `MCWifiScan_not_alone.cfg` (`ModesExclude`): the test and the start of `wifi_scan` do not exclude
  `wifi_scan_start` when both threads run on one core, as the comment at `kernel/wifi.c:44`
  itself says of the lock; a one-shot scan starts inside a continuous session.
* `MCBtScan_reset.cfg` (`NotResetWhileDelivering`): the comment at `kernel/bluetooth.c:576` says "the buffer is
  never reset under a scan that is still delivering results". INQUIRY_COMPLETE
  (`kernel/bluetooth.c:510`) makes the state IDLE while the BLE half goes on until `bt_scan_stop`; the next `bt_scan`
  empties the list under it.
* `MCWifiScan_two_subscribers.cfg` (`ReaderUndisturbed`): `kernel/wifi.h:85` gives the
  list to the subscriber until its next wait. After a stop by the shell a second
  subscriber's start (`kernel/wifi.c:448`) empties the list the first still reads.
* `Overlap = {"display"}` in `MCCray_cluster.cfg` (`PanelCurrent`): the comment at
  `drivers/display.c:725` speaks of a display mutex; there is none, and a flush of one
  caller declares clean what another has just drawn.
* `Overlap = {"spawn"}` (`EndsTogether`): `apps/cray_one.c:716` ignores the result of
  `SYS_THREAD_CREATE`; without one of its threads the app waits for ever.
* with a killer in `Target` of `kill` (`FreedOnce`), a killer that is killed between
  `sched_kill` and `task_free_thread` (`kernel/task.c:470`) leaks its victim; below a
  periodic thread of higher priority (`PeersTakeTurns`) peers need not take turns,
  because `kernel/sched.c:475` rotates only when the outgoing thread is READY at the
  head of the queue chosen next.

Noticed while modelling, kept in the models as they are: a kill between `wifi_mcast_open` and
`g_sock = sock` (`apps/cray_one.c:703`) loses the socket, although the comment at
`apps/cray_one.c:208` says the handle survives a kill (`lost`); a kill between the store of pixels and
their mark (`drivers/display.c:449`, `:603`) leaves rows that no flush sends until something draws there
again (`missed`); a refused restoring ioctl leaves the short dwell times, which the next session takes for
the ones to put back (`refused`); a thread killed inside a VFS call leaves `vfs_lock` taken (`stuck`); `bt_scan_stop` of the shell
stops another program's session; a late INQUIRY_COMPLETE of a stopped inquiry ends the
next one-shot scan early; a `wifi_scan` while the link is up leaves `g_state` at DOWN;
`bt_scan` does not refuse a radio in state ERROR.

## Proofs

All theorems are for any number of threads, priorities, waiter lists and stripes, any
clients and networks, any sizes, and any programs that make the kernel's calls; they assume
only the named assumptions on the constants (`SchedAssumption`, `IdleAssumption`,
`UsesAssumption`, ..., which TLC evaluates on the instances), and what is said below.

*Types and cores* (`SchedProofs`). `TypeOK` alone is not inductive: a thread that unblocks, frees or
publishes uses its pointer `tgt`, so `TInv` adds `HasTarget`: in those places the
pointer is not NULL. `SchedOneCore` and `SchedRunningIsCurrent` are two conjuncts of one
inductive invariant, `CoreInv`; each alone is preserved only with the other: a thread is
picked if it is READY and not current on the other core, and a thread that is left
must not stay RUNNING.

*Lists, kills and frees* (`SchedProofs`). `SchedListsSafe`, `SchedFreedOnce` and
`SchedKillIsFinal` hold of every behaviour that satisfies `[]Discipline`, that is, outside
the three windows that task.c and `sched_kill` leave open
(`kernel/task.c:258`, `kernel/sched.c:286`; `kernel/task.c:146`; `kernel/task.c:470`). None of the three is
inductive. `LifeInv` says where a thread is, given its state, and what its state may be,
given where it is (`Life`): in a ready queue, in a waiter list, on a core, in the hand of a
waker or killer, in that of a creator; that whoever has a thread in hand is alone with it
(`Hands`, `Births`), that a section with interrupts off stays on its core (`Places`), that the holder
of a stripe keeps the others off its lists (`Locked`), and that an idle thread is always
ready (`Cores`), without which a switch could return to the thread it has just freed. The
proof of a step has a lemma per action and a few on `AddReady`, `RemoveReady` and the switch
(`SwitchEffect`). `SchedReadyIsQueued` needs `OwnQueue`: a thread that waits shares its priority with
nobody, which is the breach `shared_queue` exhibits. `SchedCarefulKeeps`
discharges `Discipline` and `CreatorsLive` from the constants: killers and exiting threads
pinned, killers and creators no targets, one creator beside no killer.

*Waiting loops* (`SchedProofs`). A list has a supply: the mutex is free (1), there are n units,
messages or slots. `Sought(w, n)`: while a live thread waits on `w`, and the primitive is at
rest, at least n woken threads have yet to test. It is inductive together with what happens while the
spinlock is held: nobody goes to sleep beside a supply, and a waker holds one more seeker in its
hand. `TakeSought`, `GiveSought`, `SleepSought` and `SchedStepSought` are the four ways a step can
meet it; the primitives instantiate them. A woken thread that dies before its test takes a
seeker away, and nothing else does: this is `WokenLive`, and the finding `mutex_killed_waiter`
is what happens without it. So `SyncWakeups` and `QueueWakeups` prove `NoLostWakeup`,
`EveryUnitSought` and `EverySought` for behaviours with `[]Discipline` and `[]WokenLive`, and
`SyncCarefulWakeups` and `QueueCarefulWakeups` prove them of the specification alone for constants that are
`Careful` and `WaitersSpared` (no kill names a thread that uses the primitives), as those of `sync` and `mqueue` are.
`SyncIsSched` and `QueueIsSched` say that the loops make only steps of `Sched`, which brings all its
theorems with them. `SyncMutualExclusion` needs nothing of the scheduler, which is the
point of testing again after a wake-up.

*Event flags* (`SyncProofs`). `EventWakeups` proves `PoolMatchesLists` and `NoSatisfiedSleeper` for any
threads, objects, masks and programs that set, clear, wait and kill, with `[]Discipline`; `EventCarefulWakeups` proves them
of the specification alone for constants that are `Careful`, as those of `events` are. Both assume `EnoughSlots`: a slot for each
thread that may wait, as `kernel/sync.c:541` makes MAX_EVENT_WAITERS equal to MAX_THREADS. A step of the
walk ends in the next wake-up, which `Sched` makes a step of its own, so `EventSpec` is no refinement of
`Spec`; `EventSteps` says that a step is one of `Sched` or a stretch of the walk (`Stretch`), and a stretch is the release of
one thread followed by what takes the next, the two halves from which the lemmas about `Sched` are
built too (`UnblockedLife`, `FreedLife`, `EndsWake`, `TakesWaiter`). So `LifeInv` holds here as well. `EventInv` adds that
a thread in a list has exactly one slot, with what it waits for, and that nobody else has one (`PoolOK`); hence, while a
thread outside the lists comes to wait, a slot is free, and a walk finds the parameters of each waiter it looks at. And no
object at rest has in its list a thread that its flags satisfy, dead or alive (`Asleep`): flags grow only under
the spinlock, which the walk keeps until it has looked at everyone, and a thread tests and enqueues under the same
spinlock. A clear only takes bits away. Here no condition on woken threads is needed: a set
wakes everyone it satisfies, so a woken thread that is killed takes nothing with it.

*Message queue* (`MQueueProofs`). `QueueIsFifo`: the ring implements `BoundedFifo` for any `MQ_MAX_MSG`.
`RingOK` keeps `tail` at `head + count` modulo the size; a send extends the abstract sequence at its end and a
receive takes its head, whichever indices wrap.

*Files* (`VfsProofs`). `VfsTypes`, `BufferSafe`, `FilesSettled` and `TablesConsistent` are for any number of
clients, files, fds, entries, devices and cells and any number of flash operations that fail, with
`Deletes = "closed"` as in the run; with "any" `TablesAgree` fails, as said under *Bounds*.
`Settled` is far from inductive. A flash operation concerns the data of one file or the table of
all, so `FsInv` says of what is still to do that it touches the data of files in limbo only and
ends with the program of the whole table (`Flushes`): hence, if all went well, the
table on flash is the mirror when an operation ends, and only then does its file leave limbo; hence,
too, a failed flush leaves on flash only entries that were right. A close programs the data before
the table (`Commits`), from a buffer whose head is the draft of the one writer (`Drafts`, `Claimed`). Under
`fs_mutex` the mirror keeps what the operation found (`MutexHeld`): the entry it created,
or the freed one. `VInv` adds that only the holder of `vfs_lock` is in the filesystem (`Asking`), that a user's entry is
its own and stands for its fd (`Owned`), and that the tables agree in the middle of a call too (`Agree`). To the
VFS a step of the filesystem is then one of three (`Kept`, `Got`, `Gave`), and its own
change of the entry must match that.

*Processes and the heap* (`TasksProofs`). All are for pools, PID ranges, stacks and a heap of any size (a range is
not empty, as in `kernel/task.c:65`) and any number of callers of `SYS_SPAWN`. `TasksTypes`, `PoolsDoAgree` and
`HeapIsAccounted` are about `SerialSpec`; `MCTasks_cores.cfg` and `MCTasks_killproc.cfg` show what its two
restrictions are needed for. `kmalloc` and `kfree` replace a stretch of the list
of blocks by one that covers the same bytes, so the heap stays tiled and merged (`Splice`,
`MallocWorks`, `FreeWorks`). `PoolsAgree` speaks only of moments when no operation is under way, and an
operation is a row of steps between which threads exit and are reaped. `TasksInv` therefore says at each step what an operation has found and may
rely on (`Found`, `Made`, `Freed`), that a killer and PendSV never have one thread in hand (`Apart`), and how far
`threads[]` agrees meanwhile: a thread being freed is first out of the list, which reaches one entry
beyond `thread_count` until it is compacted (`Out`, `Reach`). A process without threads, a thread without process and a stack
without owner exist only while somebody is about to free or fill them (`Peopled`, `Housed`,
`Owned`).

`PidsAreUnique` is about all of `TasksSpec`, whatever overlaps, with PID ranges that do not meet and with
`SpawnsApart`: no two callers of `SYS_SPAWN` are past the duplicate test of `task_create_process` for one PID. This is
what two spawners break (`MCTasks_spawners.cfg`), so the theorem says that nothing else does. Its invariant, `PidsInv`, knows nothing
of threads: a caller past the test has a PID of its range that no PCB in use has, a range other than that of spawners has one
user, and a slot that two callers have both found free makes one process vanish but gives no PID twice. The search
looks at every PCB in use, dead ones too; the mutant that looks at live ones only breaks
`PidsUnique`. `task_free_process`'s flag and `memset`, and the stores with which a PCB is claimed, are one step each.

*Scans* (`ContProofs`, `WifiProofs`, `BtProofs`). A start that is under way has `g_cont_lock`, so a mode
found off stays off (`Claims`). A list in a reader's hand is the held one (`Held`), which
neither the interrupt nor publishing touches: only a take and a start move it. While
the mode is on one thread alone can take (`OneEngaged`). What is left is a start that
finds a reader of an earlier session: `LastReader`, the exact hypothesis of
`ContReaderUndisturbed`, which holds with one subscriber (`ContLastReader`) and fails with two
(`MCWifiScan_two_subscribers.cfg`). `ContByCopy` (the windows implement `Mailbox`) and `ContFreshIsSignalled` need no
hypothesis. `WifiIsCont` and `BtIsCont` map every step of the services to one of the scheme or a
stutter. `WifiOneShotUndisturbed` asks that nobody is let into the async-context lock beside the thread that tests for
and starts a one-shot scan (`ScanAlone`). The lock does not see to that (`MCWifiScan_not_alone.cfg`), so it
stays a hypothesis. `BtRadioAgrees` needs nothing but the actions.

*`cray_one` and the display* (`WifiProofs`). The inductive invariant follows the main thread through its
stages. `PanelIsCurrent` needs little of the app: the driver's callers in one process take turns (`FlushesInTurn`), a
row inside the dirty range that a flush has passed is shown (`SentShown`), and the rows a kill left unmarked are
marked with all others when the next run has drawn its grid (`MissedAt`); it asks that the shell does not draw
meanwhile ("display" not in `Overlap`), which is the breach listed above. `SocketIsKept` and `GridFollows` ask
nothing. A paint does not end with the step that began it, announcements
wait in the queue and in the painter's hand, and the configuration may change which node is which: `QueueAt`, `JobAt`, `OwnAt` and
`PeersAt` say which blocks hold what at each stage. That the blocks of two nodes are disjoint, and that a paint which steps by
`g_maxnodes` reaches each block of its node, is arithmetic modulo a variable, for which the solver needs the
division lemmas `Remainder`, `Divides` and `NodeBlocks`.

*Only model-checked.* Files while open ones are deleted, and all liveness: `PeersTakeTurns`, `PendingKillEnds`,
`NothingLies`, `AwaitReturns`, `Attended` and `EndsTogether`. TLAPS as installed proves no liveness under fairness, no
ENABLED and no induction over data. Every invariant and action property of a passing run has its theorem.

## Plan

The model has the parts it was planned to have. What is left are the behaviours of `Deletes = "any"`: which of the
filesystem's promises survive when an open file is deleted.

## Not modelled

UART, GPIO, timer and LED drivers, fonts, line editing and commands that only print
are I/O around the kernel calls; `wifi_test` sends datagrams and prints. The cyw43
driver, lwIP and BTstack are modelled by what the code relies on. The decoding of
scan reports, and the name cache of `bluetooth.c`, fill in fields of entries whose
ownership is what the properties are about. The boot order, the re-reading of the
SPI window by the display and the assembly of the switch are below the model's
grain; the deadlock scanner and the trace ring only report. Build files, host tests and
tools are not part of the running system.

------------------------------ MODULE ContScan ------------------------------
(***************************************************************************)
(* Continuous scanning, the scheme wifi.c and bluetooth.c share: one       *)
(* subscriber, three lists that rotate (ScanBuf), a kmutex g_cont_lock     *)
(* that orders threads, the async context lock that keeps the radio's      *)
(* interrupt out, and event flags READY and STOP.  A process subscribes    *)
(* either by waiting itself or with a callback run by a listener thread.   *)
(* The lists' contents are the sets of networks or devices heard.          *)
(***************************************************************************)
EXTENDS ScanBuf

CONSTANTS
  Null,
  Client,   \* the processes whose main thread uses the service
  Poll,     \* the wifi-poll thread
  Net,      \* networks, or devices, in range
  Uses      \* what each process asks of the service

UseNames == {"pull", "callback", "stop", "scan", "connect", "exit"}

ASSUME ContAssumption == /\ Poll \notin Client
                         /\ Null \notin Client \union {Poll}
                         /\ \A heard \in SUBSET Net : heard # Null
                         /\ (Client \union {Poll}) \intersect (Client \X {"listen"}) = {}
                         /\ Uses \in [Client -> SUBSET UseNames]

Listener(c) == <<c, "listen">>
Waiter == Client \union {Listener(c) : c \in Client}
Actor  == Waiter \union {Poll}

VARIABLES
  pc,          \* where each thread is
  sb,          \* g_sb
  lists,       \* g_lists[]: what was heard
  g_cont,
  g_owner,     \* the process of g_owner_pid, Null once it is gone or the mode is off
  g_listen,    \* the process of g_listen_tid, Null once that thread is gone
  g_cont_lock, \* the thread that holds it
  flags,       \* g_cont_ev
  tgt_cont,    \* the interrupt writes into g_lists: g_pass_cont, g_tgt_cont
  reads        \* the list a subscriber was handed, with what was in it; else Null

cvars == <<pc, sb, lists, g_cont, g_owner, g_listen, g_cont_lock, flags, tgt_cont, reads>>

\* The driver's continuous state alone.
session == <<sb, lists, g_cont, g_owner, g_listen, flags, tgt_cont>>

ContInit ==
  /\ pc = [a \in Actor |-> IF a \in Client \union {Poll} THEN "idle" ELSE "none"]
  /\ sb = scanbuf_init
  /\ lists = [l \in List |-> {}]
  /\ g_cont = FALSE /\ tgt_cont = FALSE
  /\ g_owner = Null /\ g_listen = Null /\ g_cont_lock = Null
  /\ flags = {"STOP"}
  /\ reads = [w \in Waiter |-> Null]

Goes(a, from, to) == pc[a] = from /\ pc' = [pc EXCEPT ![a] = to]

\* Between cyw43_arch_lwip_begin() and _end(), where the section has two steps.
InsidePcs == {"checked", "claimed", "noticed", "unlinked"}
Inside    == {a \in Client \union {Poll} : pc[a] \in InsidePcs}

\* The lock is recursive and its owner is a core, not a thread: it lets in
\* whoever runs on the core of the one inside.  Every thread may run on any
\* core and moves between them, so a thread meets no guard here ...

\* ... but the radio's interrupt is deferred while the lock is held.
Interrupts == Inside = {}

owner_gone     == g_owner = Null
listener_alive == g_listen # Null

\* cont_stop_locked(), the part both services share.
Stopped == g_cont' = FALSE /\ g_owner' = Null /\ flags' = flags \union {"STOP"}

\* Hears: the interrupt adds to the list being filled.
HearsInto(n) == lists' = [lists EXCEPT ![sb.fill] = @ \union {n}]
-----------------------------------------------------------------------------
\* scan_start(): take the lock and, if the owner has died, its session.
StartClaims(c) ==
  /\ g_cont_lock = Null
  /\ g_cont_lock' = c
  /\ Goes(c, "idle", "start")
  /\ UNCHANGED <<sb, lists, g_listen, tgt_cont, reads>>

\* Mutant: a listener still inside its callback does not count.
BusyIfOn == g_cont

Busy == g_cont \/ listener_alive

\* BUSY, NOTREADY or a radio error: give the lock back.
StartFails(c, from) ==
  /\ Goes(c, from, "idle")
  /\ g_cont_lock' = Null

Reset == sb' = scanbuf_init /\ lists' = [l \in List |-> {}]

OwnFlags == flags \ {"READY", "STOP"}

\* The new session: owner, mode, flags.
StartOwns(c) == g_cont' = TRUE /\ g_owner' = c /\ flags' = OwnFlags

\* scan_start() returns in pull mode.
StartReturns(c) ==
  /\ Goes(c, "armed", "sub")
  /\ "pull" \in Uses[c]
  /\ g_cont_lock' = Null
  /\ UNCHANGED <<session, reads>>

\* Callback mode: the listener is created under the lock.
StartListens(c) ==
  /\ pc[c] = "armed" /\ "callback" \in Uses[c] /\ pc[Listener(c)] = "none"
  /\ pc' = [pc EXCEPT ![c] = "idle", ![Listener(c)] = "wait"]
  /\ g_listen' = c
  /\ g_cont_lock' = Null
  /\ UNCHANGED <<sb, lists, g_cont, g_owner, flags, tgt_cont, reads>>

\* No TCB or no stack for the listener: the session is given up.
StartNoListener(c) ==
  /\ "callback" \in Uses[c]
  /\ StartFails(c, "armed")
  /\ Stopped
  /\ UNCHANGED <<sb, lists, g_listen, tgt_cont, reads>>
-----------------------------------------------------------------------------
\* scan_stop(), which any thread may call.
Stop(c) ==
  /\ "stop" \in Uses[c] \/ pc[c] = "sub"
  /\ g_cont_lock = Null
  /\ pc[c] \in {"idle", "sub"} /\ pc' = [pc EXCEPT ![c] = "idle"]
  /\ UNCHANGED <<sb, lists, g_listen, g_cont_lock, tgt_cont, reads>>

\* scan_wait() is called: what was handed out before is given back.
WaitCalls(c) ==
  /\ Goes(c, "sub", "wait")
  /\ reads' = [reads EXCEPT ![c] = Null]
  /\ UNCHANGED <<session, g_cont_lock>>

\* event_flags_wait() returns.
WaitWakes(w) ==
  /\ flags # {}
  /\ Goes(w, "wait", "woken")
  /\ UNCHANGED <<session, g_cont_lock, reads>>

AfterWait(w, took) ==
  IF ~g_cont THEN (IF w \in Client THEN "idle" ELSE "leave")
  ELSE IF took THEN (IF w \in Client THEN "sub" ELSE "called") ELSE "wait"

Cleared == flags \ {"READY"}

\* Under the lock: clear READY, look at the mode, take what is fresh.
WaitTakes(w) ==
  /\ pc[w] = "woken" /\ g_cont_lock = Null
  /\ LET took == g_cont /\ sb.fresh
         new  == scanbuf_take(sb)
     IN  /\ pc' = [pc EXCEPT ![w] = AfterWait(w, took)]
         /\ IF took
            THEN /\ sb' = new
                 /\ reads' = [reads EXCEPT ![w] = [list |-> new.held, seen |-> lists[new.held]]]
            ELSE UNCHANGED <<sb, reads>>
  /\ flags' = Cleared
  /\ UNCHANGED <<lists, g_cont, g_owner, g_listen, g_cont_lock, tgt_cont>>

\* The subscriber's callback returns and the listener waits again.
CallbackReturns(c) ==
  /\ Goes(Listener(c), "called", "wait")
  /\ reads' = [reads EXCEPT ![Listener(c)] = Null]
  /\ UNCHANGED <<session, g_cont_lock>>

\* The listener was told STOPPED: it signs off and exits.
ListenerLeaves(c) ==
  /\ g_cont_lock = Null
  /\ Goes(Listener(c), "leave", "none")
  /\ g_listen' = IF g_listen = c THEN Null ELSE g_listen
  /\ UNCHANGED <<sb, lists, g_cont, g_owner, g_cont_lock, flags, tgt_cont, reads>>

Waits(c) == WaitCalls(c) \/ CallbackReturns(c) \/ ListenerLeaves(c)
              \/ \E w \in {c, Listener(c)} : WaitWakes(w) \/ WaitTakes(w)
-----------------------------------------------------------------------------
\* What publishing does to the lists: the one that becomes fill is emptied.
EmptiedFill == [lists EXCEPT ![scanbuf_publish(sb).fill] = {}]

\* The poll thread, under both locks: publish if the window ended.
Publishes(from, ends) ==
  IF ends
  THEN sb' = scanbuf_publish(sb) /\ lists' = EmptiedFill /\ Goes(Poll, from, "publish")
  ELSE UNCHANGED <<sb, lists>> /\ Goes(Poll, from, "idle")

\* Mutant: a window is published without telling anybody.
SignalLost == flags

Signalled == flags \union {"READY"}

\* event_flags_set(READY), after both locks are released.
PollSignals ==
  /\ Goes(Poll, "publish", "idle")
  /\ flags' = Signalled
  /\ UNCHANGED <<sb, lists, g_cont, g_owner, g_listen, g_cont_lock, tgt_cont, reads>>

\* A process exits or is killed with its threads, outside the locks, and is
\* started again under a new PID.
Dies(c) ==
  /\ "exit" \in Uses[c]
  /\ pc[c] \in {"idle", "sub", "wait", "woken"}
  /\ pc' = [pc EXCEPT ![c] = "idle", ![Listener(c)] = "none"]
  /\ g_owner' = IF g_owner = c THEN Null ELSE g_owner
  /\ g_listen' = IF g_listen = c THEN Null ELSE g_listen
  /\ reads' = [reads EXCEPT ![c] = Null, ![Listener(c)] = Null]
  /\ UNCHANGED <<sb, lists, g_cont, g_cont_lock, flags, tgt_cont>>
-----------------------------------------------------------------------------
(* What every step of either service is to the continuous scan: the scheme    *)
(* that WifiScan and BtScan both implement, whatever cores they run on.       *)

mode == <<g_cont, g_owner, flags>>

Subscriber == {c \in Client : Uses[c] \intersect {"pull", "callback"} # {}}

\* A start: the claim, with the reclaiming of a dead owner's session, the
\* entry into the locked section, the new session or the radio's refusal, and
\* how the start ends.
Starts(c) ==
  \/ c \in Subscriber /\ StartClaims(c) /\ (Stopped \/ UNCHANGED mode)
  \/ StartFails(c, "start") /\ UNCHANGED <<session, reads>>
  \/ ~Busy /\ Goes(c, "start", "claimed") /\ UNCHANGED <<session, g_cont_lock, reads>>
  \/ /\ Reset /\ tgt_cont' = TRUE
     /\ reads' = [reads EXCEPT ![c] = Null]
     /\ \/ Goes(c, "claimed", "armed") /\ StartOwns(c) /\ UNCHANGED g_cont_lock
        \/ StartFails(c, "claimed") /\ UNCHANGED mode
     /\ UNCHANGED g_listen
  \/ StartReturns(c) \/ StartListens(c) \/ StartNoListener(c)

\* A stop, of whichever scan is on.
Stops(c) == Stop(c) /\ (Stopped \/ (~g_cont /\ UNCHANGED mode))

\* A thread that scans once or connects has nothing to do with the session,
\* but that a one-shot scan takes the interrupt's target, and may end in a stop.
OncePcs == {"idle", "checked", "scanning", "joining"}
Once(c) ==
  /\ pc[c] \in OncePcs /\ \E p \in OncePcs : pc' = [pc EXCEPT ![c] = p]
  /\ UNCHANGED mode \/ (g_cont_lock = Null /\ Stopped)
  /\ tgt_cont' \in BOOLEAN
  /\ UNCHANGED <<sb, lists, g_listen, g_cont_lock, reads>>

\* The poll thread: its own sections, the window, the flag, a dead owner.
PollPcs == {"idle", "noticed", "unlinked", "cont"}
Polls ==
  \/ /\ pc[Poll] \in PollPcs /\ \E p \in PollPcs : pc' = [pc EXCEPT ![Poll] = p]
     /\ UNCHANGED mode \/ (g_cont_lock = Null /\ Stopped)
     /\ UNCHANGED <<sb, lists, g_listen, g_cont_lock, tgt_cont, reads>>
  \/ /\ g_cont_lock = Null /\ g_cont
     /\ \E from \in {"idle", "cont"}, ends \in BOOLEAN : Publishes(from, ends)
     /\ tgt_cont' \in BOOLEAN
     /\ UNCHANGED <<mode, g_listen, g_cont_lock, reads>>
  \/ PollSignals

Hears(n) == HearsInto(n)
              /\ UNCHANGED <<pc, sb, mode, g_listen, g_cont_lock, tgt_cont, reads>>

ContNext == \/ \E c \in Client : Starts(c) \/ Stops(c) \/ Once(c) \/ Waits(c) \/ Dies(c)
            \/ Polls
            \/ \E n \in Net : Hears(n)

ContSpec == ContInit /\ [][ContNext]_cvars
-----------------------------------------------------------------------------
ContTypeOK ==
  /\ pc \in [Actor -> {"none", "idle", "sub", "wait", "woken", "called", "leave", "start",
                       "claimed", "armed", "checked", "scanning", "joining", "noticed", "unlinked",
                       "cont", "publish"}]
  /\ sb \in ScanBufType /\ Distinct(sb)
  /\ lists \in [List -> SUBSET Net]
  /\ g_cont \in BOOLEAN /\ tgt_cont \in BOOLEAN
  /\ g_owner \in Client \union {Null} /\ g_listen \in Client \union {Null}
  /\ g_cont_lock \in Client \union {Null}
  /\ flags \subseteq {"READY", "STOP"}
  /\ reads \in [Waiter -> [list : List, seen : SUBSET Net] \union {Null}]

\* wifi.h: "The returned list belongs to you until your next wifi_scan_wait();
\* read it with no lock": whatever the radio hears and whoever starts, stops or
\* publishes, the list a subscriber was handed stays as it was.
ReaderUndisturbed ==
  \A w \in Waiter : reads[w] # Null => lists[reads[w].list] = reads[w].seen

\* Whoever enters the locked section of a start finds nobody else who still has
\* a list, or waits, from a session before.
Engaged(w) == reads[w] # Null \/ pc[w] \in {"sub", "wait", "woken", "called", "leave"}
LastReader == \A c, d \in Client : pc[c] = "claimed" /\ Engaged(d) => c = d

\* ... which is so when only one process subscribes.
OneSubscriber == \A c, d \in Subscriber : c = d

\* No other thread is let into a locked section beside the one that tests for
\* and starts a one-shot scan: what the async context lock would see to if its
\* owner were a thread.
ScanAlone == \A c \in Client : pc[c] = "checked" => Inside = {c}

\* wifi_scan_wait()'s comment: "a publish that lands after the take sets the
\* flag again, so it is never missed".
FreshIsSignalled == g_cont /\ sb.fresh => "READY" \in flags \/ pc[Poll] = "publish"

\* A subscriber waits although a window was published or the scan was stopped.
Overdue(w) == pc[w] \in {"wait", "woken"} /\ (sb.fresh \/ ~g_cont)

Unattended == (g_cont /\ owner_gone) \/ \E w \in Waiter : Overdue(w)

\* wifi.h: "If the subscriber's process exits, scanning stops on its own"; and a
\* subscriber that waits is handed the window that was published, or is told
\* that the scan was stopped.
Attended == Unattended ~> ~Unattended

\* The lists that rotate are to the subscriber as if each window were copied.
Copies == INSTANCE Mailbox WITH
            None <- Null, open <- lists[sb.fill],
            box <- IF sb.fresh THEN lists[sb.ready] ELSE Null,
            mine <- lists[sb.held], seq <- sb.seq, lost <- sb.dropped

ByCopy == Copies!MailSpec
=============================================================================

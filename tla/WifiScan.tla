------------------------------ MODULE WifiScan ------------------------------
(***************************************************************************)
(* The wifi service: one-shot scans, continuous scanning (ContScan),       *)
(* connecting, and the wifi-poll thread that notices the end of a pass.    *)
(* The radio and its driver (cyw43) are the environment: it runs one pass  *)
(* at a time and delivers what it hears in interrupts.                     *)
(***************************************************************************)
EXTENDS ContScan

ASSUME WifiAssumption == Null \notin {"once", "cont", "normal", "fast"}

VARIABLES
  g_state,
  g_scan,       \* the one-shot results
  g_scan_done,
  g_pass_running,
  radio,        \* the pass under way: Null, "once" or "cont" for who started it
  dwell,        \* how long the firmware stays on a channel, and what an entry
  saved,        \* of g_dwell[] will put back, Null when it has nothing to
  refused       \* ghost: a restoring ioctl was refused and "fast" has stayed

oneshot  == <<g_state, g_scan, g_scan_done>>
dwelling == <<dwell, saved, refused>>
wvars    == <<cvars, oneshot, g_pass_running, radio, dwelling>>

\* No code tests g_state for DOWN, CONNECTING or ERROR: they are one value here.
WifiState == {"quiet", "scanning", "up"}

WifiInit ==
  /\ ContInit
  /\ g_state = "quiet" /\ g_scan = {} /\ g_scan_done = FALSE
  /\ g_pass_running = FALSE /\ radio = Null
  /\ dwell = "normal" /\ saved = Null /\ refused = FALSE

cyw43_wifi_scan_active == radio # Null
-----------------------------------------------------------------------------
ScanMayBegin == ~g_cont /\ ~cyw43_wifi_scan_active

\* wifi_scan(), first half: not while somebody else scans.
ScanChecks(c) ==
  /\ "scan" \in Uses[c] /\ ScanMayBegin
  /\ Goes(c, "idle", "checked")
  /\ UNCHANGED <<session, g_cont_lock, reads, oneshot, g_pass_running, radio, dwelling>>

\* wifi_scan(), second half: reset the results and start the pass.
ScanStarts(c) ==
  /\ g_scan' = {} /\ g_scan_done' = FALSE /\ tgt_cont' = FALSE
  /\ \/ /\ g_state' = "scanning" /\ radio' = "once"
        /\ Goes(c, "checked", "scanning")
     \/ /\ g_state' = "quiet" /\ Goes(c, "checked", "idle")
        /\ UNCHANGED radio
  /\ UNCHANGED <<sb, lists, g_cont, g_owner, g_listen, flags, g_cont_lock, reads,
                 g_pass_running, dwelling>>

\* cmd_wifi(): done, or given up after ten seconds.
ScanReturns(c) ==
  /\ Goes(c, "scanning", "idle")
  /\ \/ g_scan_done /\ UNCHANGED g_state
     \/ ~g_scan_done /\ g_state' = "quiet"
  /\ UNCHANGED <<session, g_cont_lock, reads, g_scan, g_scan_done, g_pass_running, radio,
                 dwelling>>

\* wifi_connect(): CONNECTING, then the radio joins or the attempts run out.
\* The outcome is written to g_state outside the async context lock.
Connects(c) ==
  /\ "connect" \in Uses[c] /\ Goes(c, "idle", "joining")
  /\ g_state' = "quiet"
  /\ UNCHANGED <<session, g_cont_lock, reads, g_scan, g_scan_done, g_pass_running, radio,
                 dwelling>>

Joins(c) ==
  /\ Goes(c, "joining", "idle")
  /\ g_state' \in {"up", "quiet"}
  /\ UNCHANGED <<session, g_cont_lock, reads, g_scan, g_scan_done, g_pass_running, radio, dwelling>>

\* So is DOWN here, whatever is under way.
wifi_disconnect(c) ==
  /\ "connect" \in Uses[c] /\ pc[c] = "idle"
  /\ g_state' = "quiet"
  /\ UNCHANGED <<cvars, g_scan, g_scan_done, g_pass_running, radio, dwelling>>
-----------------------------------------------------------------------------
\* dwell_fast(): reads what the firmware has now, be that fast already, and
\* sets the short times.  Either ioctl may be refused; nobody looks at the
\* result of the second.
dwell_fast ==
  /\ \/ saved' = Null /\ UNCHANGED dwell
     \/ saved' = dwell /\ dwell' \in {dwell, "fast"}
  /\ UNCHANGED refused

\* Mutant: continuous mode ends with the firmware's dwell times still short.
dwell_kept == saved' = Null /\ UNCHANGED <<dwell, refused>>

\* dwell_restore(): an ioctl that is refused is not tried again.
dwell_restore ==
  /\ saved' = Null
  /\ \/ dwell' = (IF saved = Null THEN dwell ELSE saved) /\ UNCHANGED refused
     \/ saved # Null /\ UNCHANGED dwell /\ refused' = (refused \/ dwell # saved)

\* Both in one section: the times are short after it if the second failed.
dwell_tried ==
  /\ saved' = Null
  /\ \/ UNCHANGED <<dwell, refused>>
     \/ dwell' = "fast" /\ refused' = (refused \/ dwell = "normal")

\* cont_stop_locked() of wifi.c.
cont_stop_locked ==
  /\ Stopped
  /\ IF g_cont THEN dwell_restore ELSE UNCHANGED dwelling

WifiStop(c) ==
  /\ Stop(c) /\ cont_stop_locked
  /\ UNCHANGED <<oneshot, g_pass_running, radio>>

\* "reclaim a dead owner"
Reclaims == IF g_cont /\ owner_gone THEN cont_stop_locked
               ELSE UNCHANGED <<g_cont, g_owner, flags, dwelling>>

WifiStartClaims(c) ==
  /\ c \in Subscriber
  /\ StartClaims(c) /\ Reclaims
  /\ UNCHANGED <<oneshot, g_pass_running, radio>>

WifiStartBusy(c) ==
  /\ Busy /\ StartFails(c, "start")
  /\ UNCHANGED <<session, reads, oneshot, g_pass_running, radio, dwelling>>

\* A one-shot scan owns the radio; a left-over continuous pass is fine.
RadioFree == g_state # "scanning" /\ (cyw43_wifi_scan_active => tgt_cont)

WifiStartEnters(c) ==
  /\ ~Busy
  /\ \/ RadioFree /\ Goes(c, "start", "claimed") /\ UNCHANGED g_cont_lock
     \/ ~RadioFree /\ StartFails(c, "start")
  /\ UNCHANGED <<session, reads, oneshot, g_pass_running, radio, dwelling>>

\* The rest of wifi_scan_start() under the async context lock.  The dwell
\* ioctls, and the pass, may fail.
WifiStartGoes(c) ==
  /\ pc[c] = "claimed"
  /\ Reset /\ tgt_cont' = TRUE
  /\ reads' = [reads EXCEPT ![c] = Null]
  /\ \/ /\ Goes(c, "claimed", "armed") /\ StartOwns(c)
        /\ dwell_fast
        /\ IF cyw43_wifi_scan_active THEN UNCHANGED <<radio, g_pass_running>>
                                     ELSE radio' = "cont" /\ g_pass_running' = TRUE
        /\ UNCHANGED g_cont_lock
     \/ /\ ~cyw43_wifi_scan_active
        /\ StartFails(c, "claimed")
        /\ dwell_tried
        /\ UNCHANGED <<g_cont, g_owner, flags, radio, g_pass_running>>
  /\ UNCHANGED <<g_listen, oneshot>>

WifiStartEnds(c) ==
  /\ \/ (StartReturns(c) \/ StartListens(c)) /\ UNCHANGED dwelling
     \/ StartNoListener(c) /\ dwell_restore
  /\ UNCHANGED <<oneshot, g_pass_running, radio>>

WifiWaits(c) == Waits(c) /\ UNCHANGED <<oneshot, g_pass_running, radio, dwelling>>
-----------------------------------------------------------------------------
ScanOver == g_state = "scanning" /\ ~cyw43_wifi_scan_active

\* wifi_poll_thread(): the first section, its tests (the link may be lost at
\* any time) ...
PollNotices ==
  /\ \/ ScanOver /\ Goes(Poll, "idle", "noticed")
     \/ g_state = "up" /\ Goes(Poll, "idle", "unlinked")
     \/ ~ScanOver /\ Goes(Poll, "idle", "cont")
  /\ UNCHANGED <<session, g_cont_lock, reads, oneshot, g_pass_running, radio, dwelling>>

\* ... and what it does: the scan is over, or the link is down.
PollMarks ==
  /\ \/ Goes(Poll, "noticed", "cont") /\ g_scan_done' = TRUE
     \/ Goes(Poll, "unlinked", "cont") /\ UNCHANGED g_scan_done
  /\ g_state' = "quiet"
  /\ UNCHANGED <<session, g_cont_lock, reads, g_scan, g_pass_running, radio, dwelling>>

\* cont_poll(): nothing to do.
PollSkips ==
  /\ ~g_cont /\ ~g_pass_running
  /\ Goes(Poll, "cont", "idle")
  /\ UNCHANGED <<session, g_cont_lock, reads, oneshot, g_pass_running, radio, dwelling>>

\* The next pass, if none is under way; the radio may refuse it.
NextPass ==
  IF cyw43_wifi_scan_active
  THEN UNCHANGED <<radio, g_pass_running, tgt_cont>>
  ELSE /\ tgt_cont' = TRUE
       /\ \/ radio' = "cont" /\ g_pass_running' = TRUE
          \/ g_pass_running' = FALSE /\ UNCHANGED radio

\* cont_poll() with the mode on: the pass ended, or the window is too long.
PollGoesOn ==
  /\ g_cont_lock = Null
  /\ g_cont /\ ~owner_gone
  /\ \E late \in BOOLEAN :
       Publishes("cont", late \/ (g_pass_running /\ ~cyw43_wifi_scan_active))
  /\ NextPass
  /\ UNCHANGED <<g_cont, g_owner, g_listen, flags, g_cont_lock, reads, oneshot, dwelling>>

\* cont_poll() with the mode off, or its owner dead: only notice the end.
PollWindsUp ==
  /\ g_cont_lock = Null
  /\ IF g_cont THEN owner_gone ELSE g_pass_running
  /\ Goes(Poll, "cont", "idle")
  /\ Reclaims
  /\ g_pass_running' = (g_pass_running /\ cyw43_wifi_scan_active)
  /\ UNCHANGED <<sb, lists, g_listen, tgt_cont, g_cont_lock, reads, oneshot, radio>>

WifiPollSignals == PollSignals /\ UNCHANGED <<oneshot, g_pass_running, radio, dwelling>>

PollStep == PollNotices \/ PollMarks \/ PollSkips \/ PollGoesOn \/ PollWindsUp
              \/ WifiPollSignals
-----------------------------------------------------------------------------
\* scan_result_cb(): the target is looked up when the report arrives.
scan_result_cb(n) ==
  /\ Interrupts /\ cyw43_wifi_scan_active
  /\ IF tgt_cont THEN HearsInto(n) /\ UNCHANGED g_scan
                 ELSE g_scan' = g_scan \union {n} /\ UNCHANGED lists
  /\ UNCHANGED <<pc, sb, g_cont, g_owner, g_listen, g_cont_lock, flags, tgt_cont, reads,
                 g_state, g_scan_done, g_pass_running, radio, dwelling>>

\* The radio ends a pass on its own.
PassEnds ==
  /\ Interrupts /\ radio # Null /\ radio' = Null
  /\ UNCHANGED <<cvars, oneshot, g_pass_running, dwelling>>

WifiDies(c) == Dies(c) /\ UNCHANGED <<oneshot, g_pass_running, radio, dwelling>>

ClientStep(c) ==
  \/ ScanChecks(c) \/ ScanStarts(c) \/ ScanReturns(c)
  \/ Connects(c) \/ Joins(c) \/ wifi_disconnect(c)
  \/ WifiStop(c) \/ WifiStartClaims(c) \/ WifiStartBusy(c) \/ WifiStartEnters(c)
  \/ WifiStartGoes(c) \/ WifiStartEnds(c) \/ WifiWaits(c) \/ WifiDies(c)

WifiNext == \/ \E c \in Client : ClientStep(c)
            \/ PollStep
            \/ \E n \in Net : scan_result_cb(n)
            \/ PassEnds

WifiSpec == WifiInit /\ [][WifiNext]_wvars

-----------------------------------------------------------------------------
WifiTypeOK ==
  /\ ContTypeOK
  /\ g_state \in WifiState /\ g_scan \subseteq Net /\ g_scan_done \in BOOLEAN
  /\ g_pass_running \in BOOLEAN /\ radio \in {Null, "once", "cont"}
  /\ dwell \in {"normal", "fast"} /\ saved \in {"normal", "fast", Null} /\ refused \in BOOLEAN

\* wifi_scan()'s comment: "Refuse rather than reset the buffer under a scan
\* someone else started", and "The old values are read at start and put back at
\* stop, so one-shot scans keep their behaviour": while a one-shot pass runs
\* its results only grow, it writes to them alone, and the dwell is what it
\* always was, unless the firmware refused to be told so: the next session takes
\* the short times for the old ones.  It is over when it is reported done: "so
\* wifi-poll never sees SCANNING with no scan running and reports it done too
\* early".
OneShotUndisturbed ==
  /\ [][radio = "once" /\ radio' = "once" =>
          g_scan \subseteq g_scan' /\ ~tgt_cont' /\ (dwell' = "normal" \/ refused')]_wvars
  /\ [](g_scan_done => radio # "once")

\* wifi.h: "Continuous mode and one-shot wifi_scan() exclude each other".
ModesExclude == ~(g_cont /\ g_state = "scanning")
=============================================================================

------------------------------- MODULE BtScan -------------------------------
(***************************************************************************)
(* The Bluetooth service: a one-shot scan is a Classic inquiry beside a    *)
(* BLE scan, continuous scanning (ContScan) restarts the inquiry from the  *)
(* poll thread and publishes by the clock.  BTstack is the environment: an *)
(* inquiry that is stopped still reports INQUIRY_COMPLETE later, and until *)
(* then no other can be started.                                           *)
(***************************************************************************)
EXTENDS ContScan

ASSUME BtAssumption == Null \notin {"on", "stopping"}

VARIABLES
  g_state,
  g_scan,        \* the one-shot results
  g_scan_done,
  g_inq_active,
  inquiry,       \* BTstack's: Null, "on", or "stopping" until it has reported
  ble            \* the BLE scan is on

oneshot == <<g_state, g_scan, g_scan_done>>
radio   == <<inquiry, ble>>
bvars   == <<cvars, oneshot, g_inq_active, radio>>

BtState == {"off", "idle", "scanning", "error"}

\* bt_init(): the radio comes up later, or not at all.
BtInit ==
  /\ ContInit
  /\ g_state \in {"off", "error"} /\ g_scan = {} /\ g_scan_done = FALSE
  /\ g_inq_active = FALSE /\ inquiry = Null /\ ble = FALSE

\* gap_inquiry_start(), which is refused while an inquiry has not reported.
InquiryStarts ==
  \/ inquiry = Null /\ inquiry' = "on" /\ g_inq_active' = TRUE
  \/ inquiry' = inquiry /\ g_inq_active' = FALSE

\* gap_inquiry_stop()
InquiryStops == inquiry' = IF inquiry = "on" THEN "stopping" ELSE inquiry

IdleAgain == IF g_state = "scanning" THEN "idle" ELSE g_state
-----------------------------------------------------------------------------
ScanMayBegin == g_state \notin {"off", "scanning"} /\ ~g_cont

\* bt_scan(), the tests ...
ScanChecks(c) ==
  /\ "scan" \in Uses[c] /\ ScanMayBegin
  /\ Goes(c, "idle", "checked")
  /\ UNCHANGED <<session, g_cont_lock, reads, oneshot, g_inq_active, radio>>

\* ... and the rest of the locked section.
ScanStarts(c) ==
  /\ Goes(c, "checked", "scanning")
  /\ g_scan' = {} /\ g_scan_done' = FALSE /\ tgt_cont' = FALSE
  /\ g_state' = "scanning"
  /\ InquiryStarts /\ ble' = TRUE
  /\ UNCHANGED <<sb, lists, g_cont, g_owner, g_listen, flags, g_cont_lock, reads>>

\* cont_stop_locked() of bluetooth.c.
cont_stop_locked ==
  /\ Stopped
  /\ IF g_cont THEN ble' = FALSE /\ InquiryStops /\ g_state' = IdleAgain
               ELSE UNCHANGED <<ble, inquiry, g_state>>

\* bt_scan_stop() with continuous mode off: a one-shot scan is cut short.
OneShotStops ==
  /\ ble' = FALSE
  /\ IF g_state = "scanning"
     THEN InquiryStops /\ g_scan_done' = TRUE /\ g_state' = "idle"
     ELSE UNCHANGED <<inquiry, g_scan_done, g_state>>
  /\ UNCHANGED <<g_cont, g_owner, flags>>

\* bt_scan_stop(): asked for, or because cmd_bt() has waited for its scan.
BtStop(c) ==
  /\ \/ Stop(c)
     \/ /\ g_cont_lock = Null /\ Goes(c, "scanning", "idle")
        /\ UNCHANGED <<sb, lists, g_listen, g_cont_lock, tgt_cont, reads>>
  /\ IF g_cont THEN cont_stop_locked /\ UNCHANGED g_scan_done ELSE OneShotStops
  /\ UNCHANGED <<g_scan, g_inq_active>>
-----------------------------------------------------------------------------
\* Mutant: only a start looks for a dead owner.
NoReclaim == UNCHANGED <<g_cont, g_owner, flags, ble, inquiry, g_state>>

Reclaims == IF g_cont /\ owner_gone THEN cont_stop_locked
               ELSE UNCHANGED <<g_cont, g_owner, flags, ble, inquiry, g_state>>

BtStartClaims(c) ==
  /\ c \in Subscriber
  /\ StartClaims(c) /\ Reclaims
  /\ UNCHANGED <<g_scan, g_scan_done, g_inq_active>>

\* BUSY or NOTREADY, or on into the locked section.
BtStartEnters(c) ==
  /\ \/ Busy /\ StartFails(c, "start")
     \/ ~Busy /\ g_state # "idle" /\ StartFails(c, "start")
     \/ /\ ~Busy /\ g_state = "idle"
        /\ Goes(c, "start", "claimed") /\ UNCHANGED g_cont_lock
  /\ UNCHANGED <<session, reads, oneshot, g_inq_active, radio>>

\* The rest of the locked section of bt_scan_start().
BtStartGoes(c) ==
  /\ Goes(c, "claimed", "armed")
  /\ Reset /\ tgt_cont' = TRUE /\ StartOwns(c)
  /\ g_state' = "scanning" /\ InquiryStarts /\ ble' = TRUE
  /\ reads' = [reads EXCEPT ![c] = Null]
  /\ UNCHANGED <<g_listen, g_cont_lock, g_scan, g_scan_done>>

BtStartEnds(c) ==
  /\ \/ StartReturns(c) /\ UNCHANGED <<g_state, radio>>
     \/ StartListens(c) /\ UNCHANGED <<g_state, radio>>
     \/ StartNoListener(c) /\ cont_stop_locked
  /\ UNCHANGED <<g_scan, g_scan_done, g_inq_active>>

BtWaits(c) == Waits(c) /\ UNCHANGED <<oneshot, g_inq_active, radio>>
-----------------------------------------------------------------------------
\* bt_scan_poll(): the next inquiry if its time has come, and the window.
PollGoesOn ==
  /\ g_cont_lock = Null /\ g_cont /\ ~owner_gone
  /\ \/ ~g_inq_active /\ InquiryStarts
     \/ UNCHANGED <<inquiry, g_inq_active>>
  /\ \E ends \in BOOLEAN : Publishes("idle", ends)
  /\ UNCHANGED <<g_cont, g_owner, g_listen, flags, tgt_cont, g_cont_lock, reads, oneshot, ble>>

\* bt_scan_poll(): the owner is dead.
PollReclaims ==
  /\ g_cont_lock = Null /\ pc[Poll] = "idle" /\ g_cont /\ owner_gone
  /\ Reclaims
  /\ UNCHANGED <<pc, sb, lists, g_listen, tgt_cont, g_cont_lock, reads, g_scan, g_scan_done,
                 g_inq_active>>

BtPollSignals == PollSignals /\ UNCHANGED <<oneshot, g_inq_active, radio>>

PollStep == PollGoesOn \/ PollReclaims \/ BtPollSignals
-----------------------------------------------------------------------------
\* packet_handler(): HCI reports WORKING.
RadioWorks ==
  /\ Interrupts /\ g_state = "off" /\ g_state' = "idle"
  /\ UNCHANGED <<cvars, g_scan, g_scan_done, g_inq_active, radio>>

\* packet_handler(): a device is heard, in the list tgt_items() points to.
Reports(n) ==
  /\ IF tgt_cont THEN HearsInto(n) /\ UNCHANGED g_scan
                 ELSE g_scan' = g_scan \union {n} /\ UNCHANGED lists
  /\ UNCHANGED <<pc, sb, g_cont, g_owner, g_listen, g_cont_lock, flags, tgt_cont, reads,
                 g_state, g_scan_done, g_inq_active, radio>>

InquiryResult(n)     == Interrupts /\ inquiry # Null /\ Reports(n)
AdvertisingReport(n) == Interrupts /\ ble /\ Reports(n)

\* Without continuous mode the completion ends the one-shot scan.
CompletesOneShot ==
  IF g_cont THEN UNCHANGED <<g_scan_done, g_state>>
  ELSE g_scan_done' = TRUE /\ g_state' = IdleAgain

\* Mutant: the completion of an inquiry that was stopped is not taken note of.
NotedUnlessStopped == IF inquiry = "on" THEN FALSE ELSE g_inq_active

NotedEnd == FALSE

\* packet_handler(): INQUIRY_COMPLETE, of an inquiry that ran out or was stopped.
InquiryCompletes ==
  /\ Interrupts /\ inquiry # Null /\ inquiry' = Null
  /\ g_inq_active' = NotedEnd
  /\ CompletesOneShot
  /\ UNCHANGED <<cvars, g_scan, ble>>

BtDies(c) == Dies(c) /\ UNCHANGED <<oneshot, g_inq_active, radio>>

ClientStep(c) ==
  \/ ScanChecks(c) \/ ScanStarts(c) \/ BtStop(c)
  \/ BtStartClaims(c) \/ BtStartEnters(c) \/ BtStartGoes(c) \/ BtStartEnds(c)
  \/ BtWaits(c) \/ BtDies(c)

BtNext == \/ \E c \in Client : ClientStep(c)
          \/ PollStep
          \/ \E n \in Net : InquiryResult(n) \/ AdvertisingReport(n)
          \/ RadioWorks \/ InquiryCompletes

BtSpec == BtInit /\ [][BtNext]_bvars

\* Threads get their turns and what is inside a locked section comes out; a
\* kmutex that is free again and again is taken.  Nothing is assumed of the
\* radio, nor that anybody calls the service.
Wakes(w) == (WaitWakes(w) \/ WaitTakes(w)) /\ UNCHANGED <<oneshot, g_inq_active, radio>>

Continues(c) == ScanStarts(c) \/ BtStartEnters(c) \/ BtStartGoes(c) \/ BtStartEnds(c) \/ Wakes(c)

BtFairness == /\ SF_bvars(PollStep)
              /\ \A c \in Client : SF_bvars(Continues(c))
              /\ \A c \in Subscriber : SF_bvars(Wakes(Listener(c)))

BtFairSpec == BtSpec /\ BtFairness
-----------------------------------------------------------------------------
BtTypeOK ==
  /\ ContTypeOK
  /\ g_state \in BtState /\ g_scan \subseteq Net /\ g_scan_done \in BOOLEAN
  /\ g_inq_active \in BOOLEAN /\ inquiry \in {Null, "on", "stopping"} /\ ble \in BOOLEAN

\* What the driver believes of the radio is so: in continuous mode the state
\* says SCANNING, which keeps one-shot scans out; an inquiry it waits for will
\* report - else no other would ever be started; and an inquiry that nobody
\* has stopped belongs to a scan, so that the stop of the scan finds it.
RadioAgrees == /\ g_cont => g_state = "scanning"
               /\ g_inq_active => inquiry # Null
               /\ inquiry = "on" => g_state = "scanning"

\* bt_scan()'s comment: "the buffer is never reset under a scan that is still
\* delivering results": while either half of a one-shot scan delivers into
\* g_scan[] its results only grow.  INQUIRY_COMPLETE, a late one included, says
\* IDLE while the BLE half goes on, and the next bt_scan() resets them.
NotResetWhileDelivering ==
  [][ble /\ ~tgt_cont /\ ~tgt_cont' => g_scan \subseteq g_scan']_bvars
=============================================================================

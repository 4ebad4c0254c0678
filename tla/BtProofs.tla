------------------------------ MODULE BtProofs ------------------------------
(***************************************************************************)
(* The Bluetooth service, for any number of processes and devices: it is a *)
(* continuous scan (ContProofs), and what it believes of the radio is so.  *)
(***************************************************************************)
EXTENDS BtScan, ContProofs

-----------------------------------------------------------------------------
(* bluetooth.c makes only the steps of a continuous scan *)

LEMMA InitIsCont == BtInit => ContInit
BY DEF BtInit

\* Everything but the continuous scan itself is out of its sight.
LEMMA NextIsCont == ContTypeOK /\ [BtNext]_bvars => [ContNext]_cvars
<1> SUFFICES ASSUME ContTypeOK, [BtNext]_bvars PROVE ContNext \/ UNCHANGED cvars
  OBVIOUS
<1>1. ASSUME NEW c \in Client, ScanChecks(c) \/ ScanStarts(c)
      PROVE  Once(c)
  BY <1>1 DEF ScanChecks, ScanStarts, Goes, Once, OncePcs, session, mode,
       ContTypeOK
<1>2. ASSUME NEW c \in Client, BtStop(c)
      PROVE  Stops(c) \/ Once(c)
  <2>1. Stopped \/ (~g_cont /\ UNCHANGED mode)
    BY <1>2 DEF BtStop, cont_stop_locked, OneShotStops, mode
  <2>2. CASE Stop(c)
    BY <2>1, <2>2 DEF Stops
  <2>3. CASE ~Stop(c)
    BY <1>2, <2>1, <2>3 DEF BtStop, Goes, Once, OncePcs, ContTypeOK
  <2>. QED BY <2>2, <2>3
<1>3. ASSUME NEW c \in Client, BtStartClaims(c)
      PROVE  Starts(c)
  BY <1>3 DEF BtStartClaims, Reclaims, cont_stop_locked, mode, Starts
<1>4. ASSUME NEW c \in Client, BtStartEnters(c) \/ BtStartGoes(c) \/ BtStartEnds(c)
      PROVE  Starts(c)
  BY <1>4 DEF BtStartEnters, BtStartGoes, BtStartEnds, mode, Starts
<1>5. ASSUME NEW c \in Client, BtWaits(c) \/ BtDies(c)
      PROVE  Waits(c) \/ Dies(c)
  BY <1>5 DEF BtWaits, BtDies
<1>6. ASSUME PollGoesOn
      PROVE  Polls
  BY <1>6 DEF PollGoesOn, mode, Polls, ContTypeOK
<1>7. ASSUME PollReclaims
      PROVE  Polls
  <2>1. pc' = [pc EXCEPT ![Poll] = "idle"]
    BY <1>7, Actors DEF PollReclaims, ContTypeOK
  <2>. QED BY <1>7, <2>1 DEF PollReclaims, Reclaims, cont_stop_locked, mode, Polls, PollPcs
<1>8. ASSUME BtPollSignals
      PROVE  Polls
  BY <1>8 DEF BtPollSignals, Polls
<1>9. ASSUME NEW n \in Net, InquiryResult(n) \/ AdvertisingReport(n)
      PROVE  Hears(n) \/ UNCHANGED cvars
  BY <1>9 DEF InquiryResult, AdvertisingReport, Reports, Hears, mode, cvars
<1>10. ASSUME RadioWorks \/ InquiryCompletes
       PROVE  UNCHANGED cvars
  BY <1>10 DEF RadioWorks, InquiryCompletes
<1>11. CASE UNCHANGED bvars
  BY <1>11 DEF bvars
<1>12. ASSUME NEW c \in Client, ClientStep(c)
       PROVE  ContNext
  BY <1>1, <1>2, <1>3, <1>4, <1>5, <1>12 DEF ClientStep, ContNext
<1>13. ASSUME PollStep
       PROVE  ContNext
  BY <1>6, <1>7, <1>8, <1>13 DEF PollStep, ContNext
<1>. QED BY <1>9, <1>10, <1>11, <1>12, <1>13 DEF BtNext, ContNext

\* bluetooth.c implements the continuous scan that the two radios share.
THEOREM BtIsCont == BtSpec => ContSpec
<1>1. ContInit => ContTypeOK
  BY InitType
<1>. QED BY <1>1, InitIsCont, NextIsCont, NextType, PTL DEF BtSpec, ContSpec

\* What it thereby keeps.
THEOREM BtFreshIsSignalled == BtSpec => []FreshIsSignalled
BY BtIsCont, ContFreshIsSignalled

THEOREM BtByCopy == BtSpec => ByCopy
BY BtIsCont, ContByCopy

\* The list that bt_scan_wait() has returned stays as it was, if one process
\* subscribes.
THEOREM BtOneSubscriber ==
  ASSUME OneSubscriber
  PROVE  BtSpec => []ReaderUndisturbed
BY BtIsCont, ContReaderUndisturbed, ContLastReader, PTL
-----------------------------------------------------------------------------
(* Types, and what the driver believes of the radio *)

\* The service's own variables.
BType == /\ g_state \in BtState /\ g_scan \subseteq Net /\ g_scan_done \in BOOLEAN
         /\ g_inq_active \in BOOLEAN /\ inquiry \in {Null, "on", "stopping"} /\ ble \in BOOLEAN

LEMMA NextBType == BType /\ [BtNext]_bvars => BType'
<1> SUFFICES ASSUME BType, [BtNext]_bvars PROVE BType'
  OBVIOUS
<1> USE DEF BType, BtState, oneshot, radio
<1>1. ASSUME NEW c \in Client, ClientStep(c) PROVE BType'
  BY <1>1 DEF ClientStep, ScanChecks, ScanStarts, InquiryStarts, BtStop, cont_stop_locked,
       InquiryStops, IdleAgain, OneShotStops, BtStartClaims, Reclaims, BtStartEnters,
       BtStartGoes, BtStartEnds, BtWaits, BtDies
<1>2. ASSUME PollStep PROVE BType'
  BY <1>2 DEF PollStep, PollGoesOn, InquiryStarts, PollReclaims, Reclaims, cont_stop_locked,
       InquiryStops, IdleAgain, BtPollSignals
<1>3. ASSUME NEW n \in Net, InquiryResult(n) \/ AdvertisingReport(n) PROVE BType'
  BY <1>3 DEF InquiryResult, AdvertisingReport, Reports
<1>4. CASE RadioWorks \/ InquiryCompletes
  BY <1>4 DEF RadioWorks, InquiryCompletes, NotedEnd, CompletesOneShot, IdleAgain
<1>5. CASE UNCHANGED bvars
  BY <1>5 DEF bvars
<1>. QED BY <1>1, <1>2, <1>3, <1>4, <1>5 DEF BtNext

\* Every variable of the service keeps its type.
THEOREM BtTypes == BtSpec => []BtTypeOK
<1>1. BtInit => BType
  BY DEF BtInit, BType, BtState
<1>2. ContTypeOK /\ BType => BtTypeOK
  BY DEF BType, BtTypeOK
<1>. QED BY <1>1, <1>2, NextBType, BtIsCont, ContTypes, PTL DEF BtSpec

\* A stop, an end or a refusal of the inquiry leaves no belief behind.
LEMMA NextAgrees == RadioAgrees /\ [BtNext]_bvars => RadioAgrees'
<1> SUFFICES ASSUME RadioAgrees, [BtNext]_bvars PROVE RadioAgrees'
  OBVIOUS
<1> USE BtAssumption DEF RadioAgrees, oneshot, radio
<1>1. ASSUME NEW c \in Client, ScanChecks(c) \/ ScanStarts(c) PROVE RadioAgrees'
  BY <1>1 DEF ScanChecks, ScanStarts, InquiryStarts, session
<1>2. ASSUME NEW c \in Client, BtStop(c) \/ BtStartClaims(c) PROVE RadioAgrees'
  BY <1>2 DEF BtStop, Stop, cont_stop_locked, Stopped, InquiryStops, OneShotStops,
       IdleAgain, BtStartClaims, StartClaims, Reclaims
<1>3. ASSUME NEW c \in Client, BtStartEnters(c) \/ BtStartGoes(c) \/ BtStartEnds(c)
      PROVE  RadioAgrees'
  BY <1>3 DEF BtStartEnters, BtStartGoes, StartOwns, InquiryStarts, BtStartEnds, StartReturns,
       StartListens, StartNoListener, Stopped, cont_stop_locked, InquiryStops, IdleAgain, session
<1>4. ASSUME NEW c \in Client, BtWaits(c) \/ BtDies(c) PROVE RadioAgrees'
  BY <1>4 DEF BtWaits, Waits, WaitCalls, CallbackReturns, ListenerLeaves, WaitWakes,
       WaitTakes, BtDies, Dies, session
<1>5. ASSUME PollStep PROVE RadioAgrees'
  BY <1>5 DEF PollStep, PollGoesOn, InquiryStarts, PollReclaims, Reclaims, cont_stop_locked,
       Stopped, InquiryStops, IdleAgain, BtPollSignals, PollSignals
<1>6. ASSUME NEW n \in Net, InquiryResult(n) \/ AdvertisingReport(n) PROVE RadioAgrees'
  BY <1>6 DEF InquiryResult, AdvertisingReport, Reports
<1>7. CASE RadioWorks \/ InquiryCompletes
  BY <1>7 DEF RadioWorks, InquiryCompletes, NotedEnd, CompletesOneShot, cvars
<1>8. CASE UNCHANGED bvars
  BY <1>8 DEF bvars, cvars
<1>. QED BY <1>1, <1>2, <1>3, <1>4, <1>5, <1>6, <1>7, <1>8 DEF BtNext, ClientStep

\* In continuous mode the state says SCANNING, an inquiry that is waited for
\* will report, and one that nobody has stopped belongs to a scan.
THEOREM BtRadioAgrees == BtSpec => []RadioAgrees
<1>1. BtInit => RadioAgrees
  BY BtAssumption DEF BtInit, ContInit, RadioAgrees
<1>. QED BY <1>1, NextAgrees, PTL DEF BtSpec
=============================================================================

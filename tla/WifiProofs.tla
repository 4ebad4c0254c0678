----------------------------- MODULE WifiProofs -----------------------------
(***************************************************************************)
(* The wifi service, and cray-one, the app that lives on it.               *)
(*                                                                         *)
(* The service, for any number of processes and networks: it is a          *)
(* continuous scan (ContProofs), and a one-shot scan that is let alone     *)
(* while it starts is let alone until it is over.                          *)
(*                                                                         *)
(* cray-one and the display driver under it, for grids, clusters, queues   *)
(* and sets of colours of any size: the type invariant, that the panel is  *)
(* as the framebuffer once a grid is drawn and off only in rows a killed   *)
(* drawer had yet to mark before, that a socket is lost to no kill but one *)
(* before its handle is stored, and that the grid shows whole              *)
(* announcements.  Each is proved from a conjunct of its own that says at  *)
(* which stage of the main thread what holds.                              *)
(*                                                                         *)
(* The two specifications share no variable and no constant.               *)
(***************************************************************************)
EXTENDS WifiScan, ContProofs, Cray, WellFoundedInduction, SequenceTheorems


-----------------------------------------------------------------------------
(* wifi.c makes only the steps of a continuous scan *)

LEMMA InitIsCont == WifiInit => ContInit
BY DEF WifiInit

\* Everything but the continuous scan itself is out of its sight.
LEMMA NextIsCont == ContTypeOK /\ [WifiNext]_wvars => [ContNext]_cvars
<1> SUFFICES ASSUME ContTypeOK, [WifiNext]_wvars PROVE ContNext \/ UNCHANGED cvars
  OBVIOUS
<1>1. ASSUME NEW c \in Client,
             \/ ScanChecks(c) \/ ScanStarts(c) \/ ScanReturns(c)
             \/ Connects(c) \/ Joins(c)
      PROVE  Once(c)
  BY <1>1 DEF ScanChecks, ScanStarts, ScanReturns, Connects, Joins, Goes, Once, OncePcs,
       session, mode, ContTypeOK
<1>2. ASSUME NEW c \in Client, wifi_disconnect(c)
      PROVE  UNCHANGED cvars
  BY <1>2 DEF wifi_disconnect
<1>3. ASSUME NEW c \in Client, WifiStop(c)
      PROVE  Stops(c)
  BY <1>3 DEF WifiStop, cont_stop_locked, Stops
<1>4. ASSUME NEW c \in Client, WifiStartClaims(c)
      PROVE  Starts(c)
  BY <1>4 DEF WifiStartClaims, Reclaims, cont_stop_locked, mode, Starts
<1>5. ASSUME NEW c \in Client, WifiStartBusy(c) \/ WifiStartEnters(c)
      PROVE  Starts(c)
  BY <1>5 DEF WifiStartBusy, WifiStartEnters, Starts
<1>6. ASSUME NEW c \in Client, WifiStartGoes(c)
      PROVE  Starts(c)
  BY <1>6 DEF WifiStartGoes, mode, Starts
<1>7. ASSUME NEW c \in Client, WifiStartEnds(c)
      PROVE  Starts(c)
  BY <1>7 DEF WifiStartEnds, Starts
<1>8. ASSUME NEW c \in Client, WifiWaits(c) \/ WifiDies(c)
      PROVE  Waits(c) \/ Dies(c)
  BY <1>8 DEF WifiWaits, WifiDies
<1>9. ASSUME PollNotices \/ PollMarks \/ PollSkips
      PROVE  Polls
  BY <1>9 DEF PollNotices, PollMarks, PollSkips, Goes, session, mode, Polls, PollPcs
<1>10. ASSUME PollGoesOn
       PROVE  Polls
  BY <1>10 DEF PollGoesOn, NextPass, mode, Polls, ContTypeOK
<1>11. ASSUME PollWindsUp
       PROVE  Polls
  BY <1>11 DEF PollWindsUp, Reclaims, cont_stop_locked, Goes, mode, Polls, PollPcs
<1>12. ASSUME WifiPollSignals
       PROVE  Polls
  BY <1>12 DEF WifiPollSignals, Polls
<1>13. ASSUME NEW n \in Net, scan_result_cb(n)
       PROVE  Hears(n) \/ UNCHANGED cvars
  BY <1>13 DEF scan_result_cb, Hears, mode, cvars
<1>14. ASSUME PassEnds
       PROVE  UNCHANGED cvars
  BY <1>14 DEF PassEnds
<1>15. CASE UNCHANGED wvars
  BY <1>15 DEF wvars
<1>16. ASSUME NEW c \in Client, ClientStep(c)
       PROVE  ContNext \/ UNCHANGED cvars
  BY <1>1, <1>2, <1>3, <1>4, <1>5, <1>6, <1>7, <1>8, <1>16 DEF ClientStep, ContNext
<1>17. ASSUME PollStep
       PROVE  ContNext
  BY <1>9, <1>10, <1>11, <1>12, <1>17 DEF PollStep, ContNext
<1>. QED BY <1>13, <1>14, <1>15, <1>16, <1>17 DEF WifiNext, ContNext

\* wifi.c implements the continuous scan that the two radios share.
THEOREM WifiIsCont == WifiSpec => ContSpec
<1>1. ContInit => ContTypeOK
  BY InitType
<1>. QED BY <1>1, InitIsCont, NextIsCont, NextType, PTL DEF WifiSpec, ContSpec

\* What it thereby keeps: a published window is signalled, and the rotation of
\* the lists is as good as copying them.
THEOREM WifiFreshIsSignalled == WifiSpec => []FreshIsSignalled
BY WifiIsCont, ContFreshIsSignalled

THEOREM WifiByCopy == WifiSpec => ByCopy
BY WifiIsCont, ContByCopy

\* The list that wifi_scan_wait() has returned stays as it was, unless a start
\* by somebody else resets it.
THEOREM WifiReaderUndisturbed == WifiSpec /\ []LastReader => []ReaderUndisturbed
BY WifiIsCont, ContReaderUndisturbed

\* With one subscriber nothing is left to assume.
THEOREM WifiOneSubscriber ==
  ASSUME OneSubscriber
  PROVE  WifiSpec => []ReaderUndisturbed
BY WifiReaderUndisturbed, WifiIsCont, ContLastReader, PTL
-----------------------------------------------------------------------------
(* Types *)

\* The service's own variables.
WType == /\ g_state \in WifiState /\ g_scan \subseteq Net /\ g_scan_done \in BOOLEAN
         /\ g_pass_running \in BOOLEAN /\ radio \in {Null, "once", "cont"}
         /\ dwell \in {"normal", "fast"} /\ saved \in {"normal", "fast", Null}
         /\ refused \in BOOLEAN

LEMMA NextWType == WType /\ [WifiNext]_wvars => WType'
<1> SUFFICES ASSUME WType, [WifiNext]_wvars PROVE WType'
  OBVIOUS
<1> USE DEF WType, WifiState
<1>1. ASSUME NEW c \in Client, ClientStep(c) PROVE WType'
  BY <1>1 DEF ClientStep, oneshot, ScanChecks, ScanStarts, ScanReturns, Connects, Joins,
       wifi_disconnect, WifiStop, WifiStartClaims, WifiStartBusy, WifiStartEnters,
       WifiStartGoes, WifiStartEnds, WifiWaits, WifiDies, Reclaims, cont_stop_locked,
       dwelling, dwell_fast, dwell_restore, dwell_tried
<1>2. ASSUME PollStep PROVE WType'
  BY <1>2 DEF PollStep, oneshot, PollNotices, PollMarks, PollSkips, PollGoesOn, NextPass,
       PollWindsUp, WifiPollSignals, Reclaims, cont_stop_locked, dwelling, dwell_restore,
       cyw43_wifi_scan_active
<1>3. ASSUME NEW n \in Net, scan_result_cb(n) PROVE WType'
  BY <1>3 DEF scan_result_cb, dwelling
<1>4. CASE PassEnds
  BY <1>4 DEF PassEnds, oneshot, dwelling
<1>5. CASE UNCHANGED wvars
  BY <1>5 DEF wvars, oneshot, dwelling
<1>. QED BY <1>1, <1>2, <1>3, <1>4, <1>5 DEF WifiNext

\* Every variable of the service keeps its type.
THEOREM WifiTypes == WifiSpec => []WifiTypeOK
<1>1. WifiInit => WType
  BY DEF WifiInit, WType, WifiState
<1>2. ContTypeOK /\ WType => WifiTypeOK
  BY DEF WType, WifiTypeOK
<1>. QED BY <1>1, <1>2, NextWType, WifiIsCont, ContTypes, PTL DEF WifiSpec
-----------------------------------------------------------------------------
(* One-shot scans *)

\* While a one-shot pass is on no continuous scan is, nor is one about to begin;
\* whoever is about to begin a one-shot scan finds the radio free.
OnceInv ==
  /\ radio = "once" => ~tgt_cont /\ ~g_cont
  /\ \A c \in Client : pc[c] = "checked" => radio = Null /\ ~g_cont
  /\ \A c \in Client : pc[c] = "claimed" /\ radio # Null => tgt_cont
  /\ pc[Poll] = "noticed" => radio # "once"
  /\ g_scan_done => radio # "once"

\* A process changes its own place only.
LEMMA ClientPlace ==
  ASSUME ContTypeOK, NEW c \in Client, ClientStep(c), NEW d \in Client \union {Poll}, d # c
  PROVE  pc'[d] = pc[d]
<1>1. d \in Actor /\ d # Listener(c)
  BY Actors, ContAssumption DEF Listener
<1>. QED BY <1>1, Actors DEF ClientStep, ScanChecks, ScanStarts, ScanReturns, Connects, Joins,
       wifi_disconnect, WifiStop, Stop, WifiStartClaims, StartClaims, WifiStartBusy,
       WifiStartEnters, StartFails, WifiStartGoes, WifiStartEnds, StartReturns, StartListens,
       StartNoListener, WifiWaits, Waits, WaitCalls, CallbackReturns, ListenerLeaves,
       WaitWakes, WaitTakes, WifiDies, Dies, Goes, cvars, session, ContTypeOK

\* What of the invariant a step leaves alone that touches neither the mode, nor
\* the radio, nor the target, and brings nobody into one of the three sections.
LEMMA OnceStays ==
  ASSUME OnceInv, UNCHANGED <<g_cont, radio, tgt_cont>>,
         g_scan_done' => g_scan_done,
         \A c \in Client : pc'[c] \in {"checked", "claimed"} => pc'[c] = pc[c],
         pc'[Poll] = "noticed" => pc[Poll] = "noticed"
  PROVE  OnceInv'
BY DEF OnceInv

\* A one-shot scan: its test and its start, with nobody else inside.
LEMMA ScanOnce ==
  ASSUME ContTypeOK, OnceInv, ScanAlone, NEW c \in Client,
         \/ ScanChecks(c) \/ ScanStarts(c) \/ ScanReturns(c)
         \/ Connects(c) \/ Joins(c) \/ wifi_disconnect(c)
  PROVE  OnceInv'
<1> USE Actors, WifiAssumption
<1>1. CASE ScanChecks(c)
  BY <1>1 DEF OnceInv, ScanChecks, ScanMayBegin, cyw43_wifi_scan_active, Goes, session, oneshot,
       ContTypeOK
<1>2. CASE ScanStarts(c)
  <2>1. pc[c] = "checked"
    BY <1>2 DEF ScanStarts, Goes
  <2>2. \A d \in Client \union {Poll} : d # c => pc[d] \notin InsidePcs
    BY <2>1, AloneInside
  <2>3. \A d \in Client \union {Poll} : pc'[d] \notin InsidePcs
    BY <1>2, <2>2 DEF ScanStarts, Goes, InsidePcs, ContTypeOK
  <2>. QED BY <1>2, <2>1, <2>3 DEF OnceInv, ScanStarts, InsidePcs
<1>3. CASE ScanReturns(c)
  BY <1>3, OnceStays DEF ScanReturns, Goes, session, ContTypeOK
<1>4. CASE Connects(c) \/ Joins(c)
  BY <1>4, OnceStays DEF Connects, Joins, Goes, session, ContTypeOK
<1>5. CASE wifi_disconnect(c)
  BY <1>5, OnceStays DEF wifi_disconnect, cvars
<1>. QED BY <1>1, <1>2, <1>3, <1>4, <1>5

\* A subscriber's steps: its start is refused while a one-shot pass is on.
LEMMA SubscribeOnce ==
  ASSUME ContTypeOK, Claims, OnceInv, ScanAlone, NEW c \in Client,
         \/ WifiStop(c) \/ WifiStartClaims(c) \/ WifiStartBusy(c) \/ WifiStartEnters(c)
         \/ WifiStartGoes(c) \/ WifiStartEnds(c) \/ WifiWaits(c) \/ WifiDies(c)
  PROVE  OnceInv'
<1> USE Actors, WifiAssumption
<1>1. CASE WifiStop(c)
  BY <1>1 DEF OnceInv, WifiStop, Stop, cont_stop_locked, Stopped, oneshot,
       ContTypeOK
<1>2. CASE WifiStartClaims(c)
  BY <1>2 DEF OnceInv, WifiStartClaims, StartClaims, Reclaims, cont_stop_locked, Stopped,
       Goes, oneshot, ContTypeOK
<1>3. CASE WifiStartBusy(c)
  BY <1>3, OnceStays DEF WifiStartBusy, StartFails, Goes, session, oneshot, ContTypeOK
<1>4. CASE WifiStartEnters(c)
  BY <1>4 DEF OnceInv, WifiStartEnters, RadioFree, cyw43_wifi_scan_active, StartFails, Goes,
       session, oneshot, ContTypeOK
<1>5. CASE WifiStartGoes(c)
  <2>1. pc[c] = "claimed" /\ (radio # Null => tgt_cont)
    BY <1>5 DEF WifiStartGoes, OnceInv
  <2>2. \A d \in Client : pc[d] # "checked"
    BY <2>1, AloneInside DEF InsidePcs
  <2>3. \A d \in Client : pc'[d] # "checked"
    BY <1>5, <2>2 DEF WifiStartGoes, StartFails, Goes, ContTypeOK
  <2>4. pc'[Poll] = pc[Poll]
    BY <1>5 DEF WifiStartGoes, StartFails, Goes, ContTypeOK
  <2>5. radio # "once" /\ radio' # "once" /\ tgt_cont'
    BY <1>5, <2>1 DEF OnceInv, WifiStartGoes, cyw43_wifi_scan_active
  <2>. QED BY <1>5, <2>3, <2>4, <2>5 DEF OnceInv, WifiStartGoes
<1>6. CASE WifiStartEnds(c)
  BY <1>6 DEF OnceInv, WifiStartEnds, StartReturns, StartListens, StartNoListener, StartFails,
       Stopped, Goes, session, oneshot, ContTypeOK
<1>7. CASE WifiWaits(c)
  <2>1. UNCHANGED <<g_cont, tgt_cont, radio, g_scan_done>>
    BY <1>7 DEF WifiWaits, Waits, WaitCalls, CallbackReturns, ListenerLeaves, WaitWakes,
         WaitTakes, session, oneshot
  <2>2. \A d \in Client : pc'[d] \notin {"checked", "claimed"} \/ pc'[d] = pc[d]
    BY <1>7 DEF WifiWaits, Waits, WaitCalls, CallbackReturns, ListenerLeaves, WaitWakes,
         WaitTakes, AfterWait, Goes, ContTypeOK
  <2>3. pc'[Poll] = pc[Poll]
    BY <1>7, ClientPlace DEF ClientStep
  <2>. QED BY <2>1, <2>2, <2>3, OnceStays
<1>8. CASE WifiDies(c)
  BY <1>8, OnceStays DEF WifiDies, Dies, oneshot, ContTypeOK
<1>. QED BY <1>1, <1>2, <1>3, <1>4, <1>5, <1>6, <1>7, <1>8

\* The poll thread reports a pass that is over, and starts none beside a
\* one-shot pass.
LEMMA PollOnce ==
  ASSUME ContTypeOK, Claims, OnceInv, ScanAlone, PollStep
  PROVE  OnceInv'
<1> USE Actors, WifiAssumption
<1>1. \A c \in Client : pc'[c] = pc[c]
  BY DEF PollStep, PollNotices, PollMarks, PollSkips, PollGoesOn, Publishes, PollWindsUp,
       WifiPollSignals, PollSignals, Goes, ContTypeOK
<1>2. CASE PollNotices
  BY <1>1, <1>2 DEF OnceInv, PollNotices, ScanOver, cyw43_wifi_scan_active, Goes, session,
       oneshot, ContTypeOK
<1>3. CASE PollMarks
  BY <1>1, <1>3 DEF OnceInv, PollMarks, Goes, session, ContTypeOK
<1>4. CASE PollSkips
  BY <1>1, <1>4, OnceStays DEF PollSkips, Goes, session, oneshot, ContTypeOK
<1>5. CASE PollGoesOn
  <2>1. g_cont /\ g_cont' /\ g_cont_lock = Null
    BY <1>5 DEF PollGoesOn
  <2>2. radio # "once" /\ radio' # "once"
    BY <1>5, <2>1 DEF PollGoesOn, NextPass, OnceInv
  <2>3. \A c \in Client : pc'[c] \notin {"checked", "claimed"}
    BY <1>1, <2>1, ContAssumption DEF OnceInv, Claims
  <2>. QED BY <2>1, <2>2, <2>3 DEF OnceInv
<1>6. CASE PollWindsUp
  BY <1>1, <1>6 DEF OnceInv, PollWindsUp, Reclaims, cont_stop_locked, Stopped,
       Goes, oneshot, ContTypeOK
<1>7. CASE WifiPollSignals
  BY <1>1, <1>7, OnceStays DEF WifiPollSignals, PollSignals, Goes, oneshot, ContTypeOK
<1>. QED BY <1>2, <1>3, <1>4, <1>5, <1>6, <1>7 DEF PollStep

LEMMA NextOnce ==
  ContTypeOK /\ Claims /\ OnceInv /\ ScanAlone /\ [WifiNext]_wvars => OnceInv'
<1> SUFFICES ASSUME ContTypeOK, Claims, OnceInv, ScanAlone, [WifiNext]_wvars PROVE OnceInv'
  OBVIOUS
<1>1. ASSUME NEW n \in Net, scan_result_cb(n) PROVE OnceInv'
  BY <1>1, OnceStays DEF scan_result_cb
<1>2. CASE PassEnds
  BY <1>2, WifiAssumption DEF PassEnds, cvars, oneshot, OnceInv
<1>3. CASE UNCHANGED wvars
  BY <1>3 DEF wvars, cvars, oneshot, OnceInv
<1>. QED BY <1>1, <1>2, <1>3, ScanOnce, SubscribeOnce, PollOnce DEF WifiNext, ClientStep

\* What a session's end will put back is what there was before it, and outside
\* a session nothing is left to put back - unless a refusal has been forgotten.
DwellInv ==
  /\ refused \/ saved = "normal" \/ (saved = Null /\ dwell = "normal")
  /\ ~g_cont => saved = Null

\* The ways a session ends: its times are put back, or the refusal is noted.
LEMMA RestoreDwell ==
  ASSUME WType, DwellInv, dwell_restore PROVE DwellInv'
BY WifiAssumption DEF WType, DwellInv, dwell_restore

LEMMA NextDwell ==
  WType /\ Claims /\ DwellInv /\ [WifiNext]_wvars => DwellInv'
<1> SUFFICES ASSUME WType, Claims, DwellInv, [WifiNext]_wvars PROVE DwellInv'
  OBVIOUS
<1>1. ASSUME cont_stop_locked PROVE DwellInv'
  BY <1>1, RestoreDwell DEF cont_stop_locked, Stopped, DwellInv, dwelling
<1>2. ASSUME Reclaims PROVE DwellInv'
  BY <1>1, <1>2 DEF Reclaims, DwellInv, dwelling
<1>3. ASSUME UNCHANGED <<g_cont, dwelling>> PROVE DwellInv'
  BY <1>3 DEF DwellInv, dwelling
<1>4. ASSUME NEW c \in Client, ClientStep(c) PROVE DwellInv'
  <2>1. CASE WifiStop(c) \/ WifiStartClaims(c)
    BY <1>1, <1>2, <2>1 DEF WifiStop, WifiStartClaims
  <2>2. CASE WifiStartGoes(c)
    <3>1. saved = Null /\ (refused \/ dwell = "normal")
      BY <2>2, WifiAssumption DEF WifiStartGoes, Claims, DwellInv
    <3>2. CASE dwell_fast /\ g_cont'
      BY <3>1, <3>2 DEF dwell_fast, DwellInv
    <3>3. CASE dwell_tried
      BY <3>1, <3>3 DEF dwell_tried, DwellInv
    <3>. QED BY <2>2, <3>2, <3>3 DEF WifiStartGoes, StartOwns
  <2>3. CASE WifiStartEnds(c)
    BY <1>3, <2>3, RestoreDwell
       DEF WifiStartEnds, StartReturns, StartListens, StartNoListener, session
  <2>4. CASE ~WifiStop(c) /\ ~WifiStartClaims(c) /\ ~WifiStartGoes(c) /\ ~WifiStartEnds(c)
    BY <1>3, <1>4, <2>4 DEF ClientStep, ScanChecks, ScanStarts, ScanReturns, Connects, Joins,
       wifi_disconnect, WifiStartBusy, WifiStartEnters, WifiWaits, Waits, WaitCalls,
       CallbackReturns, ListenerLeaves, WaitWakes, WaitTakes, WifiDies, Dies, session, cvars
  <2>. QED BY <2>1, <2>2, <2>3, <2>4
<1>5. ASSUME PollStep PROVE DwellInv'
  <2>1. CASE PollWindsUp
    BY <1>2, <2>1 DEF PollWindsUp
  <2>2. CASE ~PollWindsUp
    BY <1>3, <1>5, <2>2 DEF PollStep, PollNotices, PollMarks, PollSkips, PollGoesOn,
       WifiPollSignals, PollSignals, session
  <2>. QED BY <2>1, <2>2
<1>6. CASE \/ PassEnds \/ UNCHANGED wvars \/ \E n \in Net : scan_result_cb(n)
  BY <1>3, <1>6 DEF PassEnds, wvars, cvars, scan_result_cb
<1>. QED BY <1>4, <1>5, <1>6 DEF WifiNext

\* While a one-shot pass is on its results only grow, it alone is written to,
\* and the radio dwells as it always did unless it refused to; it is not
\* reported done too early.
THEOREM WifiOneShotUndisturbed == WifiSpec /\ []ScanAlone => OneShotUndisturbed
<1>1. WifiInit => OnceInv
  BY WifiAssumption, Actors DEF WifiInit, ContInit, OnceInv
<1>2. WifiSpec => []Claims
  BY InitRead, WifiIsCont, ContTypes, NextClaims, PTL DEF ContSpec
<1>3. WifiSpec /\ []ScanAlone => []OnceInv
  BY <1>1, <1>2, NextOnce, WifiIsCont, ContTypes, PTL DEF WifiSpec
<1>4. OnceInv /\ OnceInv' /\ DwellInv' /\ [WifiNext]_wvars =>
        [radio = "once" /\ radio' = "once" =>
           g_scan \subseteq g_scan' /\ ~tgt_cont' /\ (dwell' = "normal" \/ refused')]_wvars
  <2> SUFFICES ASSUME OnceInv, OnceInv', DwellInv', WifiNext, radio = "once", radio' = "once"
               PROVE  g_scan \subseteq g_scan'
    BY WifiAssumption DEF OnceInv, DwellInv
  <2>1. ASSUME NEW c \in Client, ClientStep(c)
        PROVE  UNCHANGED g_scan
    <3>1. ~ScanStarts(c)
      BY WifiAssumption DEF ScanStarts, Goes, OnceInv
    <3>. QED BY <2>1, <3>1 DEF ClientStep, oneshot, ScanChecks, ScanReturns, Connects, Joins,
              wifi_disconnect, WifiStop, WifiStartClaims, WifiStartBusy, WifiStartEnters,
              WifiStartGoes, WifiStartEnds, WifiWaits, WifiDies
  <2>2. ASSUME PollStep PROVE UNCHANGED g_scan
    BY <2>2 DEF PollStep, oneshot, PollNotices, PollMarks, PollSkips, PollGoesOn, PollWindsUp,
         WifiPollSignals
  <2>. QED BY <2>1, <2>2 DEF WifiNext, scan_result_cb, PassEnds, oneshot
<1>5. OnceInv => (g_scan_done => radio # "once")
  BY DEF OnceInv
<1>6. WifiInit => WType /\ DwellInv
  BY DEF WifiInit, WType, WifiState, DwellInv
<1>7. WifiSpec => []DwellInv
  BY <1>2, <1>6, NextWType, NextDwell, PTL DEF WifiSpec
<1>. QED BY <1>3, <1>4, <1>5, <1>7, PTL DEF WifiSpec, OneShotUndisturbed
-----------------------------------------------------------------------------
(* Division and the least of some numbers.                                 *)

\* A number has one quotient and one remainder.
LEMMA Remainder ==
  ASSUME NEW m \in Nat \ {0}, NEW q \in Int, NEW r \in 0..m-1
  PROVE  (m * q + r) % m = r
BY SMT

LEMMA LeastNumber ==
  ASSUME NEW S \in SUBSET Nat, S # {}
  PROVE  \E x \in S : \A y \in S : x <= y
<1> DEFINE R == {ss \in Nat \X Nat : ss[1] < ss[2]}
<1>1. IsWellFoundedOn(R, Nat)
  BY NatLessThanWellFounded DEF OpToRel
<1>2. PICK x \in S : \A y \in S : <<y, x>> \notin R
  <2> HIDE DEF R
  <2>. QED BY <1>1, WFMin
<1>3. \A y \in S : y \in Nat /\ x \in Nat /\ ~(y < x)
  BY <1>2
<1>. QED BY <1>3

LEMMA Divides ==
  ASSUME NEW m \in Nat \ {0}, NEW n \in Nat
  PROVE  \E q \in Nat, r \in 0..m-1 : n = m * q + r
<1> DEFINE S == {k \in Nat : ~\E q \in Nat, r \in 0..m-1 : k = m * q + r}
<1>1. SUFFICES ASSUME S # {} PROVE FALSE
  OBVIOUS
<1>2. PICK k \in S : \A j \in S : k <= j
  <2>1. S \in SUBSET Nat
    OBVIOUS
  <2> HIDE DEF S
  <2>. QED BY <1>1, <2>1, LeastNumber
<1>3. k \in Nat /\ ~\E q \in Nat, r \in 0..m-1 : k = m * q + r
  OBVIOUS
<1>4. k >= m
  <2>1. SUFFICES ASSUME k < m PROVE FALSE
    BY <1>3
  <2>2. k = m * 0 + k /\ k \in 0..m-1
    BY <1>3, <2>1
  <2>. QED BY <1>3, <2>2
<1>5. k - m \in Nat /\ k - m \notin S
  BY <1>2, <1>3, <1>4
<1>6. PICK q \in Nat, r \in 0..m-1 : k - m = m * q + r
  BY <1>5
<1>7. k = m * (q + 1) + r
  <2>1. m * (q + 1) = m * q + m
    BY SMT
  <2>. QED BY <2>1, <1>6, <1>3
<1>8. q + 1 \in Nat
  OBVIOUS
<1>. QED BY <1>3, <1>7, <1>8, Zenon

\* The blocks of a node are its id, then every m-th: where paint_node_blocks()
\* begins, where it goes on, and that it leaves none out.
LEMMA NodeBlocks ==
  ASSUME NEW m \in Nat \ {0}
  PROVE  /\ \A n \in 0..m-1 : n % m = n
         /\ \A b \in Nat : b % m \in 0..m-1 /\ (b + m) % m = b % m
         /\ \A b, c \in Nat : b % m = c % m /\ c <= b /\ b < c + m => b = c
<1>1. ASSUME NEW n \in 0..m-1 PROVE n % m = n
  BY SMT
<1>2. ASSUME NEW b \in Nat PROVE b % m \in 0..m-1 /\ (b + m) % m = b % m
  <2>1. PICK q \in Nat, r \in 0..m-1 : b = m * q + r
    BY Divides
  <2>2. b % m = r
    BY <2>1, Remainder
  <2>3. b + m = m * (q + 1) + r
    BY <2>1, SMT
  <2>4. q + 1 \in Int
    OBVIOUS
  <2>5. (b + m) % m = r
    BY <2>3, <2>4, Remainder
  <2>. QED BY <2>1, <2>2, <2>5
<1>3. ASSUME NEW b \in Nat, NEW c \in Nat, b % m = c % m, c <= b, b < c + m PROVE b = c
  <2>1. PICK p \in Nat, r \in 0..m-1 : b = m * p + r
    BY Divides
  <2>2. PICK q \in Nat, s \in 0..m-1 : c = m * q + s
    BY Divides
  <2>3. r = s
    BY <1>3, <2>1, <2>2, Remainder
  <2>4. m * p - m * q \in 0..m-1
    BY <1>3, <2>1, <2>2, <2>3
  <2>5. CASE p = q
    BY <2>1, <2>2, <2>3, <2>5
  <2>6. CASE p < q
    <3>1. m * (q - p) >= m
      BY <2>6, SMT
    <3>2. m * q - m * p >= m
      BY <3>1, SMT
    <3>. QED BY <2>4, <3>2
  <2>7. CASE q < p
    <3>1. m * (p - q) >= m
      BY <2>7, SMT
    <3>2. m * p - m * q >= m
      BY <3>1, SMT
    <3>. QED BY <2>4, <3>2
  <2>. QED BY <2>5, <2>6, <2>7
<1>. QED BY <1>1, <1>2, <1>3

\* draw_block() draws in the rows of the display.
LEMMA RowOfBlock ==
  ASSUME NEW b \in Block
  PROVE  b \div GRID_COLS \in Row
<1>1. ASSUME NEW c \in Nat \ {0}, NEW r \in Nat \ {0}, NEW x \in 0..c*r-1 PROVE x \div c \in 0..r-1
  BY SMT
<1>2. GRID_COLS \in Nat \ {0} /\ GRID_ROWS \in Nat \ {0} /\ GRID_ROWS = DISP_HEIGHT
  BY CrayAssumption, DisplayAssumption
<1>3. b \in 0..GRID_COLS * GRID_ROWS - 1
  BY DEF Block
<1>4. b \div GRID_COLS \in 0..GRID_ROWS-1
  BY <1>1, <1>2, <1>3
<1>. QED BY <1>2, <1>4 DEF Row
-----------------------------------------------------------------------------
(* The inductive invariant.                                                *)

Stages == {"off", "connect", "draw", "clear", "grid", "reopen", "open", "opened", "init",
           "spawn", "spawned", "wait"}

\* The types, a layer of variables at a time, with those of the threads' places
\* and of the configuration that CrayTypeOK leaves to ValidConfig().
NetTyping ==
  /\ link \in BOOLEAN /\ g_mcast \subseteq Sock /\ lost \subseteq Sock
  /\ g_sock \in Sock \union {NoSock} /\ sock \in Sock \union {NoSock}
ConfigTyping == g_nodeid \in Nat /\ g_maxnodes \in Nat \ {0} /\ g_nodeid < g_maxnodes
ColourTyping == g_my_colors \in Colours \union {Black} /\ g_my_colors_dirty \in BOOLEAN
GridTyping   == framebuffer \in [Block -> Colours \union {Black}]
Messages     == Senders \X Colours \union {Zeroed}
QueueTyping  ==
  /\ g_rx_mq \in Seq(Messages) /\ Len(g_rx_mq) <= MQ_MAX_MSG
  /\ sized \in BOOLEAN
EndsTyping   == g_cray_done \subseteq {"tx", "disp"} /\ g_cray_running \in BOOLEAN
StageTyping ==
  /\ main \in Stages
  /\ tx \in {"none", "test", "picked", "leaving"}
  /\ disp \in {"none", "test", "paint", "flush"}
PaintTyping ==
  /\ job \in Jobs \union {None}
  /\ disp = "paint" => job # None

CrayTyping ==
  /\ DisplayTypeOK /\ NetTyping /\ ConfigTyping /\ ColourTyping /\ GridTyping
  /\ QueueTyping /\ EndsTyping /\ StageTyping /\ PaintTyping

\* The two threads are there only while the main thread makes or awaits them,
\* one that has signalled its end is gone, and only the display thread paints.
ThreadsAt ==
  /\ tx # "none" => main \in {"spawned", "wait"} /\ "tx" \notin g_cray_done
  /\ disp # "none" => main = "wait" /\ "disp" \notin g_cray_done
  /\ main \in {"spawn", "spawned"} => "disp" \notin g_cray_done
  /\ main = "spawn" => g_cray_done = {}
  /\ job # None => disp = "paint"

\* The application's pixels are unmarked only where it clears the display or
\* paints a block.
DrawsAt ==
  /\ Drawing(app) => main = "clear" \/ (disp = "paint" /\ job.block \in Block)
  /\ main = "clear" => drawing[app] = <<0, DISP_HEIGHT - 1>>

\* The application flushes where it waits for that, the shell draws and flushes
\* only while the application does not run, one at a time.
FlushesInTurn ==
  /\ Flushing(app) => main = "reopen" \/ disp = "flush"
  /\ InDriver(shell) => main = "off"
  /\ ~(Flushing(shell) /\ Drawing(shell))

\* The grid's rows are all marked, whatever a killed run has left.
MissedAt == main \in Stages \ {"off", "connect", "draw", "clear"} => missed = {}

\* What a flush has passed is on the panel.
SentShown ==
  \A u \in User : Flushing(u) => \A y \in dirty_min..dirty_max : y < flush[u] => y \in shown

\* The socket is the main thread's before it is the global's, and never both;
\* or nobody's any more.
SocketAt ==
  /\ sock # NoSock => main = "opened"
  /\ main \in {"open", "opened"} => g_sock = NoSock
  /\ main = "opened" => sock \in g_mcast
  /\ main \in {"init", "spawn", "spawned", "wait"} => g_sock \in g_mcast
  /\ g_mcast \subseteq {g_sock, sock} \union lost

\* A paint goes along the blocks of a node of this cluster, of the node itself
\* if it has no colours of its own; and the queue, which a run finds empty,
\* holds what peers of this cluster announced.
JobAt ==
  job # None =>
    /\ job.node \in 0..g_maxnodes-1 /\ job.block \in Nat
    /\ job.block % g_maxnodes = job.node
    /\ job.colours = None <=> job.node = g_nodeid
QueueAt ==
  /\ Underway => sized
  /\ sized => \A i \in 1..Len(g_rx_mq) : g_rx_mq[i] \in Senders \X Colours
  /\ Underway => \A i \in 1..Len(g_rx_mq) : FromPeer(g_rx_mq[i][1])

\* From the first grid on the blocks of a node agree; while a paint is under
\* way those agree that it has passed.
Gridded == Stages \ {"off", "connect", "draw", "clear"}
Passed(b) == b < job.block \/ (Drawing(app) /\ b = job.block)
OwnAt ==
  main \in Gridded =>
    \/ Underway /\ (g_my_colors_dirty \/ tx = "picked")
    \/ \A b \in BlocksOf(g_nodeid) :
         (Painting(g_nodeid) => Passed(b)) => framebuffer[b] = g_my_colors
PeersAt ==
  main \in Gridded =>
    \A n \in 0..g_maxnodes-1 : n # g_nodeid =>
      /\ Painting(n) => \A b \in BlocksOf(n) : Passed(b) => framebuffer[b] = job.colours
      /\ ~Painting(n) => \A b, d \in BlocksOf(n) : framebuffer[b] = framebuffer[d]

-----------------------------------------------------------------------------
(* Types.                                                                  *)

\* One case for every step of the program.
LEMMA CraySteps ==
  ASSUME [CrayNext]_crayvars
  PROVE  \/ UNCHANGED crayvars
         \/ \E c \in Configs : Launches(c)
         \/ Associates
         \/ \E k \in Colours : ClearsGrid(k)
         \/ draw_initial_grid
         \/ FlushesGrid
         \/ ClosesOld
         \/ Opens
         \/ OpenFails
         \/ KeepsHandle
         \/ InitsShared
         \/ SpawnsTx
         \/ SpawnsDisp
         \/ Cleans
         \/ \E k \in Colours : TxPicks(k)
         \/ TxMarks
         \/ TxLeaves
         \/ TxSignals
         \/ DispTakesOwn
         \/ DispTakesPeer
         \/ DispPaints
         \/ DispMarks
         \/ DispFlushes
         \/ AppSends
         \/ DispSleeps
         \/ DispSignals
         \/ \E s \in Senders, k \in Colours : mcast_recv_cb(s, k)
         \/ LinkDrops
         \/ Killed
         \/ cmd_display
BY DEF CrayNext, cray_one, cray_tx_thread, cray_disp_thread

LEMMA InitTyping == CrayInit => CrayTyping
<1> SUFFICES ASSUME CrayInit PROVE CrayTyping
  OBVIOUS
<1> USE DEF CrayInit
<1>1. DisplayTypeOK
  BY DisplayAssumption DEF DisplayInit, DisplayTypeOK, Row
<1>2. NetTyping
  BY DEF NetTyping
<1>3. ConfigTyping
  BY DEF ConfigTyping
<1>4. EndsTyping /\ StageTyping /\ PaintTyping
  BY DEF EndsTyping, StageTyping, PaintTyping, Stages
<1>5. ColourTyping /\ GridTyping
  BY DEF ColourTyping, GridTyping
<1>6. QueueTyping
  <2>1. g_rx_mq = <<>>
    OBVIOUS
  <2>2. g_rx_mq \in Seq(Messages) /\ Len(g_rx_mq) = 0
    <3>1. <<>> \in Seq(Messages)
      BY EmptySeq
    <3>2. Len(<<>>) = 0
      BY <3>1, EmptySeq
    <3>. QED BY <2>1, <3>1, <3>2
  <2>3. sized \in BOOLEAN
    OBVIOUS
  <2>. QED BY <2>2, <2>3, CrayAssumption DEF QueueTyping
<1>. QED BY <1>1, <1>2, <1>3, <1>4, <1>5, <1>6 DEF CrayTyping

\* What no variable of its own has changed keeps its type.
LEMMA KeepsTypes ==
  ASSUME CrayTyping
  PROVE  /\ UNCHANGED dvars => DisplayTypeOK'
         /\ UNCHANGED net => NetTyping'
         /\ UNCHANGED config => ConfigTyping'
         /\ UNCHANGED colours => ColourTyping'
         /\ UNCHANGED framebuffer => GridTyping'
         /\ UNCHANGED queue => QueueTyping'
         /\ UNCHANGED ends => EndsTyping'
         /\ UNCHANGED <<main, tx, disp>> => StageTyping'
         /\ UNCHANGED <<disp, job>> => PaintTyping'
<1>1. UNCHANGED dvars => DisplayTypeOK'
  BY DEF CrayTyping, DisplayTypeOK, dvars
<1>2. UNCHANGED net => NetTyping'
  BY DEF CrayTyping, NetTyping, net
<1>3. UNCHANGED config => ConfigTyping'
  BY DEF CrayTyping, ConfigTyping, config
<1>4. UNCHANGED colours => ColourTyping'
  BY DEF CrayTyping, ColourTyping, colours
<1>5. UNCHANGED framebuffer => GridTyping'
  BY DEF CrayTyping, GridTyping
<1>6. UNCHANGED queue => QueueTyping'
  BY DEF CrayTyping, QueueTyping, queue
<1>7. UNCHANGED ends => EndsTyping'
  BY DEF CrayTyping, EndsTyping, ends
<1>8. UNCHANGED <<main, tx, disp>> => StageTyping'
  BY DEF CrayTyping, StageTyping
<1>9. UNCHANGED <<disp, job>> => PaintTyping'
  BY DEF CrayTyping, PaintTyping
<1>. QED BY <1>1, <1>2, <1>3, <1>4, <1>5, <1>6, <1>7, <1>8, <1>9

\* What the driver does keeps its types.
LEMMA DisplayTypes ==
  ASSUME DisplayTypeOK
  PROVE  /\ \A u \in User, y \in Row, z \in Row : Stores(u, y, z) => DisplayTypeOK'
         /\ \A u \in User : Marks(u) => DisplayTypeOK'
         /\ \A u \in User : FlushBegins(u) \/ FlushRow(u) \/ FlushEnds(u) \/ Abandoned(u) => DisplayTypeOK'
<1>1. ASSUME NEW u \in User, NEW y \in Row, NEW z \in Row, Stores(u, y, z) PROVE DisplayTypeOK'
  BY <1>1, DisplayAssumption DEF Stores, DisplayTypeOK
<1>2. ASSUME NEW u \in User, FlushBegins(u) PROVE DisplayTypeOK'
  BY <1>2, DisplayAssumption DEF FlushBegins, DisplayTypeOK, Row
<1>3. ASSUME NEW u \in User, FlushRow(u) PROVE DisplayTypeOK'
  <2>1. flush[u] \in 0..DISP_HEIGHT /\ flush[u] \in Row /\ flush[u] + 1 \in 0..DISP_HEIGHT
    BY <1>3, DisplayAssumption DEF FlushRow, Flushing, DisplayTypeOK, Row
  <2>. QED BY <1>3, <2>1 DEF FlushRow, DisplayTypeOK
<1>4. ASSUME NEW u \in User, FlushEnds(u) PROVE DisplayTypeOK'
  BY <1>4, DisplayAssumption DEF FlushEnds, Clean, Flushing, DisplayTypeOK, Row
<1>5. ASSUME NEW u \in User, Abandoned(u) PROVE DisplayTypeOK'
  <2>1. Unmarked(u) \subseteq Row
    BY DisplayAssumption DEF Unmarked, Drawing, DisplayTypeOK, Row
  <2>. QED BY <1>5, <2>1 DEF Abandoned, DisplayTypeOK
<1>6. ASSUME NEW u \in User, Marks(u) PROVE DisplayTypeOK'
  <2>1. PICK y \in Row, z \in Row : drawing[u] = <<y, z>>
    BY <1>6 DEF Marks, Drawing, DisplayTypeOK
  <2>2. dirty_min' = Lower(y, dirty_min) /\ dirty_max' = Higher(z, dirty_max)
    BY <1>6, <2>1 DEF Marks, dirty_mark
  <2>3. dirty_min' \in 0..DISP_HEIGHT /\ dirty_max' \in Row
    BY <2>2, DisplayAssumption DEF Lower, Higher, DisplayTypeOK, Row
  <2>. QED BY <1>6, <2>3 DEF Marks, DisplayTypeOK
<1>. QED BY <1>1, <1>2, <1>3, <1>4, <1>5, <1>6

LEMMA AppUser == app \in User /\ shell \in User /\ app # shell
BY CrayAssumption

LEMMA EmptyQueue == <<>> \in Seq(Messages) /\ Len(<<>>) <= MQ_MAX_MSG
<1>1. <<>> \in Seq(Messages) /\ Len(<<>>) = 0
  BY EmptySeq
<1>. QED BY <1>1, CrayAssumption

\* wifi_mcast_open() finds a free place for the socket.
LEMMA OpensFree ==
  ASSUME wifi_mcast_open
  PROVE  sock' \in Sock \ g_mcast
<1> DEFINE free == Sock \ g_mcast
<1>1. free \in SUBSET Nat /\ free # {}
  BY CrayAssumption DEF wifi_mcast_open, Sock
<1>2. sock' = CHOOSE s \in free : \A r \in free : s <= r
  BY DEF wifi_mcast_open
<1> HIDE DEF free
<1>3. \E s \in free : \A r \in free : s <= r
  BY <1>1, LeastNumber
<1>4. sock' \in free
  BY <1>2, <1>3
<1>. QED BY <1>4 DEF free

LEMMA StepTyping ==
  ASSUME CrayTyping, [CrayNext]_crayvars
  PROVE  CrayTyping'
<1> USE DEF MainAt, Aborts
<1> USE KeepsTypes DEF CrayTyping
<1>0. CASE UNCHANGED crayvars
  BY <1>0 DEF crayvars
<1>1. ASSUME NEW c \in Configs, Launches(c) PROVE CrayTyping'
  <2>1. ConfigTyping'
    <3>1. c[1] \in Int /\ c[2] \in Int
      BY CrayAssumption
    <3>. QED BY <1>1, <3>1 DEF Launches, ValidConfig, ConfigTyping
  <2>2. StageTyping'
    BY <1>1 DEF Launches, StageTyping, Stages
  <2>3. UNCHANGED <<dvars, net, colours, framebuffer, queue, ends, <<disp, job>>>>
    BY <1>1 DEF Launches, crayvars, net, config, colours, ends, dvars
  <2>. QED BY <2>1, <2>2, <2>3
<1>2. CASE Associates
  <2>1. NetTyping'
    BY <1>2 DEF Associates, NetTyping
  <2>2. StageTyping'
    BY <1>2 DEF Associates, StageTyping, Stages
  <2>3. UNCHANGED <<dvars, config, colours, framebuffer, queue, ends, <<disp, job>>>>
    BY <1>2 DEF Associates, crayvars, net, config, colours, ends, dvars
  <2>. QED BY <2>1, <2>2, <2>3
<1>3. ASSUME NEW k \in Colours, ClearsGrid(k) PROVE CrayTyping'
  <2>1. DisplayTypeOK'
    <3>1. 0 \in Row /\ DISP_HEIGHT - 1 \in Row
      BY DisplayAssumption DEF Row
    <3>. QED BY <1>3, <3>1, AppUser, DisplayTypes DEF ClearsGrid
  <2>2. ColourTyping'
    BY <1>3 DEF ClearsGrid, ColourTyping
  <2>3. GridTyping'
    BY <1>3 DEF ClearsGrid, GridTyping
  <2>4. StageTyping'
    BY <1>3 DEF ClearsGrid, StageTyping, Stages
  <2>5. UNCHANGED <<net, config, queue, ends, <<disp, job>>>>
    BY <1>3 DEF ClearsGrid, crayvars, net, config, colours, ends, dvars
  <2>. QED BY <2>1, <2>2, <2>3, <2>4, <2>5
<1>28. CASE draw_initial_grid
  <2>1. DisplayTypeOK'
    BY <1>28, AppUser, DisplayTypes DEF draw_initial_grid
  <2>2. GridTyping'
    BY <1>28 DEF draw_initial_grid, GridTyping, ColourTyping
  <2>3. StageTyping'
    BY <1>28 DEF draw_initial_grid, StageTyping, Stages
  <2>4. UNCHANGED <<net, config, colours, queue, ends, <<disp, job>>>>
    BY <1>28 DEF draw_initial_grid, crayvars, net, config, colours, ends, dvars
  <2>. QED BY <2>1, <2>2, <2>3, <2>4
<1>4. CASE FlushesGrid
  <2>1. DisplayTypeOK'
    BY <1>4, AppUser, DisplayTypes DEF FlushesGrid
  <2>2. StageTyping'
    BY <1>4 DEF FlushesGrid, StageTyping, Stages
  <2>3. UNCHANGED <<net, config, colours, framebuffer, queue, ends, <<disp, job>>>>
    BY <1>4 DEF FlushesGrid, crayvars, net, config, colours, ends, dvars
  <2>. QED BY <2>1, <2>2, <2>3
<1>5. CASE ClosesOld
  <2>1. NetTyping'
    BY <1>5 DEF ClosesOld, wifi_mcast_close, NetTyping
  <2>2. StageTyping'
    BY <1>5 DEF ClosesOld, StageTyping, Stages
  <2>3. UNCHANGED <<dvars, config, colours, framebuffer, queue, ends, <<disp, job>>>>
    BY <1>5 DEF ClosesOld, crayvars, net, config, colours, ends, dvars
  <2>. QED BY <2>1, <2>2, <2>3
<1>6. CASE Opens
  <2>1. NetTyping'
    BY <1>6, OpensFree DEF Opens, NetTyping, wifi_mcast_open
  <2>2. StageTyping'
    BY <1>6 DEF Opens, StageTyping, Stages
  <2>3. UNCHANGED <<dvars, config, colours, framebuffer, queue, ends, <<disp, job>>>>
    BY <1>6 DEF Opens, crayvars, net, config, colours, ends, dvars
  <2>. QED BY <2>1, <2>2, <2>3
<1>7. CASE OpenFails
  <2>1. StageTyping'
    BY <1>7 DEF OpenFails, StageTyping, Stages
  <2>2. UNCHANGED <<dvars, net, config, colours, framebuffer, queue, ends, <<disp, job>>>>
    BY <1>7 DEF OpenFails, crayvars, net, config, colours, ends, dvars
  <2>. QED BY <2>1, <2>2
<1>8. CASE KeepsHandle
  <2>1. NetTyping'
    BY <1>8 DEF KeepsHandle, NetTyping
  <2>2. StageTyping'
    BY <1>8 DEF KeepsHandle, StageTyping, Stages
  <2>3. UNCHANGED <<dvars, config, colours, framebuffer, queue, ends, <<disp, job>>>>
    BY <1>8 DEF KeepsHandle, crayvars, net, config, colours, ends, dvars
  <2>. QED BY <2>1, <2>2, <2>3
<1>9. CASE InitsShared
  <2>1. ColourTyping'
    BY <1>9 DEF InitsShared, ColourTyping
  <2>2. QueueTyping'
    <3>1. g_rx_mq' = <<>>
      BY <1>9 DEF InitsShared, mqueue_init
    <3>2. sized' = TRUE
      BY <1>9 DEF InitsShared
    <3>. QED BY <3>1, <3>2, EmptyQueue DEF QueueTyping
  <2>3. EndsTyping'
    BY <1>9 DEF InitsShared, EndsTyping
  <2>4. StageTyping'
    BY <1>9 DEF InitsShared, StageTyping, Stages
  <2>5. UNCHANGED <<dvars, net, config, framebuffer, <<disp, job>>>>
    BY <1>9 DEF InitsShared, crayvars, net, config, colours, ends, dvars
  <2>. QED BY <2>1, <2>2, <2>3, <2>4, <2>5
<1>10. CASE SpawnsTx
  <2>1. StageTyping'
    BY <1>10 DEF SpawnsTx, Created, StageTyping, Stages
  <2>2. UNCHANGED <<dvars, net, config, colours, framebuffer, queue, ends, <<disp, job>>>>
    BY <1>10 DEF SpawnsTx, crayvars, net, config, colours, ends, dvars
  <2>. QED BY <2>1, <2>2
<1>11. CASE SpawnsDisp
  <2>1. StageTyping'
    BY <1>11 DEF SpawnsDisp, Created, StageTyping, Stages
  <2>2. PaintTyping'
    BY <1>11 DEF SpawnsDisp, Created, PaintTyping
  <2>3. UNCHANGED <<dvars, net, config, colours, framebuffer, queue, ends>>
    BY <1>11 DEF SpawnsDisp, crayvars, net, config, colours, ends, dvars
  <2>. QED BY <2>1, <2>2, <2>3
<1>12. CASE Cleans
  <2>1. NetTyping'
    BY <1>12 DEF Cleans, Closes, wifi_mcast_close, NetTyping
  <2>2. StageTyping'
    BY <1>12 DEF Cleans, StageTyping, Stages
  <2>3. UNCHANGED <<dvars, config, colours, framebuffer, queue, ends, <<disp, job>>>>
    BY <1>12 DEF Cleans, crayvars, net, config, colours, ends, dvars
  <2>. QED BY <2>1, <2>2, <2>3
<1>13. ASSUME NEW k \in Colours, TxPicks(k) PROVE CrayTyping'
  <2>1. ColourTyping'
    BY <1>13 DEF TxPicks, ColourTyping
  <2>2. StageTyping'
    BY <1>13 DEF TxPicks, StageTyping, Stages
  <2>3. UNCHANGED <<dvars, net, config, framebuffer, queue, ends, <<disp, job>>>>
    BY <1>13 DEF TxPicks, crayvars, net, config, colours, ends, dvars
  <2>. QED BY <2>1, <2>2, <2>3
<1>14. CASE TxMarks
  <2>1. ColourTyping'
    BY <1>14 DEF TxMarks, ColourTyping
  <2>2. StageTyping'
    BY <1>14 DEF TxMarks, StageTyping, Stages
  <2>3. UNCHANGED <<dvars, net, config, framebuffer, queue, ends, <<disp, job>>>>
    BY <1>14 DEF TxMarks, crayvars, net, config, colours, ends, dvars
  <2>. QED BY <2>1, <2>2, <2>3
<1>15. CASE TxLeaves
  <2>1. EndsTyping'
    BY <1>15 DEF TxLeaves, StopsOther, EndsTyping
  <2>2. StageTyping'
    BY <1>15 DEF TxLeaves, StageTyping, Stages
  <2>3. UNCHANGED <<dvars, net, config, colours, framebuffer, queue, <<disp, job>>>>
    BY <1>15 DEF TxLeaves, crayvars, net, config, colours, ends, dvars
  <2>. QED BY <2>1, <2>2, <2>3
<1>16. CASE TxSignals
  <2>1. EndsTyping'
    BY <1>16 DEF TxSignals, EndsTyping
  <2>2. StageTyping'
    BY <1>16 DEF TxSignals, StageTyping, Stages
  <2>3. UNCHANGED <<dvars, net, config, colours, framebuffer, queue, <<disp, job>>>>
    BY <1>16 DEF TxSignals, crayvars, net, config, colours, ends, dvars
  <2>. QED BY <2>1, <2>2, <2>3
<1>17. CASE DispTakesOwn
  <2>1. ColourTyping'
    BY <1>17 DEF DispTakesOwn, ColourTyping
  <2>2. StageTyping'
    BY <1>17 DEF DispTakesOwn, StageTyping, Stages
  <2>3. PaintTyping'
    <3>1. job' \in Jobs
      BY <1>17 DEF DispTakesOwn, PaintOf, Jobs, ConfigTyping
    <3>2. disp' = "paint" /\ job' # None
      BY <1>17, <3>1, NoneAssumption DEF DispTakesOwn
    <3>. QED BY <3>1, <3>2 DEF PaintTyping
  <2>4. UNCHANGED <<dvars, net, config, framebuffer, queue, ends>>
    BY <1>17 DEF DispTakesOwn, crayvars, net, config, colours, ends, dvars
  <2>. QED BY <2>1, <2>2, <2>3, <2>4
<1>18. CASE DispTakesPeer
  <2>1. QueueTyping'
    <3>1. g_rx_mq \in Seq(Messages) /\ g_rx_mq # <<>> /\ g_rx_mq' = Tail(g_rx_mq)
      BY <1>18 DEF DispTakesPeer, QueueTyping
    <3>2. g_rx_mq' \in Seq(Messages) /\ Len(g_rx_mq') = Len(g_rx_mq) - 1
      BY <3>1, HeadTailProperties
    <3>3. Len(g_rx_mq) \in Nat
      BY <3>1, LenProperties
    <3>4. sized' = sized
      BY <1>18 DEF DispTakesPeer
    <3>. QED BY <3>2, <3>3, <3>4, CrayAssumption DEF QueueTyping
  <2>2. StageTyping'
    BY <1>18 DEF DispTakesPeer, StageTyping, Stages
  <2>3. PaintTyping'
    <3>1. g_rx_mq \in Seq(Messages) /\ g_rx_mq # <<>>
      BY <1>18 DEF DispTakesPeer, QueueTyping
    <3>2. Head(g_rx_mq) \in Messages
      BY <3>1, HeadTailProperties
    <3>3. Head(g_rx_mq)[1] \in Int /\ Head(g_rx_mq)[2] \in Colours \union {Black}
      <4> DEFINE m == Head(g_rx_mq)
      <4> HIDE DEF m
      <4>1. ASSUME m \in Senders \X Colours PROVE m[1] \in Int /\ m[2] \in Colours \union {Black}
        BY <4>1, CrayAssumption
      <4>2. ASSUME m = <<0, Black>> PROVE m[1] \in Int /\ m[2] \in Colours \union {Black}
        BY <4>2
      <4>3. m \in Senders \X Colours \/ m = <<0, Black>>
        BY <3>2 DEF m, Messages, Zeroed
      <4>. QED BY <4>1, <4>2, <4>3 DEF m
    <3>4. job' \in Jobs
      BY <1>18, <3>3 DEF DispTakesPeer, PaintOf, Jobs
    <3>5. disp' = "paint" /\ job' # None
      BY <1>18, <3>4, NoneAssumption DEF DispTakesPeer
    <3>. QED BY <3>4, <3>5 DEF PaintTyping
  <2>4. UNCHANGED <<dvars, net, config, colours, framebuffer, ends>>
    BY <1>18 DEF DispTakesPeer, crayvars, net, config, colours, ends, dvars
  <2>. QED BY <2>1, <2>2, <2>3, <2>4
<1>19. CASE DispPaints
  <2>1. DisplayTypeOK'
    <3>1. job.block \div GRID_COLS \in Row
      BY <1>19, RowOfBlock DEF DispPaints
    <3>. QED BY <1>19, <3>1, AppUser, DisplayTypes DEF DispPaints
  <2>2. GridTyping'
    <3>1. job \in Jobs
      BY <1>19 DEF DispPaints, PaintTyping
    <3>2. job.colours \in Colours \union {Black, None}
      BY <3>1 DEF Jobs
    <3>. QED BY <1>19, <3>2 DEF DispPaints, GridTyping, ColourTyping
  <2>3. UNCHANGED <<net, config, colours, queue, ends, <<main, tx, disp>>, <<disp, job>>>>
    BY <1>19 DEF DispPaints, crayvars, net, config, colours, ends, dvars
  <2>. QED BY <2>1, <2>2, <2>3
<1>29. CASE DispMarks
  <2>1. DisplayTypeOK'
    BY <1>29, AppUser, DisplayTypes DEF DispMarks
  <2>2. PaintTyping'
    <3>1. job \in Jobs /\ disp' = "paint" /\ job' = [job EXCEPT !.block = @ + g_maxnodes]
      BY <1>29 DEF DispMarks, PaintTyping
    <3>2. job' \in Jobs
      BY <3>1 DEF Jobs, ConfigTyping
    <3>. QED BY <3>1, <3>2, NoneAssumption DEF PaintTyping
  <2>3. UNCHANGED <<net, config, colours, framebuffer, queue, ends, <<main, tx, disp>>>>
    BY <1>29 DEF DispMarks, crayvars, net, config, colours, ends, dvars
  <2>. QED BY <2>1, <2>2, <2>3
<1>20. CASE DispFlushes
  <2>1. DisplayTypeOK'
    BY <1>20, AppUser, DisplayTypes DEF DispFlushes
  <2>2. StageTyping'
    BY <1>20 DEF DispFlushes, StageTyping, Stages
  <2>3. PaintTyping'
    BY <1>20 DEF DispFlushes, PaintTyping
  <2>4. UNCHANGED <<net, config, colours, framebuffer, queue, ends>>
    BY <1>20 DEF DispFlushes, crayvars, net, config, colours, ends, dvars
  <2>. QED BY <2>1, <2>2, <2>3, <2>4
<1>21. CASE AppSends
  <2>1. DisplayTypeOK'
    BY <1>21, AppUser, DisplayTypes DEF AppSends
  <2>2. UNCHANGED <<net, config, colours, framebuffer, queue, ends, <<main, tx, disp>>, <<disp, job>>>>
    BY <1>21 DEF AppSends, crayvars, net, config, colours, ends, dvars
  <2>. QED BY <2>1, <2>2
<1>22. CASE DispSleeps
  <2>1. StageTyping'
    BY <1>22 DEF DispSleeps, StageTyping, Stages
  <2>2. PaintTyping'
    BY <1>22 DEF DispSleeps, PaintTyping
  <2>3. UNCHANGED <<dvars, net, config, colours, framebuffer, queue, ends>>
    BY <1>22 DEF DispSleeps, crayvars, net, config, colours, ends, dvars
  <2>. QED BY <2>1, <2>2, <2>3
<1>23. CASE DispSignals
  <2>1. EndsTyping'
    BY <1>23 DEF DispSignals, EndsTyping
  <2>2. StageTyping'
    BY <1>23 DEF DispSignals, StageTyping, Stages
  <2>3. PaintTyping'
    BY <1>23 DEF DispSignals, PaintTyping
  <2>4. UNCHANGED <<dvars, net, config, colours, framebuffer, queue>>
    BY <1>23 DEF DispSignals, crayvars, net, config, colours, ends, dvars
  <2>. QED BY <2>1, <2>2, <2>3, <2>4
<1>24. ASSUME NEW s \in Senders, NEW k \in Colours, mcast_recv_cb(s, k) PROVE CrayTyping'
  <2>1. QueueTyping'
    <3> DEFINE m == IF sized THEN <<s, k>> ELSE Zeroed
    <3>1. g_rx_mq \in Seq(Messages) /\ m \in Messages /\ sized' = sized
          /\ g_rx_mq' = Append(g_rx_mq, m) /\ Len(g_rx_mq) < MQ_MAX_MSG
      BY <1>24 DEF mcast_recv_cb, Room, QueueTyping, Messages
    <3> HIDE DEF m
    <3>2. g_rx_mq' \in Seq(Messages) /\ Len(g_rx_mq') = Len(g_rx_mq) + 1
      BY <3>1, AppendProperties
    <3>3. Len(g_rx_mq) \in Nat
      BY <3>1, LenProperties
    <3>. QED BY <3>1, <3>2, <3>3, CrayAssumption DEF QueueTyping
  <2>2. UNCHANGED <<dvars, net, config, colours, framebuffer, ends, <<main, tx, disp>>, <<disp, job>>>>
    BY <1>24 DEF mcast_recv_cb, crayvars, net, config, colours, ends, dvars
  <2>. QED BY <2>1, <2>2
<1>25. CASE LinkDrops
  <2>1. NetTyping'
    BY <1>25 DEF LinkDrops, NetTyping
  <2>2. UNCHANGED <<dvars, config, colours, framebuffer, queue, ends, <<main, tx, disp>>, <<disp, job>>>>
    BY <1>25 DEF LinkDrops, crayvars, net, config, colours, ends, dvars
  <2>. QED BY <2>1, <2>2
<1>26. CASE Killed
  <2>1. DisplayTypeOK'
    BY <1>26, AppUser, DisplayTypes DEF Killed
  <2>2. NetTyping'
    BY <1>26 DEF Killed, NetTyping
  <2>3. StageTyping'
    BY <1>26 DEF Killed, StageTyping, Stages
  <2>4. PaintTyping'
    BY <1>26 DEF Killed, PaintTyping
  <2>5. UNCHANGED <<config, colours, framebuffer, queue, ends>>
    BY <1>26 DEF Killed, crayvars, net, config, colours, ends, dvars
  <2>. QED BY <2>1, <2>2, <2>3, <2>4, <2>5
<1>27. CASE cmd_display
  <2>1. DisplayTypeOK'
    BY <1>27, AppUser, DisplayTypes DEF cmd_display
  <2>2. UNCHANGED <<net, config, colours, framebuffer, queue, ends, <<main, tx, disp>>, <<disp, job>>>>
    BY <1>27 DEF cmd_display, crayvars, net, config, colours, ends, dvars
  <2>. QED BY <2>1, <2>2
<1>. QED
  BY CraySteps, <1>0, <1>1, <1>2, <1>3, <1>4, <1>5, <1>6, <1>7, <1>8, <1>9, <1>10, <1>11, <1>12, <1>13, <1>14, <1>15, <1>16, <1>17, <1>18, <1>19, <1>20, <1>21, <1>22, <1>23, <1>24, <1>25, <1>26, <1>27, <1>28, <1>29
-----------------------------------------------------------------------------
(* Where the threads are.                                                  *)

LEMMA StepThreads ==
  ASSUME CrayTyping, ThreadsAt, [CrayNext]_crayvars
  PROVE  ThreadsAt'
<1> USE DEF ThreadsAt, MainAt, Aborts, ends
<1>0. CASE UNCHANGED <<main, tx, disp, job, g_cray_done>>
  BY <1>0
<1>1. ASSUME NEW c \in Configs, Launches(c) PROVE ThreadsAt'
  BY <1>1 DEF Launches
<1>2. CASE Associates
  BY <1>2 DEF Associates
<1>3. ASSUME NEW k \in Colours, ClearsGrid(k) PROVE ThreadsAt'
  BY <1>3 DEF ClearsGrid
<1>25. CASE draw_initial_grid
  BY <1>25 DEF draw_initial_grid
<1>4. CASE FlushesGrid
  BY <1>4 DEF FlushesGrid
<1>5. CASE ClosesOld
  BY <1>5 DEF ClosesOld
<1>6. CASE Opens
  BY <1>6 DEF Opens
<1>7. CASE OpenFails
  BY <1>7 DEF OpenFails
<1>8. CASE KeepsHandle
  BY <1>8 DEF KeepsHandle
<1>9. CASE InitsShared
  BY <1>9 DEF InitsShared
<1>10. CASE SpawnsTx
  BY <1>10 DEF SpawnsTx, Created
<1>11. CASE SpawnsDisp
  BY <1>11 DEF SpawnsDisp, Created
<1>12. CASE Cleans
  BY <1>12 DEF Cleans
<1>13. ASSUME NEW k \in Colours, TxPicks(k) PROVE ThreadsAt'
  BY <1>13 DEF TxPicks
<1>14. CASE TxMarks
  BY <1>14 DEF TxMarks
<1>15. CASE TxLeaves
  BY <1>15 DEF TxLeaves
<1>16. CASE TxSignals
  BY <1>16 DEF TxSignals
<1>17. CASE DispTakesOwn
  BY <1>17 DEF DispTakesOwn
<1>18. CASE DispTakesPeer
  BY <1>18 DEF DispTakesPeer
<1>19. CASE DispPaints
  BY <1>19 DEF DispPaints
<1>26. CASE DispMarks
  BY <1>26, NoneAssumption DEF DispMarks, CrayTyping, PaintTyping
<1>20. CASE DispFlushes
  BY <1>20 DEF DispFlushes
<1>21. CASE DispSleeps
  BY <1>21 DEF DispSleeps
<1>22. CASE DispSignals
  BY <1>22 DEF DispSignals
<1>23. CASE Killed
  BY <1>23 DEF Killed
<1>24. CASE \/ UNCHANGED crayvars
            \/ AppSends
            \/ \E s \in Senders, k \in Colours : mcast_recv_cb(s, k)
            \/ LinkDrops
            \/ cmd_display
  <2>1. UNCHANGED <<main, tx, disp, job, g_cray_done>>
    BY <1>24 DEF crayvars, net, config, colours, ends, dvars, AppSends, mcast_recv_cb, LinkDrops, cmd_display
  <2>. QED BY <1>0, <2>1
<1> HIDE DEF ThreadsAt, MainAt, Aborts, ends
<1>. QED
  BY CraySteps, <1>1, <1>2, <1>3, <1>4, <1>5, <1>6, <1>7, <1>8, <1>9, <1>10, <1>11, <1>12, <1>13, <1>14, <1>15, <1>16, <1>17, <1>18, <1>19, <1>20, <1>21, <1>22, <1>23, <1>24, <1>25, <1>26

-----------------------------------------------------------------------------
(* The panel.                                                              *)

\* Where the application's drawing is.
LEMMA StepDraws ==
  ASSUME CrayTyping, ThreadsAt, DrawsAt, [CrayNext]_crayvars
  PROVE  DrawsAt'
<1> USE AppUser, NoneAssumption DEF DrawsAt, MainAt, Aborts, Drawing
<1>0. CASE UNCHANGED <<main, disp, job, drawing>>
  BY <1>0
<1>1. ASSUME NEW c \in Configs, Launches(c) PROVE DrawsAt'
  BY <1>1 DEF Launches, dvars, ThreadsAt
<1>2. CASE Associates
  BY <1>2 DEF Associates, dvars, ThreadsAt
<1>3. ASSUME NEW k \in Colours, ClearsGrid(k) PROVE DrawsAt'
  BY <1>3 DEF ClearsGrid, Stores, CrayTyping, DisplayTypeOK
<1>4. CASE draw_initial_grid
  BY <1>4 DEF draw_initial_grid, Marks, CrayTyping, DisplayTypeOK
<1>5. CASE FlushesGrid
  BY <1>5 DEF FlushesGrid, FlushBegins, ThreadsAt
<1>6. CASE \/ ClosesOld
           \/ Opens
           \/ OpenFails
           \/ KeepsHandle
           \/ InitsShared
           \/ SpawnsTx
           \/ Cleans
  <2>1. main' # "clear" /\ main # "clear" /\ UNCHANGED <<disp, job, drawing>>
    BY <1>6 DEF ClosesOld, Opens, OpenFails, KeepsHandle, InitsShared, SpawnsTx, Cleans, dvars
  <2>. QED BY <2>1
<1>7. CASE SpawnsDisp
  BY <1>7 DEF SpawnsDisp, dvars, ThreadsAt
<1>8. CASE DispTakesOwn
  BY <1>8 DEF DispTakesOwn, dvars, ThreadsAt
<1>9. CASE DispTakesPeer
  BY <1>9 DEF DispTakesPeer, dvars, ThreadsAt
<1>10. CASE DispPaints
  BY <1>10 DEF DispPaints, Stores, ThreadsAt
<1>11. CASE DispMarks
  BY <1>11 DEF DispMarks, Marks, ThreadsAt, CrayTyping, DisplayTypeOK
<1>12. CASE DispFlushes
  BY <1>12 DEF DispFlushes, FlushBegins, ThreadsAt
<1>13. CASE AppSends
  BY <1>13 DEF AppSends, FlushRow, FlushEnds
<1>14. CASE DispSleeps \/ DispSignals
  BY <1>14 DEF DispSleeps, DispSignals, dvars, ThreadsAt
<1>15. CASE Killed
  BY <1>15 DEF Killed, Abandoned, CrayTyping, DisplayTypeOK
<1>16. CASE cmd_display
  <2>1. drawing'[app] = drawing[app]
    BY <1>16 DEF cmd_display, Stores, Marks, FlushBegins, FlushRow, FlushEnds, CrayTyping, DisplayTypeOK
  <2>. QED BY <1>16, <2>1 DEF cmd_display
<1>17. CASE \/ UNCHANGED crayvars
            \/ \E k \in Colours : TxPicks(k)
            \/ TxMarks
            \/ TxLeaves
            \/ TxSignals
            \/ \E s \in Senders, k \in Colours : mcast_recv_cb(s, k)
            \/ LinkDrops
  <2>1. UNCHANGED <<main, disp, job, drawing>>
    BY <1>17 DEF crayvars, net, config, colours, ends, dvars, TxPicks, TxMarks, TxLeaves, TxSignals, mcast_recv_cb, LinkDrops
  <2>. QED BY <1>0, <2>1
<1> HIDE DEF DrawsAt, MainAt, Aborts, Drawing
<1>. QED
  BY CraySteps, <1>1, <1>2, <1>3, <1>4, <1>5, <1>6, <1>7, <1>8, <1>9, <1>10, <1>11, <1>12, <1>13, <1>14, <1>15, <1>16, <1>17

\* While nobody flushes, a primitive stores what it will mark ...
LEMMA StoresFollows ==
  ASSUME DisplayTypeOK, PanelFollows, \A u \in User : ~Flushing(u),
         NEW v \in User, NEW y \in Row, NEW z \in Row, Stores(v, y, z)
  PROVE  PanelFollows' /\ SentShown'
<1>1. SentShown'
  BY DEF Stores, SentShown, Flushing
<1>2. ~Drawing(v) /\ drawing' = [drawing EXCEPT ![v] = <<y, z>>] /\ shown' = shown \ (y..z)
      /\ UNCHANGED <<dirty_min, dirty_max, missed>>
  BY DEF Stores
<1>3. \A u \in User \ {v} : drawing'[u] = drawing[u]
  BY <1>2 DEF DisplayTypeOK
<1>4. drawing'[v] = <<y, z>>
  BY <1>2 DEF DisplayTypeOK
<1>5. Unmarked(v)' = y..z
  BY <1>4, DisplayAssumption DEF Unmarked, Drawing, Row
<1>6. Unmarked(v) = {}
  BY <1>2 DEF Unmarked
<1>7. \A u \in User \ {v} : Unmarked(u)' = Unmarked(u)
  BY <1>3 DEF Unmarked, Drawing
<1>8. ASSUME NEW r \in Row
      PROVE  r \in shown' \/ r \in dirty_min'..dirty_max' \/ r \in missed' \/ \E u \in User : r \in Unmarked(u)'
  <2>1. CASE \E u \in User : r \in Unmarked(u)
    BY <2>1, <1>6, <1>7
  <2>2. CASE r \in y..z
    BY <2>2, <1>5
  <2>. QED BY <1>2, <2>1, <2>2 DEF PanelFollows
<1>. QED BY <1>1, <1>8 DEF PanelFollows

\* ... and marks what it has stored.
LEMMA MarksFollow ==
  ASSUME DisplayTypeOK, PanelFollows, \A u \in User : ~Flushing(u), NEW v \in User, Marks(v)
  PROVE  PanelFollows' /\ SentShown'
<1>1. SentShown'
  BY DEF Marks, SentShown, Flushing
<1>2. PICK y \in Row, z \in Row : drawing[v] = <<y, z>>
  BY DEF Marks, Drawing, DisplayTypeOK
<1>3. dirty_min' = Lower(y, dirty_min) /\ dirty_max' = Higher(z, dirty_max)
      /\ missed' = missed \ (dirty_min'..dirty_max') /\ shown' = shown
  BY <1>2 DEF Marks, dirty_mark
<1>4. \A r \in Row : r \in y..z \/ r \in dirty_min..dirty_max => r \in dirty_min'..dirty_max'
  BY <1>3, DisplayAssumption DEF Lower, Higher, DisplayTypeOK, Row
<1>5. Unmarked(v) = y..z
  BY <1>2 DEF Unmarked, Drawing, Marks
<1>6. \A u \in User \ {v} : Unmarked(u)' = Unmarked(u)
  BY DEF Marks, Unmarked, Drawing, DisplayTypeOK
<1>7. ASSUME NEW r \in Row
      PROVE  r \in shown' \/ r \in dirty_min'..dirty_max' \/ r \in missed' \/ \E u \in User : r \in Unmarked(u)'
  <2>1. CASE \E u \in User : r \in Unmarked(u)
    BY <2>1, <1>4, <1>5, <1>6
  <2>2. CASE r \in missed
    BY <2>2, <1>3
  <2>. QED BY <1>3, <1>4, <2>1, <2>2 DEF PanelFollows
<1>. QED BY <1>1, <1>7 DEF PanelFollows

\* A step of a flush, of whoever's, or the end of its user.
LEMMA FlushSends ==
  ASSUME DisplayTypeOK, PanelFollows, SentShown, NEW u \in User,
         FlushBegins(u) \/ FlushRow(u) \/ FlushEnds(u) \/ Abandoned(u)
  PROVE  PanelFollows' /\ SentShown'
<1> DEFINE Others(r) == r \in missed \/ \E v \in User : r \in Unmarked(v)
<1>0. \A r \in Row : r \in shown \/ r \in dirty_min..dirty_max \/ Others(r)
  BY DEF PanelFollows
<1>1. CASE FlushBegins(u) \/ FlushRow(u) \/ FlushEnds(u)
  <2>1. UNCHANGED <<drawing, missed>>
    BY <1>1 DEF FlushBegins, FlushRow, FlushEnds
  <2>2. \A r : Others(r) => r \in missed' \/ \E v \in User : r \in Unmarked(v)'
    BY <2>1 DEF Unmarked, Drawing
  <2> HIDE DEF Others
  <2>3. \A r \in Row : r \in shown' \/ r \in dirty_min'..dirty_max' \/ Others(r)
    <3>1. CASE FlushBegins(u) \/ FlushRow(u)
      BY <1>0, <3>1 DEF FlushBegins, FlushRow
    <3>2. CASE FlushEnds(u)
      <4>1. \A r \in Row : r \in dirty_min..dirty_max => r \in shown
        BY <3>2, DisplayAssumption DEF FlushEnds, Flushing, SentShown, DisplayTypeOK, Row
      <4>. QED BY <1>0, <3>2, <4>1 DEF FlushEnds
    <3>. QED BY <1>1, <3>1, <3>2
  <2>4. PanelFollows'
    BY <2>2, <2>3 DEF PanelFollows
  <2>5. SentShown'
    <3> USE DisplayAssumption DEF DisplayTypeOK, SentShown, Flushing, Row
    <3>1. CASE FlushBegins(u)
      BY <3>1 DEF FlushBegins
    <3>2. CASE FlushRow(u)
      <4>1. flush[u] \in Nat /\ flush[u] + 1 \in Nat /\ flush'[u] = flush[u] + 1
            /\ \A v \in User \ {u} : flush'[v] = flush[v]
        BY <3>2 DEF FlushRow
      <4>2. \A r \in dirty_min..dirty_max : r < flush[u] + 1 => r \in shown \/ r = flush[u]
        BY <3>2, <4>1 DEF FlushRow
      <4>. QED BY <3>2, <4>1, <4>2 DEF FlushRow
    <3>3. CASE FlushEnds(u)
      BY <3>3 DEF FlushEnds, Clean
    <3>. QED BY <1>1, <3>1, <3>2, <3>3
  <2>. QED BY <2>4, <2>5
<1>2. CASE Abandoned(u)
  <2>1. SentShown'
    BY <1>2 DEF Abandoned, SentShown, Flushing, DisplayTypeOK
  <2>2. \A v \in User \ {u} : Unmarked(v)' = Unmarked(v)
    BY <1>2 DEF Abandoned, Unmarked, Drawing, DisplayTypeOK
  <2>3. missed' = missed \union (Unmarked(u) \ (dirty_min..dirty_max)) /\ UNCHANGED <<dirty_min, dirty_max, shown>>
    BY <1>2 DEF Abandoned
  <2>4. ASSUME NEW r \in Row
        PROVE  r \in shown' \/ r \in dirty_min'..dirty_max' \/ r \in missed' \/ \E v \in User : r \in Unmarked(v)'
    BY <1>0, <2>2, <2>3
  <2>. QED BY <2>1, <2>4 DEF PanelFollows
<1>. QED BY <1>1, <1>2

LEMMA StepFlushes ==
  ASSUME CrayTyping, ThreadsAt, FlushesInTurn, "display" \notin Overlap, [CrayNext]_crayvars
  PROVE  FlushesInTurn'
<1> USE AppUser, NoneAssumption DEF FlushesInTurn, ThreadsAt, CrayTyping, DisplayTypeOK, MainAt, Aborts, Flushing, Drawing, InDriver
<1>0. CASE UNCHANGED <<main, disp, flush, drawing>>
  BY <1>0
<1>1. ASSUME NEW c \in Configs, Launches(c) PROVE FlushesInTurn'
  BY <1>1 DEF Launches, dvars
<1>2. CASE Associates
  BY <1>2 DEF Associates, dvars
<1>3. ASSUME NEW k \in Colours, ClearsGrid(k) PROVE FlushesInTurn'
  BY <1>3 DEF ClearsGrid, Stores
<1>23. CASE draw_initial_grid
  BY <1>23 DEF draw_initial_grid, Marks
<1>4. CASE FlushesGrid
  BY <1>4 DEF FlushesGrid, FlushBegins
<1>5. CASE ClosesOld
  BY <1>5 DEF ClosesOld, dvars
<1>6. CASE Opens
  BY <1>6 DEF Opens, dvars
<1>7. CASE OpenFails
  BY <1>7 DEF OpenFails, dvars
<1>8. CASE KeepsHandle
  BY <1>8 DEF KeepsHandle, dvars
<1>9. CASE InitsShared
  BY <1>9 DEF InitsShared, dvars
<1>10. CASE SpawnsTx
  BY <1>10 DEF SpawnsTx, dvars
<1>11. CASE SpawnsDisp
  BY <1>11 DEF SpawnsDisp, dvars, Created
<1>12. CASE Cleans
  BY <1>12 DEF Cleans, dvars
<1>13. CASE DispTakesOwn
  BY <1>13 DEF DispTakesOwn, dvars
<1>14. CASE DispTakesPeer
  BY <1>14 DEF DispTakesPeer, dvars
<1>15. CASE DispPaints
  BY <1>15 DEF DispPaints, Stores
<1>24. CASE DispMarks
  BY <1>24 DEF DispMarks, Marks
<1>16. CASE DispFlushes
  BY <1>16 DEF DispFlushes, FlushBegins
<1>17. CASE AppSends
  BY <1>17 DEF AppSends, FlushRow, FlushEnds
<1>18. CASE DispSleeps
  BY <1>18 DEF DispSleeps, dvars
<1>19. CASE DispSignals
  BY <1>19 DEF DispSignals, dvars
<1>20. CASE Killed
  BY <1>20 DEF Killed, Abandoned
<1>21. CASE cmd_display
  <2>1. main = "off" /\ UNCHANGED <<main, disp>> /\ flush'[app] = flush[app]
    BY <1>21 DEF cmd_display, Stores, Marks, FlushBegins, FlushRow, FlushEnds
  <2>2. ~(flush'[shell] # None /\ drawing'[shell] # None)
    BY <1>21 DEF cmd_display, Stores, Marks, FlushBegins, FlushRow, FlushEnds
  <2>. QED BY <2>1, <2>2
<1>22. CASE \/ UNCHANGED crayvars
            \/ \E k \in Colours : TxPicks(k)
            \/ TxMarks
            \/ TxLeaves
            \/ TxSignals
            \/ \E s \in Senders, k \in Colours : mcast_recv_cb(s, k)
            \/ LinkDrops
  <2>1. UNCHANGED <<main, disp, flush, drawing>>
    BY <1>22 DEF crayvars, net, config, colours, ends, dvars, TxPicks, TxMarks, TxLeaves, TxSignals, mcast_recv_cb, LinkDrops
  <2>. QED BY <1>0, <2>1
<1> HIDE DEF FlushesInTurn, ThreadsAt, CrayTyping, DisplayTypeOK, MainAt, Aborts, Flushing, Drawing, InDriver
<1>. QED
  BY CraySteps, <1>1, <1>2, <1>3, <1>4, <1>5, <1>6, <1>7, <1>8, <1>9, <1>10, <1>11, <1>12, <1>13, <1>14, <1>15, <1>16, <1>17, <1>18, <1>19, <1>20, <1>21, <1>22, <1>23, <1>24

LEMMA StepPanel ==
  ASSUME "display" \notin Overlap, CrayTyping, ThreadsAt, DrawsAt, FlushesInTurn, SentShown, PanelFollows,
         [CrayNext]_crayvars
  PROVE  (SentShown /\ PanelFollows)'
<1>0. CASE UNCHANGED dvars
  BY <1>0 DEF dvars, SentShown, PanelFollows, Flushing, Unmarked, Drawing
<1>1. ASSUME NEW k \in Colours, ClearsGrid(k) PROVE (SentShown /\ PanelFollows)'
  <2>1. \A u \in User : ~Flushing(u)
    BY <1>1, CrayAssumption DEF ClearsGrid, FlushesInTurn, InDriver, ThreadsAt, MainAt
  <2>2. 0 \in Row /\ DISP_HEIGHT - 1 \in Row
    BY DisplayAssumption DEF Row
  <2>. QED BY <1>1, <2>1, <2>2, AppUser, StoresFollows DEF ClearsGrid, CrayTyping
<1>9. CASE draw_initial_grid
  <2>1. \A u \in User : ~Flushing(u)
    BY <1>9, CrayAssumption DEF draw_initial_grid, FlushesInTurn, InDriver, ThreadsAt, MainAt
  <2>. QED BY <1>9, <2>1, AppUser, MarksFollow DEF draw_initial_grid, CrayTyping
<1>2. CASE FlushesGrid
  BY <1>2, AppUser, FlushSends DEF FlushesGrid, CrayTyping
<1>3. CASE DispPaints
  <2>1. \A u \in User : ~Flushing(u)
    BY <1>3, CrayAssumption DEF DispPaints, FlushesInTurn, InDriver, ThreadsAt
  <2>2. job.block \div GRID_COLS \in Row
    BY <1>3, RowOfBlock DEF DispPaints
  <2>. QED BY <1>3, <2>1, <2>2, AppUser, StoresFollows DEF DispPaints, CrayTyping
<1>10. CASE DispMarks
  <2>1. \A u \in User : ~Flushing(u)
    BY <1>10, CrayAssumption DEF DispMarks, FlushesInTurn, InDriver, ThreadsAt
  <2>. QED BY <1>10, <2>1, AppUser, MarksFollow DEF DispMarks, CrayTyping
<1>4. CASE DispFlushes
  BY <1>4, AppUser, FlushSends DEF DispFlushes, CrayTyping
<1>5. CASE AppSends
  BY <1>5, AppUser, FlushSends DEF AppSends, CrayTyping
<1>6. CASE Killed
  BY <1>6, AppUser, FlushSends DEF Killed, CrayTyping
<1>7. CASE cmd_display
  <2>1. CASE FlushBegins(shell) \/ FlushRow(shell) \/ FlushEnds(shell)
    BY <2>1, AppUser, FlushSends DEF CrayTyping
  <2>2. ASSUME NEW y \in Row, NEW z \in Row, Stores(shell, y, z), ~InDriver(shell)
        PROVE  (SentShown /\ PanelFollows)'
    <3>1. \A u \in User : ~Flushing(u)
      BY <1>7, <2>2, CrayAssumption DEF cmd_display, FlushesInTurn, InDriver, ThreadsAt
    <3>. QED BY <2>2, <3>1, AppUser, StoresFollows DEF CrayTyping
  <2>3. CASE Marks(shell)
    <3>1. \A u \in User : ~Flushing(u)
      BY <1>7, <2>3, CrayAssumption DEF cmd_display, Marks, FlushesInTurn, InDriver, ThreadsAt
    <3>. QED BY <2>3, <3>1, AppUser, MarksFollow DEF CrayTyping
  <2>. QED BY <1>7, <2>1, <2>2, <2>3 DEF cmd_display
<1>8. CASE \/ UNCHANGED crayvars
           \/ \E c \in Configs : Launches(c)
           \/ Associates
           \/ ClosesOld
           \/ Opens
           \/ OpenFails
           \/ KeepsHandle
           \/ InitsShared
           \/ SpawnsTx
           \/ SpawnsDisp
           \/ Cleans
           \/ \E k \in Colours : TxPicks(k)
           \/ TxMarks
           \/ TxLeaves
           \/ TxSignals
           \/ DispTakesOwn
           \/ DispTakesPeer
           \/ DispSleeps
           \/ DispSignals
           \/ \E s \in Senders, k \in Colours : mcast_recv_cb(s, k)
           \/ LinkDrops
  <2>1. UNCHANGED dvars
    BY <1>8 DEF crayvars, net, config, colours, ends, dvars, Launches, Associates, ClosesOld, Opens, OpenFails, KeepsHandle, InitsShared, SpawnsTx, SpawnsDisp, Cleans, TxPicks, TxMarks, TxLeaves, TxSignals, DispTakesOwn, DispTakesPeer, DispSleeps, DispSignals, mcast_recv_cb, LinkDrops
  <2>. QED BY <1>0, <2>1
<1>. QED
  BY CraySteps, <1>1, <1>2, <1>3, <1>4, <1>5, <1>6, <1>7, <1>8, <1>9, <1>10

\* The grid marks every row, and only a kill leaves one unmarked.
LEMMA StepMissed ==
  ASSUME CrayTyping, DrawsAt, MissedAt, [CrayNext]_crayvars
  PROVE  MissedAt'
<1> USE DEF MissedAt, MainAt, Aborts
<1>1. CASE draw_initial_grid
  <2>1. drawing[app] = <<0, DISP_HEIGHT - 1>>
    BY <1>1 DEF draw_initial_grid, DrawsAt
  <2>2. dirty_min' = Lower(0, dirty_min) /\ dirty_max' = Higher(DISP_HEIGHT - 1, dirty_max)
        /\ missed' = missed \ (dirty_min'..dirty_max')
    BY <1>1, <2>1 DEF draw_initial_grid, Marks, dirty_mark
  <2>3. Row \subseteq dirty_min'..dirty_max'
    BY <2>2, DisplayAssumption DEF Lower, Higher, CrayTyping, DisplayTypeOK, Row
  <2>. QED BY <2>2, <2>3 DEF CrayTyping, DisplayTypeOK
<1>2. CASE Killed
  BY <1>2 DEF Killed
<1>3. CASE \/ UNCHANGED crayvars
           \/ \E c \in Configs : Launches(c)
           \/ Associates
           \/ \E k \in Colours : ClearsGrid(k)
           \/ OpenFails
           \/ Cleans
  <2>1. main' \in {"off", "connect", "draw", "clear"} \/ UNCHANGED <<main, missed>>
    BY <1>3 DEF crayvars, dvars, Launches, Associates, ClearsGrid, OpenFails, Cleans
  <2>. QED BY <2>1
<1>4. CASE \/ FlushesGrid
           \/ ClosesOld
           \/ Opens
           \/ KeepsHandle
           \/ InitsShared
           \/ SpawnsTx
           \/ SpawnsDisp
  <2>1. missed' = missed /\ main \in {"grid", "reopen", "open", "opened", "init", "spawn", "spawned"}
    BY <1>4 DEF dvars, FlushesGrid, FlushBegins, ClosesOld, Opens, KeepsHandle, InitsShared, SpawnsTx, SpawnsDisp
  <2>. QED BY <2>1 DEF Stages
<1>5. CASE \/ \E k \in Colours : TxPicks(k)
           \/ TxMarks
           \/ TxLeaves
           \/ TxSignals
           \/ DispTakesOwn
           \/ DispTakesPeer
           \/ DispPaints
           \/ DispMarks
           \/ DispFlushes
           \/ AppSends
           \/ DispSleeps
           \/ DispSignals
           \/ \E s \in Senders, k \in Colours : mcast_recv_cb(s, k)
           \/ LinkDrops
           \/ cmd_display
  <2>1. missed' \subseteq missed /\ main' = main
    BY <1>5 DEF dvars, ends, TxPicks, TxMarks, TxLeaves, TxSignals, DispTakesOwn, DispTakesPeer, DispPaints, DispMarks, DispFlushes, AppSends, DispSleeps, DispSignals, mcast_recv_cb, LinkDrops, cmd_display, Stores, Marks, FlushBegins, FlushRow, FlushEnds
  <2>. QED BY <2>1
<1> HIDE DEF MissedAt, MainAt, Aborts
<1>. QED BY CraySteps, <1>1, <1>2, <1>3, <1>4, <1>5

-----------------------------------------------------------------------------
(* The socket.                                                             *)

LEMMA StepSocket ==
  ASSUME CrayTyping, ThreadsAt, SocketAt, [CrayNext]_crayvars
  PROVE  SocketAt'
<1> USE DEF SocketAt, MainAt, Aborts, net
<1>0. CASE UNCHANGED <<main, g_sock, sock, g_mcast, lost>>
  BY <1>0
<1>1. ASSUME NEW c \in Configs, Launches(c) PROVE SocketAt'
  BY <1>1 DEF Launches
<1>2. CASE Associates
  BY <1>2 DEF Associates
<1>3. ASSUME NEW k \in Colours, ClearsGrid(k) PROVE SocketAt'
  BY <1>3 DEF ClearsGrid
<1>16. CASE draw_initial_grid
  BY <1>16 DEF draw_initial_grid
<1>4. CASE FlushesGrid
  BY <1>4 DEF FlushesGrid
<1>5. CASE ClosesOld
  BY <1>5 DEF ClosesOld, wifi_mcast_close
<1>6. CASE Opens
  <2>1. g_mcast' = {sock'} /\ g_sock' = g_sock /\ main = "open" /\ main' = "opened"
    BY <1>6 DEF Opens, wifi_mcast_open, PortFree
  <2>. QED BY <2>1
<1>7. CASE OpenFails
  BY <1>7 DEF OpenFails
<1>8. CASE KeepsHandle
  BY <1>8 DEF KeepsHandle
<1>9. CASE InitsShared
  BY <1>9 DEF InitsShared
<1>10. CASE SpawnsTx
  BY <1>10 DEF SpawnsTx
<1>11. CASE SpawnsDisp
  BY <1>11 DEF SpawnsDisp
<1>12. CASE Cleans
  BY <1>12 DEF Cleans, Closes, wifi_mcast_close
<1>13. CASE LinkDrops
  BY <1>13 DEF LinkDrops
<1>14. CASE Killed
  BY <1>14 DEF Killed
<1>15. CASE \/ UNCHANGED crayvars
            \/ \E k \in Colours : TxPicks(k)
            \/ TxMarks
            \/ TxLeaves
            \/ TxSignals
            \/ DispTakesOwn
            \/ DispTakesPeer
            \/ DispPaints
            \/ DispMarks
            \/ DispFlushes
            \/ AppSends
            \/ DispSleeps
            \/ DispSignals
            \/ \E s \in Senders, k \in Colours : mcast_recv_cb(s, k)
            \/ cmd_display
  <2>1. UNCHANGED <<main, g_sock, sock, g_mcast, lost>>
    BY <1>15 DEF crayvars, net, config, colours, ends, dvars, TxPicks, TxMarks, TxLeaves, TxSignals, DispTakesOwn, DispTakesPeer, DispPaints, DispMarks, DispFlushes, AppSends, DispSleeps, DispSignals, mcast_recv_cb, cmd_display
  <2>. QED BY <1>0, <2>1
<1> HIDE DEF SocketAt, MainAt, Aborts, net
<1>. QED
  BY CraySteps, <1>1, <1>2, <1>3, <1>4, <1>5, <1>6, <1>7, <1>8, <1>9, <1>10, <1>11, <1>12, <1>13, <1>14, <1>15, <1>16

-----------------------------------------------------------------------------
(* The grid.                                                               *)

LEMMA StepJob ==
  ASSUME CrayTyping, ThreadsAt, QueueAt, JobAt, [CrayNext]_crayvars
  PROVE  JobAt'
<1> USE DEF JobAt, config
<1>0. CASE UNCHANGED <<job, config>>
  BY <1>0
<1>1. ASSUME NEW c \in Configs, Launches(c) PROVE JobAt'
  BY <1>1 DEF Launches, MainAt, ThreadsAt
<1>2. CASE DispTakesOwn
  <2>1. job' = [node |-> g_nodeid, block |-> g_nodeid, colours |-> None]
    BY <1>2 DEF DispTakesOwn, PaintOf
  <2>2. g_nodeid % g_maxnodes = g_nodeid
    BY NodeBlocks DEF CrayTyping, ConfigTyping
  <2>. QED BY <1>2, <2>1, <2>2 DEF DispTakesOwn, CrayTyping, ConfigTyping
<1>3. CASE DispTakesPeer
  <2>1. g_rx_mq \in Seq(Messages) /\ g_rx_mq # <<>>
    BY <1>3 DEF DispTakesPeer, CrayTyping, QueueTyping
  <2>2. Head(g_rx_mq) = g_rx_mq[1] /\ 1 \in 1..Len(g_rx_mq)
    BY <2>1, HeadTailProperties, EmptySeq
  <2>3. FromPeer(Head(g_rx_mq)[1]) /\ Head(g_rx_mq) \in Senders \X Colours
    BY <1>3, <2>2 DEF DispTakesPeer, ThreadsAt, QueueAt, Underway
  <2>4. PICK n \in Senders, k \in Colours : Head(g_rx_mq) = <<n, k>>
    BY <2>3
  <2>5. n \in Int /\ n \in 0..g_maxnodes-1 /\ n # g_nodeid /\ k # None
    BY <2>3, <2>4, CrayAssumption, NoneAssumption DEF FromPeer, CrayTyping, ConfigTyping
  <2>6. job' = [node |-> n, block |-> n, colours |-> k]
    BY <1>3, <2>4 DEF DispTakesPeer, PaintOf
  <2>7. n % g_maxnodes = n
    BY <2>5, NodeBlocks DEF CrayTyping, ConfigTyping
  <2>. QED BY <1>3, <2>5, <2>6, <2>7 DEF DispTakesPeer
<1>4. CASE DispMarks
  <2>1. job \in Jobs /\ job # None /\ job' = [job EXCEPT !.block = @ + g_maxnodes]
    BY <1>4 DEF DispMarks, CrayTyping, PaintTyping
  <2>2. job'.node = job.node /\ job'.colours = job.colours /\ job'.block = job.block + g_maxnodes
    BY <2>1 DEF Jobs
  <2>3. job.block \in Nat /\ g_maxnodes \in Nat \ {0}
    BY <2>1 DEF CrayTyping, ConfigTyping
  <2>4. (job.block + g_maxnodes) % g_maxnodes = job.block % g_maxnodes
    BY <2>3, NodeBlocks
  <2>. QED BY <1>4, <2>1, <2>2, <2>3, <2>4 DEF DispMarks
<1>5. CASE DispFlushes
  BY <1>5 DEF DispFlushes
<1>6. CASE Killed
  BY <1>6 DEF Killed
<1>7. CASE \/ UNCHANGED crayvars
           \/ Associates
           \/ \E k \in Colours : ClearsGrid(k)
           \/ draw_initial_grid
           \/ FlushesGrid
           \/ ClosesOld
           \/ Opens
           \/ OpenFails
           \/ KeepsHandle
           \/ InitsShared
           \/ SpawnsTx
           \/ SpawnsDisp
           \/ Cleans
           \/ \E k \in Colours : TxPicks(k)
           \/ TxMarks
           \/ TxLeaves
           \/ TxSignals
           \/ DispPaints
           \/ AppSends
           \/ DispSleeps
           \/ DispSignals
           \/ \E s \in Senders, k \in Colours : mcast_recv_cb(s, k)
           \/ LinkDrops
           \/ cmd_display
  <2>1. UNCHANGED <<job, config>>
    BY <1>7 DEF crayvars, net, config, colours, ends, dvars, Associates, ClearsGrid, draw_initial_grid, FlushesGrid, ClosesOld, Opens, OpenFails, KeepsHandle, InitsShared, SpawnsTx, SpawnsDisp, Cleans, TxPicks, TxMarks, TxLeaves, TxSignals, DispPaints, AppSends, DispSleeps, DispSignals, mcast_recv_cb, LinkDrops, cmd_display
  <2>. QED BY <1>0, <2>1
<1> HIDE DEF JobAt, config
<1>. QED
  BY CraySteps, <1>1, <1>2, <1>3, <1>4, <1>5, <1>6, <1>7

LEMMA StepQueue ==
  ASSUME CrayTyping, ThreadsAt, QueueAt, [CrayNext]_crayvars
  PROVE  QueueAt'
<1> USE DEF QueueAt, Underway, FromPeer, config, queue
<1>0. CASE UNCHANGED <<main, queue, config>>
  BY <1>0
<1>1. ASSUME NEW c \in Configs, Launches(c) PROVE QueueAt'
  BY <1>1 DEF Launches, MainAt
<1>2. CASE Associates
  BY <1>2 DEF Associates
<1>3. ASSUME NEW k \in Colours, ClearsGrid(k) PROVE QueueAt'
  BY <1>3 DEF ClearsGrid, MainAt
<1>17. CASE draw_initial_grid
  BY <1>17 DEF draw_initial_grid, MainAt
<1>4. CASE FlushesGrid
  BY <1>4 DEF FlushesGrid, MainAt
<1>5. CASE ClosesOld
  BY <1>5 DEF ClosesOld, MainAt
<1>6. CASE Opens
  BY <1>6 DEF Opens, MainAt
<1>7. CASE OpenFails
  BY <1>7 DEF OpenFails, Aborts
<1>8. CASE KeepsHandle
  BY <1>8 DEF KeepsHandle, MainAt
<1>9. CASE InitsShared
  <2>1. g_rx_mq' = <<>>
    BY <1>9 DEF InitsShared, mqueue_init
  <2>2. Len(g_rx_mq') = 0
    BY <2>1, EmptySeq
  <2>. QED BY <1>9, <2>2 DEF InitsShared
<1>10. CASE SpawnsTx
  BY <1>10 DEF SpawnsTx, MainAt
<1>11. CASE SpawnsDisp
  BY <1>11 DEF SpawnsDisp, MainAt
<1>12. CASE Cleans
  BY <1>12 DEF Cleans, MainAt
<1>13. CASE DispTakesPeer
  <2>1. g_rx_mq \in Seq(Messages) /\ g_rx_mq # <<>> /\ g_rx_mq' = Tail(g_rx_mq)
    BY <1>13 DEF DispTakesPeer, CrayTyping, QueueTyping
  <2>2. Len(g_rx_mq) \in Nat /\ Len(g_rx_mq') = Len(g_rx_mq) - 1
        /\ \A i \in 1..Len(g_rx_mq') : g_rx_mq'[i] = g_rx_mq[i + 1]
    BY <2>1, HeadTailProperties, LenProperties
  <2>3. UNCHANGED <<main, config, sized>>
    BY <1>13 DEF DispTakesPeer
  <2>. QED BY <2>2, <2>3
<1>14. ASSUME NEW s \in Senders, NEW k \in Colours, mcast_recv_cb(s, k) PROVE QueueAt'
  <2> DEFINE m == IF sized THEN <<s, k>> ELSE Zeroed
  <2>1. g_rx_mq \in Seq(Messages) /\ m \in Messages /\ g_rx_mq' = Append(g_rx_mq, m)
    BY <1>14 DEF mcast_recv_cb, CrayTyping, QueueTyping, Messages
  <2>2. sized => m = <<s, k>> /\ m \in Senders \X Colours /\ m[1] = s
    OBVIOUS
  <2> HIDE DEF m
  <2>3. Len(g_rx_mq) \in Nat /\ Len(g_rx_mq') = Len(g_rx_mq) + 1
        /\ g_rx_mq'[Len(g_rx_mq) + 1] = m
        /\ \A i \in 1..Len(g_rx_mq) : g_rx_mq'[i] = g_rx_mq[i]
    BY <2>1, AppendProperties, LenProperties
  <2>4. UNCHANGED <<main, config, sized>> /\ FromPeer(s)
    BY <1>14 DEF mcast_recv_cb
  <2>5. ASSUME sized, NEW i \in 1..Len(g_rx_mq')
        PROVE  g_rx_mq'[i] \in Senders \X Colours /\ (Underway => FromPeer(g_rx_mq'[i][1]))
    <3>1. CASE i \in 1..Len(g_rx_mq)
      BY <2>3, <2>5, <3>1
    <3>2. CASE i = Len(g_rx_mq) + 1
      BY <2>2, <2>3, <2>4, <2>5, <3>2
    <3>. QED BY <2>3, <3>1, <3>2
  <2>. QED BY <2>4, <2>5
<1>15. CASE Killed
  BY <1>15 DEF Killed
<1>16. CASE \/ UNCHANGED crayvars
            \/ \E k \in Colours : TxPicks(k)
            \/ TxMarks
            \/ TxLeaves
            \/ TxSignals
            \/ DispTakesOwn
            \/ DispPaints
            \/ DispMarks
            \/ DispFlushes
            \/ AppSends
            \/ DispSleeps
            \/ DispSignals
            \/ LinkDrops
            \/ cmd_display
  <2>1. UNCHANGED <<main, queue, config>>
    BY <1>16 DEF crayvars, net, config, colours, ends, dvars, TxPicks, TxMarks, TxLeaves, TxSignals, DispTakesOwn, DispPaints, DispMarks, DispFlushes, AppSends, DispSleeps, DispSignals, LinkDrops, cmd_display
  <2>. QED BY <1>0, <2>1
<1> HIDE DEF QueueAt, Underway, FromPeer, config, queue
<1>. QED
  BY CraySteps, <1>1, <1>2, <1>3, <1>4, <1>5, <1>6, <1>7, <1>8, <1>9, <1>10, <1>11, <1>12, <1>13, <1>14, <1>15, <1>16, <1>17

\* What draw_block() does to the blocks ...
LEMMA Paints ==
  ASSUME CrayTyping, JobAt, DispPaints
  PROVE  LET b == job.block
             c == IF job.colours = None THEN g_my_colors ELSE job.colours
         IN  /\ job # None /\ b \in Block /\ ~Drawing(app) /\ Drawing(app)'
             /\ b % g_maxnodes = job.node
             /\ framebuffer'[b] = c /\ \A d \in Block \ {b} : framebuffer'[d] = framebuffer[d]
             /\ UNCHANGED <<main, tx, job, colours, config>>
<1>1. job # None
  BY DEF DispPaints, CrayTyping, PaintTyping
<1>2. ~Drawing(app) /\ Drawing(app)'
  <2>1. PICK y \in Row : Stores(app, y, y)
    BY RowOfBlock DEF DispPaints
  <2>2. drawing'[app] = <<y, y>>
    BY <2>1, AppUser DEF Stores, CrayTyping, DisplayTypeOK
  <2>3. <<y, y>> # None
    BY DisplayAssumption DEF Row
  <2>. QED BY <2>1, <2>2, <2>3 DEF Stores, Drawing
<1>. QED
  BY <1>1, <1>2 DEF DispPaints, JobAt, CrayTyping, GridTyping

\* ... and where the paint is once the block is marked.
LEMMA GoesOn ==
  ASSUME CrayTyping, ThreadsAt, DrawsAt, JobAt, DispMarks
  PROVE  /\ job # None /\ job.block \in Block /\ Drawing(app) /\ ~Drawing(app)'
         /\ job.block \in Nat /\ job.block % g_maxnodes = job.node
         /\ job' # None /\ job'.node = job.node /\ job'.colours = job.colours
         /\ job'.block = job.block + g_maxnodes
         /\ UNCHANGED <<main, tx, colours, config, framebuffer>>
<1>1. job \in Jobs /\ job # None /\ job' = [job EXCEPT !.block = @ + g_maxnodes]
  BY DEF DispMarks, CrayTyping, PaintTyping
<1>2. job' \in Jobs
  BY <1>1 DEF Jobs, CrayTyping, ConfigTyping
<1>3. job'.node = job.node /\ job'.colours = job.colours /\ job'.block = job.block + g_maxnodes
  BY <1>1 DEF Jobs
<1>4. Drawing(app) /\ ~Drawing(app)' /\ job.block \in Block
  BY AppUser DEF DispMarks, Marks, Drawing, DrawsAt, ThreadsAt, CrayTyping, DisplayTypeOK
<1>. QED
  BY <1>1, <1>2, <1>3, <1>4, NoneAssumption DEF DispMarks, JobAt

\* No block of a node lies between where a paint of the node is and where it
\* goes on.
LEMMA NoneBetween ==
  ASSUME CrayTyping, NEW b \in Block, NEW c \in Nat, b % g_maxnodes = c % g_maxnodes, b < c + g_maxnodes
  PROVE  b = c \/ b < c
<1>1. b \in Nat /\ g_maxnodes \in Nat \ {0}
  BY DEF Block, CrayTyping, ConfigTyping
<1>2. c <= b => b = c
  BY <1>1, NodeBlocks
<1>. QED BY <1>1, <1>2

\* A paint that has passed the last block has passed them all.
LEMMA AllPassed ==
  ASSUME NEW c \in Nat, c \notin Block
  PROVE  \A b \in Block : b < c
<1>1. GRID_COLS * GRID_ROWS \in Nat
  BY CrayAssumption, DisplayAssumption
<1>. QED BY <1>1 DEF Block

\* Nobody else stores or marks for the application.
LEMMA OwnPixels ==
  ASSUME CrayTyping,
         \/ UNCHANGED crayvars
         \/ \E k \in Colours : TxPicks(k)
         \/ TxMarks
         \/ TxLeaves
         \/ TxSignals
         \/ AppSends
         \/ DispSleeps
         \/ DispSignals
         \/ \E s \in Senders, k \in Colours : mcast_recv_cb(s, k)
         \/ LinkDrops
         \/ cmd_display
  PROVE  drawing'[app] = drawing[app]
<1>1. CASE cmd_display
  <2>1. \A u \in User : Marks(u) => drawing' = [drawing EXCEPT ![u] = None]
    BY DEF Marks
  <2>2. \A u \in User, y \in Row, z \in Row : Stores(u, y, z) => drawing' = [drawing EXCEPT ![u] = <<y, z>>]
    BY DEF Stores
  <2>3. FlushBegins(shell) \/ FlushRow(shell) \/ FlushEnds(shell) => drawing' = drawing
    BY DEF FlushBegins, FlushRow, FlushEnds
  <2>. QED BY <1>1, <2>1, <2>2, <2>3, AppUser DEF cmd_display, CrayTyping, DisplayTypeOK
<1>2. CASE ~cmd_display
  BY <1>2 DEF crayvars, dvars, TxPicks, TxMarks, TxLeaves, TxSignals, AppSends, FlushRow, FlushEnds, DispSleeps, DispSignals, mcast_recv_cb, LinkDrops
<1>. QED BY <1>1, <1>2

LEMMA StepOwn ==
  ASSUME CrayTyping, ThreadsAt, DrawsAt, JobAt, OwnAt, [CrayNext]_crayvars
  PROVE  OwnAt'
<1> USE DEF OwnAt, Passed, Drawing, Gridded, Stages, Underway, Painting, BlocksOf, MainAt, Aborts, config, colours, dvars
<1>0. CASE UNCHANGED <<main, tx, job, config, colours, framebuffer, drawing[app]>>
  BY <1>0
<1>1. ASSUME NEW c \in Configs, Launches(c) PROVE OwnAt'
  BY <1>1 DEF Launches
<1>2. CASE Associates
  BY <1>2 DEF Associates
<1>3. ASSUME NEW k \in Colours, ClearsGrid(k) PROVE OwnAt'
  BY <1>3 DEF ClearsGrid
<1>23. CASE draw_initial_grid
  <2>1. job = None /\ UNCHANGED <<config, job>>
    BY <1>23 DEF draw_initial_grid, ThreadsAt
  <2>. QED BY <1>23, <2>1 DEF draw_initial_grid
<1>4. CASE FlushesGrid
  BY <1>4 DEF FlushesGrid, FlushBegins
<1>5. CASE ClosesOld
  BY <1>5 DEF ClosesOld
<1>6. CASE Opens
  BY <1>6 DEF Opens
<1>7. CASE OpenFails
  BY <1>7 DEF OpenFails
<1>8. CASE KeepsHandle
  BY <1>8 DEF KeepsHandle
<1>9. CASE InitsShared
  BY <1>9 DEF InitsShared
<1>10. CASE SpawnsTx
  BY <1>10 DEF SpawnsTx, ThreadsAt
<1>11. CASE SpawnsDisp
  BY <1>11 DEF SpawnsDisp
<1>12. CASE Cleans
  BY <1>12 DEF Cleans
<1>13. ASSUME NEW k \in Colours, TxPicks(k) PROVE OwnAt'
  BY <1>13 DEF TxPicks, ThreadsAt
<1>14. CASE TxMarks
  BY <1>14 DEF TxMarks, ThreadsAt
<1>15. CASE TxLeaves
  BY <1>15 DEF TxLeaves
<1>16. CASE TxSignals
  BY <1>16 DEF TxSignals
<1>17. CASE DispTakesOwn
  <2>1. job' = [node |-> g_nodeid, block |-> g_nodeid, colours |-> None]
    BY <1>17 DEF DispTakesOwn, PaintOf
  <2>2. job' # None
    BY <2>1, NoneAssumption DEF Jobs, CrayTyping, ConfigTyping
  <2>3. ASSUME NEW b \in Block, b % g_maxnodes = g_nodeid PROVE ~(b < g_nodeid)
    <3>1. b \in Nat /\ g_maxnodes \in Nat \ {0} /\ g_nodeid \in Nat /\ g_nodeid < g_maxnodes
      BY DEF Block, CrayTyping, ConfigTyping
    <3>2. b \in 0..g_maxnodes-1 => b % g_maxnodes = b
      BY <3>1, NodeBlocks
    <3>. QED BY <2>3, <3>1, <3>2
  <2>4. ~Drawing(app) /\ UNCHANGED drawing
    BY <1>17 DEF DispTakesOwn, DrawsAt, ThreadsAt
  <2>. QED BY <1>17, <2>1, <2>2, <2>3, <2>4 DEF DispTakesOwn
<1>18. CASE DispTakesPeer
  <2>1. job = None
    BY <1>18 DEF DispTakesPeer, ThreadsAt
  <2>. QED BY <1>18, <2>1 DEF DispTakesPeer
<1>19. CASE DispPaints
  <2> DEFINE c == IF job.colours = None THEN g_my_colors ELSE job.colours
  <2>1. /\ job # None /\ job.block \in Block /\ ~Drawing(app) /\ Drawing(app)'
        /\ job.block % g_maxnodes = job.node
        /\ framebuffer'[job.block] = c
        /\ \A d \in Block \ {job.block} : framebuffer'[d] = framebuffer[d]
        /\ UNCHANGED <<main, tx, job, colours, config>>
    BY <1>19, Paints
  <2>2. job.colours = None <=> job.node = g_nodeid
    BY <2>1 DEF JobAt
  <2>3. ASSUME NEW b \in Block, b % g_maxnodes = g_nodeid,
               job.node = g_nodeid => b < job.block \/ b = job.block,
               \A d \in BlocksOf(g_nodeid) : (Painting(g_nodeid) => Passed(d)) => framebuffer[d] = g_my_colors
        PROVE  framebuffer'[b] = g_my_colors
    <3>1. CASE b = job.block
      BY <2>1, <2>2, <2>3, <3>1
    <3>2. CASE b # job.block
      BY <2>1, <2>3, <3>2
    <3>. QED BY <3>1, <3>2
  <2> HIDE DEF c
  <2>4. CASE main \in Gridded /\ ~(Underway /\ (g_my_colors_dirty \/ tx = "picked"))
    <3>1. \A d \in BlocksOf(g_nodeid) : (Painting(g_nodeid) => Passed(d)) => framebuffer[d] = g_my_colors
      BY <2>4
    <3>2. \A b \in Block : b % g_maxnodes = g_nodeid /\ (job.node = g_nodeid => b < job.block \/ b = job.block)
                             => framebuffer'[b] = g_my_colors
      BY <2>3, <3>1
    <3>. QED BY <2>1, <3>2
  <2>. QED BY <2>1, <2>4
<1>24. CASE DispMarks
  <2>1. /\ job # None /\ job.block \in Block /\ Drawing(app) /\ ~Drawing(app)'
        /\ job.block \in Nat /\ job.block % g_maxnodes = job.node
        /\ job' # None /\ job'.node = job.node
        /\ job'.block = job.block + g_maxnodes
        /\ UNCHANGED <<main, tx, colours, config, framebuffer>>
    BY <1>24, GoesOn
  <2>2. ASSUME NEW b \in Block, b % g_maxnodes = g_nodeid, Painting(g_nodeid), b < job'.block PROVE Passed(b)
    BY <2>1, <2>2, NoneBetween
  <2>3. Painting(g_nodeid)' <=> Painting(g_nodeid)
    BY <2>1
  <2>4. \A b \in Block : Passed(b)' => b < job'.block
    BY <2>1
  <2>. QED BY <2>1, <2>2, <2>3, <2>4
<1>20. CASE DispFlushes
  <2>1. job # None /\ job.block \notin Block /\ job' = None /\ UNCHANGED <<main, tx, colours, config, framebuffer>>
    BY <1>20 DEF DispFlushes, CrayTyping, PaintTyping
  <2>2. \A b \in Block : b < job.block
    BY <2>1, AllPassed DEF JobAt
  <2>. QED BY <2>1, <2>2
<1>21. CASE Killed
  BY <1>21 DEF Killed
<1>22. CASE \/ UNCHANGED crayvars
            \/ AppSends
            \/ DispSleeps
            \/ DispSignals
            \/ \E s \in Senders, k \in Colours : mcast_recv_cb(s, k)
            \/ LinkDrops
            \/ cmd_display
  <2>1. UNCHANGED <<main, tx, job, config, colours, framebuffer>>
    BY <1>22 DEF crayvars, net, config, colours, ends, dvars, AppSends, DispSleeps, DispSignals, mcast_recv_cb, LinkDrops, cmd_display
  <2>2. drawing'[app] = drawing[app]
    BY <1>22, OwnPixels
  <2>. QED BY <1>0, <2>1, <2>2
<1> HIDE DEF OwnAt, Passed, Drawing, Gridded, Stages, Underway, Painting, BlocksOf, MainAt, Aborts, config, colours, dvars
<1>. QED
  BY CraySteps, <1>1, <1>2, <1>3, <1>4, <1>5, <1>6, <1>7, <1>8, <1>9, <1>10, <1>11, <1>12, <1>13, <1>14, <1>15, <1>16, <1>17, <1>18, <1>19, <1>20, <1>21, <1>22, <1>23, <1>24

LEMMA StepPeers ==
  ASSUME CrayTyping, ThreadsAt, DrawsAt, QueueAt, JobAt, PeersAt, JobAt', [CrayNext]_crayvars
  PROVE  PeersAt'
<1> USE DEF PeersAt, Passed, Drawing, Gridded, Stages, Painting, BlocksOf, MainAt, Aborts, config, dvars
<1>0. CASE UNCHANGED <<main, job, config, framebuffer, drawing[app]>>
  BY <1>0
<1>1. ASSUME NEW c \in Configs, Launches(c) PROVE PeersAt'
  BY <1>1 DEF Launches
<1>2. CASE Associates
  BY <1>2 DEF Associates
<1>3. ASSUME NEW k \in Colours, ClearsGrid(k) PROVE PeersAt'
  BY <1>3 DEF ClearsGrid
<1>23. CASE draw_initial_grid
  <2>1. job = None /\ UNCHANGED <<config, job>>
    BY <1>23 DEF draw_initial_grid, ThreadsAt
  <2>. QED BY <1>23, <2>1 DEF draw_initial_grid
<1>4. CASE FlushesGrid
  BY <1>4 DEF FlushesGrid, FlushBegins
<1>5. CASE ClosesOld
  BY <1>5 DEF ClosesOld
<1>6. CASE Opens
  BY <1>6 DEF Opens
<1>7. CASE OpenFails
  BY <1>7 DEF OpenFails
<1>8. CASE KeepsHandle
  BY <1>8 DEF KeepsHandle
<1>9. CASE InitsShared
  BY <1>9 DEF InitsShared
<1>10. CASE SpawnsTx
  BY <1>10 DEF SpawnsTx
<1>11. CASE SpawnsDisp
  BY <1>11 DEF SpawnsDisp
<1>12. CASE Cleans
  BY <1>12 DEF Cleans
<1>13. CASE DispTakesOwn
  <2>1. job = None /\ job' = [node |-> g_nodeid, block |-> g_nodeid, colours |-> None]
    BY <1>13 DEF DispTakesOwn, PaintOf, ThreadsAt
  <2>. QED BY <1>13, <2>1 DEF DispTakesOwn
<1>14. CASE DispTakesPeer
  <2> DEFINE m == Head(g_rx_mq)
  <2>1. job = None /\ job' = [node |-> m[1], block |-> m[1], colours |-> m[2]]
        /\ UNCHANGED <<main, config, framebuffer>>
    BY <1>14 DEF DispTakesPeer, PaintOf, ThreadsAt
  <2>2. job'.node = m[1] /\ job'.block = m[1]
    BY <2>1
  <2>3. ASSUME NEW b \in Block, NEW n \in 0..g_maxnodes-1, b % g_maxnodes = n PROVE ~(b < n)
    <3>1. b \in Nat /\ g_maxnodes \in Nat \ {0}
      BY DEF Block, CrayTyping, ConfigTyping
    <3>2. b \in 0..g_maxnodes-1 => b % g_maxnodes = b
      BY <3>1, NodeBlocks
    <3>. QED BY <2>3, <3>1, <3>2
  <2>4. ~Drawing(app) /\ UNCHANGED drawing
    BY <1>14 DEF DispTakesPeer, DrawsAt, ThreadsAt
  <2> HIDE DEF m
  <2>. QED BY <2>1, <2>2, <2>3, <2>4
<1>15. CASE DispPaints
  <2> DEFINE c == IF job.colours = None THEN g_my_colors ELSE job.colours
  <2>1. /\ job # None /\ job.block \in Block /\ ~Drawing(app) /\ Drawing(app)'
        /\ job.block % g_maxnodes = job.node
        /\ framebuffer'[job.block] = c
        /\ \A d \in Block \ {job.block} : framebuffer'[d] = framebuffer[d]
        /\ UNCHANGED <<main, tx, job, colours, config>>
    BY <1>15, Paints
  <2>2. job.colours = None <=> job.node = g_nodeid
    BY <2>1 DEF JobAt
  <2> HIDE DEF c
  <2>3. ASSUME main \in Gridded, NEW n \in 0..g_maxnodes-1, n # g_nodeid, n = job.node,
               NEW b \in Block, b % g_maxnodes = n, b < job.block \/ b = job.block
        PROVE  framebuffer'[b] = job.colours
    <3>1. CASE b = job.block
      BY <2>1, <2>2, <2>3, <3>1 DEF c
    <3>2. CASE b # job.block
      BY <2>1, <2>3, <3>2
    <3>. QED BY <3>1, <3>2
  <2>4. ASSUME main \in Gridded, NEW n \in 0..g_maxnodes-1, n # g_nodeid, n # job.node,
               NEW b \in Block, NEW d \in Block, b % g_maxnodes = n, d % g_maxnodes = n
        PROVE  framebuffer'[b] = framebuffer'[d]
    <3>1. framebuffer[b] = framebuffer[d]
      BY <2>4
    <3>. QED BY <2>1, <2>4, <3>1
  <2>. QED BY <2>1, <2>3, <2>4
<1>19. CASE DispMarks
  <2>1. /\ job # None /\ job.block \in Block /\ Drawing(app) /\ ~Drawing(app)'
        /\ job.block \in Nat /\ job.block % g_maxnodes = job.node
        /\ job' # None /\ job'.node = job.node /\ job'.colours = job.colours
        /\ job'.block = job.block + g_maxnodes
        /\ UNCHANGED <<main, colours, config, framebuffer>>
    BY <1>19, GoesOn
  <2>2. ASSUME NEW b \in Block, b % g_maxnodes = job.node, b < job'.block PROVE Passed(b)
    BY <2>1, <2>2, NoneBetween
  <2>3. \A n : Painting(n)' <=> Painting(n)
    BY <2>1
  <2>4. \A b \in Block : Passed(b)' => b < job'.block
    BY <2>1
  <2>. QED BY <2>1, <2>2, <2>3, <2>4
<1>16. CASE DispFlushes
  <2>1. job # None /\ job.block \notin Block /\ job' = None /\ UNCHANGED <<main, config, framebuffer>>
    BY <1>16 DEF DispFlushes, CrayTyping, PaintTyping
  <2>2. \A b \in Block : b < job.block
    BY <2>1, AllPassed DEF JobAt
  <2>. QED BY <2>1, <2>2
<1>17. CASE Killed
  BY <1>17 DEF Killed
<1>18. CASE \/ UNCHANGED crayvars
            \/ \E k \in Colours : TxPicks(k)
            \/ TxMarks
            \/ TxLeaves
            \/ TxSignals
            \/ AppSends
            \/ DispSleeps
            \/ DispSignals
            \/ \E s \in Senders, k \in Colours : mcast_recv_cb(s, k)
            \/ LinkDrops
            \/ cmd_display
  <2>1. UNCHANGED <<main, job, config, framebuffer>>
    BY <1>18 DEF crayvars, net, config, colours, ends, dvars, TxPicks, TxMarks, TxLeaves, TxSignals, AppSends, DispSleeps, DispSignals, mcast_recv_cb, LinkDrops, cmd_display
  <2>2. drawing'[app] = drawing[app]
    BY <1>18, OwnPixels
  <2>. QED BY <1>0, <2>1, <2>2
<1> HIDE DEF PeersAt, Passed, Drawing, Gridded, Stages, Painting, BlocksOf, MainAt, Aborts, config, dvars
<1>. QED
  BY CraySteps, <1>1, <1>2, <1>3, <1>4, <1>5, <1>6, <1>7, <1>8, <1>9, <1>10, <1>11, <1>12, <1>13, <1>14, <1>15, <1>16, <1>17, <1>18, <1>19, <1>23

-----------------------------------------------------------------------------
(* The theorems.                                                           *)

CrayInv == CrayTyping /\ ThreadsAt /\ DrawsAt /\ QueueAt /\ JobAt /\ OwnAt /\ PeersAt

LEMMA CrayInvariant == CraySpec => []CrayInv
<1>1. CrayInit => CrayInv
  <2> SUFFICES ASSUME CrayInit PROVE CrayInv
    OBVIOUS
  <2>1. CrayTyping
    BY InitTyping
  <2>2. main = "off" /\ tx = "none" /\ disp = "none" /\ job = None /\ ~sized /\ ~Drawing(app)
    BY AppUser DEF CrayInit, DisplayInit, Drawing
  <2>. QED
    BY <2>1, <2>2 DEF CrayInv, ThreadsAt, DrawsAt, QueueAt, JobAt, OwnAt, PeersAt, Underway, Gridded
<1>2. CrayInv /\ [CrayNext]_crayvars => CrayInv'
  <2> SUFFICES ASSUME CrayInv, [CrayNext]_crayvars PROVE CrayInv'
    OBVIOUS
  <2> USE DEF CrayInv
  <2>1. CrayTyping' /\ ThreadsAt' /\ DrawsAt'
    BY StepTyping, StepThreads, StepDraws
  <2>2. QueueAt' /\ JobAt'
    BY StepQueue, StepJob
  <2>3. OwnAt' /\ PeersAt'
    BY <2>2, StepOwn, StepPeers
  <2>. QED BY <2>1, <2>2, <2>3
<1>. QED BY <1>1, <1>2, PTL DEF CraySpec

\* cray-one, its queue and the driver keep their types: the rows a flush is
\* told are rows of the panel, the queue is never longer than it may be, and
\* a paint stays in the grid, whatever the cluster and the sizes.
THEOREM CrayTypes == CraySpec => []CrayTypeOK
<1>1. CrayInv => CrayTypeOK
  BY DEF CrayInv, CrayTyping, CrayTypeOK, NetTyping, ColourTyping, GridTyping, QueueTyping, EndsTyping, Messages
<1>. QED BY <1>1, CrayInvariant, PTL

\* The grid shows whole announcements, each in the blocks of its node
\* (paint_node_blocks(), draw_initial_grid()): for any grid, number of nodes,
\* queue and sets of colours, whatever is killed, dropped or drawn over.
THEOREM GridFollows == CraySpec => []BlocksFollow
<1>1. CrayInv => BlocksFollow
  <2> SUFFICES ASSUME CrayInv, Underway PROVE BlocksFollow
    BY DEF BlocksFollow
  <2>1. main \in Gridded
    BY DEF Underway, Gridded, Stages
  <2>2. g_my_colors_dirty \/ tx = "picked" \/ Painting(g_nodeid)
          \/ \A b \in BlocksOf(g_nodeid) : framebuffer[b] = g_my_colors
    BY <2>1 DEF CrayInv, OwnAt
  <2>3. \A n \in 0..g_maxnodes-1 :
          n = g_nodeid \/ Painting(n) \/ \A b, d \in BlocksOf(n) : framebuffer[b] = framebuffer[d]
    BY <2>1 DEF CrayInv, PeersAt
  <2>. QED BY <2>2, <2>3 DEF BlocksFollow
<1>. QED BY <1>1, CrayInvariant, PTL

\* As long as the shell does not draw while cray-one runs, every row that the
\* next display_flush_fb() leaves out is on the panel already, or stored by a
\* primitive that has not marked it yet, or was left so by a kill; and none is
\* left so once a run has drawn its grid.
THEOREM PanelIsCurrent ==
  ASSUME "display" \notin Overlap
  PROVE  CraySpec => []PanelCurrent
<1> DEFINE Panel == FlushesInTurn /\ SentShown /\ PanelFollows /\ MissedAt
<1>1. CrayInit => Panel
  <2> SUFFICES ASSUME CrayInit PROVE Panel
    OBVIOUS
  <2>1. \A u \in User : ~Flushing(u) /\ ~Drawing(u)
    BY DEF CrayInit, DisplayInit, Flushing, Drawing
  <2>2. shown = Row /\ missed = {}
    BY DEF CrayInit, DisplayInit
  <2>. QED BY <2>1, <2>2, AppUser DEF FlushesInTurn, InDriver, SentShown, PanelFollows, MissedAt
<1>2. CrayInv /\ Panel /\ [CrayNext]_crayvars => Panel'
  <2> SUFFICES ASSUME CrayInv, Panel, [CrayNext]_crayvars PROVE Panel'
    OBVIOUS
  <2>1. FlushesInTurn'
    BY StepFlushes DEF CrayInv
  <2>2. (SentShown /\ PanelFollows)'
    BY StepPanel DEF CrayInv
  <2>3. MissedAt'
    BY StepMissed DEF CrayInv
  <2>. QED BY <2>1, <2>2, <2>3
<1>3. Panel => PanelCurrent
  BY DEF MissedAt, PanelCurrent, Underway, Stages
<1> HIDE DEF Panel
<1>. QED BY <1>1, <1>2, <1>3, CrayInvariant, PTL DEF CraySpec

\* Every open socket can be closed by the next run, but one that a kill has
\* cut off between wifi_mcast_open() and the store of its handle; and one is
\* open for as long as cray_tx_thread() may send on it.
THEOREM SocketIsKept == CraySpec => []SocketKept
<1>1. CrayInit => SocketAt
  BY DEF CrayInit, SocketAt
<1>2. CrayInv /\ SocketAt /\ [CrayNext]_crayvars => SocketAt'
  BY StepSocket DEF CrayInv
<1>3. CrayInv /\ SocketAt => SocketKept
  BY DEF CrayInv, ThreadsAt, SocketAt, SocketKept
<1>. QED BY <1>1, <1>2, <1>3, CrayInvariant, PTL DEF CraySpec
=============================================================================

----------------------------- MODULE ContProofs -----------------------------
(***************************************************************************)
(* Continuous scanning, for any number of processes, any networks and any  *)
(* modulus of the counters: what every service that makes only the steps   *)
(* of ContNext keeps.                                                      *)
(*                                                                         *)
(* The argument.  Whoever is between the claim and the end of a start has  *)
(* g_cont_lock, so a mode that was found off stays off (Claims).  A list   *)
(* in a reader's hand is the held one, which neither the interrupt nor     *)
(* publishing touches (Held); only a take and a start move it, and while   *)
(* the mode is on only one thread can take (OneEngaged).                   *)
(***************************************************************************)
EXTENDS ContScan, TLAPS

\* A start that is under way has the lock, and found the mode off.
Claims == \A c \in Client :
  /\ pc[c] \in {"start", "claimed", "armed"} => g_cont_lock = c
  /\ pc[c] = "claimed" => ~g_cont
  /\ pc[c] = "armed"   => g_cont
  /\ pc[c] \in {"claimed", "armed"} => g_listen = Null

\* A listener lives from its creation until it signs off, and has a list only
\* while it is in its callback.
Listeners == \A c \in Client :
  /\ pc[Listener(c)] \in {"none", "wait", "woken", "called", "leave"}
  /\ pc[Listener(c)] # "none" => g_listen = c
  /\ reads[Listener(c)] # Null => pc[Listener(c)] = "called"

\* One subscriber at most, and none before its start is over.
OneEngaged ==
  /\ g_cont => \A v, w \in Waiter : Engaged(v) /\ Engaged(w) => v = w
  /\ \A c \in Client, w \in Waiter : pc[c] = "armed" => ~Engaged(w)

\* A list in a reader's hand is the held one, as it was when it was taken.
Held == \A w \in Waiter :
  reads[w] # Null => reads[w] = [list |-> sb.held, seen |-> lists[sb.held]]

ReadInv == Listeners /\ OneEngaged /\ Held

-----------------------------------------------------------------------------
(* The three windows *)

\* The counters wrap.
LEMMA IncrementedType == ASSUME NEW n \in Counter PROVE Incremented(n) \in Counter
BY WrapAssumption DEF Counter, Incremented

\* Publishing exchanges fill and ready; held stays where it is.
LEMMA PublishKeeps ==
  ASSUME NEW b \in ScanBufType, Distinct(b)
  PROVE  /\ scanbuf_publish(b) \in ScanBufType /\ Distinct(scanbuf_publish(b))
         /\ scanbuf_publish(b).fill = b.ready /\ scanbuf_publish(b).ready = b.fill
         /\ scanbuf_publish(b).held = b.held /\ scanbuf_publish(b).fresh = TRUE
         /\ scanbuf_publish(b).seq = Incremented(b.seq)
         /\ scanbuf_publish(b).dropped = IF b.fresh THEN Incremented(b.dropped)
                                                    ELSE b.dropped
<1>1. Incremented(b.seq) \in Counter /\ Incremented(b.dropped) \in Counter
  BY IncrementedType DEF ScanBufType
<1>. QED BY <1>1 DEF ScanBufType, scanbuf_publish, Distinct

\* Taking a fresh window exchanges ready and held; fill stays where it is.
LEMMA TakeKeeps ==
  ASSUME NEW b \in ScanBufType, Distinct(b), b.fresh
  PROVE  /\ scanbuf_take(b) \in ScanBufType /\ Distinct(scanbuf_take(b))
         /\ scanbuf_take(b).fill = b.fill /\ scanbuf_take(b).ready = b.held
         /\ scanbuf_take(b).held = b.ready /\ scanbuf_take(b).fresh = FALSE
         /\ scanbuf_take(b).seq = b.seq /\ scanbuf_take(b).dropped = b.dropped
BY DEF ScanBufType, scanbuf_take, Distinct

\* A new session starts with the three lists apart.
LEMMA InitKeeps == scanbuf_init \in ScanBufType /\ Distinct(scanbuf_init)
BY WrapAssumption DEF scanbuf_init, ScanBufType, Distinct, List, Counter

\* The threads of the processes and the poll thread are all different.
LEMMA Actors ==
  /\ \A c \in Client : /\ Listener(c) \in Waiter /\ Listener(c) \notin Client
                       /\ Listener(c) # Poll /\ c # Poll
                       /\ \A d \in Client : Listener(c) = Listener(d) => c = d
  /\ Waiter \subseteq Actor /\ Client \subseteq Waiter /\ Poll \in Actor /\ Poll \notin Waiter
  /\ \A w \in Waiter : w \in Client \/ \E c \in Client : w = Listener(c)
BY ContAssumption DEF Listener, Waiter, Actor

-----------------------------------------------------------------------------
(* Types *)

\* After scan_init() every variable has its type.
LEMMA InitType == ContInit => ContTypeOK
BY InitKeeps, Actors DEF ContInit, ContTypeOK, List

\* The steps of a start keep the types.
LEMMA StartsType ==
  ASSUME ContTypeOK, NEW c \in Client, Starts(c)
  PROVE  ContTypeOK'
<1>1. c \in Actor /\ Listener(c) \in Actor
  BY Actors
<1>2. Reset => sb' \in ScanBufType /\ Distinct(sb') /\ lists' \in [List -> SUBSET Net]
  BY InitKeeps DEF Reset
<1>3. CASE StartClaims(c) /\ (Stopped \/ UNCHANGED mode)
  BY <1>1, <1>3 DEF StartClaims, Goes, Stopped, mode, ContTypeOK
<1>4. CASE StartFails(c, "start") /\ UNCHANGED <<session, reads>>
  BY <1>1, <1>4 DEF StartFails, Goes, session, ContTypeOK
<1>5. CASE ~Busy /\ Goes(c, "start", "claimed") /\ UNCHANGED <<session, g_cont_lock, reads>>
  BY <1>1, <1>5 DEF Goes, session, ContTypeOK
<1>6. CASE /\ Reset /\ tgt_cont' = TRUE
           /\ reads' = [reads EXCEPT ![c] = Null]
           /\ \/ Goes(c, "claimed", "armed") /\ StartOwns(c) /\ UNCHANGED g_cont_lock
              \/ StartFails(c, "claimed") /\ UNCHANGED mode
           /\ UNCHANGED g_listen
  BY <1>1, <1>2, <1>6 DEF Goes, StartOwns, OwnFlags, StartFails, mode, ContTypeOK
<1>7. CASE StartReturns(c)
  BY <1>1, <1>7 DEF StartReturns, Goes, session, ContTypeOK
<1>8. CASE StartListens(c)
  BY <1>1, <1>8 DEF StartListens, ContTypeOK
<1>9. CASE StartNoListener(c)
  BY <1>1, <1>9 DEF StartNoListener, StartFails, Goes, Stopped, ContTypeOK
<1>. QED BY <1>3, <1>4, <1>5, <1>6, <1>7, <1>8, <1>9 DEF Starts

\* So do waiting, taking a window and the callback.
LEMMA WaitsType ==
  ASSUME ContTypeOK, NEW c \in Client, Waits(c)
  PROVE  ContTypeOK'
<1>1. c \in Waiter /\ Listener(c) \in Waiter /\ Waiter \subseteq Actor
  BY Actors
<1>2. CASE WaitCalls(c)
  BY <1>1, <1>2 DEF WaitCalls, Goes, session, ContTypeOK
<1>3. CASE CallbackReturns(c)
  BY <1>1, <1>3 DEF CallbackReturns, Goes, session, ContTypeOK
<1>4. CASE ListenerLeaves(c)
  BY <1>1, <1>4 DEF ListenerLeaves, Goes, ContTypeOK
<1>5. ASSUME NEW w \in {c, Listener(c)}, WaitWakes(w)
      PROVE  ContTypeOK'
  BY <1>1, <1>5 DEF WaitWakes, Goes, session, ContTypeOK
<1>6. ASSUME NEW w \in {c, Listener(c)}, WaitTakes(w)
      PROVE  ContTypeOK'
  <2>1. w \in Waiter /\ w \in Actor
    BY <1>1
  <2>2. AfterWait(w, g_cont /\ sb.fresh) \in {"idle", "leave", "sub", "called", "wait"}
    BY DEF AfterWait
  <2>3. /\ pc' = [pc EXCEPT ![w] = AfterWait(w, g_cont /\ sb.fresh)]
        /\ flags' = Cleared
        /\ UNCHANGED <<lists, g_cont, g_owner, g_listen, g_cont_lock, tgt_cont>>
    BY <1>6 DEF WaitTakes
  <2>4. CASE g_cont /\ sb.fresh
    <3>1. /\ sb' = scanbuf_take(sb)
          /\ reads' = [reads EXCEPT ![w] = [list |-> sb'.held, seen |-> lists[sb'.held]]]
      BY <1>6, <2>4 DEF WaitTakes
    <3>2. sb' \in ScanBufType /\ Distinct(sb') /\ sb'.held \in List
      BY <2>4, <3>1, TakeKeeps DEF ContTypeOK, ScanBufType
    <3>. QED BY <2>1, <2>2, <2>3, <3>1, <3>2 DEF ContTypeOK, Cleared
  <2>5. CASE ~(g_cont /\ sb.fresh)
    <3>1. UNCHANGED <<sb, reads>>
      BY <1>6, <2>5 DEF WaitTakes
    <3>. QED BY <2>1, <2>2, <2>3, <3>1 DEF ContTypeOK, Cleared
  <2>. QED BY <2>4, <2>5
<1>. QED BY <1>2, <1>3, <1>4, <1>5, <1>6 DEF Waits

\* So does the poll thread.
LEMMA PollsType ==
  ASSUME ContTypeOK, Polls
  PROVE  ContTypeOK'
<1>1. Poll \in Actor
  BY Actors
<1>2. CASE /\ pc[Poll] \in PollPcs /\ \E p \in PollPcs : pc' = [pc EXCEPT ![Poll] = p]
           /\ UNCHANGED mode \/ (g_cont_lock = Null /\ Stopped)
           /\ UNCHANGED <<sb, lists, g_listen, g_cont_lock, tgt_cont, reads>>
  BY <1>1, <1>2 DEF PollPcs, Stopped, mode, ContTypeOK
<1>3. ASSUME NEW from \in {"idle", "cont"}, NEW ends \in BOOLEAN, Publishes(from, ends),
             tgt_cont' \in BOOLEAN, UNCHANGED <<mode, g_listen, g_cont_lock, reads>>
      PROVE  ContTypeOK'
  <2>1. CASE ends
    <3>1. sb' \in ScanBufType /\ Distinct(sb')
      <4>1. sb' = scanbuf_publish(sb)
        BY <1>3, <2>1 DEF Publishes
      <4>2. sb \in ScanBufType /\ Distinct(sb)
        BY DEF ContTypeOK
      <4>. QED BY <4>1, <4>2, PublishKeeps
    <3>2. lists' \in [List -> SUBSET Net]
      BY <1>3, <2>1 DEF Publishes, EmptiedFill, ContTypeOK
    <3>. QED BY <1>1, <1>3, <2>1, <3>1, <3>2 DEF Publishes, Goes, mode, ContTypeOK
  <2>2. CASE ~ends
    BY <1>1, <1>3, <2>2 DEF Publishes, Goes, mode, ContTypeOK
  <2>. QED BY <2>1, <2>2
<1>4. CASE PollSignals
  BY <1>1, <1>4 DEF PollSignals, Goes, Signalled, ContTypeOK
<1>. QED BY <1>2, <1>3, <1>4 DEF Polls

\* Every step keeps the types.
LEMMA NextType == ContTypeOK /\ [ContNext]_cvars => ContTypeOK'
<1> SUFFICES ASSUME ContTypeOK, [ContNext]_cvars PROVE ContTypeOK'
  OBVIOUS
<1>1. ASSUME NEW c \in Client, Stops(c) PROVE ContTypeOK'
  BY <1>1, Actors DEF Stops, Stop, Stopped, mode, ContTypeOK
<1>2. ASSUME NEW c \in Client, Once(c) PROVE ContTypeOK'
  <2>1. PICK p \in OncePcs : pc' = [pc EXCEPT ![c] = p]
    BY <1>2 DEF Once
  <2>2. pc' \in [Actor -> {"none", "idle", "sub", "wait", "woken", "called", "leave", "start",
                           "claimed", "armed", "checked", "scanning", "joining", "noticed", "unlinked",
                           "cont", "publish"}]
    BY <2>1 DEF OncePcs, ContTypeOK
  <2>3. g_cont' \in BOOLEAN /\ g_owner' \in Client \union {Null} /\ flags' \subseteq {"READY", "STOP"}
    BY <1>2 DEF Once, Stopped, mode, ContTypeOK
  <2>. QED BY <1>2, <2>2, <2>3 DEF Once, ContTypeOK
<1>3. ASSUME NEW c \in Client, Dies(c) PROVE ContTypeOK'
  BY <1>3, Actors DEF Dies, ContTypeOK
<1>4. ASSUME NEW n \in Net, Hears(n) PROVE ContTypeOK'
  BY <1>4 DEF Hears, HearsInto, mode, ContTypeOK
<1>5. CASE UNCHANGED cvars
  BY <1>5 DEF cvars, ContTypeOK
<1>. QED BY <1>1, <1>2, <1>3, <1>4, <1>5, StartsType, WaitsType, PollsType DEF ContNext

-----------------------------------------------------------------------------
(* A window that nobody has taken is signalled *)

\* scan_wait() clears READY before it looks, and takes what it finds; whoever
\* publishes goes on to set the flag.
LEMMA NextFresh ==
  ContTypeOK /\ FreshIsSignalled /\ [ContNext]_cvars => FreshIsSignalled'
<1> SUFFICES ASSUME ContTypeOK, FreshIsSignalled, [ContNext]_cvars,
                    g_cont', sb'.fresh
             PROVE  "READY" \in flags' \/ pc'[Poll] = "publish"
  BY DEF FreshIsSignalled
<1> USE Actors DEF FreshIsSignalled
<1>1. ASSUME NEW c \in Client, Starts(c)
      PROVE  "READY" \in flags' \/ pc'[Poll] = "publish"
  <2>1. CASE Reset
    BY <2>1 DEF Reset, scanbuf_init
  <2>2. CASE ~Reset
    <3>1. UNCHANGED <<sb, flags>> /\ (g_cont' => g_cont)
      BY <1>1, <2>2 DEF Starts, StartClaims, Stopped, mode, session, StartReturns,
           StartListens, StartNoListener
    <3>2. pc'[Poll] = pc[Poll]
      BY <1>1, <2>2 DEF Starts, StartClaims, StartFails, Goes, StartReturns, StartListens,
           StartNoListener, ContTypeOK
    <3>. QED BY <3>1, <3>2
  <2>. QED BY <2>1, <2>2
<1>2. ASSUME NEW c \in Client, Stops(c) \/ Once(c)
      PROVE  "READY" \in flags' \/ pc'[Poll] = "publish"
  <2>1. UNCHANGED sb /\ (g_cont' => g_cont) /\ flags \subseteq flags' /\ pc'[Poll] = pc[Poll]
    BY <1>2 DEF Stops, Stop, Once, Stopped, mode, ContTypeOK
  <2>. QED BY <2>1
<1>3. ASSUME NEW c \in Client, Dies(c) \/ WaitCalls(c) \/ CallbackReturns(c) \/ ListenerLeaves(c)
      PROVE  "READY" \in flags' \/ pc'[Poll] = "publish"
  <2>1. UNCHANGED <<sb, g_cont, flags>> /\ pc'[Poll] = pc[Poll]
    BY <1>3 DEF Dies, WaitCalls, CallbackReturns, ListenerLeaves, Goes, session, ContTypeOK
  <2>. QED BY <2>1
<1>4. ASSUME NEW w \in Waiter, WaitWakes(w)
      PROVE  "READY" \in flags' \/ pc'[Poll] = "publish"
  <2>1. UNCHANGED <<sb, g_cont, flags>> /\ pc'[Poll] = pc[Poll]
    BY <1>4 DEF WaitWakes, Goes, session, ContTypeOK
  <2>. QED BY <2>1
<1>5. ASSUME NEW w \in Waiter, WaitTakes(w)
      PROVE  FALSE
  <2>1. g_cont
    BY <1>5 DEF WaitTakes
  <2>2. CASE sb.fresh
    <3>1. sb' = scanbuf_take(sb)
      BY <1>5, <2>1, <2>2 DEF WaitTakes
    <3>. QED BY <2>2, <3>1, TakeKeeps DEF ContTypeOK
  <2>3. CASE ~sb.fresh
    BY <1>5, <2>3 DEF WaitTakes
  <2>. QED BY <2>2, <2>3
<1>6. CASE Polls
  <2>1. CASE PollSignals
    BY <2>1 DEF PollSignals, Signalled
  <2>2. CASE UNCHANGED <<sb, g_cont, flags, pc>>
    BY <2>2
  <2>. QED BY <1>6, <2>1, <2>2 DEF Polls, PollPcs, Stopped, mode, Publishes, Goes, ContTypeOK
<1>7. ASSUME NEW n \in Net, Hears(n)
      PROVE  "READY" \in flags' \/ pc'[Poll] = "publish"
  BY <1>7 DEF Hears, mode
<1>8. CASE UNCHANGED cvars
  BY <1>8 DEF cvars
<1>. QED BY <1>1, <1>2, <1>3, <1>4, <1>5, <1>6, <1>7, <1>8 DEF ContNext, Waits

-----------------------------------------------------------------------------
(* As if every window were copied *)

\* scan_init() leaves a mailbox with nothing in it.
LEMMA InitCopies == ContInit => Copies!MailInit
BY WrapAssumption DEF ContInit, Copies!MailInit, scanbuf_init, List

\* Publishing is the copying of the open window into the box.
LEMMA PublishCopies ==
  ASSUME ContTypeOK, sb' = scanbuf_publish(sb), lists' = EmptiedFill
  PROVE  Copies!Publishes
<1>1. sb \in ScanBufType /\ Distinct(sb) /\ lists \in [List -> SUBSET Net]
  BY DEF ContTypeOK
<1>2. /\ sb'.fill = sb.ready /\ sb'.ready = sb.fill /\ sb'.held = sb.held /\ sb'.fresh = TRUE
      /\ sb'.seq = Incremented(sb.seq)
      /\ sb'.dropped = IF sb.fresh THEN Incremented(sb.dropped) ELSE sb.dropped
  BY <1>1, PublishKeeps
<1>3. lists' = [lists EXCEPT ![sb.ready] = {}]
  BY <1>2 DEF EmptiedFill
<1>4. sb.fill \in List /\ sb.ready \in List /\ sb.held \in List
  BY <1>1 DEF ScanBufType
<1>5. lists'[sb'.fill] = {} /\ lists'[sb'.ready] = lists[sb.fill] /\ lists'[sb'.held] = lists[sb.held]
  BY <1>1, <1>2, <1>3, <1>4 DEF Distinct
<1>6. lists[sb.ready] # Null
  BY <1>1, <1>4, ContAssumption
<1>. QED BY <1>2, <1>5, <1>6 DEF Copies!Publishes, Incremented

\* Taking is the copying of the box into the subscriber's window.
LEMMA TakeCopies ==
  ASSUME ContTypeOK, sb.fresh, sb' = scanbuf_take(sb), UNCHANGED lists
  PROVE  Copies!Takes
<1>1. sb \in ScanBufType /\ Distinct(sb) /\ lists \in [List -> SUBSET Net]
  BY DEF ContTypeOK
<1>2. /\ sb'.fill = sb.fill /\ sb'.ready = sb.held /\ sb'.held = sb.ready /\ sb'.fresh = FALSE
      /\ sb'.seq = sb.seq /\ sb'.dropped = sb.dropped
  BY <1>1, TakeKeeps
<1>3. sb.ready \in List /\ lists[sb.ready] # Null
  BY <1>1, ContAssumption DEF ScanBufType
<1>. QED BY <1>2, <1>3 DEF Copies!Takes

\* What is heard goes into the open window alone.
LEMMA HearsCopies ==
  ASSUME ContTypeOK, NEW n \in Net, HearsInto(n), UNCHANGED sb
  PROVE  Copies!Hears
<1>1. sb \in ScanBufType /\ Distinct(sb) /\ lists \in [List -> SUBSET Net]
  BY DEF ContTypeOK
<1>2. sb.fill \in List /\ sb.ready \in List /\ sb.held \in List
  BY <1>1 DEF ScanBufType
<1>3. /\ lists'[sb'.fill] = lists[sb.fill] \union {n}
      /\ lists'[sb'.ready] = lists[sb.ready] /\ lists'[sb'.held] = lists[sb.held]
  BY <1>1, <1>2 DEF HearsInto, Distinct
<1>. QED BY <1>3 DEF Copies!Hears

\* A new session starts with an empty mailbox.
LEMMA ResetCopies == Reset => Copies!Restarts
BY DEF Reset, scanbuf_init, Copies!Restarts, List

\* Every step is a step of the mailbox, or leaves it as it is.
LEMMA NextCopies ==
  ContTypeOK /\ [ContNext]_cvars => [Copies!MailNext]_(Copies!mailbox)
<1> SUFFICES ASSUME ContTypeOK, [ContNext]_cvars
             PROVE  Copies!MailNext \/ UNCHANGED Copies!mailbox
  OBVIOUS
<1>1. CASE UNCHANGED <<sb, lists>>
  BY <1>1 DEF Copies!mailbox
<1>2. CASE Reset
  BY <1>2, ResetCopies DEF Copies!MailNext
<1>3. ASSUME NEW n \in Net, Hears(n)
      PROVE  Copies!MailNext
  BY <1>3, HearsCopies DEF Hears, Copies!MailNext
<1>4. ASSUME NEW w \in Waiter, WaitTakes(w), ~UNCHANGED <<sb, lists>>
      PROVE  Copies!MailNext
  <2>1. sb.fresh /\ sb' = scanbuf_take(sb) /\ UNCHANGED lists
    BY <1>4 DEF WaitTakes
  <2>. QED BY <2>1, TakeCopies DEF Copies!MailNext
<1>5. ASSUME NEW from \in {"idle", "cont"}, NEW ends \in BOOLEAN, Publishes(from, ends),
             ~UNCHANGED <<sb, lists>>
      PROVE  Copies!MailNext
  <2>1. sb' = scanbuf_publish(sb) /\ lists' = EmptiedFill
    BY <1>5 DEF Publishes
  <2>. QED BY <2>1, PublishCopies DEF Copies!MailNext
<1>6. ASSUME NEW c \in Client, Starts(c), ~Reset
      PROVE  UNCHANGED <<sb, lists>>
  BY <1>6 DEF Starts, StartClaims, session, StartReturns, StartListens, StartNoListener
<1>7. ASSUME NEW c \in Client, Stops(c) \/ Once(c) \/ Dies(c)
      PROVE  UNCHANGED <<sb, lists>>
  BY <1>7 DEF Stops, Stop, Once, Dies
<1>8. ASSUME NEW c \in Client, Waits(c), UNCHANGED <<sb, lists>> => FALSE
      PROVE  Copies!MailNext
  <2>1. PICK w \in {c, Listener(c)} : WaitTakes(w)
    BY <1>8 DEF Waits, WaitCalls, CallbackReturns, ListenerLeaves, WaitWakes, session
  <2>. QED BY <1>4, <1>8, <2>1, Actors
<1>9. CASE Polls
  BY <1>1, <1>5, <1>9 DEF Polls, PollSignals
<1>10. CASE UNCHANGED cvars
  BY <1>1, <1>10 DEF cvars
<1>. QED BY <1>1, <1>2, <1>3, <1>6, <1>7, <1>8, <1>9, <1>10 DEF ContNext

-----------------------------------------------------------------------------
(* The reader is undisturbed *)

\* A claim is undone by nobody but the one who has the lock.
LEMMA NextClaims == ContTypeOK /\ Claims /\ [ContNext]_cvars => Claims'
<1> SUFFICES ASSUME ContTypeOK, Claims, [ContNext]_cvars PROVE Claims'
  OBVIOUS
<1> USE Actors, ContAssumption DEF Claims
<1>1. ASSUME NEW c \in Client, Starts(c) PROVE Claims'
  <2>1. CASE StartClaims(c) /\ (Stopped \/ UNCHANGED mode)
    BY <2>1 DEF StartClaims, Goes, ContTypeOK, Stopped, mode
  <2>2. CASE StartFails(c, "start") /\ UNCHANGED <<session, reads>>
    BY <2>2 DEF StartFails, Goes, ContTypeOK, session
  <2>3. CASE ~Busy /\ Goes(c, "start", "claimed") /\ UNCHANGED <<session, g_cont_lock, reads>>
    BY <2>3 DEF Busy, listener_alive, Goes, ContTypeOK, session
  <2>4. CASE /\ Reset /\ tgt_cont' = TRUE
             /\ reads' = [reads EXCEPT ![c] = Null]
             /\ \/ Goes(c, "claimed", "armed") /\ StartOwns(c) /\ UNCHANGED g_cont_lock
                \/ StartFails(c, "claimed") /\ UNCHANGED mode
             /\ UNCHANGED g_listen
    BY <2>4 DEF Goes, StartOwns, StartFails, ContTypeOK, mode
  <2>5. CASE StartReturns(c)
    BY <2>5 DEF StartReturns, Goes, ContTypeOK, session
  <2>6. CASE StartListens(c)
    <3>1. \A d \in Client : pc'[d] \notin {"start", "claimed", "armed"}
      BY <2>6 DEF StartListens, ContTypeOK
    <3>. QED BY <3>1
  <2>7. CASE StartNoListener(c)
    BY <2>7 DEF StartNoListener, StartFails, Goes, Stopped, ContTypeOK
  <2>. QED BY <1>1, <2>1, <2>2, <2>3, <2>4, <2>5, <2>6, <2>7 DEF Starts
<1>2. ASSUME NEW c \in Client, Waits(c) PROVE Claims'
  <2>1. ASSUME NEW w \in {c, Listener(c)}, WaitTakes(w) PROVE Claims'
    BY <2>1 DEF WaitTakes, AfterWait, ContTypeOK
  <2>2. ASSUME NEW w \in {c, Listener(c)}, WaitWakes(w) PROVE Claims'
    BY <2>2 DEF WaitWakes, Goes, session, ContTypeOK
  <2>3. CASE WaitCalls(c)
    BY <2>3 DEF WaitCalls, Goes, session, ContTypeOK
  <2>4. CASE CallbackReturns(c)
    BY <2>4 DEF CallbackReturns, Goes, session, ContTypeOK
  <2>5. CASE ListenerLeaves(c)
    BY <2>5 DEF ListenerLeaves, Goes, ContTypeOK
  <2>. QED BY <1>2, <2>1, <2>2, <2>3, <2>4, <2>5 DEF Waits
<1>3. ASSUME NEW c \in Client, Stops(c) PROVE Claims'
  BY <1>3 DEF Stops, Stop, ContTypeOK
<1>4. ASSUME NEW c \in Client, Once(c) PROVE Claims'
  BY <1>4 DEF Once, OncePcs, Stopped, mode, ContTypeOK
<1>5. ASSUME NEW c \in Client, Dies(c) PROVE Claims'
  BY <1>5 DEF Dies, ContTypeOK
<1>6. CASE Polls
  <2>1. UNCHANGED <<g_listen, g_cont_lock>> /\ \A c \in Client : pc'[c] = pc[c]
    BY <1>6 DEF Polls, PollSignals, Publishes, Goes, ContTypeOK
  <2>2. UNCHANGED g_cont \/ g_cont_lock = Null
    BY <1>6 DEF Polls, PollSignals, Stopped, mode
  <2>. QED BY <2>1, <2>2
<1>7. CASE UNCHANGED cvars \/ \E n \in Net : Hears(n)
  BY <1>7 DEF cvars, Hears, mode
<1>. QED BY <1>1, <1>2, <1>3, <1>4, <1>5, <1>6, <1>7 DEF ContNext

\* A window in a reader's hand matters only to Held if sb.held, the held list
\* and the readers stay as they are.
LEMMA HeldStays ==
  ASSUME ContTypeOK, Held, sb'.held = sb.held, lists'[sb.held] = lists[sb.held],
         \A w \in Waiter : reads'[w] = reads[w] \/ reads'[w] = Null
  PROVE  Held'
BY DEF Held

\* At the start nobody has a list, and no listener lives.
LEMMA InitRead == ContInit => Claims /\ ReadInv
BY Actors, ContAssumption
   DEF ContInit, ReadInv, Claims, Listeners, OneEngaged, Held, Engaged

\* A start moves the lists when nobody else has one in hand.
LEMMA StartsRead ==
  ASSUME ContTypeOK, Claims, ReadInv, LastReader, NEW c \in Client, Starts(c)
  PROVE  ReadInv'
<1> USE Actors DEF ReadInv
<1>1. CASE StartClaims(c) /\ (Stopped \/ UNCHANGED mode)
  <2>1. Listeners'
    BY <1>1 DEF Listeners, StartClaims, Goes, ContTypeOK
  <2>2. OneEngaged'
    BY <1>1 DEF OneEngaged, Engaged, StartClaims, Goes, ContTypeOK, Stopped, mode
  <2>3. Held'
    BY <1>1, HeldStays DEF StartClaims
  <2>. QED BY <2>1, <2>2, <2>3
<1>2. CASE StartFails(c, "start") /\ UNCHANGED <<session, reads>>
  <2>1. Listeners'
    BY <1>2 DEF Listeners, StartFails, Goes, ContTypeOK, session
  <2>2. OneEngaged'
    BY <1>2 DEF OneEngaged, Engaged, StartFails, Goes, ContTypeOK, session
  <2>3. Held'
    BY <1>2, HeldStays DEF session
  <2>. QED BY <2>1, <2>2, <2>3
<1>3. CASE ~Busy /\ Goes(c, "start", "claimed") /\ UNCHANGED <<session, g_cont_lock, reads>>
  <2>1. Listeners'
    BY <1>3 DEF Listeners, Goes, ContTypeOK, session
  <2>2. OneEngaged'
    BY <1>3 DEF OneEngaged, Engaged, Goes, ContTypeOK, session
  <2>3. Held'
    BY <1>3, HeldStays DEF session
  <2>. QED BY <2>1, <2>2, <2>3
<1>4. CASE /\ Reset /\ tgt_cont' = TRUE
           /\ reads' = [reads EXCEPT ![c] = Null]
           /\ \/ Goes(c, "claimed", "armed") /\ StartOwns(c) /\ UNCHANGED g_cont_lock
              \/ StartFails(c, "claimed") /\ UNCHANGED mode
           /\ UNCHANGED g_listen
  <2>1. pc[c] = "claimed" /\ g_listen = Null
    BY <1>4 DEF Claims, Goes, StartFails
  <2>2. \A d \in Client : pc[Listener(d)] = "none" /\ reads[Listener(d)] = Null
    BY <2>1, ContAssumption DEF Listeners
  <2>3. \A w \in Waiter : ~Engaged(w) \/ w = c
    BY <2>1, <2>2 DEF LastReader, Engaged
  <2>4. PICK to \in {"armed", "idle"} : pc' = [pc EXCEPT ![c] = to]
    BY <1>4 DEF Goes, StartFails
  <2>5. \A w \in Waiter : ~Engaged(w)'
    BY <1>4, <2>1, <2>3, <2>4 DEF Engaged, ContTypeOK
  <2>6. Listeners'
    BY <1>4, <2>2, <2>4 DEF Listeners, ContTypeOK
  <2>7. OneEngaged'
    BY <2>5 DEF OneEngaged
  <2>8. Held'
    BY <2>5 DEF Held, Engaged
  <2>. QED BY <2>6, <2>7, <2>8
<1>5. CASE StartReturns(c)
  <2>1. Listeners'
    BY <1>5 DEF Listeners, StartReturns, Goes, ContTypeOK, session
  <2>2. pc[c] = "armed" /\ \A w \in Waiter : ~Engaged(w)
    BY <1>5 DEF StartReturns, Goes, OneEngaged
  <2>3. \A w \in Waiter : Engaged(w)' => w = c
    BY <1>5, <2>2 DEF Engaged, StartReturns, Goes, ContTypeOK
  <2>4. \A d \in Client : pc'[d] # "armed"
    BY <1>5, <2>2, ContAssumption DEF Claims, StartReturns, Goes, ContTypeOK
  <2>5. OneEngaged'
    BY <2>3, <2>4 DEF OneEngaged
  <2>6. Held'
    BY <1>5, HeldStays DEF StartReturns, session
  <2>. QED BY <2>1, <2>5, <2>6
<1>6. CASE StartListens(c)
  <2>1. pc[c] = "armed" /\ \A w \in Waiter : ~Engaged(w)
    BY <1>6 DEF StartListens, OneEngaged
  <2>2. \A d \in Client : pc'[d] \notin {"start", "claimed", "armed"}
    BY <1>6, <2>1, ContAssumption DEF Claims, StartListens, ContTypeOK
  <2>3. g_listen = Null
    BY <2>1 DEF Claims
  <2>4. Listeners'
    BY <1>6, <2>3, ContAssumption DEF Listeners, StartListens, ContTypeOK
  <2>5. \A w \in Waiter : Engaged(w)' => w = Listener(c)
    BY <1>6, <2>1 DEF Engaged, StartListens, ContTypeOK
  <2>6. OneEngaged'
    BY <2>2, <2>5 DEF OneEngaged
  <2>7. Held'
    BY <1>6, HeldStays DEF StartListens
  <2>. QED BY <2>4, <2>6, <2>7
<1>7. CASE StartNoListener(c)
  <2>1. Listeners'
    BY <1>7 DEF Listeners, StartNoListener, StartFails, Goes, ContTypeOK
  <2>2. OneEngaged'
    BY <1>7 DEF OneEngaged, Engaged, StartNoListener, StartFails, Goes, Stopped, ContTypeOK
  <2>3. Held'
    BY <1>7, HeldStays DEF StartNoListener
  <2>. QED BY <2>1, <2>2, <2>3
<1>. QED BY <1>1, <1>2, <1>3, <1>4, <1>5, <1>6, <1>7 DEF Starts

\* Only the one subscriber can take, and it gives back first what it had.
LEMMA TakesRead ==
  ASSUME ContTypeOK, Claims, ReadInv, NEW w \in Waiter, WaitTakes(w)
  PROVE  ReadInv'
<1> USE Actors DEF ReadInv
<1> DEFINE took == g_cont /\ sb.fresh
<1>1. /\ pc[w] = "woken" /\ g_cont_lock = Null
      /\ pc' = [pc EXCEPT ![w] = AfterWait(w, took)]
      /\ UNCHANGED <<lists, g_cont, g_owner, g_listen, g_cont_lock, tgt_cont>>
  BY DEF WaitTakes
<1>2. AfterWait(w, took) \in IF w \in Client THEN {"idle", "sub", "wait"}
                                             ELSE {"leave", "called", "wait"}
  BY DEF AfterWait
<1>3. \A d \in Client : pc'[d] \notin {"start", "claimed", "armed"}
  BY <1>1, <1>2, ContAssumption DEF Claims, ContTypeOK
<1>4. \A v \in Waiter : v # w => reads'[v] = reads[v] /\ pc'[v] = pc[v]
  BY <1>1 DEF WaitTakes, ContTypeOK
<1>5. took \/ UNCHANGED <<sb, reads>>
  BY DEF WaitTakes
<1>6. ASSUME NEW d \in Client
      PROVE  /\ pc'[Listener(d)] \in {"none", "wait", "woken", "called", "leave"}
             /\ pc'[Listener(d)] # "none" => g_listen' = d
             /\ reads'[Listener(d)] # Null => pc'[Listener(d)] = "called"
  <2>1. CASE Listener(d) # w
    BY <1>1, <1>4, <2>1 DEF Listeners
  <2>2. CASE Listener(d) = w
    <3>1. w \notin Client /\ pc'[w] \in {"leave", "called", "wait"} /\ g_listen' = d
      BY <1>1, <1>2, <2>2 DEF Listeners, ContTypeOK
    <3>2. reads[w] = Null
      BY <1>1, <2>2 DEF Listeners
    <3>3. took => pc'[w] = "called"
      BY <1>1, <3>1 DEF AfterWait, ContTypeOK
    <3>. QED BY <1>5, <2>2, <3>1, <3>2, <3>3
  <2>. QED BY <2>1, <2>2
<1>7. Listeners'
  BY <1>6 DEF Listeners
<1>8. Engaged(w)
  BY <1>1 DEF Engaged
<1>9. OneEngaged'
  <2>1. \A v \in Waiter : Engaged(v)' => Engaged(v)
    BY <1>4, <1>8 DEF Engaged
  <2>. QED BY <1>1, <1>3, <2>1 DEF OneEngaged
<1>10. Held'
  <2>1. CASE took
    <3>1. /\ sb' = scanbuf_take(sb)
          /\ reads' = [reads EXCEPT ![w] = [list |-> sb'.held, seen |-> lists[sb'.held]]]
      BY <2>1 DEF WaitTakes
    <3>2. \A v \in Waiter : v # w => reads'[v] = Null
      BY <1>4, <1>8, <2>1 DEF OneEngaged, Engaged
    <3>3. reads'[w] = [list |-> sb'.held, seen |-> lists'[sb'.held]]
      BY <1>1, <3>1 DEF ContTypeOK
    <3>. QED BY <3>2, <3>3 DEF Held
  <2>2. CASE ~took
    BY <1>1, <1>5, <2>2, HeldStays
  <2>. QED BY <2>1, <2>2
<1>. QED BY <1>7, <1>9, <1>10

\* The other steps of a subscriber give a list back, if anything.
LEMMA WaitsRead ==
  ASSUME ContTypeOK, Claims, ReadInv, NEW c \in Client,
         \/ WaitCalls(c) \/ CallbackReturns(c) \/ ListenerLeaves(c)
         \/ \E w \in {c, Listener(c)} : WaitWakes(w)
  PROVE  ReadInv'
<1> USE Actors DEF ReadInv
<1>1. CASE WaitCalls(c)
  <2>1. Listeners'
    BY <1>1 DEF Listeners, WaitCalls, Goes, session, ContTypeOK
  <2>2. OneEngaged'
    BY <1>1 DEF OneEngaged, Engaged, WaitCalls, Goes, session, ContTypeOK
  <2>3. Held'
    BY <1>1, HeldStays DEF WaitCalls, session, ContTypeOK
  <2>. QED BY <2>1, <2>2, <2>3
<1>2. CASE CallbackReturns(c)
  <2>1. Listeners'
    BY <1>2 DEF Listeners, CallbackReturns, Goes, session, ContTypeOK
  <2>2. OneEngaged'
    BY <1>2 DEF OneEngaged, Engaged, CallbackReturns, Goes, session, ContTypeOK
  <2>3. Held'
    BY <1>2, HeldStays DEF CallbackReturns, session, ContTypeOK
  <2>. QED BY <2>1, <2>2, <2>3
<1>3. CASE ListenerLeaves(c)
  <2>1. Listeners'
    BY <1>3 DEF Listeners, ListenerLeaves, Goes, ContTypeOK
  <2>2. OneEngaged'
    BY <1>3 DEF OneEngaged, Engaged, ListenerLeaves, Goes, ContTypeOK
  <2>3. Held'
    BY <1>3, HeldStays DEF ListenerLeaves
  <2>. QED BY <2>1, <2>2, <2>3
<1>4. ASSUME NEW w \in {c, Listener(c)}, WaitWakes(w)
      PROVE  ReadInv'
  <2>1. Listeners'
    BY <1>4 DEF Listeners, WaitWakes, Goes, session, ContTypeOK
  <2>2. OneEngaged'
    BY <1>4 DEF OneEngaged, Engaged, WaitWakes, Goes, session, ContTypeOK
  <2>3. Held'
    BY <1>4, HeldStays DEF WaitWakes, session
  <2>. QED BY <2>1, <2>2, <2>3
<1>. QED BY <1>1, <1>2, <1>3, <1>4

\* Stops, one-shot scans and deaths end sessions and readers, and move no list.
LEMMA EndsRead ==
  ASSUME ContTypeOK, Claims, ReadInv, NEW c \in Client, Stops(c) \/ Once(c) \/ Dies(c)
  PROVE  ReadInv'
<1> USE Actors DEF ReadInv
<1>1. CASE Stops(c)
  <2>1. \A d \in Client : pc[d] \notin {"start", "claimed", "armed"}
    BY <1>1, ContAssumption DEF Claims, Stops, Stop
  <2>2. Listeners'
    BY <1>1 DEF Listeners, Stops, Stop, ContTypeOK
  <2>3. OneEngaged'
    BY <1>1, <2>1 DEF OneEngaged, Engaged, Stops, Stop, Stopped, mode, ContTypeOK
  <2>4. Held'
    BY <1>1, HeldStays DEF Stops, Stop
  <2>. QED BY <2>2, <2>3, <2>4
<1>2. CASE Once(c)
  <2>1. Listeners'
    BY <1>2 DEF Listeners, Once, OncePcs, ContTypeOK
  <2>2. OneEngaged'
    BY <1>2 DEF OneEngaged, Engaged, Once, OncePcs, Stopped, mode, ContTypeOK
  <2>3. Held'
    BY <1>2, HeldStays DEF Once
  <2>. QED BY <2>1, <2>2, <2>3
<1>3. CASE Dies(c)
  <2>1. Listeners'
    BY <1>3 DEF Listeners, Dies, ContTypeOK
  <2>2. \A w \in Waiter : Engaged(w)' => Engaged(w)
    BY <1>3 DEF Engaged, Dies, ContTypeOK
  <2>3. \A d \in Client : pc'[d] = "armed" => pc[d] = "armed"
    BY <1>3 DEF Dies, ContTypeOK
  <2>4. OneEngaged'
    BY <1>3, <2>2, <2>3 DEF OneEngaged, Dies
  <2>5. Held'
    BY <1>3, HeldStays DEF Dies, ContTypeOK
  <2>. QED BY <2>1, <2>4, <2>5
<1>. QED BY <1>1, <1>2, <1>3

\* The poll thread publishes past the held list.
LEMMA PollsRead ==
  ASSUME ContTypeOK, Claims, ReadInv, Polls
  PROVE  ReadInv'
<1> USE Actors DEF ReadInv
<1>1. UNCHANGED <<g_listen, g_cont_lock, reads>> /\ (g_cont' => g_cont)
  BY DEF Polls, PollSignals, Stopped, mode
<1>2. \A w \in Waiter : pc'[w] = pc[w]
  BY DEF Polls, PollSignals, Publishes, Goes, ContTypeOK
<1>3. UNCHANGED g_cont \/ g_cont_lock = Null
  BY DEF Polls, PollSignals, Stopped, mode
<1>4. Listeners'
  BY <1>1, <1>2 DEF Listeners
<1>5. \A w \in Waiter : Engaged(w)' <=> Engaged(w)
  BY <1>1, <1>2 DEF Engaged
<1>6. OneEngaged'
  BY <1>1, <1>2, <1>5 DEF OneEngaged
<1>7. sb'.held = sb.held /\ lists'[sb.held] = lists[sb.held]
  <2>1. ASSUME NEW from \in {"idle", "cont"}, NEW ends \in BOOLEAN, Publishes(from, ends)
        PROVE  sb'.held = sb.held /\ lists'[sb.held] = lists[sb.held]
    <3>1. CASE ends
      <4>1. sb \in ScanBufType /\ Distinct(sb) /\ sb' = scanbuf_publish(sb)
              /\ lists' = [lists EXCEPT ![scanbuf_publish(sb).fill] = {}]
        BY <2>1, <3>1 DEF ContTypeOK, Publishes, EmptiedFill
      <4>2. scanbuf_publish(sb).fill = sb.ready /\ scanbuf_publish(sb).held = sb.held
        BY <4>1, PublishKeeps
      <4>3. sb.held \in List /\ sb.ready # sb.held
        BY <4>1 DEF ScanBufType, Distinct
      <4>. QED BY <4>1, <4>2, <4>3 DEF ContTypeOK
    <3>2. CASE ~ends
      BY <2>1, <3>2 DEF Publishes
    <3>. QED BY <3>1, <3>2
  <2>. QED BY <2>1 DEF Polls, PollSignals
<1>8. Held'
  BY <1>1, <1>7, HeldStays
<1>. QED BY <1>4, <1>6, <1>8

\* The interrupt writes to the open window only.
LEMMA HearsRead ==
  ASSUME ContTypeOK, Claims, ReadInv, NEW n \in Net, Hears(n)
  PROVE  ReadInv'
<1>1. UNCHANGED <<pc, sb, g_cont, g_listen, g_cont_lock, reads>>
  BY DEF Hears, mode
<1>2. lists'[sb.held] = lists[sb.held]
  <2>1. sb.fill # sb.held /\ sb.held \in List
    BY DEF ContTypeOK, Distinct, ScanBufType
  <2>. QED BY <2>1 DEF Hears, HearsInto, ContTypeOK
<1>3. Held'
  BY <1>1, <1>2, HeldStays DEF ReadInv
<1>. QED BY <1>1, <1>3 DEF ReadInv, Listeners, OneEngaged, Engaged

\* Every step keeps the invariant, if a start disturbs no reader.
LEMMA NextRead ==
  ContTypeOK /\ Claims /\ ReadInv /\ LastReader /\ [ContNext]_cvars => ReadInv'
<1> SUFFICES ASSUME ContTypeOK, Claims, ReadInv, LastReader, [ContNext]_cvars PROVE ReadInv'
  OBVIOUS
<1>1. CASE UNCHANGED cvars
  BY <1>1 DEF cvars, ReadInv, Listeners, OneEngaged, Engaged, Held
<1>2. ASSUME NEW c \in Client, Waits(c) PROVE ReadInv'
  BY <1>2, WaitsRead, TakesRead, Actors DEF Waits
<1>. QED BY <1>1, <1>2, StartsRead, EndsRead, PollsRead, HearsRead DEF ContNext
-----------------------------------------------------------------------------
(* The theorems, for every service whose steps are those of ContNext *)

\* The variables the two radios share keep their types.
THEOREM ContTypes == ContSpec => []ContTypeOK
BY InitType, NextType, PTL DEF ContSpec

\* Whatever the locks do: what is published is signalled until it is taken.
THEOREM ContFreshIsSignalled == ContSpec => []FreshIsSignalled
<1>1. ContInit => FreshIsSignalled
  BY DEF ContInit, FreshIsSignalled
<1>. QED BY <1>1, ContTypes, NextFresh, PTL DEF ContSpec

\* The three rotating lists implement a mailbox into which windows are copied.
THEOREM ContByCopy == ContSpec => ByCopy
<1>1. ContSpec => Copies!MailInit /\ [][Copies!MailNext]_(Copies!mailbox)
  BY InitCopies, ContTypes, NextCopies, PTL DEF ContSpec
<1>. QED BY <1>1 DEF ByCopy, Copies!MailSpec

\* The list in a reader's hand stays as it was, if no start resets it.
THEOREM ContReaderUndisturbed ==
  ContSpec /\ []LastReader => []ReaderUndisturbed
<1>1. ReadInv => ReaderUndisturbed
  BY DEF ReadInv, Held, ReaderUndisturbed
<1>. QED BY <1>1, InitRead, ContTypes, NextClaims, NextRead, PTL DEF ContSpec

\* With one subscriber nobody else has a list or waits.
OnlySubscribers == \A c \in Client :
  Engaged(c) \/ pc[c] \in {"start", "claimed", "armed"} => c \in Subscriber

THEOREM ContLastReader ==
  ASSUME OneSubscriber
  PROVE  ContSpec => []LastReader
<1>1. ContInit => OnlySubscribers
  BY Actors DEF ContInit, OnlySubscribers, Engaged
<1>2. ContTypeOK /\ OnlySubscribers /\ [ContNext]_cvars => OnlySubscribers'
  <2> SUFFICES ASSUME ContTypeOK, OnlySubscribers, [ContNext]_cvars PROVE OnlySubscribers'
    OBVIOUS
  <2> USE Actors DEF OnlySubscribers
  <2>1. ASSUME NEW c \in Client, Starts(c) PROVE OnlySubscribers'
    <3>1. c \in Subscriber
      BY <2>1 DEF Starts, StartFails, Goes, StartReturns, StartListens, StartNoListener
    <3>2. \A d \in Client : d # c => pc'[d] = pc[d]
      BY <2>1 DEF Starts, StartClaims, StartFails, Goes, StartReturns, StartListens,
           StartNoListener, ContTypeOK
    <3>3. \A d \in Client : d # c => reads'[d] = reads[d]
      BY <2>1 DEF Starts, StartClaims, StartReturns, StartListens, StartNoListener, ContTypeOK
    <3>. QED BY <3>1, <3>2, <3>3 DEF Engaged
  <2>2. ASSUME NEW c \in Client, Stops(c) \/ Once(c) \/ Dies(c) PROVE OnlySubscribers'
    <3>1. \A d \in Client : (reads'[d] = reads[d] \/ reads'[d] = Null)
                             /\ (pc'[d] = pc[d] \/ pc'[d] \in OncePcs)
      BY <2>2 DEF Stops, Stop, Once, Dies, OncePcs, ContTypeOK
    <3>. QED BY <3>1 DEF Engaged, OncePcs
  <2>3. ASSUME NEW c \in Client, Waits(c) PROVE OnlySubscribers'
    <3>1. \A d \in Client : d # c => pc'[d] = pc[d] /\ reads'[d] = reads[d]
      BY <2>3 DEF Waits, WaitCalls, CallbackReturns, ListenerLeaves, WaitWakes, WaitTakes,
           Goes, session, ContTypeOK
    <3>2. UNCHANGED <<pc[c], reads[c]>> \/ Engaged(c)
      BY <2>3 DEF Waits, WaitCalls, CallbackReturns, ListenerLeaves, WaitWakes, WaitTakes,
           Goes, session, ContTypeOK, Engaged
    <3>. QED BY <3>1, <3>2 DEF Engaged
  <2>4. CASE Polls
    <3>1. \A d \in Client : pc'[d] = pc[d] /\ reads'[d] = reads[d]
      BY <2>4 DEF Polls, PollSignals, Publishes, Goes, ContTypeOK
    <3>. QED BY <3>1 DEF Engaged
  <2>5. CASE UNCHANGED cvars \/ \E n \in Net : Hears(n)
    BY <2>5 DEF cvars, Hears, Engaged
  <2>. QED BY <2>1, <2>2, <2>3, <2>4, <2>5 DEF ContNext
<1>3. OnlySubscribers => LastReader
  BY DEF OnlySubscribers, LastReader, OneSubscriber
<1>. QED BY <1>1, <1>2, <1>3, ContTypes, PTL DEF ContSpec
-----------------------------------------------------------------------------
(* When a one-shot scan starts with nobody else inside *)

\* Then nobody else is in a locked section.
LEMMA AloneInside ==
  ASSUME ScanAlone, NEW c \in Client, pc[c] = "checked",
         NEW d \in Client \union {Poll}, d # c
  PROVE  pc[d] \notin InsidePcs
BY DEF ScanAlone, Inside
=============================================================================

-------------------------------- MODULE Cray --------------------------------
(***************************************************************************)
(* cray-one, the application that uses most of the kernel at once: its main*)
(* thread opens a multicast socket and waits on event flags for two threads*)
(* of its own, one that announces new colours and one that paints what the *)
(* node and its peers announced.  Datagrams arrive in an interrupt, which  *)
(* only puts them into a message queue.  The process may be killed at any  *)
(* time and be run again with another configuration; globals and socket    *)
(* stay as the killed run left them.                                       *)
(*                                                                         *)
(* A set of colours is one value: the eye tells two announcements apart,   *)
(* not what is in them.  The LED and g_net_error, which it shows, are left *)
(* out.                                                                    *)
(***************************************************************************)
EXTENDS Display, Sequences

CONSTANTS
  GRID_COLS, GRID_ROWS,
  Colours,                 \* the sets of colours a node may announce
  Black,
  Configs,                 \* what config.txt may say: <<NODEID, MAXNODES>>
  MAXNODES_MAX,
  Senders,                 \* the node ids that arrive in datagrams
  MQ_MAX_MSG,
  WIFI_MCAST_MAX_SOCKETS,
  app, shell,              \* the users of the display
  Overlap                  \* what may come at a bad moment: see below

\* "display": the shell draws while cray-one runs; "spawn": a thread cannot be
\* created.
ASSUME CrayAssumption ==
  /\ User = {app, shell} /\ app # shell
  /\ GRID_COLS \in Nat \ {0} /\ GRID_ROWS = DISP_HEIGHT
  /\ Black \notin Colours
  /\ Configs \subseteq Int \X Int /\ Senders \subseteq Int
  /\ MQ_MAX_MSG \in Nat \ {0} /\ WIFI_MCAST_MAX_SOCKETS \in Nat \ {0}
  /\ Overlap \subseteq {"display", "spawn"}

\* What the display thread paints; None is nothing of it.
Jobs == [node : Int, block : Int, colours : Colours \union {Black, None}]

ASSUME NoneAssumption == None \notin Colours \union {Black} /\ None \notin Jobs

Block == 0..GRID_COLS * GRID_ROWS - 1
Sock  == 0..WIFI_MCAST_MAX_SOCKETS-1
NoSock == -1

\* A message that mqueue_try_send() has copied no byte of: all zeroes.
Zeroed == <<0, Black>>

VARIABLES
  link,                            \* wifi_get_state() = WIFI_STATE_UP
  g_mcast,                         \* the sockets in use
  g_nodeid, g_maxnodes,
  g_my_colors, g_my_colors_dirty,
  g_rx_mq, sized,                  \* sized: its msg_size is no longer 0
  g_cray_done, g_cray_running, g_sock,
  lost,                            \* ghost: the sockets whose handle went with a killed thread
  main, sock,                      \* where the main thread is; its local handle
  tx, disp,                        \* where the two other threads are
  job,                             \* the paint under way: [node, block, colours], or None
  framebuffer                      \* by block

config  == <<g_nodeid, g_maxnodes>>
colours == <<g_my_colors, g_my_colors_dirty>>
net     == <<link, g_mcast, g_sock, sock, lost>>
queue   == <<g_rx_mq, sized>>
ends    == <<g_cray_done, g_cray_running>>
crayvars == <<net, config, colours, queue, ends, main, tx, disp, job, framebuffer, dvars>>

CrayInit ==
  /\ DisplayInit
  /\ link = FALSE /\ g_mcast = {} /\ g_sock = NoSock /\ sock = NoSock /\ lost = {}
  /\ g_nodeid = 0 /\ g_maxnodes = 1
  /\ g_my_colors = Black /\ g_my_colors_dirty = FALSE
  /\ g_rx_mq = <<>> /\ sized = FALSE /\ g_cray_done = {} /\ g_cray_running = FALSE
  /\ main = "off" /\ tx = "none" /\ disp = "none" /\ job = None
  /\ framebuffer = [b \in Block |-> Black]

InDriver(u) == Flushing(u) \/ Drawing(u)

BlocksOf(n) == {b \in Block : b % g_maxnodes = n}
-----------------------------------------------------------------------------
(* cray_one(), the main thread *)

MainAt(here, next) == main = here /\ main' = next

Aborts == main' = "off"

ValidConfig(c) == c[2] >= 1 /\ c[2] <= MAXNODES_MAX /\ c[1] >= 0 /\ c[1] < c[2]

\* run cray-one: config.txt is read; a bad one ends the run at once.
Launches(c) ==
  /\ MainAt("off", "connect") /\ ValidConfig(c)
  /\ ~InDriver(shell) \/ "display" \in Overlap
  /\ g_nodeid' = c[1] /\ g_maxnodes' = c[2]
  /\ UNCHANGED <<net, colours, queue, ends, tx, disp, job, framebuffer, dvars>>

\* Both networks are tried in turn.
Associates ==
  /\ main = "connect"
  /\ \E up \in BOOLEAN : link' = up /\ main' = (IF up THEN "draw" ELSE "off")
  /\ UNCHANGED <<g_mcast, g_sock, sock, lost, config, colours, queue, ends, tx, disp, job,
                 framebuffer, dvars>>

\* The node picks its first colours and clears the display ...
ClearsGrid(k) ==
  /\ MainAt("draw", "clear")
  /\ g_my_colors' = k
  /\ framebuffer' = [b \in Block |-> Black]
  /\ Stores(app, 0, DISP_HEIGHT - 1)
  /\ UNCHANGED <<net, config, g_my_colors_dirty, queue, ends, tx, disp, job>>

\* ... draws every block, all rows being marked then, and starts the flush.
draw_initial_grid ==
  /\ MainAt("clear", "grid")
  /\ framebuffer' = [b \in Block |-> IF b \in BlocksOf(g_nodeid) THEN g_my_colors ELSE Black]
  /\ Marks(app)
  /\ UNCHANGED <<net, config, colours, queue, ends, tx, disp, job>>

FlushesGrid ==
  /\ MainAt("grid", "reopen")
  /\ FlushBegins(app)
  /\ UNCHANGED <<net, config, colours, queue, ends, tx, disp, job, framebuffer>>

\* wifi_mcast_close() of the handle g_sock.
wifi_mcast_close == g_mcast' = g_mcast \ {g_sock}

\* The socket of a run that was killed is released ...
ClosesOld ==
  /\ MainAt("reopen", "open") /\ ~Flushing(app)
  /\ wifi_mcast_close /\ g_sock' = NoSock
  /\ UNCHANGED <<link, sock, lost, config, colours, queue, ends, tx, disp, job, framebuffer, dvars>>

\* lwIP binds one socket to a port.
PortFree == g_mcast = {}

\* ... and a new one opened in the first free place.  lwIP may refuse.
wifi_mcast_open ==
  LET free == Sock \ g_mcast IN
  /\ link /\ PortFree /\ free # {}
  /\ sock' = CHOOSE s \in free : \A r \in free : s <= r
  /\ g_mcast' = g_mcast \union {sock'}

Opens ==
  /\ MainAt("open", "opened")
  /\ wifi_mcast_open
  /\ UNCHANGED <<link, g_sock, lost, config, colours, queue, ends, tx, disp, job, framebuffer,
                 dvars>>

OpenFails ==
  /\ main = "open" /\ Aborts
  /\ UNCHANGED <<net, config, colours, queue, ends, tx, disp, job, framebuffer, dvars>>

KeepsHandle ==
  /\ MainAt("opened", "init")
  /\ g_sock' = sock /\ sock' = NoSock
  /\ UNCHANGED <<link, g_mcast, lost, config, colours, queue, ends, tx, disp, job, framebuffer,
                 dvars>>

\* Mutant: a queue that exists is taken over as it is.
mqueue_kept == g_rx_mq

mqueue_init == <<>>

\* The objects the threads share start afresh.
InitsShared ==
  /\ MainAt("init", "spawn")
  /\ g_rx_mq' = mqueue_init /\ sized' = TRUE /\ g_cray_done' = {}
  /\ g_my_colors_dirty' = FALSE /\ g_cray_running' = TRUE
  /\ UNCHANGED <<net, config, g_my_colors, tx, disp, job, framebuffer, dvars>>

\* SYS_THREAD_CREATE, whose result nobody looks at.
Created == IF "spawn" \in Overlap THEN {"test", "none"} ELSE {"test"}

SpawnsTx ==
  /\ MainAt("spawn", "spawned")
  /\ tx' \in Created
  /\ UNCHANGED <<net, config, colours, queue, ends, disp, job, framebuffer, dvars>>

SpawnsDisp ==
  /\ MainAt("spawned", "wait")
  /\ disp' \in Created
  /\ UNCHANGED <<net, config, colours, queue, ends, tx, job, framebuffer, dvars>>

\* Mutant: the handle is cleared before it is used.
ClosesNothing == g_sock' = NoSock /\ UNCHANGED g_mcast

Closes == wifi_mcast_close /\ g_sock' = NoSock

\* event_flags_wait() for both bits, then the socket is closed.
Cleans ==
  /\ MainAt("wait", "off")
  /\ g_cray_done = {"tx", "disp"}
  /\ Closes
  /\ UNCHANGED <<link, sock, lost, config, colours, queue, ends, tx, disp, job, framebuffer, dvars>>
-----------------------------------------------------------------------------
(* cray_tx_thread() *)

TxGoesOn == g_cray_running /\ link

TxPicks(k) ==
  /\ tx = "test" /\ TxGoesOn /\ tx' = "picked"
  /\ g_my_colors' = k
  /\ UNCHANGED <<net, config, g_my_colors_dirty, queue, ends, main, disp, job, framebuffer, dvars>>

\* It sets the flag for the display thread, sends, and sleeps; a send that
\* fails is only reported.
TxMarks ==
  /\ tx = "picked" /\ tx' = "test"
  /\ g_my_colors_dirty' = TRUE
  /\ UNCHANGED <<net, config, g_my_colors, queue, ends, main, disp, job, framebuffer, dvars>>

\* Mutant: the display thread is not told.
StopsAlone == UNCHANGED g_cray_running

StopsOther == g_cray_running' = FALSE

TxLeaves ==
  /\ tx = "test" /\ ~TxGoesOn /\ tx' = "leaving"
  /\ StopsOther
  /\ UNCHANGED <<net, config, colours, queue, g_cray_done, main, disp, job, framebuffer, dvars>>

TxSignals ==
  /\ tx = "leaving" /\ tx' = "none"
  /\ g_cray_done' = g_cray_done \union {"tx"}
  /\ UNCHANGED <<net, config, colours, queue, g_cray_running, main, disp, job, framebuffer, dvars>>
-----------------------------------------------------------------------------
(* cray_disp_thread() *)

\* paint_node_blocks(): where it begins.
PaintOf(n, k) == [node |-> n, block |-> n, colours |-> k]

\* One update per turn: the node's own blocks first, which are painted from
\* the global array ...
DispTakesOwn ==
  /\ disp = "test" /\ g_cray_running /\ g_my_colors_dirty /\ disp' = "paint"
  /\ g_my_colors_dirty' = FALSE
  /\ job' = PaintOf(g_nodeid, None)
  /\ UNCHANGED <<net, config, g_my_colors, queue, ends, main, tx, framebuffer, dvars>>

\* ... else what a peer announced, from a copy (mqueue_try_recv()).
DispTakesPeer ==
  /\ disp = "test" /\ g_cray_running /\ ~g_my_colors_dirty /\ disp' = "paint"
  /\ g_rx_mq # <<>>
  /\ g_rx_mq' = Tail(g_rx_mq)
  /\ job' = PaintOf(Head(g_rx_mq)[1], Head(g_rx_mq)[2])
  /\ UNCHANGED <<net, config, colours, sized, ends, main, tx, framebuffer, dvars>>

\* draw_block(): a row of the display stands for a row of blocks.
DispPaints ==
  /\ disp = "paint" /\ job.block \in Block
  /\ framebuffer' = [framebuffer EXCEPT ![job.block] =
                       IF job.colours = None THEN g_my_colors ELSE job.colours]
  /\ Stores(app, job.block \div GRID_COLS, job.block \div GRID_COLS)
  /\ UNCHANGED <<net, config, colours, queue, ends, main, tx, disp, job>>

DispMarks ==
  /\ disp = "paint" /\ Marks(app)
  /\ job' = [job EXCEPT !.block = @ + g_maxnodes]
  /\ UNCHANGED <<net, config, colours, queue, ends, main, tx, disp, framebuffer>>

DispFlushes ==
  /\ disp = "paint" /\ job.block \notin Block /\ disp' = "flush"
  /\ job' = None
  /\ FlushBegins(app)
  /\ UNCHANGED <<net, config, colours, queue, ends, main, tx, framebuffer>>

DispSleeps ==
  /\ disp = "flush" /\ ~Flushing(app) /\ disp' = "test"
  /\ UNCHANGED <<net, config, colours, queue, ends, main, tx, job, framebuffer, dvars>>

DispSignals ==
  /\ disp = "test" /\ ~g_cray_running /\ disp' = "none"
  /\ g_cray_done' = g_cray_done \union {"disp"}
  /\ UNCHANGED <<net, config, colours, queue, g_cray_running, main, tx, job, framebuffer, dvars>>

\* The flush that either thread is in.
AppSends ==
  /\ FlushRow(app) \/ FlushEnds(app)
  /\ UNCHANGED <<net, config, colours, queue, ends, main, tx, disp, job, framebuffer>>
-----------------------------------------------------------------------------
(* Everything else *)

\* Mutant: one message too many.
RoomOffByOne == Len(g_rx_mq) <= MQ_MAX_MSG

\* mqueue_try_send()
Room == Len(g_rx_mq) < MQ_MAX_MSG

\* The receive hook of an open socket calls mcast_recv_cb().
Listens == link /\ g_mcast # {}

FromPeer(sender) == sender # g_nodeid /\ sender >= 0 /\ sender < g_maxnodes

\* A datagram that comes from nobody of this cluster, or finds the queue full,
\* is dropped.  Datagrams may be lost, repeated and overtake each other.  The
\* first run's socket is open before the queue is initialised.
mcast_recv_cb(sender, k) ==
  /\ Listens /\ FromPeer(sender) /\ Room
  /\ g_rx_mq' = Append(g_rx_mq, IF sized THEN <<sender, k>> ELSE Zeroed)
  /\ UNCHANGED <<net, config, colours, sized, ends, main, tx, disp, job, framebuffer, dvars>>

LinkDrops ==
  /\ link /\ link' = FALSE
  /\ UNCHANGED <<g_mcast, g_sock, sock, lost, config, colours, queue, ends, main, tx, disp, job,
                 framebuffer, dvars>>

\* killproc: all threads of the process go.
Killed ==
  /\ main # "off" /\ main' = "off"
  /\ tx' = "none" /\ disp' = "none" /\ job' = None
  /\ sock' = NoSock /\ lost' = lost \union ({sock} \ {NoSock})
  /\ Abandoned(app)
  /\ UNCHANGED <<link, g_mcast, g_sock, config, colours, queue, ends, framebuffer>>

\* The shell's display command draws some rows and flushes.
cmd_display ==
  /\ main = "off" \/ "display" \in Overlap
  /\ \/ ~InDriver(shell) /\ \E y, z \in Row : y <= z /\ Stores(shell, y, z)
     \/ Marks(shell)
     \/ ~InDriver(shell) /\ FlushBegins(shell)
     \/ FlushRow(shell) \/ FlushEnds(shell)
  /\ UNCHANGED <<net, config, colours, queue, ends, main, tx, disp, job, framebuffer>>

cray_one ==
  \/ Associates \/ (\E k \in Colours : ClearsGrid(k)) \/ draw_initial_grid \/ FlushesGrid
  \/ ClosesOld \/ Opens \/ OpenFails \/ KeepsHandle
  \/ InitsShared \/ SpawnsTx \/ SpawnsDisp \/ Cleans
cray_tx_thread   == (\E k \in Colours : TxPicks(k)) \/ TxMarks \/ TxLeaves \/ TxSignals
cray_disp_thread ==
  \/ DispTakesOwn \/ DispTakesPeer \/ DispPaints \/ DispMarks
  \/ DispFlushes \/ AppSends \/ DispSleeps \/ DispSignals

CrayNext ==
  \/ \E c \in Configs : Launches(c)
  \/ cray_one \/ cray_tx_thread \/ cray_disp_thread
  \/ \E s \in Senders, k \in Colours : mcast_recv_cb(s, k)
  \/ LinkDrops \/ Killed \/ cmd_display

\* The threads have one priority above the idle thread's and take turns; a
\* sleeping one is woken by the tick.
CrayFairness ==
  WF_crayvars(cray_one) /\ WF_crayvars(cray_tx_thread) /\ WF_crayvars(cray_disp_thread)

CraySpec == CrayInit /\ [][CrayNext]_crayvars /\ CrayFairness
-----------------------------------------------------------------------------
(* Properties *)

CrayTypeOK ==
  /\ DisplayTypeOK
  /\ link \in BOOLEAN /\ g_mcast \subseteq Sock /\ lost \subseteq Sock
  /\ {g_sock, sock} \subseteq Sock \union {NoSock}
  /\ g_my_colors \in Colours \union {Black} /\ g_my_colors_dirty \in BOOLEAN
  /\ g_rx_mq \in Seq(Senders \X Colours \union {Zeroed}) /\ Len(g_rx_mq) <= MQ_MAX_MSG
  /\ sized \in BOOLEAN
  /\ g_cray_done \subseteq {"tx", "disp"} /\ g_cray_running \in BOOLEAN
  /\ framebuffer \in [Block -> Colours \union {Black}]

Painting(n) == job # None /\ job.node = n
Underway == main \in {"spawn", "spawned", "wait"}

\* The panel is current, and a run that has drawn its grid has made good what
\* one that was killed in the middle of drawing left unmarked.
PanelCurrent == PanelFollows /\ (Underway => missed = {})

\* The grid shows whole announcements, each in the blocks of its node: the
\* node's own blocks hold its present colours unless the flag that says they
\* changed is, or is about to be, set; a peer's blocks are of one message.
\* No kill, no changed configuration and no datagram in between mixes them.
BlocksFollow ==
  Underway =>
    /\ g_my_colors_dirty \/ tx = "picked" \/ Painting(g_nodeid)
         \/ \A b \in BlocksOf(g_nodeid) : framebuffer[b] = g_my_colors
    /\ \A n \in 0..g_maxnodes-1 :
         n = g_nodeid \/ Painting(n)
           \/ \A b, d \in BlocksOf(n) : framebuffer[b] = framebuffer[d]

\* "Survive a thread kill: keep the multicast socket handle so the next run can
\* close it": every open socket can still be closed, but one whose opener was
\* killed before it had stored the handle.  The socket is open as long as a
\* thread may send on it.
SocketKept ==
  /\ g_mcast \subseteq {g_sock, sock} \union lost
  /\ tx # "none" => g_sock \in g_mcast

\* When the announcing thread gives up, the display thread and then the main
\* thread end too, however the end meets a paint, a flush or a full queue.
EndsTogether == (main = "wait" /\ tx = "leaving") ~> main = "off"
=============================================================================

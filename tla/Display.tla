------------------------------ MODULE Display ------------------------------
(***************************************************************************)
(* The display driver: a framebuffer in RAM, a panel at the end of a serial*)
(* line, and the range of rows that a flush has to send.  What the pixels  *)
(* are does not matter here: a row of the panel is either as it is in the  *)
(* framebuffer or not.  No lock is taken anywhere: dev_ioctl() calls       *)
(* straight into the driver.                                               *)
(***************************************************************************)
EXTENDS Integers, FiniteSets

CONSTANTS
  DISP_HEIGHT,   \* rows
  User,          \* who may draw and flush
  None

ASSUME DisplayAssumption == DISP_HEIGHT \in Nat \ {0} /\ None \notin Nat \union Nat \X Nat

Row == 0..DISP_HEIGHT-1

VARIABLES
  dirty_min, dirty_max,  \* the rows touched since the last flush: none if min > max
  shown,                 \* the rows of the panel that are as in the framebuffer
  flush,                 \* the row a user's flush sends next, or None
  drawing,               \* the rows whose pixels a user has stored and will mark, or None
  missed                 \* ghost: rows that were stored by a user that was killed then

dvars == <<dirty_min, dirty_max, shown, flush, drawing, missed>>

\* dirty_reset()
Clean == dirty_min' = DISP_HEIGHT /\ dirty_max' = 0

\* display_open() at boot has drawn and flushed its splash.
DisplayInit ==
  /\ dirty_min = DISP_HEIGHT /\ dirty_max = 0
  /\ shown = Row /\ missed = {}
  /\ flush = [u \in User |-> None] /\ drawing = [u \in User |-> None]

Lower(x, y)  == IF x < y THEN x ELSE y
Higher(x, y) == IF x > y THEN x ELSE y

\* Mutant: a row that moves the lower end is not looked at for the upper one.
dirty_mark_else(first, last) ==
  /\ dirty_min' = Lower(first, dirty_min)
  /\ dirty_max' = IF first < dirty_min THEN dirty_max ELSE Higher(last, dirty_max)

\* dirty_mark_row() for every row from first to last.
dirty_mark(first, last) ==
  /\ dirty_min' = Lower(first, dirty_min)
  /\ dirty_max' = Higher(last, dirty_max)

Drawing(u)  == drawing[u] # None
Unmarked(u) == IF Drawing(u) THEN drawing[u][1]..drawing[u][2] ELSE {}

\* A primitive stores pixels ...
Stores(u, first, last) ==
  /\ ~Drawing(u) /\ drawing' = [drawing EXCEPT ![u] = <<first, last>>]
  /\ shown' = shown \ (first..last)
  /\ UNCHANGED <<dirty_min, dirty_max, flush, missed>>

\* ... and marks their rows afterwards.
Marks(u) ==
  /\ Drawing(u) /\ drawing' = [drawing EXCEPT ![u] = None]
  /\ dirty_mark(drawing[u][1], drawing[u][2])
  /\ missed' = missed \ (dirty_min'..dirty_max')
  /\ UNCHANGED <<shown, flush>>
-----------------------------------------------------------------------------
(* display_flush_fb() *)

Flushing(u) == flush[u] # None

FlushBegins(u) ==
  /\ flush' = [flush EXCEPT ![u] = IF dirty_min > dirty_max THEN None ELSE dirty_min]
  /\ UNCHANGED <<dirty_min, dirty_max, shown, drawing, missed>>

FlushRow(u) ==
  /\ Flushing(u) /\ flush[u] <= dirty_max
  /\ shown' = shown \union {flush[u]}
  /\ flush' = [flush EXCEPT ![u] = @ + 1]
  /\ UNCHANGED <<dirty_min, dirty_max, drawing, missed>>

FlushEnds(u) ==
  /\ Flushing(u) /\ flush[u] > dirty_max
  /\ Clean
  /\ flush' = [flush EXCEPT ![u] = None]
  /\ UNCHANGED <<shown, drawing, missed>>

\* The thread that flushes or draws is killed: the driver notices nothing.
Abandoned(u) ==
  /\ flush' = [flush EXCEPT ![u] = None] /\ drawing' = [drawing EXCEPT ![u] = None]
  /\ missed' = missed \union (Unmarked(u) \ (dirty_min..dirty_max))
  /\ UNCHANGED <<dirty_min, dirty_max, shown>>
-----------------------------------------------------------------------------
DisplayTypeOK ==
  /\ dirty_min \in 0..DISP_HEIGHT /\ dirty_max \in Row
  /\ shown \subseteq Row /\ missed \subseteq Row
  /\ flush \in [User -> 0..DISP_HEIGHT \union {None}]
  /\ drawing \in [User -> Row \X Row \union {None}]

\* "Only the rows modified since the last flush are transmitted": every row
\* that the next flush would not send is on the panel already, also when a
\* flush is under way or was given up in the middle.  The rows that are neither
\* are those that somebody is about to mark, and those of a drawer that was
\* killed between its pixels and their mark, until a mark covers them.
PanelFollows ==
  \A y \in Row : \/ y \in shown \/ y \in dirty_min..dirty_max
                 \/ y \in missed \/ \E u \in User : y \in Unmarked(u)
=============================================================================

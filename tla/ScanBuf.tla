------------------------------- MODULE ScanBuf -------------------------------
(***************************************************************************)
(* scanbuf_t: which of three result lists is being filled by the radio,    *)
(* which holds the newest finished window and which the consumer reads.    *)
(* The roles move, the lists stay where they are.                          *)
(***************************************************************************)
EXTENDS Naturals

CONSTANT
  Wrap   \* the counters are modulo Wrap (2^32 in the code)

ASSUME WrapAssumption == Wrap \in Nat \ {0}

List    == 0..2
Role    == {"fill", "ready", "held"}
Counter == 0..(Wrap - 1)

ScanBufType == [fill : List, ready : List, held : List, fresh : BOOLEAN,
                seq : Counter, dropped : Counter]

Incremented(n) == (n + 1) % Wrap

scanbuf_init == [fill |-> 0, ready |-> 1, held |-> 2, fresh |-> FALSE,
                 seq |-> 0, dropped |-> 0]

\* Mutant: a window the consumer never took is not counted.
PublishUncounted(b) ==
  [b EXCEPT !.fill = b.ready, !.ready = b.fill, !.fresh = TRUE, !.seq = Incremented(@)]

\* Mutant: only one half of the exchange is made.
PublishHalf(b) == [b EXCEPT !.fill = b.ready, !.fresh = TRUE, !.seq = Incremented(@)]

\* The window ends: fill and ready change places.
scanbuf_publish(b) ==
  [b EXCEPT !.fill    = b.ready,
            !.ready   = b.fill,
            !.fresh   = TRUE,
            !.seq     = Incremented(@),
            !.dropped = IF b.fresh THEN Incremented(@) ELSE @]

\* A fresh window is taken: ready and held change places.
scanbuf_take(b) ==
  IF b.fresh THEN [b EXCEPT !.held = b.ready, !.ready = b.held, !.fresh = FALSE] ELSE b

\* No list ever plays two roles.
Distinct(b) == b.fill # b.ready /\ b.ready # b.held /\ b.fill # b.held
=============================================================================

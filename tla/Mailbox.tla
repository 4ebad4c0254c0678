------------------------------- MODULE Mailbox -------------------------------
(***************************************************************************)
(* What a continuous scan promises its subscriber: the radio adds to an    *)
(* open window; when the window ends it is COPIED into a box of size one,  *)
(* where it replaces a window nobody took; the subscriber copies it from   *)
(* there.  No buffer is shared, so nothing the radio hears later can reach *)
(* the subscriber's copy.                                                  *)
(***************************************************************************)
EXTENDS Naturals

CONSTANTS Net, Wrap, None

VARIABLES open, box, mine, seq, lost

mailbox == <<open, box, mine, seq, lost>>

MailInit == open = {} /\ box = None /\ mine = {} /\ seq = 0 /\ lost = 0

Hears == /\ \E n \in Net : open' = open \union {n}
         /\ UNCHANGED <<box, mine, seq, lost>>

Publishes == /\ box' = open
             /\ open' = {}
             /\ seq' = (seq + 1) % Wrap
             /\ lost' = IF box = None THEN lost ELSE (lost + 1) % Wrap
             /\ UNCHANGED mine

Takes == /\ box # None
         /\ mine' = box /\ box' = None
         /\ UNCHANGED <<open, seq, lost>>

Restarts == open' = {} /\ box' = None /\ mine' = {} /\ seq' = 0 /\ lost' = 0

MailNext == Hears \/ Publishes \/ Takes \/ Restarts

MailSpec == MailInit /\ [][MailNext]_mailbox
=============================================================================

----------------------------- MODULE MultiFifo -----------------------------
(***************************************************************************)
(* What udt::PacketQueue promises: one FIFO queue per packet list, and one *)
(* for the packets sent alone, of which any non-empty one is served next.  *)
(* last is the packet taken last; "none" is only returned when nothing is  *)
(* queued.                                                                 *)
(***************************************************************************)
EXTENDS Naturals, Sequences

CONSTANTS Fifos, None

VARIABLES fifo, last

vars == <<fifo, last>>

Init == fifo = [f \in Fifos |-> <<>>] /\ last = None

\* Packets are added at the end of one queue
Put ==
    \E f \in Fifos :
        /\ Len(fifo'[f]) > Len(fifo[f])
        /\ SubSeq(fifo'[f], 1, Len(fifo[f])) = fifo[f]
        /\ \A g \in Fifos \ {f} : fifo'[g] = fifo[g]
        /\ UNCHANGED last

Take ==
    \E f \in Fifos :
        /\ fifo[f] # <<>>
        /\ last' = Head(fifo[f])
        /\ fifo' = [fifo EXCEPT ![f] = Tail(@)]

TakeNothing ==
    /\ \A f \in Fifos : fifo[f] = <<>>
    /\ last' = None /\ UNCHANGED fifo

\* A stopped queue goes with all it holds
Discard == fifo' = [f \in Fifos |-> <<>>] /\ UNCHANGED last

Next == Put \/ Take \/ TakeNothing \/ Discard

Spec == Init /\ [][Next]_vars
=============================================================================

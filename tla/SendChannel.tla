----------------------------- MODULE SendChannel -----------------------------
(***************************************************************************)
(* What the send queue promises to potr_service_send: a bounded FIFO.      *)
(* Elements are accepted while fewer than Capacity of them are waiting,    *)
(* and are handed over to the network in the order of acceptance, each     *)
(* once, one or several at a time; a waiting element is handed over in the *)
(* end.                                                                    *)
(***************************************************************************)
EXTENDS Naturals, Sequences

CONSTANTS Capacity, Elem

VARIABLES accepted, sent

Init == accepted = << >> /\ sent = << >>

Accept ==
    /\ Len(accepted) - Len(sent) < Capacity
    /\ \E e \in Elem : accepted' = Append(accepted, e)
    /\ sent' = sent

Send ==
    /\ \E n \in Len(sent) + 1 .. Len(accepted) : sent' = SubSeq(accepted, 1, n)
    /\ accepted' = accepted

Next == Accept \/ Send

Safe == Init /\ [][Next]_<<accepted, sent>>

Spec == Safe /\ WF_<<accepted, sent>>(Send)
==============================================================================

------------------------------ MODULE WindowRing ------------------------------
(***************************************************************************)
(* The window of protocol/window.c against what it stands for.  Packets    *)
(* have an unbounded position 0, 1, 2, ... in the stream; the sender       *)
(* window must hold exactly the last window_size positions it was given,   *)
(* and the receiver window exactly the positions that arrived and were not *)
(* popped, although both know positions only modulo 2^32 and keep them in  *)
(* a ring whose size need not divide 2^32.                                 *)
(***************************************************************************)
EXTENDS Window

CONSTANTS
    FirstPos,  \* position of the first packet of the session
    LastPos    \* bound on positions

\* A packet is named by its position.
ASSUME PosAssumption ==
    /\ FirstPos \in Nat /\ LastPos \in Nat /\ FirstPos <= LastPos
    /\ FirstPos .. LastPos \subseteq Packets

VARIABLES
    sw,      \* send_window
    sentTo,  \* one past the last position pushed
    rw,      \* recv_window
    rpos,    \* the position recv_pop will return next
    stored   \* the positions that arrived and were not popped or skipped

vars == <<sw, sentTo, rw, rpos, stored>>

Init ==
    /\ sw = EmptyWindow(SeqNum(FirstPos)) /\ sentTo = FirstPos
    /\ rw = EmptyWindow(SeqNum(FirstPos)) /\ rpos = FirstPos /\ stored = {}

SenderPushes ==
    /\ sentTo < LastPos
    /\ sw' = SendPush(sw, sentTo)
    /\ sentTo' = sentTo + 1
    /\ UNCHANGED <<rw, rpos, stored>>

\* A packet arrives, in order or not, once or again, but not so late or so
\* early that its sequence number has come round again.
Arrives(n) ==
    /\ n < sentTo
    /\ rpos - n <= SeqSpace - WindowSize /\ n - rpos < SeqSpace
    /\ rw' = IF RecvAccepts(rw, SeqNum(n)) THEN RecvPush(rw, SeqNum(n), n) ELSE rw
    /\ stored' = IF n \in rpos .. rpos + WindowSize - 1 THEN stored \cup {n} ELSE stored
    /\ UNCHANGED <<sw, sentTo, rpos>>

ReceiverPops ==
    /\ Slot(rw, rw.next) # NoPkt
    /\ rw' = RecvAdvance(rw)
    /\ rpos' = rpos + 1
    /\ stored' = stored \ {rpos}
    /\ UNCHANGED <<sw, sentTo>>

\* REJECT for the number the receiver is waiting for.
ReceiverSkips ==
    /\ rpos < LastPos
    /\ rw' = RecvSkip(rw, SeqNum(rpos))
    /\ rpos' = rpos + 1
    /\ stored' = stored \ {rpos}
    /\ UNCHANGED <<sw, sentTo>>

Next == \/ SenderPushes
        \/ \E n \in FirstPos .. LastPos : Arrives(n)
        \/ ReceiverPops
        \/ ReceiverSkips

Spec == Init /\ [][Next]_vars

-----------------------------------------------------------------------------
TypeOK ==
    /\ sw \in Windows /\ sentTo \in FirstPos .. LastPos
    /\ rw \in Windows /\ rpos \in Nat /\ stored \subseteq FirstPos .. LastPos

\* potr_internal_window_send_get finds a position exactly if it is one of
\* the last window_size pushed, and then returns the packet pushed there,
\* before and after the number wraps; every other number, evicted or not
\* yet sent, is not found.
SenderHolds ==
    \A n \in FirstPos .. LastPos :
        (sentTo - n <= SeqSpace - WindowSize /\ n - sentTo < SeqSpace - WindowSize)
        => SendGet(sw, SeqNum(n)) =
              IF n < sentTo /\ sentTo <= n + WindowSize THEN n ELSE NoPkt

\* Every slot of the receive window holds the packet of the position it
\* stands for, if that packet arrived, and nothing otherwise: a popped or
\* skipped slot is clean when the ring comes round to it.
ReceiverHolds ==
    /\ rw.next = SeqNum(rpos) /\ rw.base = rw.next
    /\ \A d \in 0 .. WindowSize - 1 :
          Slot(rw, SeqAdd(rw.next, d)) =
              IF rpos + d \in stored THEN rpos + d ELSE NoPkt

\* potr_internal_window_recv_needs_nack asks for a packet exactly when the
\* next one is missing and a later one is there.
NackExact == NeedsNack(rw) <=> (rpos \notin stored /\ stored # {})
==============================================================================

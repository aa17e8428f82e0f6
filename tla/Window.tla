-------------------------------- MODULE Window --------------------------------
(***************************************************************************)
(* The sliding window of protocol/window.c: a ring of window_size packets  *)
(* addressed by sequence number.  Sequence numbers are uint32_t and wrap   *)
(* at SeqSpace (2^32 in the code, small in the instances).  Sender and     *)
(* receiver use the same structure with different operations.              *)
(***************************************************************************)
EXTENDS Integers, Sizes

CONSTANTS
    WindowSize,  \* window_size
    SeqSpace,    \* 2^32
    Packets,     \* packet contents
    NoPkt        \* the content of a slot whose valid flag is 0

ASSUME WindowAssumption ==
    /\ WindowSize \in Nat /\ WindowSize >= 2 /\ HasLeast(WindowSize)
    /\ SeqSpace \in Nat /\ 2 * WindowSize <= SeqSpace
    /\ NoPkt \notin Packets

Seqs == 0 .. SeqSpace - 1

Indexes == 0 .. WindowSize - 1

\* potr_internal_window: valid and packets are one function, NoPkt standing
\* for valid = 0.
Windows == [base : Seqs, next : Seqs, index : Indexes,
            slots : [Indexes -> Packets \cup {NoPkt}]]

\* The number of the packet at a position of an unbounded stream.
SeqNum(n) == n % SeqSpace

\* uint32_t addition and subtraction.
SeqAdd(a, n) == (a + n) % SeqSpace

SeqSub(a, b) == (a - b) % SeqSpace

\* Slip: signed comparison of the numbers, which forgets the wrap.
InWindowSigned(seq, base, size) == seq - base >= 0 /\ seq - base < size

\* potr_internal_seqnum_in_window
InWindow(seq, base, size) == SeqSub(seq, base) < size

\* potr_internal_window_init and potr_internal_window_recv_reset
EmptyWindow(seq) == [base |-> seq, next |-> seq, index |-> 0,
                     slots |-> [i \in Indexes |-> NoPkt]]

\* win_index
WinIndex(w, seq) == (w.index + SeqSub(seq, w.base)) % WindowSize

Slot(w, seq) == w.slots[WinIndex(w, seq)]

SetSlot(w, seq, p) == [w EXCEPT !.slots[WinIndex(w, seq)] = p]

\* Slip: the index runs past the end of the ring.
AdvanceBaseNoWrap(w) == [w EXCEPT !.base = SeqAdd(@, 1), !.index = @ + 1]

\* win_advance_base
AdvanceBase(w) == [w EXCEPT !.base = SeqAdd(@, 1), !.index = (@ + 1) % WindowSize]

-----------------------------------------------------------------------------
\* Sender side

SendFull(w) == SeqSub(w.next, w.base) >= WindowSize

\* potr_internal_window_send_push: a full window gives up its oldest entry.
SendPush(w, p) ==
    LET e == IF SendFull(w) THEN AdvanceBase(SetSlot(w, w.base, NoPkt)) ELSE w
    IN  [SetSlot(e, e.next, p) EXCEPT !.next = SeqAdd(@, 1)]

\* potr_internal_window_send_get: NoPkt stands for POTR_ERR_NOT_FOUND.
SendGet(w, seq) ==
    IF InWindow(seq, w.base, SeqSub(w.next, w.base)) THEN Slot(w, seq) ELSE NoPkt

-----------------------------------------------------------------------------
\* Receiver side

RecvAccepts(w, seq) == InWindow(seq, w.base, WindowSize)

\* potr_internal_window_recv_push inside the window: the first copy of a
\* packet is kept.
RecvPush(w, seq, p) == IF Slot(w, seq) = NoPkt THEN SetSlot(w, seq, p) ELSE w

\* Slip: the slot is not emptied when it is popped.
RecvAdvanceStale(w) == [AdvanceBase(w) EXCEPT !.next = SeqAdd(@, 1)]

\* potr_internal_window_recv_pop on a valid slot, and recv_skip on any:
\* the slot at next_seq is emptied and the window moves on by one.
RecvAdvance(w) ==
    [AdvanceBase(SetSlot(w, w.next, NoPkt)) EXCEPT !.next = SeqAdd(@, 1)]

\* The packets recv_pop returns one after the other.
Poppable(w) ==
    LET n == CHOOSE d \in 0 .. WindowSize :
                 /\ \A i \in 0 .. d - 1 : Slot(w, SeqAdd(w.next, i)) # NoPkt
                 /\ d < WindowSize => Slot(w, SeqAdd(w.next, d)) = NoPkt
    IN  [i \in 1 .. n |-> Slot(w, SeqAdd(w.next, i - 1))]

\* The window after recv_pop returned n packets: RecvAdvance, n times.
Popped(w, n) ==
    [base |-> SeqAdd(w.base, n), next |-> SeqAdd(w.next, n),
     index |-> (w.index + n) % WindowSize,
     slots |-> [i \in Indexes |->
                  IF \E k \in 0 .. n - 1 : i = WinIndex(w, SeqAdd(w.next, k))
                  THEN NoPkt ELSE w.slots[i]]]

\* potr_internal_window_recv_skip
RecvSkip(w, seq) == IF w.next = seq THEN RecvAdvance(w) ELSE w

\* Slip: any packet behind the next one counts as the end of a gap.
NeedsNackAny(w) == \E i \in 1 .. WindowSize - 1 : Slot(w, SeqAdd(w.next, i)) # NoPkt

\* potr_internal_window_recv_needs_nack; the number to ask for is w.next.
NeedsNack(w) ==
    /\ Slot(w, w.next) = NoPkt
    /\ \E i \in 1 .. WindowSize - 1 : Slot(w, SeqAdd(w.next, i)) # NoPkt
==============================================================================

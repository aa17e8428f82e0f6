----------------------------- MODULE WindowProof -----------------------------
(***************************************************************************)
(* Proofs about WindowRing, for every window size of at least 2, every     *)
(* number space at least twice as large, and streams of any length from    *)
(* any position.  The size of the window need not divide that of the       *)
(* number space.                                                           *)
(***************************************************************************)
EXTENDS WindowRing, WindowLemmas, NaturalsInduction, WellFoundedInduction

\* The window w of a sender holds the positions b .. n - 1.
SendHolds(w, b, n) ==
    /\ w \in Windows /\ w.base = SeqNum(b) /\ w.next = SeqNum(n)
    /\ n - b \in 0 .. WindowSize
    /\ \A d \in 0 .. n - b - 1 : At(w, d) = b + d

\* The oldest position the sender still holds.
Oldest == IF sentTo - FirstPos <= WindowSize THEN FirstPos ELSE sentTo - WindowSize

\* The window w of a receiver waits for position p and holds those of S.
RecvHolds(w, p, S) ==
    /\ Expects(w, p)
    /\ S \subseteq p .. p + WindowSize - 1
    /\ \A d \in 0 .. WindowSize - 1 : At(w, d) = IF p + d \in S THEN p + d ELSE NoPkt

\* The inductive invariant.
Inv ==
    /\ sentTo \in FirstPos .. LastPos /\ SendHolds(sw, Oldest, sentTo)
    /\ rpos \in Nat /\ stored \subseteq FirstPos .. LastPos /\ RecvHolds(rw, rpos, stored)

\* potr_internal_window_send_push keeps the last positions, one more of them.
LEMMA Pushed ==
    ASSUME NEW w, NEW b \in Int, NEW n \in Int, SendHolds(w, b, n), n \in Packets
    PROVE  SendHolds(SendPush(w, n), IF n - b = WindowSize THEN b + 1 ELSE b, n + 1)
<1> DEFINE c == IF n - b = WindowSize THEN b + 1 ELSE b
           v == SendPush(w, n)
<1>1. /\ w \in Windows /\ w.base = SeqNum(b) /\ w.next = SeqNum(n) /\ n - b \in 0 .. WindowSize
      /\ \A d \in 0 .. n - b - 1 : At(w, d) = b + d
      /\ WindowSize \in Nat
  BY WindowAssumption DEF SendHolds
<1>2. c \in Int /\ (n - b = WindowSize => c = b + 1) /\ (n - b # WindowSize => c = b)
  OBVIOUS
<1> HIDE DEF c
<1>3. /\ v \in Windows /\ v.base = SeqNum(c) /\ v.next = SeqNum(n + 1)
      /\ n - c \in 0 .. WindowSize - 1 /\ At(v, n - c) = n
      /\ \A d \in 0 .. n - c - 1 : At(v, d) = At(w, d + (c - b))
  <2>1. w \in Windows /\ w.base = SeqNum(b) /\ w.next = SeqNum(n) /\ n - b \in 0 .. WindowSize
    BY <1>1
  <2> HIDE DEF v
  <2>2. /\ SendPush(w, n) \in Windows /\ SendPush(w, n).base = SeqNum(c)
        /\ SendPush(w, n).next = SeqNum(n + 1) /\ n - c \in 0 .. WindowSize - 1
        /\ \A d \in 0 .. n - c - 1 : At(SendPush(w, n), d) = At(w, d + (c - b))
        /\ At(SendPush(w, n), n - c) = n
    BY <1>2, <2>1, SendPushed
  <2> QED BY <2>2, Zenon DEF v
<1> HIDE DEF v
<1>4. ASSUME NEW d \in 0 .. (n + 1) - c - 1 PROVE At(v, d) = c + d
  <2>1. CASE d = n - c
    BY <1>2, <1>3, <2>1
  <2>2. CASE d # n - c
    <3>1. d \in 0 .. n - c - 1 /\ d + (c - b) \in 0 .. n - b - 1 /\ b + (d + (c - b)) = c + d
      BY <1>1, <1>2, <1>3, <2>2
    <3> QED BY <1>1, <1>3, <3>1
  <2> QED BY <2>1, <2>2
<1>5. (n + 1) - c \in 0 .. WindowSize
  BY <1>1, <1>2, <1>3
<1>6. SendHolds(v, c, n + 1)
  BY <1>3, <1>4, <1>5 DEF SendHolds
<1> QED BY <1>6 DEF v, c

\* potr_internal_window_recv_push keeps the first copy of a position inside
\* the window, and refuses the others.
LEMMA Arrived ==
    ASSUME NEW w, NEW p \in Int, NEW S, RecvHolds(w, p, S), NEW n \in Int, n \in Packets,
           p - n <= SeqSpace - WindowSize, n - p < SeqSpace
    PROVE  RecvHolds(IF RecvAccepts(w, SeqNum(n)) THEN RecvPush(w, SeqNum(n), n) ELSE w, p,
                     IF n \in p .. p + WindowSize - 1 THEN S \cup {n} ELSE S)
<1>1. /\ Expects(w, p) /\ S \subseteq p .. p + WindowSize - 1
      /\ \A d \in 0 .. WindowSize - 1 : At(w, d) = IF p + d \in S THEN p + d ELSE NoPkt
      /\ WindowSize \in Nat /\ n # NoPkt
  BY WindowAssumption DEF RecvHolds
<1>2. RecvAccepts(w, SeqNum(n)) <=> n \in p .. p + WindowSize - 1
  BY <1>1, Acceptance
<1>3. CASE n \notin p .. p + WindowSize - 1
  BY <1>2, <1>3
<1>4. CASE n \in p .. p + WindowSize - 1
  <2> DEFINE v == RecvPush(w, SeqNum(n), n)
  <2>1. /\ Expects(v, p)
        /\ \A d \in 0 .. WindowSize - 1 :
              At(v, d) = IF d = n - p /\ At(w, d) = NoPkt THEN n ELSE At(w, d)
    <3>1. n - p \in 0 .. WindowSize - 1
      BY <1>1, <1>4
    <3> QED BY <1>1, <3>1, Stored
  <2> HIDE DEF v
  <2>2. ASSUME NEW d \in 0 .. WindowSize - 1
        PROVE  At(v, d) = IF p + d \in S \cup {n} THEN p + d ELSE NoPkt
    <3>1. d = n - p <=> p + d = n
      OBVIOUS
    <3>2. p + d = n => p + d # NoPkt
      BY <1>1
    <3> QED BY <1>1, <2>1, <3>1, <3>2
  <2>3. RecvHolds(v, p, S \cup {n})
    BY <1>1, <1>4, <2>1, <2>2 DEF RecvHolds
  <2> QED BY <1>2, <1>4, <2>3 DEF v
<1> QED BY <1>3, <1>4

\* potr_internal_window_recv_pop and potr_internal_window_recv_skip leave one
\* position behind.
LEMMA LeftBehind ==
    ASSUME NEW w, NEW p \in Int, NEW S, RecvHolds(w, p, S)
    PROVE  RecvHolds(RecvAdvance(w), p + 1, S \ {p})
<1> DEFINE v == RecvAdvance(w)
<1>1. /\ Expects(w, p) /\ S \subseteq p .. p + WindowSize - 1
      /\ \A d \in 0 .. WindowSize - 1 : At(w, d) = IF p + d \in S THEN p + d ELSE NoPkt
      /\ WindowSize \in Nat /\ WindowSize >= 2
  BY WindowAssumption DEF RecvHolds
<1>2. /\ Expects(v, p + 1) /\ At(v, WindowSize - 1) = NoPkt
      /\ \A d \in 0 .. WindowSize - 2 : At(v, d) = At(w, d + 1)
  BY <1>1, MovedOn
<1> HIDE DEF v
<1>3. ASSUME NEW d \in 0 .. WindowSize - 1
      PROVE  At(v, d) = IF (p + 1) + d \in S \ {p} THEN (p + 1) + d ELSE NoPkt
  <2>1. CASE d = WindowSize - 1
    <3>1. (p + 1) + d \notin S
      BY <1>1, <2>1
    <3> QED BY <1>2, <2>1, <3>1
  <2>2. CASE d # WindowSize - 1
    <3>1. d \in 0 .. WindowSize - 2 /\ d + 1 \in 0 .. WindowSize - 1
      BY <1>1, <2>2
    <3>2. p + (d + 1) = (p + 1) + d /\ (p + 1) + d # p
      BY <3>1
    <3> QED BY <1>1, <1>2, <3>1, <3>2
  <2> QED BY <2>1, <2>2
<1>4. S \ {p} \subseteq p + 1 .. (p + 1) + WindowSize - 1
  BY <1>1
<1>5. RecvHolds(v, p + 1, S \ {p})
  BY <1>2, <1>3, <1>4 DEF RecvHolds
<1> QED BY <1>5 DEF v

-----------------------------------------------------------------------------
\* The inductive invariant

\* potr_internal_window_init establishes it.
LEMMA InitInv == Init => Inv
<1> SUFFICES ASSUME Init PROVE Inv
  OBVIOUS
<1> DEFINE w == EmptyWindow(SeqNum(FirstPos))
<1>1. /\ FirstPos \in Nat /\ LastPos \in Nat /\ FirstPos <= LastPos
      /\ WindowSize \in Nat /\ WindowSize >= 2
  BY WindowAssumption, PosAssumption
<1>2. sw = w /\ rw = w /\ sentTo = FirstPos /\ rpos = FirstPos /\ stored = {} /\ Oldest = FirstPos
  BY <1>1 DEF Init, Oldest
<1>3. Expects(w, FirstPos) /\ \A d \in 0 .. WindowSize - 1 : At(w, d) = NoPkt
  BY <1>1, Emptied
<1> HIDE DEF w
<1>5. SendHolds(w, FirstPos, FirstPos)
  BY <1>1, <1>3 DEF SendHolds, Expects
<1>6. RecvHolds(w, FirstPos, {})
  BY <1>1, <1>3 DEF RecvHolds
<1>7. sentTo \in FirstPos .. LastPos /\ rpos \in Nat /\ stored \subseteq FirstPos .. LastPos
  BY <1>1, <1>2
<1>8. SendHolds(sw, Oldest, sentTo) /\ RecvHolds(rw, rpos, stored)
  BY <1>2, <1>5, <1>6
<1> QED BY <1>7, <1>8 DEF Inv

\* Every operation keeps it.
LEMMA StepInv == Inv /\ [Next]_vars => Inv'
<1> SUFFICES ASSUME Inv, [Next]_vars PROVE Inv'
  OBVIOUS
<1>1. /\ FirstPos \in Nat /\ LastPos \in Nat /\ FirstPos <= LastPos
      /\ FirstPos .. LastPos \subseteq Packets
      /\ WindowSize \in Nat /\ WindowSize >= 2 /\ SeqSpace \in Nat /\ 2 * WindowSize <= SeqSpace
  BY WindowAssumption, PosAssumption
<1>2. /\ sentTo \in FirstPos .. LastPos /\ SendHolds(sw, Oldest, sentTo)
      /\ rpos \in Nat /\ stored \subseteq FirstPos .. LastPos /\ RecvHolds(rw, rpos, stored)
  BY DEF Inv
<1>3. CASE SenderPushes
  <2>1. /\ sentTo < LastPos /\ sw' = SendPush(sw, sentTo) /\ sentTo' = sentTo + 1
        /\ rw' = rw /\ rpos' = rpos /\ stored' = stored
    BY <1>3 DEF SenderPushes
  <2>2. Oldest \in Int /\ sentTo \in Int /\ sentTo \in Packets
    BY <1>1, <1>2 DEF Oldest
  <2>3. SendHolds(SendPush(sw, sentTo),
                  IF sentTo - Oldest = WindowSize THEN Oldest + 1 ELSE Oldest, sentTo + 1)
    BY <1>2, <2>2, Pushed
  <2>4. Oldest' = IF sentTo - Oldest = WindowSize THEN Oldest + 1 ELSE Oldest
    BY <1>1, <1>2, <2>1 DEF Oldest
  <2>5. SendHolds(sw', Oldest', sentTo')
    BY <2>1, <2>3, <2>4
  <2>6. sentTo' \in FirstPos .. LastPos
    BY <1>1, <1>2, <2>1
  <2> QED BY <1>2, <2>1, <2>5, <2>6 DEF Inv
<1>4. ASSUME NEW n \in FirstPos .. LastPos, Arrives(n)
      PROVE  Inv'
  <2>1. /\ rpos - n <= SeqSpace - WindowSize /\ n - rpos < SeqSpace
        /\ rw' = IF RecvAccepts(rw, SeqNum(n)) THEN RecvPush(rw, SeqNum(n), n) ELSE rw
        /\ stored' = IF n \in rpos .. rpos + WindowSize - 1 THEN stored \cup {n} ELSE stored
        /\ sw' = sw /\ sentTo' = sentTo /\ rpos' = rpos
    BY <1>4 DEF Arrives
  <2>2. n \in Int /\ n \in Packets /\ rpos \in Int
    BY <1>1, <1>2
  <2>3. RecvHolds(rw', rpos', stored')
    BY <1>2, <2>1, <2>2, Arrived
  <2>4. stored' \subseteq FirstPos .. LastPos
    BY <1>2, <2>1
  <2>5. Oldest' = Oldest
    BY <2>1 DEF Oldest
  <2> QED BY <1>2, <2>1, <2>3, <2>4, <2>5 DEF Inv
<1>5. ASSUME rw' = RecvAdvance(rw), rpos' = rpos + 1, stored' = stored \ {rpos},
             sw' = sw, sentTo' = sentTo
      PROVE  Inv'
  <2>1. RecvHolds(rw', rpos', stored')
    BY <1>2, <1>5, LeftBehind
  <2>2. Oldest' = Oldest
    BY <1>5 DEF Oldest
  <2> QED BY <1>2, <1>5, <2>1, <2>2 DEF Inv
<1>6. CASE ReceiverPops
  BY <1>5, <1>6 DEF ReceiverPops
<1>7. CASE ReceiverSkips
  <2>1. RecvSkip(rw, SeqNum(rpos)) = RecvAdvance(rw)
    BY <1>2 DEF RecvSkip, RecvHolds, Expects
  <2> QED BY <1>5, <1>7, <2>1 DEF ReceiverSkips
<1>8. CASE UNCHANGED vars
  <2>1. Oldest' = Oldest
    BY <1>8 DEF Oldest, vars
  <2> QED BY <1>2, <1>8, <2>1 DEF Inv, vars
<1> QED BY <1>3, <1>4, <1>6, <1>7, <1>8 DEF Next

\* It holds in every reachable state.
LEMMA Invariance == Spec => []Inv
<1>1. Init => Inv
  BY InitInv
<1>2. Inv /\ [Next]_vars => Inv'
  BY StepInv
<1> QED BY <1>1, <1>2, PTL DEF Spec

-----------------------------------------------------------------------------
\* What it says about the operations

\* Both windows keep their types.
LEMMA InvTyped == Inv => TypeOK
  BY DEF Inv, TypeOK, SendHolds, RecvHolds, Expects

\* What send_get finds.
LEMMA InvSender == Inv => SenderHolds
<1> SUFFICES ASSUME Inv, NEW n \in FirstPos .. LastPos,
                    sentTo - n <= SeqSpace - WindowSize, n - sentTo < SeqSpace - WindowSize
             PROVE  SendGet(sw, SeqNum(n)) = IF n < sentTo /\ sentTo <= n + WindowSize THEN n ELSE NoPkt
  BY DEF SenderHolds
<1> DEFINE b == Oldest
<1>1. /\ FirstPos \in Nat /\ LastPos \in Nat /\ sentTo \in FirstPos .. LastPos
      /\ WindowSize \in Nat /\ WindowSize >= 2 /\ SeqSpace \in Nat /\ 2 * WindowSize <= SeqSpace
  BY WindowAssumption, PosAssumption DEF Inv
<1>2. b \in Int /\ (n < sentTo /\ sentTo <= n + WindowSize <=> n \in b .. sentTo - 1)
  BY <1>1 DEF Oldest
<1> HIDE DEF b
<1>3. /\ sw.base = SeqNum(b) /\ sw.next = SeqNum(sentTo) /\ sentTo - b \in 0 .. WindowSize
      /\ \A d \in 0 .. sentTo - b - 1 : At(sw, d) = b + d
  BY DEF Inv, SendHolds, b
<1>4. SeqSub(sw.next, sw.base) = sentTo - b
  BY <1>1, <1>2, <1>3, Distance
<1>5. CASE n - b >= 0
  <2>1. n - b \in 0 .. SeqSpace - 1
    BY <1>1, <1>2, <1>3, <1>5
  <2>2. SeqSub(SeqNum(n), sw.base) = n - b
    BY <1>1, <1>2, <1>3, <2>1, Distance
  <2>3. CASE n < sentTo
    <3>1. Slot(sw, SeqNum(n)) = At(sw, n - b)
      BY <1>2, <1>3, <2>1, IndexOf DEF Slot, At
    <3>2. n - b \in 0 .. sentTo - b - 1 /\ b + (n - b) = n
      BY <1>1, <1>2, <1>5, <2>3
    <3>3. At(sw, n - b) = n
      BY <1>3, <3>2
    <3>4. InWindow(SeqNum(n), sw.base, SeqSub(sw.next, sw.base)) /\ n \in b .. sentTo - 1
      BY <1>1, <1>2, <1>4, <1>5, <2>2, <2>3 DEF InWindow
    <3> QED BY <1>2, <3>1, <3>3, <3>4 DEF SendGet
  <2>4. CASE ~(n < sentTo)
    <3>1. ~InWindow(SeqNum(n), sw.base, SeqSub(sw.next, sw.base))
      BY <1>1, <1>2, <1>4, <2>2, <2>4 DEF InWindow
    <3> QED BY <2>4, <3>1 DEF SendGet
  <2> QED BY <2>3, <2>4
<1>6. CASE n - b < 0
  <2>1. n - b \in -SeqSpace .. -1
    BY <1>1, <1>2, <1>3, <1>6
  <2>2. SeqSub(SeqNum(n), sw.base) = n - b + SeqSpace
    BY <1>1, <1>2, <1>3, <2>1, Distance
  <2>3. ~InWindow(SeqNum(n), sw.base, SeqSub(sw.next, sw.base)) /\ n \notin b .. sentTo - 1
    BY <1>1, <1>2, <1>3, <1>4, <1>6, <2>2 DEF InWindow
  <2> QED BY <1>2, <2>3 DEF SendGet
<1> QED BY <1>1, <1>2, <1>5, <1>6

\* The slot the code finds for the number d after the next one.
LEMMA SlotAhead ==
    ASSUME Inv, NEW d \in 0 .. WindowSize - 1
    PROVE  Slot(rw, SeqAdd(rw.next, d)) = IF rpos + d \in stored THEN rpos + d ELSE NoPkt
<1>1. /\ rpos \in Int /\ Expects(rw, rpos)
      /\ At(rw, d) = IF rpos + d \in stored THEN rpos + d ELSE NoPkt
  BY DEF Inv, RecvHolds
<1> QED BY <1>1, SlotBehind

\* What the slots of the receive window hold.
LEMMA InvReceiver == Inv => ReceiverHolds
<1> SUFFICES ASSUME Inv PROVE ReceiverHolds
  OBVIOUS
<1>1. rw.next = SeqNum(rpos) /\ rw.base = rw.next
  BY DEF Inv, RecvHolds, Expects
<1> QED BY <1>1, SlotAhead DEF ReceiverHolds

\* When needs_nack asks.
LEMMA InvNack == Inv => NackExact
<1> SUFFICES ASSUME Inv PROVE NackExact
  OBVIOUS
<1>1. /\ WindowSize \in Nat /\ WindowSize >= 2 /\ rpos \in Nat /\ rw.next = SeqNum(rpos)
      /\ stored \subseteq rpos .. rpos + WindowSize - 1
      /\ \A n \in stored : n # NoPkt
  BY WindowAssumption, PosAssumption DEF Inv, RecvHolds, Expects
<1>2. Slot(rw, rw.next) = NoPkt <=> rpos \notin stored
  <2>1. 0 \in 0 .. WindowSize - 1 /\ rpos + 0 = rpos
    BY <1>1
  <2>2. SeqAdd(rw.next, 0) = rw.next
    <3>1. SeqSpace \in Nat \ {0} /\ rpos \in Int /\ 0 \in Int
      BY <1>1, WindowAssumption
    <3>2. ((rpos % SeqSpace) + 0) % SeqSpace = (rpos + 0) % SeqSpace
      BY <3>1, ModAdd, Zenon
    <3> QED BY <1>1, <2>1, <3>2 DEF SeqAdd, SeqNum
  <2>3. Slot(rw, rw.next) = IF rpos \in stored THEN rpos ELSE NoPkt
    BY <2>1, <2>2, SlotAhead
  <2> QED BY <1>1, <2>3
<1>3. ASSUME NEW d \in 1 .. WindowSize - 1
      PROVE  Slot(rw, SeqAdd(rw.next, d)) # NoPkt <=> rpos + d \in stored
  <2>1. d \in 0 .. WindowSize - 1
    BY <1>1
  <2>2. Slot(rw, SeqAdd(rw.next, d)) = IF rpos + d \in stored THEN rpos + d ELSE NoPkt
    BY <2>1, SlotAhead
  <2> QED BY <1>1, <2>2
<1>4. ASSUME rpos \notin stored
      PROVE  (\E d \in 1 .. WindowSize - 1 : rpos + d \in stored) <=> stored # {}
  <2>1. ASSUME NEW n \in stored
        PROVE  n - rpos \in 1 .. WindowSize - 1 /\ rpos + (n - rpos) \in stored
    <3>1. n \in rpos .. rpos + WindowSize - 1 /\ n # rpos
      BY <1>1, <1>4, <2>1
    <3>2. rpos + (n - rpos) = n
      BY <1>1, <3>1
    <3> QED BY <1>1, <3>1, <3>2
  <2> QED BY <2>1
<1> QED BY <1>2, <1>3, <1>4 DEF NackExact, NeedsNack

-----------------------------------------------------------------------------
\* The bound of the ring

\* A set of numbers that is not empty has a least one.
LEMMA LeastOfSome ==
    ASSUME NEW T \in SUBSET Nat, T # {}
    PROVE  \E m \in T : \A k \in T : m <= k
<1> DEFINE R == OpToRel(<, Nat)
<1>1. IsWellFoundedOn(R, Nat)
  BY NatLessThanWellFounded
<1>2. \A x, y \in Nat : <<y, x>> \in R <=> y < x
  BY DEF OpToRel
<1> HIDE DEF R
<1>3. PICK x \in T : \A y \in T : ~(<<y, x>> \in R)
  BY <1>1, WFMin
<1>4. ASSUME NEW k \in T PROVE x <= k
  <2>1. x \in Nat /\ k \in Nat
    OBVIOUS
  <2>2. ~(k < x)
    BY <1>2, <1>3, <2>1
  <2> QED BY <2>1, <2>2
<1> QED BY <1>4

-----------------------------------------------------------------------------
\* Theorems

\* Numbers, indexes and slots of both windows keep their types over any number
\* of wraps.
THEOREM WindowsTyped == Spec => []TypeOK
  BY Invariance, InvTyped, PTL

\* potr_internal_window_send_get answers a NACK with the packet that was
\* pushed under that number, exactly as long as it is one of the last
\* window_size.
THEOREM SenderCorrect == Spec => []SenderHolds
  BY Invariance, InvSender, PTL

\* The receive window holds what arrived and was not popped or skipped, each
\* packet in the slot of its number, whatever the order of arrival.
THEOREM ReceiverCorrect == Spec => []ReceiverHolds
  BY Invariance, InvReceiver, PTL

\* potr_internal_window_recv_needs_nack asks exactly at a gap.
THEOREM NackCorrect == Spec => []NackExact
  BY Invariance, InvNack, PTL

\* What WindowAssumption asks of the bound of potr_internal_window_recv_pop's
\* loop holds of every number.
THEOREM BoundHasLeast == \A n \in Nat : HasLeast(n)
<1> SUFFICES ASSUME NEW n \in Nat, NEW T \in SUBSET (0 .. n), T # {}
             PROVE  \E m \in T : \A k \in T : m <= k
  BY DEF HasLeast
<1>1. T \in SUBSET Nat
  OBVIOUS
<1> QED BY <1>1, LeastOfSome, Zenon
==============================================================================

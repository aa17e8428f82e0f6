----------------------------- MODULE WindowLemmas -----------------------------
(***************************************************************************)
(* What the operations of a window do, for every window size of at least   *)
(* 2, every number space at least twice as large and packets of any kind:  *)
(* the facts that the proofs about the windows of a stream (WindowProof)   *)
(* and about a TCP service (TcpLinkProof) share.  The size of the window   *)
(* need not divide that of the number space.                               *)
(***************************************************************************)
EXTENDS Window, TLAPS

\* The slot d places behind the base of a window.
At(w, d) == w.slots[(w.index + d) % WindowSize]

\* A receive window that waits for position p.
Expects(w, p) == w \in Windows /\ w.base = SeqNum(p) /\ w.next = SeqNum(p)

-----------------------------------------------------------------------------
\* Remainders

\* A number has one quotient and one remainder.
LEMMA DivMod ==
    ASSUME NEW m \in Nat \ {0}, NEW n \in Int
    PROVE  /\ n % m \in 0 .. m - 1 /\ n \div m \in Int
           /\ n = m * (n \div m) + (n % m)
  OBVIOUS

\* Quotient and remainder are unique.
LEMMA ModUnique ==
    ASSUME NEW m \in Nat \ {0}, NEW q \in Int, NEW r \in 0 .. m - 1
    PROVE  (m * q + r) % m = r
  OBVIOUS

\* Remainders of what is less than one modulus away.
LEMMA ModNear ==
    ASSUME NEW m \in Nat \ {0}, NEW r \in Int
    PROVE  /\ r \in 0 .. m - 1 => r % m = r
           /\ r \in m .. 2 * m - 1 => r % m = r - m
           /\ r \in -m .. -1 => r % m = r + m
  OBVIOUS

\* A difference may be taken of the remainders.
LEMMA ModSub ==
    ASSUME NEW m \in Nat \ {0}, NEW x \in Int, NEW y \in Int
    PROVE  ((x % m) - (y % m)) % m = (x - y) % m
<1> DEFINE q == ((x - y) \div m) - (x \div m) + (y \div m)
<1>1. /\ x % m \in Int /\ x \div m \in Int /\ x = m * (x \div m) + (x % m)
      /\ y % m \in Int /\ y \div m \in Int /\ y = m * (y \div m) + (y % m)
  BY DivMod
<1>2. /\ (x - y) % m \in 0 .. m - 1 /\ (x - y) \div m \in Int
      /\ x - y = m * ((x - y) \div m) + ((x - y) % m)
  <2>1. x - y \in Int
    OBVIOUS
  <2> QED BY <2>1, DivMod
<1>3. q \in Int /\ (x % m) - (y % m) = m * q + ((x - y) % m)
  BY <1>1, <1>2
<1> HIDE DEF q
<1> QED BY <1>2, <1>3, ModUnique, SMTT(30)

\* A summand may be replaced by its remainder.
LEMMA ModAdd ==
    ASSUME NEW m \in Nat \ {0}, NEW x \in Int, NEW d \in Int
    PROVE  ((x % m) + d) % m = (x + d) % m
<1> DEFINE q == ((x + d) \div m) - (x \div m)
<1>1. x % m \in Int /\ x \div m \in Int /\ x = m * (x \div m) + (x % m)
  BY DivMod
<1>2. /\ (x + d) % m \in 0 .. m - 1 /\ (x + d) \div m \in Int
      /\ x + d = m * ((x + d) \div m) + ((x + d) % m)
  <2>1. x + d \in Int
    OBVIOUS
  <2> QED BY <2>1, DivMod
<1>3. q \in Int /\ (x % m) + d = m * q + ((x + d) % m)
  BY <1>1, <1>2
<1> HIDE DEF q
<1> QED BY <1>2, <1>3, ModUnique

\* A remainder does not see a whole modulus more.
LEMMA ModShift ==
    ASSUME NEW m \in Nat \ {0}, NEW x \in Int
    PROVE  (x + m) % m = x % m
<1>1. x % m \in 0 .. m - 1 /\ m \in Int
  BY DivMod
<1>2. ((x % m) + m) % m = (x + m) % m
  BY <1>1, ModAdd, Zenon
<1>3. (x % m) + m \in m .. 2 * m - 1 /\ (x % m) + m \in Int /\ ((x % m) + m) - m = x % m
  BY <1>1
<1>4. ((x % m) + m) % m = ((x % m) + m) - m
  BY <1>3, ModNear
<1> QED BY <1>2, <1>3, <1>4

-----------------------------------------------------------------------------
\* Numbers and slots

\* potr_internal_seqnum_in_window sees the distance of two positions, as long
\* as they are less than one number space apart.
LEMMA Distance ==
    ASSUME NEW n \in Int, NEW b \in Int
    PROVE  /\ n - b \in 0 .. SeqSpace - 1 => SeqSub(SeqNum(n), SeqNum(b)) = n - b
           /\ n - b \in -SeqSpace .. -1 => SeqSub(SeqNum(n), SeqNum(b)) = n - b + SeqSpace
<1>1. SeqSpace \in Nat \ {0}
  BY WindowAssumption
<1>2. SeqSub(SeqNum(n), SeqNum(b)) = (n - b) % SeqSpace
  BY <1>1, ModSub DEF SeqSub, SeqNum
<1> DEFINE d == n - b
<1>3. d \in Int
  OBVIOUS
<1> HIDE DEF d
<1>4. /\ d \in 0 .. SeqSpace - 1 => d % SeqSpace = d
      /\ d \in -SeqSpace .. -1 => d % SeqSpace = d + SeqSpace
  BY <1>1, <1>3, ModNear
<1> QED BY <1>2, <1>4 DEF d

\* The number of a position, and that of the next one.
LEMMA Number ==
    ASSUME NEW n \in Int
    PROVE  /\ SeqNum(n) \in Seqs /\ SeqNum(n + 1) \in Seqs
           /\ SeqAdd(SeqNum(n), 1) = SeqNum(n + 1)
<1>1. SeqSpace \in Nat \ {0} /\ n + 1 \in Int /\ 1 \in Int
  BY WindowAssumption
<1>2. n % SeqSpace \in Seqs /\ (n + 1) % SeqSpace \in Seqs
  BY <1>1, DivMod DEF Seqs
<1>3. ((n % SeqSpace) + 1) % SeqSpace = (n + 1) % SeqSpace
  BY <1>1, ModAdd, Zenon
<1> QED BY <1>2, <1>3 DEF SeqAdd, SeqNum

\* The slots of a ring: their indexes are in range, differ, and move by one
\* with the base.
LEMMA Places ==
    ASSUME NEW i \in Indexes, NEW d \in 0 .. WindowSize - 1
    PROVE  /\ (i + d) % WindowSize \in Indexes
           /\ \A e \in 0 .. WindowSize - 1 :
                 e # d => (i + e) % WindowSize # (i + d) % WindowSize
           /\ i % WindowSize = i /\ (i + WindowSize) % WindowSize = i
           /\ (i + 1) % WindowSize \in Indexes
           /\ (((i + 1) % WindowSize) + d) % WindowSize = (i + (d + 1)) % WindowSize
<1>1. WindowSize \in Nat \ {0} /\ WindowSize >= 2
  BY WindowAssumption
<1>2. (i + d) % WindowSize = IF i + d < WindowSize THEN i + d ELSE i + d - WindowSize
  BY <1>1, ModNear DEF Indexes
<1>3. ASSUME NEW e \in 0 .. WindowSize - 1, e # d
      PROVE  (i + e) % WindowSize # (i + d) % WindowSize
  <2>1. (i + e) % WindowSize = IF i + e < WindowSize THEN i + e ELSE i + e - WindowSize
    BY <1>1, ModNear DEF Indexes
  <2> QED BY <1>1, <1>2, <1>3, <2>1 DEF Indexes
<1>4. i % WindowSize = i /\ (i + WindowSize) % WindowSize = i
  BY <1>1, ModNear DEF Indexes
<1>5. (i + 1) % WindowSize \in Indexes
  BY <1>1, DivMod DEF Indexes
<1>6. (((i + 1) % WindowSize) + d) % WindowSize = ((i + 1) + d) % WindowSize
  <2>1. i + 1 \in Int /\ d \in Int
    BY DEF Indexes
  <2> QED BY <1>1, <2>1, ModAdd, Zenon
<1>7. (i + 1) + d = i + (d + 1)
  BY DEF Indexes
<1>8. (i + d) % WindowSize \in Indexes
  BY <1>1, <1>2 DEF Indexes
<1> QED BY <1>3, <1>4, <1>5, <1>6, <1>7, <1>8

LEMMA PlacesApart ==
    ASSUME NEW i \in Indexes, NEW d \in 0 .. WindowSize - 1, NEW e \in 0 .. WindowSize - 1, d # e
    PROVE  (i + d) % WindowSize # (i + e) % WindowSize
<1>1. \A c \in 0 .. WindowSize - 1 :
         c # e => (i + c) % WindowSize # (i + e) % WindowSize
  BY Places
<1> QED BY <1>1

\* win_index finds the slot of a position by its distance from the base.
LEMMA IndexOf ==
    ASSUME NEW w, NEW b \in Int, NEW n \in Int, w.base = SeqNum(b), n - b \in 0 .. SeqSpace - 1
    PROVE  WinIndex(w, SeqNum(n)) = (w.index + (n - b)) % WindowSize
  BY Distance DEF WinIndex

-----------------------------------------------------------------------------
\* The operations

\* The packet at a slot is replaced.
LEMMA Written ==
    ASSUME NEW w \in Windows, NEW b \in Int, NEW n \in Int, w.base = SeqNum(b),
           n - b \in 0 .. WindowSize - 1, NEW p \in Packets \cup {NoPkt}
    PROVE  /\ SetSlot(w, SeqNum(n), p) \in Windows
           /\ SetSlot(w, SeqNum(n), p).base = w.base
           /\ SetSlot(w, SeqNum(n), p).next = w.next
           /\ \A d \in 0 .. WindowSize - 1 :
                 At(SetSlot(w, SeqNum(n), p), d) = IF d = n - b THEN p ELSE At(w, d)
<1> DEFINE v == SetSlot(w, SeqNum(n), p)
           k == (w.index + (n - b)) % WindowSize
<1>1. w.index \in Indexes /\ k \in Indexes
  BY Places DEF Windows
<1>2. v = [w EXCEPT !.slots[k] = p]
  <2>1. n - b \in 0 .. SeqSpace - 1
    BY WindowAssumption
  <2> QED BY <2>1, IndexOf DEF SetSlot
<1> HIDE DEF k, v
<1>3. v \in Windows /\ v.base = w.base /\ v.next = w.next /\ v.index = w.index
  BY <1>1, <1>2 DEF Windows
<1>4. ASSUME NEW d \in 0 .. WindowSize - 1
      PROVE  At(v, d) = IF d = n - b THEN p ELSE At(w, d)
  <2> DEFINE j == (w.index + d) % WindowSize
  <2>1. j \in Indexes /\ (j = k <=> d = n - b)
    BY <1>1, Places DEF k
  <2>2. At(v, d) = v.slots[j] /\ At(w, d) = w.slots[j]
    BY <1>3 DEF At
  <2> HIDE DEF j
  <2>3. v.slots[j] = IF j = k THEN p ELSE w.slots[j]
    BY <1>1, <1>2, <2>1 DEF Windows
  <2> QED BY <2>1, <2>2, <2>3
<1> QED BY <1>3, <1>4 DEF v

\* The slot at the base is emptied.
LEMMA Cleared ==
    ASSUME NEW w \in Windows, NEW b \in Int, w.base = SeqNum(b)
    PROVE  /\ SetSlot(w, SeqNum(b), NoPkt) \in Windows
           /\ SetSlot(w, SeqNum(b), NoPkt).base = w.base
           /\ SetSlot(w, SeqNum(b), NoPkt).next = w.next
           /\ \A d \in 0 .. WindowSize - 1 :
                 At(SetSlot(w, SeqNum(b), NoPkt), d) = IF d = 0 THEN NoPkt ELSE At(w, d)
<1>1. b - b \in 0 .. WindowSize - 1 /\ b - b = 0 /\ NoPkt \in Packets \cup {NoPkt}
  BY WindowAssumption
<1> QED BY <1>1, Written

\* win_advance_base
LEMMA Advanced ==
    ASSUME NEW w \in Windows, NEW b \in Int, w.base = SeqNum(b)
    PROVE  /\ AdvanceBase(w) \in Windows
           /\ AdvanceBase(w).base = SeqNum(b + 1)
           /\ AdvanceBase(w).next = w.next
           /\ \A d \in 0 .. WindowSize - 2 : At(AdvanceBase(w), d) = At(w, d + 1)
           /\ At(AdvanceBase(w), WindowSize - 1) = At(w, 0)
<1> DEFINE v == AdvanceBase(w)
<1>1. WindowSize \in Nat /\ WindowSize >= 2 /\ w.index \in Indexes
  BY WindowAssumption DEF Windows
<1>2. SeqAdd(w.base, 1) = SeqNum(b + 1) /\ SeqNum(b + 1) \in Seqs
  BY Number
<1>3. (w.index + 1) % WindowSize \in Indexes
  <2>1. 0 \in 0 .. WindowSize - 1
    BY <1>1
  <2> QED BY <1>1, <2>1, Places
<1>4. /\ v \in Windows /\ v.base = SeqNum(b + 1) /\ v.next = w.next
      /\ v.index = (w.index + 1) % WindowSize /\ v.slots = w.slots
  BY <1>2, <1>3 DEF AdvanceBase, Windows
<1> HIDE DEF v
<1>5. ASSUME NEW d \in 0 .. WindowSize - 1
      PROVE  At(v, d) = w.slots[(w.index + (d + 1)) % WindowSize]
  <2>1. (((w.index + 1) % WindowSize) + d) % WindowSize = (w.index + (d + 1)) % WindowSize
    BY <1>1, Places
  <2> QED BY <1>4, <2>1, Zenon DEF At
<1>6. \A d \in 0 .. WindowSize - 2 : At(v, d) = At(w, d + 1)
  <2> TAKE d \in 0 .. WindowSize - 2
  <2>1. d \in 0 .. WindowSize - 1
    BY <1>1
  <2> QED BY <1>5, <2>1, Zenon DEF At
<1>7. At(v, WindowSize - 1) = At(w, 0)
  <2>1. WindowSize - 1 \in 0 .. WindowSize - 1 /\ (WindowSize - 1) + 1 = WindowSize
    BY <1>1
  <2>2. At(v, WindowSize - 1) = w.slots[(w.index + WindowSize) % WindowSize]
    BY <1>5, <2>1
  <2>3. (w.index + WindowSize) % WindowSize = w.index /\ w.index % WindowSize = w.index
    BY <1>1, <2>1, Places
  <2>4. w.index + 0 = w.index
    BY <1>1 DEF Indexes
  <2> QED BY <2>2, <2>3, <2>4, Zenon DEF At
<1> QED BY <1>4, <1>6, <1>7 DEF v

-----------------------------------------------------------------------------
\* The receive window

\* potr_internal_window_init, and recv_reset for a new session
LEMMA Emptied ==
    ASSUME NEW p \in Int
    PROVE  /\ Expects(EmptyWindow(SeqNum(p)), p)
           /\ \A d \in 0 .. WindowSize - 1 : At(EmptyWindow(SeqNum(p)), d) = NoPkt
<1> DEFINE w == EmptyWindow(SeqNum(p))
<1>1. WindowSize \in Nat /\ WindowSize >= 2
  BY WindowAssumption
<1>2. SeqNum(p) \in Seqs
  BY Number
<1>3. Expects(w, p)
  BY <1>1, <1>2 DEF Expects, EmptyWindow, Windows, Indexes
<1>4. \A d \in 0 .. WindowSize - 1 : At(w, d) = NoPkt
  <2> TAKE d \in 0 .. WindowSize - 1
  <2>1. w.index = 0 /\ 0 \in Indexes /\ w.slots = [i \in Indexes |-> NoPkt]
    BY <1>1 DEF EmptyWindow, Indexes
  <2>2. (w.index + d) % WindowSize \in Indexes
    BY <2>1, Places
  <2> QED BY <2>1, <2>2 DEF At
<1> QED BY <1>3, <1>4

\* The slot the code finds for the number d after the next one.
LEMMA SlotBehind ==
    ASSUME NEW w, NEW p \in Int, Expects(w, p), NEW d \in 0 .. WindowSize - 1
    PROVE  /\ WinIndex(w, SeqAdd(w.next, d)) = (w.index + d) % WindowSize
           /\ Slot(w, SeqAdd(w.next, d)) = At(w, d)
<1>1. p + d \in Int /\ d \in Int /\ w.next = SeqNum(p) /\ w.base = SeqNum(p)
  BY DEF Expects
<1>2. SeqSpace \in Nat \ {0} /\ (p + d) - p = d /\ d \in 0 .. SeqSpace - 1
  BY <1>1, WindowAssumption
<1>3. SeqAdd(w.next, d) = SeqNum(p + d)
  BY <1>1, <1>2, ModAdd, Zenon DEF SeqAdd, SeqNum
<1>4. WinIndex(w, SeqNum(p + d)) = (w.index + d) % WindowSize
  <2>1. WinIndex(w, SeqNum(p + d)) = (w.index + ((p + d) - p)) % WindowSize
    BY <1>1, <1>2, IndexOf
  <2> QED BY <1>2, <2>1
<1> QED BY <1>3, <1>4 DEF Slot, At

\* A number is taken for one of the window exactly if its position is in it,
\* for positions that are not a number space away.
LEMMA Acceptance ==
    ASSUME NEW w, NEW p \in Int, Expects(w, p), NEW n \in Int,
           p - n <= SeqSpace - WindowSize, n - p < SeqSpace
    PROVE  RecvAccepts(w, SeqNum(n)) <=> n \in p .. p + WindowSize - 1
<1>1. /\ w.base = SeqNum(p) /\ WindowSize \in Nat /\ WindowSize >= 2
      /\ SeqSpace \in Nat /\ 2 * WindowSize <= SeqSpace
  BY WindowAssumption DEF Expects
<1>2. CASE n - p >= 0
  <2>1. SeqSub(SeqNum(n), SeqNum(p)) = n - p
    BY <1>1, <1>2, Distance
  <2> QED BY <1>1, <1>2, <2>1 DEF RecvAccepts, InWindow
<1>3. CASE n - p < 0
  <2>1. SeqSub(SeqNum(n), SeqNum(p)) = n - p + SeqSpace
    BY <1>1, <1>3, Distance
  <2> QED BY <1>1, <1>3, <2>1 DEF RecvAccepts, InWindow
<1> QED BY <1>2, <1>3

\* potr_internal_window_recv_push inside the window: an empty slot is filled.
LEMMA Stored ==
    ASSUME NEW w, NEW p \in Int, Expects(w, p), NEW n \in Int, n - p \in 0 .. WindowSize - 1,
           NEW x \in Packets
    PROVE  /\ Expects(RecvPush(w, SeqNum(n), x), p)
           /\ \A d \in 0 .. WindowSize - 1 :
                 At(RecvPush(w, SeqNum(n), x), d) =
                     IF d = n - p /\ At(w, d) = NoPkt THEN x ELSE At(w, d)
<1>1. w \in Windows /\ w.base = SeqNum(p) /\ w.next = SeqNum(p)
  BY DEF Expects
<1>2. Slot(w, SeqNum(n)) = At(w, n - p)
  <2>1. n - p \in 0 .. SeqSpace - 1
    BY WindowAssumption
  <2> QED BY <1>1, <2>1, IndexOf DEF Slot, At
<1> DEFINE v == SetSlot(w, SeqNum(n), x)
<1>3. /\ v \in Windows /\ v.base = SeqNum(p) /\ v.next = SeqNum(p)
      /\ \A d \in 0 .. WindowSize - 1 : At(v, d) = IF d = n - p THEN x ELSE At(w, d)
  BY <1>1, Written
<1>4. RecvPush(w, SeqNum(n), x) = IF At(w, n - p) = NoPkt THEN v ELSE w
  BY <1>2 DEF RecvPush
<1> HIDE DEF v
<1> QED BY <1>3, <1>4 DEF Expects

\* potr_internal_window_recv_pop and potr_internal_window_recv_skip move the
\* window on by one, and leave a clean slot at its end.
LEMMA MovedOn ==
    ASSUME NEW w, NEW p \in Int, Expects(w, p)
    PROVE  /\ Expects(RecvAdvance(w), p + 1)
           /\ \A d \in 0 .. WindowSize - 2 : At(RecvAdvance(w), d) = At(w, d + 1)
           /\ At(RecvAdvance(w), WindowSize - 1) = NoPkt
<1>1. /\ w \in Windows /\ w.base = SeqNum(p) /\ w.next = SeqNum(p)
      /\ WindowSize \in Nat /\ WindowSize >= 2
  BY WindowAssumption DEF Expects
<1> DEFINE x == SetSlot(w, SeqNum(p), NoPkt)
           e == AdvanceBase(x)
           v == [e EXCEPT !.next = SeqAdd(@, 1)]
<1>2. RecvAdvance(w) = v
  <2>1. w.next = SeqNum(p)
    BY <1>1
  <2> QED BY <2>1, Zenon DEF RecvAdvance
<1>3. /\ x \in Windows /\ x.base = SeqNum(p) /\ x.next = SeqNum(p)
      /\ \A d \in 0 .. WindowSize - 1 : At(x, d) = IF d = 0 THEN NoPkt ELSE At(w, d)
  BY <1>1, Cleared
<1> HIDE DEF x
<1>4. /\ e \in Windows /\ e.base = SeqNum(p + 1) /\ e.next = SeqNum(p)
      /\ \A d \in 0 .. WindowSize - 2 : At(e, d) = At(x, d + 1)
      /\ At(e, WindowSize - 1) = At(x, 0)
  BY <1>3, Advanced
<1> HIDE DEF e
<1>5. SeqAdd(e.next, 1) = SeqNum(p + 1) /\ SeqNum(p + 1) \in Seqs
  BY <1>4, Number
<1>6. /\ v \in Windows /\ v.base = SeqNum(p + 1) /\ v.next = SeqNum(p + 1)
      /\ v.index = e.index /\ v.slots = e.slots
  BY <1>4, <1>5 DEF Windows
<1> HIDE DEF v
<1>7. \A d \in 0 .. WindowSize - 1 : At(v, d) = At(e, d)
  BY <1>6 DEF At
<1>8. \A d \in 0 .. WindowSize - 2 : At(v, d) = At(w, d + 1)
  <2> TAKE d \in 0 .. WindowSize - 2
  <2>1. d \in 0 .. WindowSize - 1 /\ d + 1 \in 0 .. WindowSize - 1 /\ d + 1 # 0
    BY <1>1
  <2> QED BY <1>3, <1>4, <1>7, <2>1
<1>9. At(v, WindowSize - 1) = NoPkt
  BY <1>1, <1>3, <1>4, <1>7
<1> QED BY <1>2, <1>6, <1>8, <1>9 DEF Expects

-----------------------------------------------------------------------------
\* The packets recv_pop returns one after the other

\* The slots that recv_pop finds filled, up to the first empty one.
LEMMA Popping ==
    ASSUME NEW w, NEW p \in Int, Expects(w, p)
    PROVE  \E n \in 0 .. WindowSize :
              /\ \A d \in 0 .. n - 1 : At(w, d) \in Packets
              /\ n < WindowSize => At(w, n) = NoPkt
              /\ Poppable(w) = [i \in 1 .. n |-> At(w, i - 1)]
<1> DEFINE Stop(d) ==
               /\ \A i \in 0 .. d - 1 : Slot(w, SeqAdd(w.next, i)) # NoPkt
               /\ d < WindowSize => Slot(w, SeqAdd(w.next, d)) = NoPkt
           T == {d \in 0 .. WindowSize : d < WindowSize => Slot(w, SeqAdd(w.next, d)) = NoPkt}
           n == CHOOSE d \in 0 .. WindowSize : Stop(d)
<1>1. WindowSize \in Nat /\ WindowSize >= 2 /\ w \in Windows
  BY WindowAssumption DEF Expects
<1>2. \E d \in 0 .. WindowSize : Stop(d)
  <2>1. T \in SUBSET (0 .. WindowSize) /\ WindowSize \in T
    BY <1>1
  <2>2. PICK m \in T : \A k \in T : m <= k
    BY <2>1, WindowAssumption DEF HasLeast
  <2>3. ASSUME NEW i \in 0 .. m - 1 PROVE Slot(w, SeqAdd(w.next, i)) # NoPkt
    <3>1. i \in 0 .. WindowSize /\ ~(m <= i)
      BY <1>1
    <3> QED BY <2>2, <3>1
  <2> QED BY <2>2, <2>3
<1> HIDE DEF Stop
<1>3. n \in 0 .. WindowSize /\ Stop(n)
  BY <1>2
<1>4. Poppable(w) = [i \in 1 .. n |-> Slot(w, SeqAdd(w.next, i - 1))]
  BY Zenon DEF Poppable, Stop
<1> HIDE DEF n
<1>5. \A d \in 0 .. WindowSize - 1 :
         Slot(w, SeqAdd(w.next, d)) = At(w, d) /\ At(w, d) \in Packets \cup {NoPkt}
  <2> TAKE d \in 0 .. WindowSize - 1
  <2>1. (w.index + d) % WindowSize \in Indexes
    BY <1>1, Places DEF Windows
  <2>2. At(w, d) \in Packets \cup {NoPkt}
    BY <1>1, <2>1 DEF At, Windows
  <2> QED BY <2>2, SlotBehind
<1>6. \A d \in 0 .. n - 1 : At(w, d) \in Packets
  <2> TAKE d \in 0 .. n - 1
  <2>1. d \in 0 .. WindowSize - 1
    BY <1>1, <1>3
  <2> QED BY <1>3, <1>5, <2>1 DEF Stop
<1>7. n < WindowSize => At(w, n) = NoPkt
  <2>1. n < WindowSize => n \in 0 .. WindowSize - 1
    BY <1>1, <1>3
  <2> QED BY <1>3, <1>5, <2>1 DEF Stop
<1>8. Poppable(w) = [i \in 1 .. n |-> At(w, i - 1)]
  <2>1. \A i \in 1 .. n : i - 1 \in 0 .. WindowSize - 1
    BY <1>1, <1>3
  <2>2. \A i \in 1 .. n : Slot(w, SeqAdd(w.next, i - 1)) = At(w, i - 1)
    BY <1>5, <2>1
  <2> QED BY <1>4, <2>2
<1> QED BY <1>3, <1>6, <1>7, <1>8

\* The window after n packets were taken out of it.
LEMMA PoppedOff ==
    ASSUME NEW w, NEW p \in Int, Expects(w, p), NEW n \in 0 .. WindowSize
    PROVE  /\ Expects(Popped(w, n), p + n)
           /\ \A d \in 0 .. WindowSize - 1 :
                 At(Popped(w, n), d) = IF d + n < WindowSize THEN At(w, d + n) ELSE NoPkt
<1> DEFINE v == Popped(w, n)
           Out(i) == \E k \in 0 .. n - 1 : i = WinIndex(w, SeqAdd(w.next, k))
<1>1. /\ WindowSize \in Nat \ {0} /\ WindowSize >= 2 /\ SeqSpace \in Nat \ {0}
      /\ w \in Windows /\ w.base = SeqNum(p) /\ w.next = SeqNum(p)
      /\ w.index \in Indexes /\ w.index \in Int /\ n \in Int /\ p + n \in Int
  BY WindowAssumption DEF Expects, Windows, Indexes
<1>2. SeqAdd(w.base, n) = SeqNum(p + n) /\ SeqAdd(w.next, n) = SeqNum(p + n)
  <2>1. ((p % SeqSpace) + n) % SeqSpace = (p + n) % SeqSpace
    BY <1>1, ModAdd, Zenon
  <2> QED BY <1>1, <2>1 DEF SeqAdd, SeqNum
<1>3. SeqNum(p + n) \in Seqs
  BY <1>1, Number
<1>4. (w.index + n) % WindowSize \in Indexes
  <2>1. w.index + n \in Int
    BY <1>1
  <2> QED BY <1>1, <2>1, DivMod DEF Indexes
<1>5. /\ v.base = SeqNum(p + n) /\ v.next = SeqNum(p + n) /\ v.index = (w.index + n) % WindowSize
      /\ v.slots = [i \in Indexes |-> IF Out(i) THEN NoPkt ELSE w.slots[i]]
      /\ v = [base |-> v.base, next |-> v.next, index |-> v.index, slots |-> v.slots]
  BY <1>2 DEF Popped
<1>6. \A i : Out(i) <=> \E k \in 0 .. n - 1 : i = (w.index + k) % WindowSize
  <2>1. \A k \in 0 .. n - 1 : WinIndex(w, SeqAdd(w.next, k)) = (w.index + k) % WindowSize
    <3> TAKE k \in 0 .. n - 1
    <3>1. k \in 0 .. WindowSize - 1
      BY <1>1
    <3> QED BY <3>1, SlotBehind
  <2> QED BY <2>1
<1> HIDE DEF v, Out
<1>7. v.slots \in [Indexes -> Packets \cup {NoPkt}]
  BY <1>1, <1>5 DEF Windows
<1>8. v \in Windows
  BY <1>3, <1>4, <1>5, <1>7 DEF Windows
<1>9. ASSUME NEW d \in 0 .. WindowSize - 1
      PROVE  At(v, d) = IF d + n < WindowSize THEN At(w, d + n) ELSE NoPkt
  <2> DEFINE i == (w.index + (d + n)) % WindowSize
  <2>1. At(v, d) = v.slots[i]
    <3>1. (((w.index + n) % WindowSize) + d) % WindowSize = ((w.index + n) + d) % WindowSize
      <4>1. w.index + n \in Int /\ d \in Int
        BY <1>1
      <4> QED BY <1>1, <4>1, ModAdd, Zenon
    <3>2. (w.index + n) + d = w.index + (d + n)
      BY <1>1
    <3> QED BY <1>5, <3>1, <3>2, Zenon DEF At
  <2>2. i \in Indexes
    <3>1. w.index + (d + n) \in Int
      BY <1>1
    <3> QED BY <1>1, <3>1, DivMod DEF Indexes
  <2>3. v.slots[i] = IF Out(i) THEN NoPkt ELSE w.slots[i]
    BY <1>5, <2>2
  <2>4. CASE d + n < WindowSize
    <3>1. d + n \in 0 .. WindowSize - 1
      BY <1>1, <2>4
    <3>2. ASSUME NEW k \in 0 .. n - 1 PROVE i # (w.index + k) % WindowSize
      <4>1. k \in 0 .. WindowSize - 1 /\ k # d + n
        BY <1>1, <2>4
      <4> DEFINE e == d + n
      <4>2. e \in 0 .. WindowSize - 1 /\ k # e
        BY <3>1, <4>1
      <4> HIDE DEF e
      <4>3. (w.index + k) % WindowSize # (w.index + e) % WindowSize
        BY <1>1, <4>1, <4>2, PlacesApart
      <4> QED BY <4>3 DEF e
    <3>3. ~Out(i)
      BY <1>6, <3>2
    <3> QED BY <2>1, <2>3, <2>4, <3>3 DEF At
  <2>5. CASE ~(d + n < WindowSize)
    <3> DEFINE k == d + n - WindowSize
    <3>1. k \in 0 .. n - 1 /\ w.index + (d + n) = (w.index + k) + WindowSize /\ w.index + k \in Int
      BY <1>1, <2>5
    <3> HIDE DEF k
    <3>2. i = (w.index + k) % WindowSize
      <4>1. ((w.index + k) + WindowSize) % WindowSize = (w.index + k) % WindowSize
        BY <1>1, <3>1, ModShift, Zenon
      <4> QED BY <3>1, <4>1
    <3>3. Out(i)
      BY <1>6, <3>1, <3>2
    <3> QED BY <2>1, <2>3, <2>5, <3>3
  <2> QED BY <2>4, <2>5
<1> QED BY <1>5, <1>8, <1>9 DEF v, Expects

\* A window is known by what it expects, its index and its slots in order.
LEMMA SameWindow ==
    ASSUME NEW v, NEW w, NEW p \in Int, Expects(v, p), Expects(w, p), v.index = w.index,
           \A d \in 0 .. WindowSize - 1 : At(v, d) = At(w, d)
    PROVE  v = w
<1>1. WindowSize \in Nat \ {0} /\ v \in Windows /\ w \in Windows /\ w.index \in Indexes
  BY WindowAssumption DEF Expects, Windows
<1>2. ASSUME NEW i \in Indexes PROVE v.slots[i] = w.slots[i]
  <2> DEFINE d == IF i >= w.index THEN i - w.index ELSE i - w.index + WindowSize
  <2>1. d \in 0 .. WindowSize - 1
    BY <1>1 DEF Indexes
  <2>2. (w.index + d) % WindowSize = i
    <3>1. i % WindowSize = i /\ (i + WindowSize) % WindowSize = i
      BY <2>1, Places
    <3>2. w.index + d = i \/ w.index + d = i + WindowSize
      BY <1>1 DEF Indexes
    <3> QED BY <3>1, <3>2
  <2> HIDE DEF d
  <2>3. At(v, d) = At(w, d)
    BY <2>1
  <2> QED BY <2>2, <2>3 DEF At
<1>3. v.slots = w.slots
  BY <1>1, <1>2 DEF Windows
<1> QED BY <1>1, <1>3 DEF Windows, Expects

\* Popped is RecvAdvance, as often as there are packets to take.
LEMMA PoppedStepwise ==
    ASSUME NEW w, NEW p \in Int, Expects(w, p), NEW n \in 0 .. WindowSize - 1
    PROVE  /\ Popped(w, 0) = w
           /\ Popped(w, n + 1) = RecvAdvance(Popped(w, n))
<1> DEFINE v == Popped(w, n)
           a == RecvAdvance(v)
           b == Popped(w, n + 1)
<1>1. WindowSize \in Nat /\ WindowSize >= 2 /\ w \in Windows /\ w.index \in Indexes
  BY WindowAssumption DEF Expects, Windows
<1>2. 0 \in 0 .. WindowSize /\ n \in 0 .. WindowSize /\ n + 1 \in 0 .. WindowSize /\ n \in Int
      /\ p + n \in Int /\ p + 0 = p /\ (p + n) + 1 = p + (n + 1)
  BY <1>1
<1>3. Popped(w, 0) = w
  <2>1. Expects(Popped(w, 0), p) /\ Popped(w, 0).index = w.index
    <3>1. Expects(Popped(w, 0), p + 0)
      BY <1>2, PoppedOff
    <3>2. Popped(w, 0).index = (w.index + 0) % WindowSize /\ w.index + 0 = w.index
      BY <1>1 DEF Popped, Indexes
    <3>3. w.index % WindowSize = w.index
      BY <1>1, ModNear DEF Indexes
    <3> QED BY <1>2, <3>1, <3>2, <3>3
  <2>2. \A d \in 0 .. WindowSize - 1 : At(Popped(w, 0), d) = At(w, d)
    <3>1. \A d \in 0 .. WindowSize - 1 : d + 0 = d /\ d + 0 < WindowSize
      BY <1>1
    <3> QED BY <1>2, <3>1, PoppedOff
  <2> QED BY <2>1, <2>2, SameWindow
<1>4. /\ Expects(v, p + n)
      /\ \A d \in 0 .. WindowSize - 1 :
            At(v, d) = IF d + n < WindowSize THEN At(w, d + n) ELSE NoPkt
  BY <1>2, PoppedOff
<1>5. /\ Expects(b, p + (n + 1))
      /\ \A d \in 0 .. WindowSize - 1 :
            At(b, d) = IF d + (n + 1) < WindowSize THEN At(w, d + (n + 1)) ELSE NoPkt
  BY <1>2, PoppedOff
<1>6. a.index = b.index
  <2>1. v.index = (w.index + n) % WindowSize /\ b.index = (w.index + (n + 1)) % WindowSize
    BY DEF Popped
  <2>2. a.index = (v.index + 1) % WindowSize
    BY <1>4 DEF RecvAdvance, AdvanceBase, SetSlot, Expects, Windows
  <2>3. (((w.index + n) % WindowSize) + 1) % WindowSize = ((w.index + n) + 1) % WindowSize
    <3>1. w.index + n \in Int /\ 1 \in Int /\ WindowSize \in Nat \ {0}
      BY <1>1 DEF Indexes
    <3> QED BY <3>1, ModAdd, Zenon
  <2>4. (w.index + n) + 1 = w.index + (n + 1)
    BY <1>1 DEF Indexes
  <2> QED BY <2>1, <2>2, <2>3, <2>4
<1> HIDE DEF v
<1>7. /\ Expects(a, p + (n + 1))
      /\ \A d \in 0 .. WindowSize - 2 : At(a, d) = At(v, d + 1)
      /\ At(a, WindowSize - 1) = NoPkt
  BY <1>2, <1>4, MovedOn
<1> HIDE DEF a, b
<1>8. ASSUME NEW d \in 0 .. WindowSize - 1 PROVE At(a, d) = At(b, d)
  <2>1. CASE d = WindowSize - 1
    BY <1>1, <1>5, <1>7, <2>1
  <2>2. CASE d # WindowSize - 1
    <3>1. d \in 0 .. WindowSize - 2 /\ d + 1 \in 0 .. WindowSize - 1 /\ (d + 1) + n = d + (n + 1)
      BY <1>1, <2>2
    <3> QED BY <1>4, <1>5, <1>7, <3>1
  <2> QED BY <2>1, <2>2
<1>9. a = b
  BY <1>2, <1>5, <1>6, <1>7, <1>8, SameWindow
<1> QED BY <1>3, <1>9 DEF a, b, v


-----------------------------------------------------------------------------
\* Numbers that did not wrap

\* A number is that of its own position.
LEMMA SeqNumItself ==
    ASSUME NEW q \in Seqs
    PROVE  q \in Int /\ SeqNum(q) = q /\ SeqNum(q + SeqSpace) = q
<1>1. SeqSpace \in Nat \ {0} /\ q \in 0 .. SeqSpace - 1
  BY WindowAssumption DEF Seqs
<1>2. q % SeqSpace = q
  BY <1>1, ModUnique
<1>3. (q + SeqSpace) % SeqSpace = q
  BY <1>1, ModUnique
<1> QED BY <1>1, <1>2, <1>3 DEF SeqNum

\* A window waits for the position of its next number.
LEMMA OwnPosition ==
    ASSUME NEW w, NEW p \in Int, Expects(w, p)
    PROVE  w.next \in Seqs /\ w.next \in Int /\ Expects(w, w.next)
<1>1. w \in Windows /\ w.base = SeqNum(p) /\ w.next = SeqNum(p) /\ SeqNum(p) \in Seqs
  BY Number DEF Expects
<1>2. SeqNum(p) \in Int /\ SeqNum(SeqNum(p)) = SeqNum(p)
  BY <1>1, SeqNumItself
<1> QED BY <1>1, <1>2 DEF Expects

-----------------------------------------------------------------------------
\* The send window

\* potr_internal_window_send_push on a window that holds the positions from b
\* up to n: it gives up the oldest if it is full, and holds x at position n.
LEMMA SendPushed ==
    ASSUME NEW w \in Windows, NEW b \in Int, NEW n \in Int, w.base = SeqNum(b), w.next = SeqNum(n),
           n - b \in 0 .. WindowSize, NEW x \in Packets,
           NEW c \in Int, n - b = WindowSize => c = b + 1, n - b # WindowSize => c = b
    PROVE  /\ SendPush(w, x) \in Windows /\ SendPush(w, x).base = SeqNum(c)
           /\ SendPush(w, x).next = SeqNum(n + 1) /\ n - c \in 0 .. WindowSize - 1
           /\ \A d \in 0 .. n - c - 1 : At(SendPush(w, x), d) = At(w, d + (c - b))
           /\ At(SendPush(w, x), n - c) = x
<1>1. /\ WindowSize \in Nat /\ WindowSize >= 2 /\ SeqSpace \in Nat /\ 2 * WindowSize <= SeqSpace
      /\ n - c \in 0 .. WindowSize - 1
  BY WindowAssumption
<1>2. SeqSub(w.next, w.base) = n - b
  BY <1>1, Distance
<1> DEFINE e == IF SendFull(w) THEN AdvanceBase(SetSlot(w, w.base, NoPkt)) ELSE w
           f == SetSlot(e, SeqNum(n), x)
           g == [f EXCEPT !.next = SeqAdd(@, 1)]
<1>3. /\ e \in Windows /\ e.base = SeqNum(c) /\ e.next = SeqNum(n)
      /\ \A d \in 0 .. n - c - 1 : At(e, d) = At(w, d + (c - b))
  <2>1. CASE n - b = WindowSize
    <3> DEFINE v == SetSlot(w, SeqNum(b), NoPkt)
    <3>1. SendFull(w)
      BY <1>1, <1>2, <2>1 DEF SendFull
    <3>2. e = AdvanceBase(v)
      BY <3>1, Zenon
    <3>3. /\ v \in Windows /\ v.base = SeqNum(b) /\ v.next = SeqNum(n)
          /\ \A d \in 0 .. WindowSize - 1 : At(v, d) = IF d = 0 THEN NoPkt ELSE At(w, d)
      BY Cleared
    <3> HIDE DEF v, e
    <3>4. /\ e \in Windows /\ e.base = SeqNum(b + 1) /\ e.next = SeqNum(n)
          /\ \A d \in 0 .. WindowSize - 2 : At(e, d) = At(v, d + 1)
      BY <3>2, <3>3, Advanced
    <3>5. ASSUME NEW d \in 0 .. n - c - 1 PROVE At(e, d) = At(w, d + (c - b))
      <4>1. /\ d \in 0 .. WindowSize - 2 /\ d + 1 \in 0 .. WindowSize - 1 /\ d + 1 # 0
            /\ d + (c - b) = d + 1
        BY <1>1, <2>1
      <4> QED BY <3>3, <3>4, <4>1
    <3>6. c = b + 1
      BY <2>1
    <3> QED BY <3>4, <3>5, <3>6
  <2>2. CASE n - b # WindowSize
    <3>1. ~SendFull(w) /\ c = b
      BY <1>1, <1>2, <2>2 DEF SendFull
    <3>2. e = w
      BY <3>1, Zenon
    <3>3. \A d \in 0 .. n - c - 1 : d + (c - b) = d
      BY <3>1
    <3> QED BY <3>1, <3>2, <3>3
  <2> QED BY <2>1, <2>2
<1>4. SendPush(w, x) = [SetSlot(e, e.next, x) EXCEPT !.next = SeqAdd(@, 1)]
  BY Zenon DEF SendPush
<1> HIDE DEF e
<1>5. SendPush(w, x) = g
  BY <1>3, <1>4
<1>6. /\ f \in Windows /\ f.base = SeqNum(c) /\ f.next = SeqNum(n)
      /\ \A d \in 0 .. WindowSize - 1 : At(f, d) = IF d = n - c THEN x ELSE At(e, d)
  BY <1>1, <1>3, Written
<1> HIDE DEF f
<1>7. SeqAdd(f.next, 1) = SeqNum(n + 1) /\ SeqNum(n + 1) \in Seqs
  BY <1>6, Number
<1>8. /\ g \in Windows /\ g.base = SeqNum(c) /\ g.next = SeqNum(n + 1)
      /\ g.index = f.index /\ g.slots = f.slots
  BY <1>6, <1>7 DEF Windows
<1> HIDE DEF g
<1>9. \A d \in 0 .. WindowSize - 1 : At(g, d) = At(f, d)
  BY <1>8 DEF At
<1>10. At(g, n - c) = x
  BY <1>1, <1>6, <1>9
<1>11. ASSUME NEW d \in 0 .. n - c - 1 PROVE At(g, d) = At(w, d + (c - b))
  <2>1. d \in 0 .. WindowSize - 1 /\ d # n - c
    BY <1>1
  <2> QED BY <1>3, <1>6, <1>9, <2>1
<1> QED BY <1>1, <1>5, <1>8, <1>10, <1>11
=============================================================================

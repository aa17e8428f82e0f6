-------------------------- MODULE TcpDeliveryProof --------------------------
(***************************************************************************)
(* Proofs about what a TCP receiver delivers and acknowledges.             *)
(***************************************************************************)
EXTENDS TcpLinkProof

\* No session runs once around the number space: then a copy that waited on a
\* slow path is never taken for a new packet.
ShortSessions == \A e \in Elements : e <= SeqSpace - WindowSize

\* What came out of the window so far.
Taken(r) == Range(r.trace) \cup r.old \cup r.past \cup r.dropped

InOrder(t) == \A i \in DOMAIN t : \A j \in 1 .. i - 1 : Before(t[j], t[i])

NoGap(t) == \A i \in 2 .. Len(t) : t[i - 1][1] = t[i][1] => t[i][2] = t[i - 1][2] + 1

\* The window is that of the accepted session and holds its packets in place.
Waits(r) ==
    r.known =>
    /\ r.sess = r.accepted /\ r.accepted # None /\ r.win.next <= SeqSpace - WindowSize
    /\ \A d \in 0 .. WindowSize - 1 :
         At(r.win, d) # NoPkt => At(r.win, d) = <<r.sess, r.win.next + d + 1>>

\* The packet before the next one was taken.
Met(r) == r.known /\ r.win.next # 0 => <<r.sess, r.win.next>> \in Taken(r)

\* A packet the application got is not ahead of the window.
Behind(r, e) ==
    /\ r.accepted # None
    /\ e[1] < r.accepted \/ (r.known /\ e[1] = r.accepted /\ e[2] <= r.win.next)

\* What the application got is in order and behind the window, and the window
\* goes on where it left off.
History(r) ==
    /\ r.fin # NoFin => r.known
    /\ \A e \in Range(r.trace) \cup r.old : Behind(r, e)
    /\ r.trace # << >> => LET e == Last(r.trace)
                          IN  \/ e[1] < r.accepted
                              \/ r.known /\ e[1] = r.accepted /\ e[2] = r.win.next
    /\ InOrder(r.trace) /\ NoGap(r.trace)
    /\ \A i \in DOMAIN r.trace : \A e \in r.old : Before(e, r.trace[i])

ReceiverInv(r) == Waits(r) /\ Met(r) /\ History(r)

LEMMA PacketParts ==
    \A e \in Packets : /\ e = <<e[1], e[2]>> /\ e[1] \in Sessions /\ e[2] \in Elements
                       /\ e[1] \in Nat /\ e[2] \in Nat
<1> SUFFICES ASSUME NEW e \in Packets
             PROVE  /\ e = <<e[1], e[2]>> /\ e[1] \in Sessions /\ e[2] \in Elements
                    /\ e[1] \in Nat /\ e[2] \in Nat
  BY Zenon
<1>1. e \in Sessions \X Elements /\ Sessions \subseteq Nat /\ Elements \subseteq Nat
  BY TcpAssumption, Zenon
<1>2. e = <<e[1], e[2]>> /\ e[1] \in Sessions /\ e[2] \in Elements
  BY <1>1
<1> QED BY <1>1, <1>2, Zenon

LEMMA ConcatAt ==
    ASSUME NEW t \in Seq(Packets), NEW g \in Seq(Packets)
    PROVE  LET u == t \o g
           IN  /\ u \in Seq(Packets) /\ Len(u) = Len(t) + Len(g)
               /\ \A i \in 1 .. Len(t) : u[i] = t[i]
               /\ \A i \in 1 .. Len(g) : u[Len(t) + i] = g[i]
               /\ Range(u) = Range(t) \cup Range(g)
<1> DEFINE u == t \o g
<1>1. /\ u \in Seq(Packets) /\ Len(u) = Len(t) + Len(g) /\ Len(t) \in Nat /\ Len(g) \in Nat
      /\ \A i \in 1 .. Len(t) + Len(g) : u[i] = IF i <= Len(t) THEN t[i] ELSE g[i - Len(t)]
  OBVIOUS
<1> HIDE DEF u
<1>2. \A i \in 1 .. Len(t) : u[i] = t[i] /\ i \in 1 .. Len(u)
  BY <1>1
<1>3. ASSUME NEW i \in 1 .. Len(g)
      PROVE  u[Len(t) + i] = g[i] /\ Len(t) + i \in 1 .. Len(u)
  <2>1. Len(t) + i \in 1 .. Len(t) + Len(g) /\ ~(Len(t) + i <= Len(t)) /\ Len(t) + i - Len(t) = i
    BY <1>1
  <2> QED BY <1>1, <2>1
<1>4. ASSUME NEW k \in 1 .. Len(u)
      PROVE  k \in 1 .. Len(t) \/ \E i \in 1 .. Len(g) : k = Len(t) + i
  <2>1. CASE k > Len(t)
    <3>1. k - Len(t) \in 1 .. Len(g) /\ k = Len(t) + (k - Len(t))
      BY <1>1, <2>1
    <3> QED BY <3>1, Zenon
  <2> QED BY <1>1, <2>1
<1>5. Range(u) = Range(t) \cup Range(g)
  <2>1. DOMAIN u = 1 .. Len(u) /\ DOMAIN t = 1 .. Len(t) /\ DOMAIN g = 1 .. Len(g)
    BY <1>1
  <2>2. \A e : e \in Range(u) <=> \E k \in 1 .. Len(u) : u[k] = e
    BY <2>1, Zenon DEF Range
  <2>3. \A e : e \in Range(t) <=> \E k \in 1 .. Len(t) : t[k] = e
    BY <2>1, Zenon DEF Range
  <2>4. \A e : e \in Range(g) <=> \E k \in 1 .. Len(g) : g[k] = e
    BY <2>1, Zenon DEF Range
  <2>5. ASSUME NEW e \in Range(u) PROVE e \in Range(t) \/ e \in Range(g)
    <3>1. PICK k \in 1 .. Len(u) : u[k] = e
      BY <2>2, Zenon
    <3>2. CASE k \in 1 .. Len(t)
      BY <1>2, <2>3, <3>1, <3>2, Zenon
    <3>3. ASSUME NEW i \in 1 .. Len(g), k = Len(t) + i PROVE e \in Range(g)
      BY <1>3, <2>4, <3>1, <3>3, Zenon
    <3> QED BY <1>4, <3>2, <3>3, Zenon
  <2>6. ASSUME NEW e, e \in Range(t) \/ e \in Range(g) PROVE e \in Range(u)
    BY <1>2, <1>3, <2>2, <2>3, <2>4, <2>6, ZenonT(30)
  <2> QED BY <2>5, <2>6, Zenon
<1> QED BY <1>1, <1>2, <1>3, <1>5, Zenon DEF u

\* Packets x + 1, x + 2, ... of a session are added to what the application got.
LEMMA Concat ==
    ASSUME NEW t \in Seq(Packets), NEW s \in Nat, NEW x \in Nat, NEW g \in Seq(Packets),
           \A i \in 1 .. Len(g) : g[i][1] = s /\ g[i][2] = x + i, InOrder(t), NoGap(t),
           \A i \in 1 .. Len(t) : t[i][1] < s \/ (t[i][1] = s /\ t[i][2] <= x),
           t # << >> => Last(t)[1] < s \/ (Last(t)[1] = s /\ Last(t)[2] = x)
    PROVE  /\ InOrder(t \o g) /\ NoGap(t \o g)
           /\ Len(g) > 0 => t \o g # << >> /\ Last(t \o g) = g[Len(g)]
<1> DEFINE u == t \o g
           m == Len(t)
           n == Len(g)
<1>1. /\ m \in Nat /\ n \in Nat /\ u \in Seq(Packets) /\ Len(u) = m + n
      /\ (\A i \in 1 .. m : u[i] = t[i]) /\ (\A i \in 1 .. n : u[m + i] = g[i])
  BY ConcatAt
<1>2. DOMAIN t = 1 .. m /\ DOMAIN u = 1 .. m + n
  BY <1>1
<1>3. \A i \in 1 .. m : t[i][1] \in Nat /\ t[i][2] \in Nat
  <2>1. \A i \in 1 .. m : t[i] \in Packets
    OBVIOUS
  <2> QED BY <2>1, PacketParts, Zenon
<1>4. ASSUME n > 0 PROVE u # << >> /\ Last(u) = g[n]
  <2>1. n \in 1 .. n /\ Len(u) # 0
    BY <1>1, <1>4
  <2> HIDE DEF u
  <2> QED BY <1>1, <2>1 DEF Last
<1>5. m > 0 => t # << >> /\ Last(t) = t[m]
  BY DEF Last
<1>6. \A i \in 1 .. m : \A j \in 1 .. i - 1 : Before(t[j], t[i])
  BY <1>2, Zenon DEF InOrder
<1>7. \A i \in 2 .. m : t[i - 1][1] = t[i][1] => t[i][2] = t[i - 1][2] + 1
  BY Zenon DEF NoGap
<1>8. ASSUME NEW k \in 1 .. m + n
      PROVE  \/ k \in 1 .. m /\ u[k] = t[k]
             \/ k - m \in 1 .. n /\ u[k][1] = s /\ u[k][2] = x + (k - m)
  <2>1. CASE k <= m
    <3>1. k \in 1 .. m
      BY <1>1, <2>1
    <3> QED BY <1>1, <3>1, Zenon
  <2>2. CASE k > m
    <3>1. k - m \in 1 .. n /\ m + (k - m) = k
      BY <1>1, <2>2
    <3>2. u[k] = g[k - m]
      BY <1>1, <3>1, Zenon
    <3> QED BY <3>1, <3>2, Zenon
  <2> QED BY <1>1, <2>1, <2>2
<1> HIDE DEF u, m, n
<1>9. ASSUME NEW i \in 1 .. m + n, NEW j \in 1 .. i - 1
      PROVE  Before(u[j], u[i])
  <2>1. j \in 1 .. m + n /\ j < i
    BY <1>1
  <2>2. CASE i \in 1 .. m /\ u[i] = t[i]
    <3>1. j \in 1 .. m /\ u[j] = t[j]
      BY <1>1, <2>1, <2>2
    <3> QED BY <1>6, <2>2, <3>1, Zenon
  <2>3. CASE i - m \in 1 .. n /\ u[i][1] = s /\ u[i][2] = x + (i - m)
    <3>1. CASE j \in 1 .. m /\ u[j] = t[j]
      <4>1. t[j][1] < s \/ (t[j][1] = s /\ t[j][2] <= x)
        BY <3>1, Zenon DEF m
      <4>2. x + (i - m) > x /\ i - m \in Nat
        BY <1>1, <2>3, SMTT(20)
      <4> QED BY <1>3, <2>3, <3>1, <4>1, <4>2 DEF Before
    <3>2. CASE j - m \in 1 .. n /\ u[j][1] = s /\ u[j][2] = x + (j - m)
      <4>1. x + (j - m) < x + (i - m)
        BY <1>1, <2>1
      <4> QED BY <2>3, <3>2, <4>1, Zenon DEF Before
    <3> QED BY <1>8, <2>1, <3>1, <3>2, Zenon
  <2> QED BY <1>8, <2>2, <2>3, Zenon
<1>10. InOrder(u)
  BY <1>2, <1>9, Zenon DEF InOrder
<1>11. ASSUME NEW i \in 2 .. m + n, u[i - 1][1] = u[i][1]
       PROVE  u[i][2] = u[i - 1][2] + 1
  <2>1. i \in 1 .. m + n /\ i - 1 \in 1 .. m + n
    BY <1>1
  <2>2. CASE i \in 1 .. m /\ u[i] = t[i]
    <3>1. i \in 2 .. m /\ i - 1 \in 1 .. m
      BY <1>1, <2>1, <2>2
    <3>2. u[i - 1] = t[i - 1]
      BY <1>1, <3>1, Zenon
    <3> QED BY <1>7, <1>11, <2>2, <3>1, <3>2, Zenon
  <2>3. CASE i - m \in 1 .. n /\ u[i][1] = s /\ u[i][2] = x + (i - m)
    <3>1. CASE i - 1 \in 1 .. m /\ u[i - 1] = t[i - 1]
      <4>1. i - 1 = m /\ m > 0 /\ m \in 1 .. m /\ i - m = 1
        BY <1>1, <2>3, <3>1, SMTT(20)
      <4>2. u[i - 1] = Last(t) /\ Last(t) = t[m] /\ t # << >>
        BY <1>5, <3>1, <4>1, Zenon
      <4>3. Last(t)[1] \in Nat
        BY <1>3, <4>1, <4>2, Zenon
      <4>4. Last(t)[1] = s
        BY <1>11, <2>3, <4>2, Zenon
      <4>5. Last(t)[2] = x
        BY <4>2, <4>3, <4>4
      <4> QED BY <2>3, <4>1, <4>2, <4>5, Zenon
    <3>2. CASE i - 1 - m \in 1 .. n /\ u[i - 1][1] = s /\ u[i - 1][2] = x + (i - 1 - m)
      <4>1. x + (i - m) = x + (i - 1 - m) + 1
        BY <1>1
      <4> QED BY <2>3, <3>2, <4>1, Zenon
    <3> QED BY <1>8, <2>1, <3>1, <3>2, Zenon
  <2> QED BY <1>8, <2>1, <2>2, <2>3, Zenon
<1>12. NoGap(u)
  BY <1>1, <1>11, Zenon DEF NoGap
<1> QED BY <1>4, <1>10, <1>12, Zenon DEF u, n

\* The invariant is about the fields of Session alone.
LEMMA SameSession ==
    ASSUME NEW r, NEW q, Session(r) = Session(q)
    PROVE  /\ Taken(r) = Taken(q)
           /\ ReceiverInv(r) => ReceiverInv(q)
<1>1. /\ r.accepted = q.accepted /\ r.known = q.known /\ r.sess = q.sess /\ r.win = q.win
      /\ r.fin = q.fin /\ r.trace = q.trace /\ r.old = q.old /\ r.past = q.past
      /\ r.dropped = q.dropped
  BY Zenon DEF Session
<1>2. Taken(r) = Taken(q)
  BY <1>1, Zenon DEF Taken
<1>3. (Waits(r) => Waits(q)) /\ (Met(r) => Met(q))
  BY <1>1, <1>2, Zenon DEF Waits, Met
<1>4. History(r) => History(q)
  BY <1>1, Zenon DEF History, Behind
<1> QED BY <1>2, <1>3, <1>4, Zenon DEF ReceiverInv

\* An empty trace has every property asked of it.
LEMMA NothingGot ==
    /\ InOrder(<< >>) /\ NoGap(<< >>) /\ Range(<< >>) = {} /\ DOMAIN << >> = {}
  BY DEF InOrder, NoGap, Range

LEMMA ToldInv ==
    ASSUME NEW r, ReceiverOK(r), ReceiverInv(r)
    PROVE  ReceiverInv(Told(r)) /\ Taken(Told(r)) = Taken(r)
<1> DEFINE f == Told(r)
<1>1. /\ Place(f) = Place(r)
      /\ f.known = r.known /\ f.sess = r.sess /\ f.win = r.win
      /\ f.fin = r.fin /\ f.past = r.past /\ f.dropped = r.dropped
      /\ r.alive => f = r
      /\ ~r.alive => f.trace = << >> /\ f.old = r.old \cup Range(r.trace)
  BY ToldOK, Zenon
<1> HIDE DEF f
<1>2. CASE r.alive
  BY <1>1, <1>2, Zenon DEF f
<1>3. CASE ~r.alive
  <2>1. Range(f.trace) = {} /\ f.trace = << >> /\ f.accepted = r.accepted
    BY <1>1, <1>3, NothingGot, Zenon DEF Place
  <2>2. Taken(f) = Taken(r)
    BY <1>1, <1>3, <2>1, Zenon DEF Taken
  <2>3. Waits(f) /\ Met(f)
    BY <1>1, <2>1, <2>2, Zenon DEF ReceiverInv, Waits, Met
  <2>4. InOrder(f.trace) /\ NoGap(f.trace) /\ DOMAIN f.trace = {}
    BY <2>1, NothingGot, Zenon
  <2>5. \A e \in Range(f.trace) \cup f.old : Behind(f, e)
    BY <1>1, <1>3, <2>1, Zenon DEF ReceiverInv, History, Behind
  <2>6. History(f)
    BY <1>1, <2>1, <2>4, <2>5, Zenon DEF ReceiverInv, History
  <2> QED BY <2>2, <2>3, <2>6, Zenon DEF ReceiverInv, f
<1> QED BY <1>2, <1>3, Zenon

\* A session is adopted at the number of the packet that starts it.
LEMMA AdoptInv ==
    ASSUME NEW r, ReceiverOK(r), ReceiverInv(r), NEW s \in Sessions, r.accepted = s,
           NEW q \in Seqs, q <= SeqSpace - WindowSize
    PROVE  LET a == Adopt(r, s, q)
           IN  /\ Waits(a) /\ History(a) /\ Taken(a) = Taken(r) /\ a.accepted = s
               /\ \/ Met(a) \/ a.win = EmptyWindow(q)
               /\ q = 0 => Met(a)
<1> DEFINE a == Adopt(r, s, q)
<1>1. /\ ReceiverOK(a) /\ Place(a) = Place(r) /\ a.known /\ a.sess = s
      /\ a.trace = r.trace /\ a.old = r.old /\ a.past = r.past /\ a.dropped = r.dropped
      /\ IF r.known /\ r.sess = s THEN a = r ELSE a.win = EmptyWindow(q) /\ a.fin = NoFin
  BY AdoptOK
<1>2. CASE r.known /\ r.sess = s
  BY <1>1, <1>2, Zenon DEF ReceiverInv
<1>3. CASE ~(r.known /\ r.sess = s)
  <2>1. ~r.known
    BY <1>3, Zenon DEF ReceiverInv, Waits
  <2>2. a.win = EmptyWindow(q) /\ a.fin = NoFin /\ a.win.next = q /\ a.accepted = s
    BY <1>1, <1>3 DEF EmptyWindow, Place
  <2>3. \A d \in 0 .. WindowSize - 1 : At(a.win, d) = NoPkt
    <3>1. q \in Int /\ SeqNum(q) = q
      BY SeqNumItself, Zenon
    <3> QED BY <2>2, <3>1, Emptied, Zenon
  <2> HIDE DEF a
  <2>4. Waits(a)
    BY <1>1, <2>2, <2>3, SessionNumbers, Zenon DEF Waits
  <2>5. Taken(a) = Taken(r)
    BY <1>1, Zenon DEF Taken
  <2>6. q = 0 => Met(a)
    BY <2>2, Zenon DEF Met
  <2>7. \A e \in Range(a.trace) \cup a.old : Behind(a, e)
    BY <1>1, <2>1, <2>2, Zenon DEF ReceiverInv, History, Behind
  <2>8. History(a)
    BY <1>1, <2>1, <2>2, <2>7, Zenon DEF ReceiverInv, History
  <2> QED BY <2>2, <2>4, <2>5, <2>6, <2>8, Zenon DEF a
<1> QED BY <1>2, <1>3, Zenon

\* Draining hands over the next packets of the session, in order.
LEMMA DrainInv ==
    ASSUME ShortSessions, NEW r, ReceiverOK(r), Waits(r), History(r), r.known,
           Met(r) \/ At(r.win, 0) # NoPkt, ~r.alive => r.trace = << >>
    PROVE  ReceiverInv(Drain(r)) /\ Taken(r) \subseteq Taken(Drain(r))
<1> DEFINE f == Drain(r)
           g == Poppable(r.win)
           x == r.win.next
           s == r.sess
<1>1. /\ r \in Receivers /\ x \in Seqs /\ x \in Nat /\ x \in Int /\ s \in Sessions \cup {None}
      /\ r.trace \in Seq(Packets) /\ r.old \subseteq Packets /\ Expects(r.win, x)
  BY WindowAssumption DEF ReceiverOK, Receivers, Expects, Windows, Seqs
<1>2. /\ s = r.accepted /\ s # None /\ x <= SeqSpace - WindowSize
      /\ \A d \in 0 .. WindowSize - 1 : At(r.win, d) # NoPkt => At(r.win, d) = <<s, x + d + 1>>
  BY Zenon DEF Waits
<1>3. s \in Sessions /\ s \in Nat
  BY <1>1, <1>2, SessionNumbers, Zenon
<1>4. /\ ReceiverOK(f) /\ Place(f) = Place(r) /\ f.known = r.known /\ f.sess = r.sess
      /\ f.fin = r.fin /\ f.old = r.old /\ f.past = r.past
      /\ f.trace = IF r.alive THEN r.trace \o g ELSE r.trace
      /\ f.dropped = IF r.alive THEN r.dropped ELSE r.dropped \cup Range(g)
  BY DrainOK, Zenon
<1>5. PICK n \in 0 .. WindowSize :
         /\ \A d \in 0 .. n - 1 : At(r.win, d) \in Packets
         /\ n < WindowSize => At(r.win, n) = NoPkt
         /\ g = [i \in 1 .. n |-> At(r.win, i - 1)]
         /\ g \in Seq(Packets) /\ Len(g) = n
         /\ f.win = Popped(r.win, n) /\ Expects(f.win, x + n)
  BY DrainOK, Zenon
<1> HIDE DEF f, g, x, s
<1>6. n \in Nat /\ WindowSize \in Nat /\ WindowSize >= 2 /\ SeqSpace \in Nat
      /\ 2 * WindowSize <= SeqSpace /\ NoPkt \notin Packets
  BY WindowAssumption
<1>7. \A i \in 1 .. n : g[i] = <<s, x + i>> /\ g[i] \in Packets
  <2> SUFFICES ASSUME NEW i \in 1 .. n PROVE g[i] = <<s, x + i>> /\ g[i] \in Packets
    BY Zenon
  <2>1. i - 1 \in 0 .. n - 1 /\ i - 1 \in 0 .. WindowSize - 1 /\ x + (i - 1) + 1 = x + i
    BY <1>1, <1>6
  <2>2. g[i] = At(r.win, i - 1)
    BY <1>5, Zenon
  <2>3. At(r.win, i - 1) \in Packets /\ At(r.win, i - 1) # NoPkt
    BY <1>5, <1>6, <2>1, Zenon
  <2>4. At(r.win, i - 1) = <<s, x + (i - 1) + 1>>
    BY <1>2, <2>1, <2>3, Zenon
  <2> QED BY <2>1, <2>2, <2>3, <2>4, Zenon
<1>8. n > 0 => x + n \in Elements /\ x + n <= SeqSpace - WindowSize
  <2>1. n > 0 => n \in 1 .. n
    BY <1>6
  <2>2. n > 0 => <<s, x + n>> \in Sessions \X Elements
    BY <1>7, <2>1, TcpAssumption, Zenon
  <2> QED BY <2>2, Zenon DEF ShortSessions
<1>9. f.win.next = x + n /\ x + n <= SeqSpace - WindowSize /\ x + n \in Nat
  <2>1. x + n \in Seqs /\ x + n <= SeqSpace - WindowSize /\ x + n \in Nat
    BY <1>1, <1>2, <1>6, <1>8 DEF Seqs
  <2>2. SeqNum(x + n) = x + n
    BY <2>1, SeqNumItself, Zenon
  <2> QED BY <1>5, <2>1, <2>2, Zenon DEF Expects
<1>10. Waits(f)
  <2>1. ASSUME NEW d \in 0 .. WindowSize - 1, At(f.win, d) # NoPkt
        PROVE  At(f.win, d) = <<s, x + n + d + 1>>
    <3>1. At(f.win, d) = IF d + n < WindowSize THEN At(r.win, d + n) ELSE NoPkt
      BY <1>1, <1>5, PoppedOff, Zenon
    <3>2. d + n \in 0 .. WindowSize - 1 /\ At(r.win, d + n) = At(f.win, d)
      BY <1>6, <2>1, <3>1
    <3>3. At(r.win, d + n) = <<s, x + (d + n) + 1>>
      BY <1>2, <2>1, <3>2, Zenon
    <3>4. x + (d + n) + 1 = x + n + d + 1
      BY <1>1, <1>6
    <3> QED BY <3>2, <3>3, <3>4, Zenon
  <2>2. f.sess = s /\ f.accepted = s
    BY <1>2, <1>4, Zenon DEF Place, s
  <2> QED BY <1>2, <1>9, <2>1, <2>2, Zenon DEF Waits
<1>11. Taken(f) = Taken(r) \cup Range(g) /\ (r.alive => Range(f.trace) = Range(r.trace) \cup Range(g))
  <2>1. Range(r.trace \o g) = Range(r.trace) \cup Range(g)
    BY <1>1, <1>5, ConcatAt, Zenon
  <2>2. CASE r.alive
    BY <1>4, <2>1, <2>2, Zenon DEF Taken
  <2>3. CASE ~r.alive
    BY <1>4, <2>3, Zenon DEF Taken
  <2> QED BY <2>2, <2>3, Zenon
<1>12. Met(f)
  <2>1. CASE n > 0
    <3>1. n \in 1 .. n /\ DOMAIN g = 1 .. n
      BY <1>5, <1>6, <2>1
    <3>2. <<s, x + n>> \in Range(g)
      BY <1>7, <3>1, Zenon DEF Range
    <3> QED BY <1>4, <1>9, <1>11, <3>2, Zenon DEF Met, s
  <2>2. CASE n = 0
    <3>1. At(r.win, 0) = NoPkt /\ x + n = x
      BY <1>1, <1>5, <1>6, <2>2
    <3>2. Met(r)
      BY <3>1, Zenon
    <3> QED BY <1>4, <1>9, <1>11, <3>1, <3>2, Zenon DEF Met, x
  <2> QED BY <1>6, <2>1, <2>2
<1>13. \A e \in Range(g) : \E i \in 1 .. n : e = <<s, x + i>>
  <2>1. DOMAIN g = 1 .. n
    BY <1>5, Zenon
  <2> QED BY <1>7, <2>1, Zenon DEF Range
<1>14. \A e \in Range(r.trace) \cup r.old : e \in Packets /\ e[1] \in Nat /\ e[2] \in Nat
  <2>1. \A e \in Range(r.trace) \cup r.old : e \in Packets
    BY <1>1 DEF Range
  <2> QED BY <2>1, PacketParts, Zenon
<1>15. \A e \in Range(r.trace) \cup r.old : e[1] < s \/ (e[1] = s /\ e[2] <= x)
  BY <1>2, Zenon DEF History, Behind, x
<1>16. f.accepted = s /\ f.known
  BY <1>2, <1>4, Zenon DEF Place
<1>17. \A e \in Range(f.trace) \cup f.old : Behind(f, e)
  <2>1. ASSUME NEW e \in Range(r.trace) \cup r.old PROVE Behind(f, e)
    BY <1>1, <1>2, <1>6, <1>9, <1>14, <1>15, <1>16, <2>1 DEF Behind
  <2>2. ASSUME NEW e \in Range(g) PROVE Behind(f, e)
    <3>1. PICK i \in 1 .. n : e = <<s, x + i>>
      BY <1>13, Zenon
    <3>2. e[1] = s /\ e[2] = x + i /\ x + i <= x + n
      BY <1>1, <1>6, <3>1
    <3> QED BY <1>2, <1>9, <1>16, <3>2, Zenon DEF Behind
  <2> QED BY <1>4, <1>11, <2>1, <2>2, Zenon
<1>18. /\ InOrder(f.trace) /\ NoGap(f.trace)
       /\ f.trace # << >> => LET e == Last(f.trace)
                             IN  e[1] < s \/ (e[1] = s /\ e[2] = x + n)
  <2>1. CASE ~r.alive
    <3>1. f.trace = << >>
      BY <1>4, <2>1, Zenon
    <3> QED BY <3>1, NothingGot, Zenon
  <2>2. CASE r.alive
    <3>1. \A i \in 1 .. Len(g) : g[i][1] = s /\ g[i][2] = x + i
      BY <1>5, <1>7
    <3>2. \A i \in 1 .. Len(r.trace) :
             r.trace[i][1] < s \/ (r.trace[i][1] = s /\ r.trace[i][2] <= x)
      <4>1. \A i \in 1 .. Len(r.trace) : r.trace[i] \in Range(r.trace)
        BY <1>1 DEF Range
      <4> QED BY <1>15, <4>1, Zenon
    <3>3. /\ InOrder(r.trace) /\ NoGap(r.trace)
          /\ r.trace # << >> => \/ Last(r.trace)[1] < s
                                \/ Last(r.trace)[1] = s /\ Last(r.trace)[2] = x
      BY <1>2, Zenon DEF History, x
    <3>4. /\ InOrder(r.trace \o g) /\ NoGap(r.trace \o g)
          /\ Len(g) > 0 => r.trace \o g # << >> /\ Last(r.trace \o g) = g[Len(g)]
      BY <1>1, <1>3, <1>5, <3>1, <3>2, <3>3, Concat, Zenon
    <3>5. f.trace = r.trace \o g
      BY <1>4, <2>2, Zenon
    <3>6. CASE n > 0
      <4>1. n \in 1 .. n /\ g[n] = <<s, x + n>>
        BY <1>6, <1>7, <3>6, SMTT(20)
      <4>2. Last(f.trace) = <<s, x + n>>
        BY <1>5, <3>4, <3>5, <3>6, <4>1, Zenon
      <4> QED BY <3>4, <3>5, <4>2
    <3>7. CASE n = 0
      <4>1. r.trace \o g = r.trace /\ x + n = x
        BY <1>1, <1>5, <3>7, SMTT(20)
      <4> QED BY <3>3, <3>4, <3>5, <4>1, Zenon
    <3> QED BY <1>6, <3>6, <3>7
  <2> QED BY <2>1, <2>2, Zenon
<1>19. \A i \in DOMAIN f.trace : \A e \in f.old : Before(e, f.trace[i])
  <2> SUFFICES ASSUME NEW i \in DOMAIN f.trace, NEW e \in f.old
               PROVE  Before(e, f.trace[i])
    BY Zenon
  <2>1. CASE ~r.alive
    <3>1. f.trace = << >>
      BY <1>4, <2>1, Zenon
    <3> QED BY <3>1, NothingGot, Zenon
  <2>2. CASE r.alive
    <3>1. f.trace = r.trace \o g /\ e \in r.old
      BY <1>4, <2>2, Zenon
    <3>2. e[1] \in Nat /\ e[2] \in Nat /\ (e[1] < s \/ (e[1] = s /\ e[2] <= x))
      BY <1>14, <1>15, <3>1, Zenon
    <3>3. CASE f.trace[i] \in Range(g)
      <4>1. PICK k \in 1 .. n : f.trace[i] = <<s, x + k>>
        BY <1>13, <3>3, Zenon
      <4>2. f.trace[i][1] = s /\ f.trace[i][2] = x + k /\ x + k > x
        BY <1>1, <1>6, <4>1, SMTT(20)
      <4> QED BY <1>1, <1>3, <3>2, <4>2 DEF Before
    <3>4. CASE f.trace[i] \in Range(r.trace)
      <4>1. \E k \in DOMAIN r.trace : f.trace[i] = r.trace[k]
        BY <3>4, Zenon DEF Range
      <4> QED BY <3>1, <4>1, Zenon DEF History
    <3>5. f.trace[i] \in Range(f.trace)
      BY Zenon DEF Range
    <3> QED BY <1>11, <2>2, <3>3, <3>4, <3>5, Zenon
  <2> QED BY <2>1, <2>2, Zenon
<1>20. History(f)
  <2>1. f.fin # NoFin => f.known
    BY <1>16, Zenon
  <2>2. f.trace # << >> => LET e == Last(f.trace)
                           IN  \/ e[1] < f.accepted
                               \/ f.known /\ e[1] = f.accepted /\ e[2] = f.win.next
    BY <1>9, <1>16, <1>18, Zenon
  <2> QED BY <1>17, <1>18, <1>19, <2>1, <2>2, Zenon DEF History
<1> QED BY <1>10, <1>11, <1>12, <1>20, Zenon DEF ReceiverInv, f

\* A packet of the accepted session, whichever path it came on.
LEMMA OnDataInv ==
    ASSUME ShortSessions, NEW r, ReceiverOK(r), ReceiverInv(r), ~r.alive => r.trace = << >>,
           NEW s \in Sessions, r.accepted = s,
           NEW m, m.seq \in Seqs, m.elem \in Packets, m.elem = <<s, m.seq + 1>>
    PROVE  ReceiverInv(OnData(r, s, m)) /\ Taken(r) \subseteq Taken(OnData(r, s, m))
<1> DEFINE q == m.seq
           a == Adopt(r, s, q)
           w == RecvPush(a.win, q, m.elem)
           b == [a EXCEPT !.win = w]
<1>1. /\ WindowSize \in Nat /\ WindowSize >= 2 /\ SeqSpace \in Nat
      /\ 2 * WindowSize <= SeqSpace /\ NoPkt \notin Packets
  BY WindowAssumption, Zenon
<1>2. q \in Seqs /\ q \in Nat /\ q <= SeqSpace - WindowSize /\ SeqNum(q) = q
  <2>1. m.elem[2] \in Elements /\ m.elem[2] = m.seq + 1
    BY PacketParts, Zenon
  <2>2. q \in Seqs /\ q \in Nat
    BY <1>1 DEF Seqs
  <2>3. q + 1 <= SeqSpace - WindowSize
    BY <2>1, Zenon DEF ShortSessions
  <2> QED BY <1>1, <2>2, <2>3, SeqNumItself
<1>3. /\ ReceiverOK(a) /\ Place(a) = Place(r) /\ a.known /\ a.sess = s /\ a.trace = r.trace
      /\ a.old = r.old /\ a.past = r.past /\ a.dropped = r.dropped
  BY <1>2, AdoptOK, SMTT(20)
<1>4. /\ Waits(a) /\ History(a) /\ Taken(a) = Taken(r) /\ a.accepted = s
      /\ Met(a) \/ a.win = EmptyWindow(q)
  BY <1>2, AdoptInv, Zenon
<1>5. OnData(r, s, m) = IF RecvAccepts(a.win, q) THEN Drain(b) ELSE a
  BY Zenon DEF OnData
<1>6. ReceiverOK(b) \/ ~RecvAccepts(a.win, q)
  BY OnDataOK, Zenon
<1> HIDE DEF a, q
<1>7. /\ a \in Receivers /\ Expects(a.win, a.win.next) /\ a.win.next \in Int /\ a.win.next \in Nat
      /\ a.win.next <= SeqSpace - WindowSize
      /\ \A d \in 0 .. WindowSize - 1 :
           At(a.win, d) # NoPkt => At(a.win, d) = <<s, a.win.next + d + 1>>
  <2>1. a \in Receivers /\ Expects(a.win, a.win.next)
    BY <1>3, Zenon DEF ReceiverOK
  <2>2. a.win.next \in Seqs
    BY <2>1, Zenon DEF Expects, Windows
  <2>3. a.win.next \in Int /\ a.win.next \in Nat
    BY <1>1, <2>2 DEF Seqs
  <2>4. /\ a.win.next <= SeqSpace - WindowSize
        /\ \A d \in 0 .. WindowSize - 1 :
             At(a.win, d) # NoPkt => At(a.win, d) = <<s, a.win.next + d + 1>>
    BY <1>3, <1>4, Zenon DEF Waits
  <2> QED BY <2>1, <2>3, <2>4, Zenon
<1>8. RecvAccepts(a.win, q) <=> q \in a.win.next .. a.win.next + WindowSize - 1
  <2>1. a.win.next - q <= SeqSpace - WindowSize /\ q - a.win.next < SeqSpace
    BY <1>1, <1>2, <1>7
  <2>2. RecvAccepts(a.win, SeqNum(q)) <=> q \in a.win.next .. a.win.next + WindowSize - 1
    BY <1>2, <1>7, <2>1, Acceptance
  <2> QED BY <1>2, <2>2, Zenon
<1>9. CASE ~RecvAccepts(a.win, q)
  <2>1. a.win # EmptyWindow(q)
    <3>1. a.win = EmptyWindow(q) => a.win.next = q
      BY DEF EmptyWindow
    <3> QED BY <1>1, <1>2, <1>8, <1>9, <3>1, SMTT(20)
  <2> QED BY <1>4, <1>5, <1>9, <2>1, Zenon DEF ReceiverInv
<1>10. CASE RecvAccepts(a.win, q)
  <2>1. q - a.win.next \in 0 .. WindowSize - 1 /\ q \in Int
    BY <1>1, <1>2, <1>7, <1>8, <1>10, SMTT(20)
  <2>2. /\ Expects(w, a.win.next)
        /\ \A d \in 0 .. WindowSize - 1 :
             At(w, d) = IF d = q - a.win.next /\ At(a.win, d) = NoPkt THEN m.elem ELSE At(a.win, d)
    <3>1. /\ Expects(RecvPush(a.win, SeqNum(q), m.elem), a.win.next)
          /\ \A d \in 0 .. WindowSize - 1 :
               At(RecvPush(a.win, SeqNum(q), m.elem), d) =
                  IF d = q - a.win.next /\ At(a.win, d) = NoPkt THEN m.elem ELSE At(a.win, d)
      BY <1>7, <2>1, Stored, Zenon
    <3> QED BY <1>2, <3>1, Zenon
  <2>3. w.next = a.win.next
    BY <1>7, <2>2, Zenon DEF Expects
  <2> HIDE DEF w
  <2>4. /\ b.win = w /\ b.known /\ b.sess = s /\ b.accepted = s /\ b.trace = a.trace
        /\ b.old = a.old /\ b.past = a.past /\ b.dropped = a.dropped /\ b.fin = a.fin
        /\ b.alive = r.alive
    BY <1>3, <1>4, <1>7, Zenon DEF Receivers, Place
  <2>5. ReceiverOK(b)
    BY <1>6, <1>10, Zenon
  <2> HIDE DEF b
  <2>6. Waits(b)
    <3>1. ASSUME NEW d \in 0 .. WindowSize - 1, At(w, d) # NoPkt
          PROVE  At(w, d) = <<s, w.next + d + 1>>
      <4>1. CASE d = q - a.win.next /\ At(a.win, d) = NoPkt
        <5>1. At(w, d) = <<s, q + 1>> /\ q + 1 = w.next + d + 1
          BY <1>2, <1>7, <2>2, <2>3, <4>1, SMTT(20) DEF q
        <5> QED BY <5>1, Zenon
      <4>2. CASE ~(d = q - a.win.next /\ At(a.win, d) = NoPkt)
        BY <1>7, <2>2, <2>3, <3>1, <4>2, Zenon
      <4> QED BY <4>1, <4>2, Zenon
    <3> QED BY <1>7, <2>3, <2>4, <3>1, SessionNumbers, Zenon DEF Waits
  <2>7. Taken(b) = Taken(a)
    BY <2>4, Zenon DEF Taken
  <2>8. History(b)
    <3>1. \A e : Behind(a, e) => Behind(b, e)
      BY <1>3, <1>4, <2>3, <2>4, Zenon DEF Behind
    <3> QED BY <1>3, <1>4, <2>3, <2>4, <3>1, ZenonT(30) DEF History
  <2>9. Met(b) \/ At(b.win, 0) # NoPkt
    <3>1. CASE Met(a)
      BY <1>3, <2>3, <2>4, <2>7, <3>1, Zenon DEF Met
    <3>2. CASE a.win = EmptyWindow(q)
      <4>1. q - a.win.next = 0 /\ 0 \in 0 .. WindowSize - 1
        BY <1>1, <1>2, <3>2 DEF EmptyWindow
      <4>2. At(w, 0) # NoPkt
        BY <1>1, <2>2, <4>1, Zenon
      <4> QED BY <2>4, <4>2, Zenon
    <3> QED BY <1>4, <3>1, <3>2, Zenon
  <2>10. ReceiverInv(Drain(b)) /\ Taken(b) \subseteq Taken(Drain(b))
    BY <1>3, <2>4, <2>5, <2>6, <2>8, <2>9, DrainInv, Zenon
  <2> QED BY <1>4, <1>5, <1>10, <2>7, <2>10, Zenon
<1> QED BY <1>9, <1>10, Zenon

LEMMA OnFinInv ==
    ASSUME NEW r, ReceiverOK(r), ReceiverInv(r), NEW s \in Sessions, r.accepted = s,
           NEW m, m.target \in Seqs
    PROVE  ReceiverInv(OnFin(r, s, m)) /\ Taken(OnFin(r, s, m)) = Taken(r)
<1> DEFINE a == Adopt(r, s, 0)
           f == OnFin(r, s, m)
<1>1. 0 \in Seqs /\ 0 <= SeqSpace - WindowSize
  BY WindowAssumption DEF Seqs
<1>2. ReceiverOK(a) /\ a.known
  BY <1>1, AdoptOK, Zenon
<1>3. Waits(a) /\ History(a) /\ Taken(a) = Taken(r) /\ Met(a)
  BY <1>1, AdoptInv, Zenon
<1>4. f = [a EXCEPT !.fin = m.target]
  BY Zenon DEF OnFin
<1> HIDE DEF a, f
<1>5. /\ f.accepted = a.accepted /\ f.known = a.known /\ f.sess = a.sess /\ f.win = a.win
      /\ f.trace = a.trace /\ f.old = a.old /\ f.past = a.past /\ f.dropped = a.dropped
  BY <1>2, <1>4, Zenon DEF ReceiverOK, Receivers
<1>6. Taken(f) = Taken(a)
  BY <1>5, Zenon DEF Taken
<1>7. Waits(f) /\ Met(f)
  BY <1>3, <1>5, <1>6, Zenon DEF Waits, Met
<1>8. History(f)
  BY <1>2, <1>3, <1>5, Zenon DEF History, Behind
<1> QED BY <1>3, <1>6, <1>7, <1>8, Zenon DEF ReceiverInv, f

\* Nothing is compared with a session that is over.
LEMMA NothingKept ==
    ASSUME NEW r, ~r.known, r.fin = NoFin, r.trace = << >>, r.old = {}
    PROVE  ReceiverInv(r)
<1>1. Waits(r) /\ Met(r)
  BY Zenon DEF Waits, Met
<1>2. History(r)
  BY NothingGot, Zenon DEF History
<1> QED BY <1>1, <1>2, Zenon DEF ReceiverInv

LEMMA FinFireInv ==
    ASSUME NEW r, ReceiverOK(r)
    PROVE  ReceiverInv(FinFire(r)) /\ Taken(FinFire(r)) = Taken(r)
<1> DEFINE f == FinFire(r)
<1>1. /\ f.trace = << >> /\ ~f.known /\ f.old = {} /\ f.fin = NoFin
      /\ f.past = r.past \cup r.old \cup Range(r.trace) /\ f.dropped = r.dropped
  BY FinFireOK, Zenon
<1> HIDE DEF f
<1>2. Taken(f) = Taken(r)
  BY <1>1, NothingGot, Zenon DEF Taken
<1> QED BY <1>1, <1>2, NothingKept, Zenon DEF f

\* All that came before a new session is older than it.
LEMMA NewSessionInv ==
    ASSUME NEW r, ReceiverOK(r), ReceiverInv(r), NEW p \in Paths, r.at[p] = "down",
           NEW s \in Sessions, r.accepted = None \/ s > r.accepted
    PROVE  ReceiverInv(NewSession(r, p, s)) /\ Taken(NewSession(r, p, s)) = Taken(r)
<1> DEFINE f == NewSession(r, p, s)
<1>1. /\ ~f.known /\ f.fin = NoFin /\ f.accepted = s /\ f.trace = r.trace /\ f.old = r.old
      /\ f.past = r.past /\ f.dropped = r.dropped /\ f.win = r.win
  BY NewSessionOK, SMTT(20)
<1> HIDE DEF f
<1>2. Taken(f) = Taken(r) /\ Waits(f) /\ Met(f)
  BY <1>1, Zenon DEF Taken, Waits, Met
<1>3. /\ r \in Receivers /\ s \in Nat /\ s # None /\ r.accepted \in Nat
      /\ r.trace \in Seq(Packets) /\ r.old \subseteq Packets
  <2>1. r \in Receivers
    BY Zenon DEF ReceiverOK
  <2>2. r.accepted \in Sessions \cup {None} /\ r.trace \in Seq(Packets) /\ r.old \subseteq Packets
    BY <2>1, Zenon DEF Receivers
  <2> QED BY <2>1, <2>2, SessionNumbers, Zenon
<1>4. \A e \in Range(r.trace) \cup r.old : e[1] \in Nat
  <2>1. \A e \in Range(r.trace) \cup r.old : e \in Packets
    BY <1>3, SMTT(20) DEF Range
  <2> QED BY <2>1, PacketParts, Zenon
<1>5. \A e \in Range(r.trace) \cup r.old : e[1] < s
  BY <1>3, <1>4 DEF ReceiverInv, History, Behind
<1>6. \A e \in Range(f.trace) \cup f.old : Behind(f, e)
  BY <1>1, <1>3, <1>5, Zenon DEF Behind
<1>7. f.trace # << >> => Last(f.trace)[1] < f.accepted
  <2>1. ASSUME r.trace # << >> PROVE Last(r.trace) \in Range(r.trace)
    <3>1. Len(r.trace) \in DOMAIN r.trace
      BY <1>3, <2>1, SMTT(20)
    <3> QED BY <3>1, Zenon DEF Last, Range
  <2> QED BY <1>1, <1>5, <2>1, Zenon
<1>8. History(f)
  BY <1>1, <1>6, <1>7, ZenonT(30) DEF ReceiverInv, History
<1> QED BY <1>2, <1>8, Zenon DEF ReceiverInv, f

\* What the receive thread makes of a message, and the FIN_ACK it may send:
\* FIN waits until the packet before its target was taken.
LEMMA HandledInv ==
    ASSUME ShortSessions, WireTyped, ReceiverTyped, NEW p \in Paths, wire[p] # << >>,
           Head(wire[p]).toR # << >>, Head(wire[p]).sess = rcv.accepted, ReceiverInv(rcv),
           LET m == Head(Head(wire[p]).toR)
           IN  m.kind = "DATA" => m.elem = <<Head(wire[p]).sess, m.seq + 1>>
    PROVE  /\ ReceiverInv(Handled(p)) /\ Taken(rcv) \subseteq Taken(Handled(p))
           /\ FinReached(Handled(p)) /\ Handled(p).fin # 0 =>
                 <<rcv.accepted, Handled(p).fin>> \in Taken(Handled(p))
<1> DEFINE s == Head(wire[p]).sess
           m == Head(Head(wire[p]).toR)
           r == Handled(p)
<1>1. /\ s \in Sessions
      /\ \/ m.kind = "PING" /\ m.states \in PingStates
         \/ m.kind = "DATA" /\ m.seq \in Seqs /\ m.elem \in Packets
         \/ m.kind = "FIN" /\ m.target \in Seqs
  BY FirstMessage, Zenon
<1>2. ReceiverOK(rcv) /\ (~rcv.alive => rcv.trace = << >>)
  BY Zenon DEF ReceiverTyped
<1>3. r = CASE m.kind = "PING" -> Told(OnPing(rcv, p, m))
            [] m.kind = "DATA" -> OnData(rcv, s, m)
            [] m.kind = "FIN"  -> OnFin(rcv, s, m)
  BY Zenon DEF Handled
<1>4. r.accepted = rcv.accepted
  BY HandledOK, Zenon
<1>5. s = rcv.accepted /\ (m.kind = "DATA" => m.elem = <<s, m.seq + 1>>)
  BY Zenon
<1> HIDE DEF r, m, s
<1>6. ReceiverInv(r) /\ Taken(rcv) \subseteq Taken(r)
  <2>1. CASE m.kind = "PING"
    <3>1. r = Told(OnPing(rcv, p, m)) /\ m.states \in PingStates
      BY <1>1, <1>3, <2>1, Zenon
    <3>2. ReceiverOK(OnPing(rcv, p, m)) /\ Session(rcv) = Session(OnPing(rcv, p, m))
      BY <1>2, <3>1, ReceiverHears, Zenon
    <3>3. ReceiverInv(OnPing(rcv, p, m)) /\ Taken(OnPing(rcv, p, m)) = Taken(rcv)
      BY <3>2, SameSession, Zenon
    <3> QED BY <3>1, <3>2, <3>3, ToldInv, Zenon
  <2>2. CASE m.kind = "DATA"
    <3>1. r = OnData(rcv, s, m) /\ m.seq \in Seqs /\ m.elem \in Packets
      BY <1>1, <1>3, <2>2, Zenon
    <3> QED BY <1>1, <1>2, <1>5, <2>2, <3>1, OnDataInv, Zenon
  <2>3. CASE m.kind = "FIN"
    <3>1. r = OnFin(rcv, s, m) /\ m.target \in Seqs
      BY <1>1, <1>3, <2>3, Zenon
    <3> QED BY <1>1, <1>2, <1>5, <3>1, OnFinInv, Zenon
  <2> QED BY <1>1, <2>1, <2>2, <2>3, Zenon
<1>7. ASSUME FinReached(r), r.fin # 0 PROVE <<rcv.accepted, r.fin>> \in Taken(r)
  <2>1. r.fin # NoFin /\ r.fin = r.win.next
    BY <1>7, Zenon DEF FinReached
  <2>2. r.known /\ r.sess = r.accepted
    BY <1>6, <2>1, ZenonT(30) DEF ReceiverInv, History, Waits
  <2> QED BY <1>4, <1>6, <1>7, <2>1, <2>2, Zenon DEF ReceiverInv, Met
<1> QED BY <1>6, <1>7, ZenonT(30) DEF r

-----------------------------------------------------------------------------
\* What is on the way, and what the sender knows

\* A packet carries the number of its position in its session.
Numbered(s, m) == m.kind = "DATA" => m.elem = <<s, m.seq + 1>>

\* A FIN_ACK vouches for the packet before its target.
Vouched(s, a, taken) == a \notin {NoFin, 0} => <<s, a>> \in taken

ConnectionInv(c, taken) ==
    /\ \A j \in 1 .. Len(c.toR) : Numbered(c.sess, c.toR[j])
    /\ Vouched(c.sess, c.ack, taken)

WireInv(w, taken) ==
    \A p \in Paths : \A i \in 1 .. Len(w[p]) : ConnectionInv(w[p][i], taken)

\* The sender numbers its packets by their position, FIN has the number that
\* comes next, and it was acknowledged only once the last packet was taken.
SenderInv(e, taken) ==
    /\ e.sent <= SeqSpace - WindowSize
    /\ e.phase \in {"open", "drain"} => e.seq = e.sent /\ ~e.acked
    /\ e.phase = "wait" => e.target = e.sent
    /\ e.acked => e.target = e.sent /\ (e.target # 0 => <<e.sess, e.target>> \in taken)

DeliveryInv ==
    ~snd.renumbered =>
    /\ WireInv(wire, Taken(rcv)) /\ SenderInv(snd, Taken(rcv)) /\ ReceiverInv(rcv)

LEMMA GrownInv ==
    ASSUME NEW w, NEW v, NEW M, NEW A, NEW T, NEW U, WireGrown(w, v, M, A), WireInv(w, T),
           T \subseteq U, \A s, m : <<s, m>> \in M => Numbered(s, m),
           \A s, a : <<s, a>> \in A => Vouched(s, a, U)
    PROVE  WireInv(v, U)
<1> SUFFICES ASSUME NEW p \in Paths, NEW i \in 1 .. Len(v[p])
             PROVE  ConnectionInv(v[p][i], U)
  BY Zenon DEF WireInv
<1> DEFINE c == w[p][i]
           d == v[p][i]
<1>1. Grown(c, d, M, A) /\ ConnectionInv(c, T)
  BY Zenon DEF WireGrown, WireInv
<1> HIDE DEF c, d
<1>2. d.sess = c.sess
  BY <1>1, Zenon DEF Grown
<1>3. ASSUME NEW j \in 1 .. Len(d.toR) PROVE Numbered(d.sess, d.toR[j])
  BY <1>1, <1>2, ZenonT(30) DEF Grown, ConnectionInv
<1>4. Vouched(d.sess, d.ack, U)
  <2>1. CASE d.ack \in {c.ack, NoFin}
    BY <1>1, <1>2, <2>1, Zenon DEF ConnectionInv, Vouched
  <2>2. CASE <<c.sess, d.ack>> \in A
    BY <1>2, <2>2, Zenon
  <2> QED BY <1>1, <2>1, <2>2, Zenon DEF Grown
<1> QED BY <1>3, <1>4, Zenon DEF ConnectionInv, d

LEMMA ShiftedInv ==
    ASSUME WireTyped, NEW v, NEW T, NEW U, WireShifted(wire, v), WireInv(wire, T), T \subseteq U
    PROVE  WireInv(v, U)
<1>1. \A c : ConnectionInv(c, T) => ConnectionInv(c, U)
  BY Zenon DEF ConnectionInv, Vouched
<1> SUFFICES ASSUME NEW p \in Paths, NEW i \in 1 .. Len(v[p])
             PROVE  ConnectionInv(v[p][i], U)
  BY Zenon DEF WireInv
<1>2. wire[p] \in Seq(Connections)
  BY Zenon DEF WireTyped
<1>3. CASE v[p] = wire[p]
  BY <1>1, <1>3, Zenon DEF WireInv
<1>4. CASE wire[p] # << >> /\ v[p] = Tail(wire[p])
  <2>1. v[p][i] = wire[p][i + 1] /\ i + 1 \in 1 .. Len(wire[p])
    BY <1>2, <1>4, Shifted, Zenon
  <2> QED BY <1>1, <2>1, Zenon DEF WireInv
<1> QED BY <1>3, <1>4, Zenon DEF WireShifted

\* A new connection carries a PING and no FIN_ACK.
LEMMA ConnectedInv ==
    ASSUME PathInv, NEW p \in Paths, Connect(p), NEW T, WireInv(wire, T)
    PROVE  WireInv(wire', T)
<1>1. PICK c \in Connections : /\ wire'[p] = Append(wire[p], c)
                               /\ c.toR = <<Ping(Joined(snd, p))>> /\ c.ack = NoFin
  BY Connects, Zenon
<1>2. \A k \in Paths \ {p} : wire'[k] = wire[k]
  BY Connects, Zenon
<1>3. wire[p] \in Seq(Connections)
  BY Zenon DEF PathInv, WireTyped
<1>4. ConnectionInv(c, T)
  <2>1. Len(c.toR) = 1 /\ c.toR[1].kind = "PING"
    BY <1>1 DEF Ping
  <2>2. \A j \in 1 .. Len(c.toR) : c.toR[j].kind # "DATA"
    BY <2>1
  <2> QED BY <1>1, <2>2, Zenon DEF ConnectionInv, Numbered, Vouched
<1>5. \A i \in 1 .. Len(wire'[p]) :
          wire'[p][i] = c \/ (i \in 1 .. Len(wire[p]) /\ wire'[p][i] = wire[p][i])
  <2>1. /\ Len(wire'[p]) = Len(wire[p]) + 1 /\ wire'[p][Len(wire[p]) + 1] = c
        /\ \A i \in 1 .. Len(wire[p]) : wire'[p][i] = wire[p][i]
    BY <1>1, <1>3, Appended, SMTT(20)
  <2>2. Len(wire[p]) \in Nat
    BY <1>3, SMTT(20)
  <2>3. \A i \in 1 .. Len(wire'[p]) : i = Len(wire[p]) + 1 \/ i \in 1 .. Len(wire[p])
    BY <2>1, <2>2, SMTT(20)
  <2> QED BY <2>1, <2>3, Zenon
<1> SUFFICES ASSUME NEW k \in Paths, NEW i \in 1 .. Len(wire'[k])
             PROVE  ConnectionInv(wire'[k][i], T)
  BY Zenon DEF WireInv
<1>6. CASE k = p
  BY <1>4, <1>5, <1>6, Zenon DEF WireInv
<1>7. CASE k # p
  BY <1>2, <1>7, Zenon DEF WireInv
<1> QED BY <1>6, <1>7, Zenon

LEMMA SameTransfer ==
    ASSUME NEW e, NEW f, Transfer(f) = Transfer(e), NEW T
    PROVE  /\ SenderInv(e, T) => SenderInv(f, T)
           /\ f.renumbered = e.renumbered
  BY Zenon DEF Transfer, SenderInv

\* Flush numbers a packet by its position, and close keeps what it knows.
LEMMA SenderMoves ==
    ASSUME ShortSessions, PathInv, NEW T, WireInv(wire, T), SenderInv(snd, T),
           ~snd'.renumbered,
           \/ \E p \in Paths : Break(p) \/ SenderAcked(p) \/ SenderReset(p)
           \/ Submit \/ Flush \/ CloseBegin \/ CloseFin \/ CloseEnd \/ Restart
    PROVE  SenderInv(snd', T)
<1>1. /\ WindowSize \in Nat /\ SeqSpace \in Nat /\ 2 <= WindowSize /\ 2 * WindowSize <= SeqSpace
  BY WindowAssumption, Zenon
<1>2. SenderTyped /\ snd \in Senders /\ rcv \in Receivers /\ WireTyped
  BY Zenon DEF PathInv, SenderTyped, SenderOK, ReceiverTyped, ReceiverOK
<1>3. snd.sent \in Nat /\ snd.seq \in Seqs /\ snd.sess \in Sessions /\ snd.acked \in BOOLEAN
  BY <1>2, Zenon DEF Senders
<1>4. ASSUME NEW ret \in {"OK", "TIMEOUT", "DISCONNECTED", "IO"}, Closed(ret)
      PROVE  SenderInv(snd', T)
  BY <1>2, <1>4, ClosedOK, Zenon DEF SenderInv
<1>5. ASSUME NEW p \in Paths, Break(p) PROVE SenderInv(snd', T)
  <2>1. Transfer(snd') = Transfer(snd)
    BY <1>2, <1>5, Zenon DEF Break, Senders, Transfer
  <2> QED BY <2>1, SameTransfer, Zenon
<1>6. ASSUME NEW p \in Paths, SenderAcked(p) PROVE SenderInv(snd', T)
  <2>1. /\ snd.at[p] = "up" /\ wire[p] # << >> /\ Last(wire[p]).ack = snd.target
        /\ snd.phase = "wait" /\ snd' = [snd EXCEPT !.acked = TRUE]
    BY <1>6, Zenon DEF SenderAcked
  <2>2. /\ snd'.sent = snd.sent /\ snd'.phase = "wait" /\ snd'.target = snd.target
        /\ snd'.sess = snd.sess
    BY <1>2, <2>1, Zenon DEF Senders
  <2>3. snd.target = snd.sent
    BY <2>1, Zenon DEF SenderInv
  <2>4. Len(wire[p]) \in 1 .. Len(wire[p]) /\ Last(wire[p]) = wire[p][Len(wire[p])]
    <3>1. wire[p] \in Seq(Connections)
      BY <1>2, Zenon DEF WireTyped
    <3> QED BY <2>1, <3>1 DEF Last
  <2>5. Vouched(Last(wire[p]).sess, snd.target, T)
    BY <2>1, <2>4, Zenon DEF WireInv, ConnectionInv
  <2>6. Last(wire[p]).sess = snd.sess
    BY <2>1, Zenon DEF PathInv, Linked, Sockets
  <2>7. snd.target # 0 => <<snd.sess, snd.target>> \in T
    BY <1>3, <2>3, <2>5, <2>6 DEF Vouched, NoFin
  <2> QED BY <2>2, <2>3, <2>7, Zenon DEF SenderInv
<1>7. ASSUME NEW p \in Paths, SenderReset(p) PROVE SenderInv(snd', T)
  <2>1. /\ snd'.sess = snd.sess /\ snd'.sent = snd.sent /\ snd'.phase = snd.phase
        /\ snd'.target = snd.target /\ snd'.acked = snd.acked
        /\ \/ Transfer(snd') = Transfer(snd)
           \/ snd'.seq = 0 /\ snd'.renumbered = (snd.renumbered \/ snd.sent > 0)
    BY <1>2, <1>7, SenderResets, Zenon
  <2>2. CASE Transfer(snd') = Transfer(snd)
    BY <2>2, SameTransfer, Zenon
  <2>3. CASE snd'.seq = 0 /\ snd'.renumbered = (snd.renumbered \/ snd.sent > 0)
    <3>1. snd'.renumbered = (snd.renumbered \/ snd.sent > 0) /\ ~snd'.renumbered
      BY <2>3, Zenon
    <3>2. ~(snd.sent > 0)
      BY <3>1, Zenon
    <3>3. snd.sent = 0
      BY <1>3, <3>2, SMTT(20)
    <3> QED BY <2>1, <2>3, <3>3, Zenon DEF SenderInv
  <2> QED BY <2>1, <2>2, <2>3, Zenon
<1>8. CASE Submit
  <2>1. /\ snd'.sess = snd.sess /\ snd'.sent = snd.sent /\ snd'.phase = snd.phase
        /\ snd'.target = snd.target /\ snd'.acked = snd.acked /\ snd'.seq = snd.seq
    BY <1>2, <1>8, Zenon DEF Submit, Senders
  <2> QED BY <2>1, Zenon DEF SenderInv
<1>9. CASE Flush
  <2>1. /\ snd'.sess = snd.sess /\ snd'.sent = snd.sent + 1 /\ snd'.phase = snd.phase
        /\ snd'.acked = snd.acked /\ snd'.seq = SeqAdd(snd.seq, 1)
        /\ snd.queued /\ snd.phase \in {"open", "drain"}
    BY <1>2, <1>9, Zenon DEF Flush, Senders
  <2>2. snd.sent + 1 <= SeqSpace - WindowSize
    BY <1>2, <2>1, Zenon DEF SenderTyped, ShortSessions
  <2>3. snd.seq = snd.sent /\ ~snd.acked
    BY <2>1, Zenon DEF SenderInv
  <2>4. snd'.seq = snd.sent + 1
    BY <1>1, <1>3, <2>1, <2>2, <2>3, SMTT(20) DEF SeqAdd
  <2> QED BY <2>1, <2>2, <2>3, <2>4, Zenon DEF SenderInv
<1>10. CASE CloseBegin
  <2>1. CASE snd.sending
    <3>1. /\ snd'.sess = snd.sess /\ snd'.sent = snd.sent /\ snd'.phase = "drain"
          /\ snd'.target = snd.target /\ snd'.acked = snd.acked /\ snd'.seq = snd.seq
          /\ snd.phase = "open"
      BY <1>2, <1>10, <2>1, Zenon DEF CloseBegin, Senders
    <3> QED BY <3>1, Zenon DEF SenderInv
  <2>2. CASE ~snd.sending
    BY <1>4, <1>10, <2>2, Zenon DEF CloseBegin
  <2> QED BY <2>1, <2>2, Zenon
<1>11. CASE CloseFin
  <2>1. CASE snd' = [snd EXCEPT !.phase = "wait", !.target = snd.seq]
    <3>1. /\ snd'.sess = snd.sess /\ snd'.sent = snd.sent /\ snd'.phase = "wait"
          /\ snd'.target = snd.seq /\ snd'.acked = snd.acked /\ snd.phase = "drain"
      BY <1>2, <1>11, <2>1, Zenon DEF CloseFin, Senders
    <3> QED BY <3>1, Zenon DEF SenderInv
  <2>2. CASE \E ret \in {"OK", "IO", "DISCONNECTED"} : Closed(ret)
    BY <1>4, <2>2, Zenon
  <2> QED BY <1>11, <2>1, <2>2, Zenon DEF CloseFin
<1>12. CASE CloseEnd
  BY <1>4, <1>12, Zenon DEF CloseEnd
<1>13. CASE Restart
  <2>1. snd'.sent = 0 /\ snd'.phase = "open" /\ snd'.seq = 0 /\ ~snd'.acked
    BY <1>13, Zenon DEF Restart, NewSender
  <2> QED BY <1>1, <2>1 DEF SenderInv
<1> QED BY <1>5, <1>6, <1>7, <1>8, <1>9, <1>10, <1>11, <1>12, <1>13, Zenon

\* A sender that began again at 0 is not told apart again.
LEMMA RenumberedStays ==
    ASSUME PathInv, [Next]_vars, ~snd'.renumbered
    PROVE  ~snd.renumbered
<1>1. SenderTyped /\ snd \in Senders /\ SenderOK(snd) /\ rcv \in Receivers
  BY Zenon DEF PathInv, SenderTyped, SenderOK, ReceiverTyped, ReceiverOK
<1>2. ASSUME NEW p \in Paths, PathNext(p) PROVE ~snd.renumbered
  <2>1. CASE \/ Connect(p) \/ ConnectFails(p) \/ SenderPinged(p) \/ SenderTimeout(p)
             \/ SenderLost(p) \/ StartFails(p)
    <3>1. Transfer(snd') = Transfer(snd)
      BY <1>1, <2>1, SenderPaths, Zenon
    <3> QED BY <3>1, SameTransfer, Zenon
  <2>2. CASE Break(p) \/ SenderAcked(p)
    BY <1>1, <2>2, Zenon DEF Break, SenderAcked, Senders
  <2>3. CASE SenderReset(p)
    BY <1>1, <2>3, SenderResets, SameTransfer, Zenon
  <2>4. CASE snd' = snd
    BY <2>4, Zenon
  <2> QED BY <1>2, <2>1, <2>2, <2>3, <2>4, Zenon
          DEF PathNext, SenderPing, Accept, AcceptFails, Refuse, ReceiverRead, ReceiverTimeout,
              ReceiverLost, ReceiverReset
<1>3. CASE Submit \/ Flush
  BY <1>1, <1>3, Zenon DEF Submit, Flush, Senders
<1>4. ASSUME NEW ret, Closed(ret) PROVE ~snd.renumbered
  BY <1>4, Zenon DEF Closed, NewSender
<1>5. CASE CloseBegin \/ CloseFin \/ CloseEnd
  BY <1>1, <1>4, <1>5, Zenon DEF CloseBegin, CloseFin, CloseEnd, Senders
<1>6. CASE Restart
  BY <1>6, Zenon DEF Restart, NewSender
<1>7. CASE UNCHANGED vars
  BY <1>7, Zenon DEF vars
<1> QED BY <1>2, <1>3, <1>5, <1>6, <1>7, Zenon DEF Next

LEMMA InitDelivery == Init => DeliveryInv
<1> SUFFICES ASSUME Init PROVE DeliveryInv
  BY Zenon
<1>1. /\ ~rcv.known /\ rcv.fin = NoFin /\ rcv.trace = << >> /\ rcv.old = {}
      /\ wire = [p \in Paths |-> << >>]
      /\ snd.sent = 0 /\ snd.seq = 0 /\ snd.phase = "open" /\ ~snd.acked
  BY DEF Init, NewSender
<1>2. ReceiverInv(rcv)
  BY <1>1, NothingKept, Zenon
<1>3. WireInv(wire, Taken(rcv))
  BY <1>1 DEF WireInv
<1>4. SenderInv(snd, Taken(rcv))
  BY <1>1, WindowAssumption DEF SenderInv
<1> QED BY <1>2, <1>3, <1>4, Zenon DEF DeliveryInv

LEMMA DeliveryStep ==
    ASSUME ShortSessions, PathInv, DeliveryInv, [Next]_vars
    PROVE  DeliveryInv'
<1>1. /\ SenderTyped /\ ReceiverTyped /\ WireTyped /\ Linked(snd, rcv, wire)
      /\ SenderOK(snd) /\ snd \in Senders /\ rcv \in Receivers /\ ReceiverOK(rcv)
  BY Zenon DEF PathInv, SenderTyped, SenderOK, ReceiverTyped, ReceiverOK
<1> DEFINE T == Taken(rcv)
           U == Taken(rcv')
           Goal == WireInv(wire', U) /\ SenderInv(snd', U) /\ ReceiverInv(rcv')
<1>2. SUFFICES ASSUME ~snd'.renumbered PROVE Goal
  BY Zenon DEF DeliveryInv
<1>3. WireInv(wire, T) /\ SenderInv(snd, T) /\ ReceiverInv(rcv)
  BY <1>2, RenumberedStays, Zenon DEF DeliveryInv
<1>4. rcv' = rcv => U = T /\ ReceiverInv(rcv')
  BY <1>3, Zenon
\* More is taken, and what the sender knows stays true.
<1>5. ASSUME NEW V, T \subseteq V PROVE SenderInv(snd, V)
  BY <1>3, <1>5, Zenon DEF SenderInv
<1>6. ASSUME NEW v, NEW A, NEW V, WireGrown(wire, v, {}, A), T \subseteq V,
             \A s, a : <<s, a>> \in A => Vouched(s, a, V)
      PROVE  WireInv(v, V)
  BY <1>3, <1>6, GrownInv, Zenon
<1>7. ASSUME NEW v, WireGrown(wire, v, {}, {}) PROVE WireInv(v, T)
  BY <1>6, <1>7, Zenon
<1> HIDE DEF T, U
<1>8. CASE UNCHANGED vars
  BY <1>3, <1>4, <1>8, Zenon DEF vars
<1>9. ASSUME NEW p \in Paths, PathNext(p) PROVE Goal
  <2>1. CASE Connect(p)
    <3>1. Transfer(snd') = Transfer(snd) /\ rcv' = rcv
      BY <1>1, <2>1, SenderPaths, Connects, Zenon
    <3>2. SenderInv(snd', T)
      BY <1>3, <3>1, SameTransfer, Zenon
    <3>3. WireInv(wire', T)
      BY <1>3, <2>1, ConnectedInv, Zenon
    <3> QED BY <1>4, <3>1, <3>2, <3>3, Zenon
  <2>2. CASE ConnectFails(p) \/ SenderPinged(p) \/ SenderTimeout(p)
    <3>1. Transfer(snd') = Transfer(snd) /\ rcv' = rcv /\ wire' = wire
      BY <1>1, <2>2, SenderPaths, Zenon DEF ConnectFails, SenderPinged, SenderTimeout
    <3>2. SenderInv(snd', T)
      BY <1>3, <3>1, SameTransfer, Zenon
    <3> QED BY <1>3, <1>4, <3>1, <3>2, Zenon
  <2>3. CASE SenderLost(p) \/ StartFails(p)
    <3>1. Transfer(snd') = Transfer(snd) /\ rcv' = rcv
      BY <1>1, <2>3, SenderPaths, Zenon DEF SenderLost, StartFails
    <3>2. SenderInv(snd', T)
      BY <1>3, <3>1, SameTransfer, Zenon
    <3>3. WireInv(wire', T)
      BY <1>1, <1>7, <2>3, WireCut, Zenon
    <3> QED BY <1>4, <3>1, <3>2, <3>3, Zenon
  <2>4. CASE Break(p)
    <3>1. SenderInv(snd', T) /\ rcv' = rcv
      BY <1>2, <1>3, <2>4, SenderMoves, Zenon DEF Break
    <3>2. WireInv(wire', T)
      BY <1>1, <1>7, <2>4, WireCut, Zenon
    <3> QED BY <1>4, <3>1, <3>2, Zenon
  <2>5. CASE SenderAcked(p) \/ SenderReset(p)
    <3>1. SenderInv(snd', T)
      BY <1>2, <1>3, <2>5, SenderMoves, Zenon
    <3>2. rcv' = rcv /\ wire' = wire
      BY <2>5, Zenon DEF SenderAcked, SenderReset
    <3> QED BY <1>3, <1>4, <3>1, <3>2, Zenon
  <2>6. CASE SenderPing(p)
    <3>1. snd' = snd /\ rcv' = rcv /\ WireGrown(wire, wire', Pings, {})
      BY <1>1, <2>6, WireWritten, Zenon DEF SenderPing
    <3>2. \A s, m : <<s, m>> \in Pings => Numbered(s, m)
      BY Zenon DEF Pings, Numbered
    <3>3. WireInv(wire', T)
      BY <1>3, <3>1, <3>2, GrownInv, Zenon
    <3> QED BY <1>3, <1>4, <3>1, <3>3, Zenon
  <2>7. CASE Accept(p)
    <3>1. /\ WireShifted(wire, wire') /\ Session(rcv') = Session(Joining(p))
          /\ Head(wire[p]).sess \in Sessions /\ snd' = snd /\ rcv.at[p] = "down"
          /\ \/ Compare(rcv, Head(wire[p]).sess) = "NEW"
             \/ Joining(p) = rcv
      BY <1>1, <2>7, ReceiverAccepts, Zenon DEF Accept
    <3>2. ReceiverInv(Joining(p)) /\ Taken(Joining(p)) = T
      <4>1. CASE Compare(rcv, Head(wire[p]).sess) = "NEW"
        <5>1. rcv.accepted = None \/ Head(wire[p]).sess > rcv.accepted
          <6>1. rcv.accepted \in Sessions \cup {None}
            BY <1>1, Zenon DEF Receivers
          <6>2. rcv.accepted \in Nat /\ Head(wire[p]).sess \in Nat
            BY <3>1, <6>1, SessionNumbers, Zenon
          <6> QED BY <4>1, <6>2 DEF Compare
        <5>2. Joining(p) = NewSession(rcv, p, Head(wire[p]).sess)
          BY <4>1, Zenon DEF Joining
        <5> QED BY <1>1, <1>3, <3>1, <5>1, <5>2, NewSessionInv, ZenonT(30) DEF T
      <4>2. CASE Joining(p) = rcv
        BY <1>3, <4>2, Zenon DEF T
      <4> QED BY <3>1, <4>1, <4>2, Zenon
    <3>3. ReceiverInv(rcv') /\ U = T
      BY <3>1, <3>2, SameSession, Zenon DEF U
    <3>4. WireInv(wire', T)
      BY <1>1, <1>3, <3>1, ShiftedInv, Zenon
    <3> QED BY <1>3, <3>1, <3>3, <3>4, Zenon
  <2>8. CASE Refuse(p)
    <3>1. WireShifted(wire, wire') /\ snd' = snd /\ rcv' = rcv
      BY <2>8, Refuses, Zenon
    <3>2. WireInv(wire', T)
      BY <1>1, <1>3, <3>1, ShiftedInv, Zenon
    <3> QED BY <1>3, <1>4, <3>1, <3>2, Zenon
  <2>9. CASE ReceiverRead(p)
    <3> DEFINE h == Handled(p)
               A == {<<rcv.accepted, x>> : x \in IF FinReached(h) THEN {h.fin} ELSE {}}
    <3>1. /\ wire[p] # << >> /\ Head(wire[p]).toR # << >> /\ snd' = snd
          /\ Head(wire[p]).sess = rcv.accepted
          /\ \/ ~FinReached(h) /\ rcv' = h
             \/ FinReached(h) /\ rcv' = FinFire(h)
      BY <1>1, <2>9, ReceiverReads, ZenonT(30) DEF ReceiverRead
    <3>2. WireGrown(wire, wire', {}, A)
      BY <1>1, <2>9, ReceiverReads, ZenonT(30)
    <3>3. Numbered(Head(wire[p]).sess, Head(Head(wire[p]).toR))
      <4>1. /\ Head(wire[p]) = wire[p][1] /\ 1 \in 1 .. Len(wire[p])
            /\ Head(Head(wire[p]).toR) = Head(wire[p]).toR[1] /\ 1 \in 1 .. Len(Head(wire[p]).toR)
        BY <1>1, <3>1, FirstMessage, Zenon
      <4> QED BY <1>3, <4>1, ZenonT(30) DEF WireInv, ConnectionInv
    <3>4. /\ ReceiverInv(h) /\ T \subseteq Taken(h)
          /\ FinReached(h) /\ h.fin # 0 => <<rcv.accepted, h.fin>> \in Taken(h)
      BY <1>1, <1>3, <3>1, <3>3, HandledInv, Zenon DEF Numbered, T
    <3>5. ReceiverOK(h)
      BY <1>1, <3>1, HandledOK, ZenonT(30)
    <3> HIDE DEF h
    <3>6. ReceiverInv(rcv') /\ U = Taken(h)
      BY <3>1, <3>4, <3>5, FinFireInv, Zenon DEF U
    <3>7. \A s, a : <<s, a>> \in A => Vouched(s, a, U)
      <4> SUFFICES ASSUME NEW s, NEW a, <<s, a>> \in A PROVE Vouched(s, a, U)
        BY Zenon
      <4>1. FinReached(h) /\ s = rcv.accepted /\ a = h.fin
        BY Zenon
      <4> QED BY <3>4, <3>6, <4>1, Zenon DEF Vouched
    <3> HIDE DEF A
    <3>8. WireInv(wire', U)
      BY <1>6, <3>2, <3>4, <3>6, <3>7, Zenon
    <3> QED BY <1>5, <3>1, <3>4, <3>6, <3>8, Zenon
  <2>10. CASE ReceiverTimeout(p)
    <3>1. /\ ReceiverOK(TimedOut(rcv, p)) /\ rcv' = Told(TimedOut(rcv, p)) /\ snd' = snd
          /\ Session(rcv) = Session(TimedOut(rcv, p)) /\ wire' = wire
      BY <1>1, <2>10, ReceiverWaits, Zenon DEF ReceiverTimeout
    <3>2. ReceiverInv(TimedOut(rcv, p)) /\ Taken(TimedOut(rcv, p)) = T
      BY <1>3, <3>1, SameSession, Zenon DEF T
    <3>3. ReceiverInv(rcv') /\ U = T
      BY <3>1, <3>2, ToldInv, Zenon DEF U
    <3> QED BY <1>3, <3>1, <3>3, Zenon
  <2>11. CASE ReceiverLost(p)
    <3>1. /\ WireShifted(wire, wire') /\ ReceiverOK(Lost(rcv, p, "down")) /\ snd' = snd
          /\ rcv' = Told(Lost(rcv, p, "down"))
          /\ Session(rcv) = Session(Lost(rcv, p, "down"))
      BY <1>1, <2>11, ReceiverLeaves, Zenon DEF ReceiverLost
    <3>2. ReceiverInv(Lost(rcv, p, "down")) /\ Taken(Lost(rcv, p, "down")) = T
      BY <1>3, <3>1, SameSession, Zenon DEF T
    <3>3. ReceiverInv(rcv') /\ U = T
      BY <3>1, <3>2, ToldInv, Zenon DEF U
    <3>4. WireInv(wire', T)
      BY <1>1, <1>3, <3>1, ShiftedInv, Zenon
    <3> QED BY <1>3, <3>1, <3>3, <3>4, Zenon
  <2>12. CASE ReceiverReset(p)
    <3>1. snd' = snd /\ wire' = wire
      BY <2>12, Zenon DEF ReceiverReset
    <3>2. \/ Session(rcv) = Session(rcv')
          \/ /\ ~rcv'.known /\ rcv'.fin = NoFin
             /\ rcv'.old = {} /\ rcv'.past = rcv.past \cup (rcv.old \cup Range(rcv.trace))
             /\ rcv'.dropped = rcv.dropped /\ rcv'.trace = << >>
      BY <1>1, <2>12, ReceiverResets, Zenon
    <3>3. ReceiverInv(rcv') /\ U = T
      <4>1. CASE Session(rcv) = Session(rcv')
        BY <1>3, <4>1, SameSession, Zenon DEF T, U
      <4>2. CASE /\ ~rcv'.known /\ rcv'.fin = NoFin
                 /\ rcv'.old = {} /\ rcv'.past = rcv.past \cup (rcv.old \cup Range(rcv.trace))
                 /\ rcv'.dropped = rcv.dropped /\ rcv'.trace = << >>
        <5>1. ReceiverInv(rcv')
          BY <4>2, NothingKept, Zenon
        <5>2. U = T
          BY <4>2, NothingGot, Zenon DEF T, U, Taken
        <5> QED BY <5>1, <5>2, Zenon
      <4> QED BY <3>2, <4>1, <4>2, Zenon
    <3> QED BY <1>3, <3>1, <3>3, Zenon
  <2>13. CASE AcceptFails(p)
    <3>1. WireShifted(wire, wire') /\ Session(rcv) = Session(rcv') /\ snd' = snd
      BY <1>1, <2>13, ReceiverGivesUp, Zenon DEF AcceptFails
    <3>2. ReceiverInv(rcv') /\ U = T
      BY <1>3, <3>1, SameSession, Zenon DEF T, U
    <3>3. WireInv(wire', T)
      BY <1>1, <1>3, <3>1, ShiftedInv, Zenon
    <3> QED BY <1>3, <3>1, <3>2, <3>3, Zenon
  <2> QED BY <1>9, <2>1, <2>2, <2>3, <2>4, <2>5, <2>6, <2>7, <2>8, <2>9, <2>10, <2>11, <2>12,
             <2>13, Zenon DEF PathNext
\* The sender moves on, and the receiver waits.
<1>10. CASE Submit \/ Flush \/ CloseBegin \/ CloseFin \/ CloseEnd \/ Restart
  <2>1. SenderInv(snd', T) /\ rcv' = rcv
    <3>1. SenderInv(snd', T)
      BY <1>2, <1>3, <1>10, SenderMoves, Zenon
    <3>2. rcv' = rcv
      BY <1>10, Zenon DEF Submit, Flush, CloseBegin, CloseFin, CloseEnd, Restart
    <3> QED BY <3>1, <3>2, Zenon
  <2>2. \A ret : Closed(ret) => WireInv(wire', T)
    BY <1>1, <1>7, WireCut, Zenon
  <2>3. WireInv(wire', T)
    <3>1. CASE Submit
      BY <1>3, <3>1, Zenon DEF Submit
    <3>2. CASE Flush
      <4> DEFINE d == [kind |-> "DATA", seq |-> snd.seq, elem |-> <<snd.sess, snd.sent + 1>>]
                 M == {<<snd.sess, d>>}
      <4>1. WireGrown(wire, wire', M, {})
        BY <1>1, <3>2, WireWritten, Zenon
      <4>2. snd.seq = snd.sent
        BY <1>3, <3>2, Zenon DEF Flush, SenderInv
      <4>3. Numbered(snd.sess, d)
        BY <4>2, Zenon DEF Numbered
      <4> HIDE DEF d
      <4>4. \A s, m : <<s, m>> \in M => Numbered(s, m)
        BY <4>3, Zenon
      <4> HIDE DEF M
      <4> QED BY <1>3, <4>1, <4>4, GrownInv, Zenon
    <3>3. CASE CloseFin
      <4> DEFINE d == [kind |-> "FIN", target |-> snd.seq]
                 M == {<<snd.sess, d>>}
      <4>1. WireGrown(wire, wire', M, {})
        BY <1>1, <3>3, WireWritten, Zenon
      <4>2. Numbered(snd.sess, d)
        BY Zenon DEF Numbered
      <4> HIDE DEF d
      <4>3. \A s, m : <<s, m>> \in M => Numbered(s, m)
        BY <4>2, Zenon
      <4> HIDE DEF M
      <4> QED BY <1>3, <4>1, <4>3, GrownInv, Zenon
    <3>4. CASE CloseBegin
      BY <1>3, <2>2, <3>4, Zenon DEF CloseBegin
    <3>5. CASE CloseEnd
      BY <2>2, <3>5, Zenon DEF CloseEnd
    <3>6. CASE Restart
      BY <1>1, <1>7, <3>6, WireCut, Zenon
    <3> QED BY <1>10, <3>1, <3>2, <3>3, <3>4, <3>5, <3>6, Zenon
  <2> QED BY <1>4, <2>1, <2>3, Zenon
<1> QED BY <1>8, <1>9, <1>10, Zenon DEF Next

\* The inductive invariant of delivery.
THEOREM DeliverySafe == ASSUME ShortSessions PROVE Spec => [](PathInv /\ DeliveryInv)
<1>1. Init => DeliveryInv
  BY InitDelivery, Zenon
<1>2. PathInv /\ DeliveryInv /\ [Next]_vars => DeliveryInv'
  BY DeliveryStep, Zenon
<1> QED BY <1>1, <1>2, PathsSafe, PTL DEF Spec

\* The application gets packets in the order they were sent and none twice,
\* over any number of paths and sessions (tcp_handle_packet).
THEOREM PacketsInOrder == ASSUME ShortSessions PROVE Spec => []StrictOrder
<1>1. DeliveryInv => StrictOrder
  BY ZenonT(30) DEF DeliveryInv, ReceiverInv, History, InOrder, StrictOrder
<1> QED BY <1>1, DeliverySafe, PTL

\* Between CONNECTED and DISCONNECTED no packet of a session is left out.
THEOREM NoPacketMissed == ASSUME ShortSessions PROVE Spec => []NoSilentGap
<1>1. DeliveryInv => NoSilentGap
  BY ZenonT(30) DEF DeliveryInv, ReceiverInv, History, NoGap, NoSilentGap
<1> QED BY <1>1, DeliverySafe, PTL

\* close returns OK after a FIN_ACK only if the last packet was taken.
THEOREM AckedIsTaken == ASSUME ShortSessions PROVE Spec => []AckMeansTaken
<1>1. DeliveryInv => AckMeansTaken
  BY Zenon DEF DeliveryInv, SenderInv, AckMeansTaken, Taken
<1> QED BY <1>1, DeliverySafe, PTL

=============================================================================

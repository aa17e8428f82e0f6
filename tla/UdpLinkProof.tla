----------------------------- MODULE UdpLinkProof -----------------------------
(***************************************************************************)
(* Proofs about UdpLink, for every window size and number space, any sets  *)
(* of paths, sessions and configurations, and any number of packets under  *)
(* way.                                                                    *)
(***************************************************************************)
EXTENDS UdpLink, WindowLemmas

\* The highest number a window may come to wait for.
Top == SeqSpace - WindowSize

\* No session sends so many packets that its numbers meet again, and no NACK asks
\* for a number beyond these.
ShortSessions ==
    /\ \A k \in Elements : k <= Top
    /\ \A c \in Confs : c.asks \subseteq 0 .. Top - 1

\* A receiver that has its type, and the two ends of its window agree.
ReceiverOK(r) == r \in Receivers /\ Expects(r.win, r.win.next)

\* The window holds packets of its session at their place, and the application
\* has got nothing since it was told of the loss of the last path.
Fits(r) ==
    /\ r.win.next <= Top
    /\ \A d \in 0 .. WindowSize - 1 : At(r.win, d) # NoPkt => At(r.win, d) = <<r.sess, r.win.next + d + 1>>
    /\ r.normal \subseteq r.heard
    /\ ~Alive(r) => r.trace = << >>

\* The trace t of a receiver that waits for number n of session s has no gap,
\* and will not get one.
Chain(t, known, s, n) ==
    /\ \A i \in 1 .. Len(t) - 1 : t[i][1] = t[i + 1][1] => t[i + 1][2] = t[i][2] + 1
    /\ Len(t) > 0 => known /\ (t[Len(t)][1] < s \/ t[Len(t)] = <<s, n>>)

Gapless(r) == r.frag = << >> /\ Chain(r.trace, r.known, r.sess, r.win.next)

\* First the elements of o were taken, then those of t, then those of f.
Rising(o, t, f) ==
    /\ \A i, j \in 1 .. Len(t) : i < j => Before(t[i], t[j])
    /\ \A i, j \in 1 .. Len(f) : i < j => Before(f[i], f[j])
    /\ \A i \in 1 .. Len(t), j \in 1 .. Len(f) : Before(t[i], f[j])
    /\ \A e \in o : /\ \A i \in 1 .. Len(t) : Before(e, t[i])
                    /\ \A j \in 1 .. Len(f) : Before(e, f[j])

\* A receiver that waits for number n of session s has left e behind.
Behind(e, known, s, n) == known /\ (e[1] < s \/ (e[1] = s /\ e[2] <= n))

History(o, t, f, known, s, n) ==
    /\ Rising(o, t, f)
    /\ \A e \in o : Behind(e, known, s, n)
    /\ \A i \in 1 .. Len(t) : Behind(t[i], known, s, n)
    /\ \A j \in 1 .. Len(f) : Behind(f[j], known, s, n)

Ordered(r) ==
    r.fin = NoSeq /\ History(r.old, r.trace, r.frag, r.known, r.sess, r.win.next)

\* What holds of a receiver; quiet says that no FIN has reached it.
Sound(r, quiet) ==
    /\ Fits(r)
    /\ Fragments = {} => Gapless(r)
    /\ quiet /\ ~r.conf.raw => Ordered(r)

\* r may become x.
Becomes(r, x, quiet) ==
    /\ ReceiverOK(x) /\ x.conf = r.conf
    /\ x.sess = r.sess /\ x.fin \in {r.fin, NoSeq}
    /\ ShortSessions /\ Sound(r, quiet) => Sound(x, quiet)

LEMMA BecomesTwice ==
    ASSUME NEW r, NEW x, NEW y, NEW quiet, Becomes(r, x, quiet), Becomes(x, y, quiet)
    PROVE  Becomes(r, y, quiet)
  BY Zenon DEF Becomes

-----------------------------------------------------------------------------
\* The fields that have to do with packets, not with paths.
Flow(r) == <<r.known, r.sess, r.win, r.fin, r.frag, r.trace, r.old, r.dropped>>

\* x differs from r in its health, its ports and its NACKs only, and lost no
\* path.
Aside(r, x) ==
    /\ ReceiverOK(x) /\ Flow(x) = Flow(r) /\ x.conf = r.conf
    /\ r.normal \subseteq x.normal
    /\ r.normal \subseteq r.heard => x.normal \subseteq x.heard

LEMMA AsideBecomes ==
    ASSUME NEW r, NEW x, NEW quiet, Aside(r, x)
    PROVE  Becomes(r, x, quiet)
<1>1. /\ x.known = r.known /\ x.sess = r.sess /\ x.win = r.win /\ x.fin = r.fin /\ x.frag = r.frag
      /\ x.trace = r.trace /\ x.old = r.old /\ ReceiverOK(x) /\ x.conf = r.conf
  BY Zenon DEF Aside, Flow
<1>2. ~Alive(x) => ~Alive(r)
  BY Zenon DEF Aside, Alive
<1>3. Fits(r) => Fits(x)
  BY <1>1, <1>2, Zenon DEF Fits, Aside
<1>4. (Gapless(r) => Gapless(x)) /\ (Ordered(r) => Ordered(x))
  BY <1>1, Zenon DEF Gapless, Ordered
<1> QED BY <1>1, <1>3, <1>4, Zenon DEF Becomes, Sound

LEMMA AsideTwice ==
    ASSUME NEW r, NEW x, NEW y, Aside(r, x), Aside(x, y)
    PROVE  Aside(r, y)
  BY Zenon DEF Aside

LEMMA Fields ==
    ASSUME NEW r \in Receivers
    PROVE  /\ r.conf \in Confs /\ r.known \in BOOLEAN /\ r.sess \in Sessions \cup {0}
           /\ r.win \in Windows /\ r.reorder \in Seqs \cup {NoSeq} /\ r.fin \in Seqs \cup {NoSeq}
           /\ r.normal \subseteq Paths /\ r.heard \subseteq Paths /\ r.stamped \in BOOLEAN
           /\ r.ports \subseteq Paths /\ r.frag \in Seq(Packets) /\ r.nacks \subseteq Seqs
           /\ r.trace \in Seq(Packets) /\ r.old \subseteq Packets /\ r.dropped \subseteq Packets
           /\ r.win.next \in Seqs
  BY Zenon DEF Receivers, Windows

\* Numbers are integers.
LEMMA Sizing ==
    /\ WindowSize \in Nat /\ WindowSize >= 2 /\ SeqSpace \in Nat /\ 2 * WindowSize <= SeqSpace
    /\ 0 \in Seqs /\ Seqs \subseteq Nat /\ NoSeq \notin Seqs
    /\ \A q \in Seqs : q \in Int /\ SeqAdd(q, 1) \in Seqs
<1>1. /\ WindowSize \in Nat /\ WindowSize >= 2 /\ SeqSpace \in Nat /\ 2 * WindowSize <= SeqSpace
  BY WindowAssumption, Zenon
<1>2. 0 \in Seqs /\ Seqs \subseteq Nat /\ NoSeq \notin Seqs
  BY <1>1 DEF Seqs, NoSeq
<1>3. ASSUME NEW q \in Seqs PROVE q \in Int /\ SeqAdd(q, 1) \in Seqs
  <2>1. q \in Int /\ q + 1 \in Int /\ SeqSpace \in Nat \ {0}
    BY <1>1 DEF Seqs
  <2> QED BY <2>1, DivMod, Zenon DEF SeqAdd, Seqs
<1> QED BY <1>1, <1>2, <1>3, Zenon

LEMMA SeqAddTyped ==
    ASSUME NEW q \in Seqs, NEW d \in Int
    PROVE  SeqAdd(q, d) \in Seqs
<1>1. q + d \in Int /\ SeqSpace \in Nat \ {0}
  BY Sizing DEF Seqs
<1> QED BY <1>1, DivMod, Zenon DEF SeqAdd, Seqs

-----------------------------------------------------------------------------
\* Health, ports, waits and NACKs

LEMMA Reordered ==
    ASSUME NEW r, ReceiverOK(r), NEW q \in Seqs \cup {NoSeq}
    PROVE  Aside(r, [r EXCEPT !.reorder = q])
<1>1. r \in Receivers /\ Expects(r.win, r.win.next)
  BY Zenon DEF ReceiverOK
<1> DEFINE x == [r EXCEPT !.reorder = q]
<1>2. /\ x \in Receivers /\ Flow(x) = Flow(r) /\ x.conf = r.conf /\ x.normal = r.normal
      /\ x.heard = r.heard /\ x.win = r.win
  BY <1>1, Zenon DEF Receivers, Flow
<1> HIDE DEF x
<1>3. Aside(r, x)
  BY <1>1, <1>2, Zenon DEF Aside, ReceiverOK
<1> QED BY <1>3, Zenon DEF x

LEMMA Asked ==
    ASSUME NEW r, ReceiverOK(r), NEW S \in SUBSET Seqs
    PROVE  /\ Aside(r, [r EXCEPT !.nacks = @ \cup S])
           /\ Aside(r, [r EXCEPT !.nacks = {}])
           /\ Aside(r, SendNacks(r, S))
           /\ Aside(r, r)
<1>1. r \in Receivers /\ Expects(r.win, r.win.next) /\ r.nacks \cup S \in SUBSET Seqs
      /\ {} \in SUBSET Seqs
  BY Fields, Zenon DEF ReceiverOK
<1>2. ASSUME NEW T \in SUBSET Seqs PROVE Aside(r, [r EXCEPT !.nacks = T])
  <2> DEFINE x == [r EXCEPT !.nacks = T]
  <2>1. /\ x \in Receivers /\ Flow(x) = Flow(r) /\ x.conf = r.conf /\ x.normal = r.normal
        /\ x.heard = r.heard /\ x.win = r.win
    BY <1>1, Zenon DEF Receivers, Flow
  <2> HIDE DEF x
  <2>2. Aside(r, x)
    BY <1>1, <2>1, Zenon DEF Aside, ReceiverOK
  <2> QED BY <2>2, Zenon DEF x
<1>3. Aside(r, r)
  BY Zenon DEF Aside
<1>4. Aside(r, [r EXCEPT !.nacks = @ \cup S]) /\ Aside(r, [r EXCEPT !.nacks = {}])
  BY <1>1, <1>2, Zenon
<1> QED BY <1>3, <1>4, Zenon DEF SendNacks

LEMMA Learned ==
    ASSUME NEW r, ReceiverOK(r), NEW p \in Paths
    PROVE  /\ Aside(r, LearnPath(r, p))
           /\ Aside(r, UpdateHealth(r, p)) /\ Alive(UpdateHealth(r, p))
<1>1. /\ r \in Receivers /\ Expects(r.win, r.win.next) /\ r.ports \cup {p} \in SUBSET Paths
      /\ r.normal \cup {p} \in SUBSET Paths /\ r.heard \cup {p} \in SUBSET Paths
  BY Fields, Zenon DEF ReceiverOK
<1> DEFINE x == LearnPath(r, p)
           y == UpdateHealth(r, p)
<1>2. /\ x \in Receivers /\ Flow(x) = Flow(r) /\ x.conf = r.conf /\ x.normal = r.normal
      /\ x.heard = r.heard /\ x.win = r.win
  BY <1>1, Zenon DEF Receivers, Flow, LearnPath
<1>3. /\ y \in Receivers /\ Flow(y) = Flow(r) /\ y.conf = r.conf
      /\ y.normal = r.normal \cup {p} /\ y.heard = r.heard \cup {p} /\ y.win = r.win
  BY <1>1, Zenon DEF Receivers, Flow, UpdateHealth
<1> HIDE DEF x, y
<1>4. Aside(r, x)
  BY <1>1, <1>2, Zenon DEF Aside, ReceiverOK
<1>5. Aside(r, y) /\ Alive(y)
  <2>1. r.normal \subseteq y.normal /\ y.normal # {}
    BY <1>3, Zenon
  <2>2. r.normal \subseteq r.heard => y.normal \subseteq y.heard
    BY <1>3, Zenon
  <2> QED BY <1>1, <1>3, <2>1, <2>2, Zenon DEF Aside, ReceiverOK, Alive
<1> QED BY <1>4, <1>5, Zenon DEF x, y

\* reorder_gap_ready
LEMMA Waited ==
    ASSUME NEW r, ReceiverOK(r), NEW q \in Seqs, NEW late
    PROVE  Aside(r, GapWait(r, q, late))
<1>1. Aside(r, r)
  BY Asked, Zenon
<1>2. Aside(r, [r EXCEPT !.reorder = NoSeq]) /\ Aside(r, [r EXCEPT !.reorder = q])
  BY Reordered, Zenon
<1> QED BY <1>1, <1>2, Zenon DEF GapWait

\* The receiver as seen from GapAfterDrain and Scan, which only ask.
LEMMA GapAsked ==
    ASSUME NEW r, ReceiverOK(r), NEW late
    PROVE  Aside(r, GapAfterDrain(r, late))
<1> DEFINE n == r.win.next
           w == GapWait(r, n, late)
<1>1. n \in Seqs
  BY Fields, Zenon DEF ReceiverOK
<1>2. Aside(r, w) /\ Aside(r, r) /\ Aside(r, [r EXCEPT !.reorder = NoSeq])
  BY <1>1, Waited, Asked, Reordered, Zenon
<1>3. Aside(r, SendNacks(w, {n}))
  <2>1. ReceiverOK(w) /\ {n} \in SUBSET Seqs
    BY <1>1, <1>2, Zenon DEF Aside
  <2>2. Aside(w, SendNacks(w, {n}))
    BY <2>1, Asked, Zenon
  <2> QED BY <1>2, <2>2, AsideTwice, Zenon
<1>4. GapAfterDrain(r, late) \in {w, r, [r EXCEPT !.reorder = NoSeq], SendNacks(w, {n})}
  BY Zenon DEF GapAfterDrain
<1> HIDE DEF w, n
<1> QED BY <1>2, <1>3, <1>4, Zenon

LEMMA LeastOf ==
    ASSUME NEW T \in SUBSET (0 .. WindowSize - 1), T # {}
    PROVE  Least(T) \in T
<1>1. T \in SUBSET (0 .. WindowSize)
  BY Sizing
<1>2. \E m \in T : \A k \in T : m <= k
  BY <1>1, WindowAssumption, Zenon DEF HasLeast
<1> QED BY <1>2, Zenon DEF Least

LEMMA Scanned ==
    ASSUME NEW r, ReceiverOK(r), NEW m, NEW late
    PROVE  Aside(r, Scan(r, m, late))
<1> DEFINE dist == SeqSub(m.seq, r.win.next)
           missing == {d \in 0 .. WindowSize - 1 :
                           d < dist /\ Slot(r.win, SeqAdd(r.win.next, d)) = NoPkt}
           seqs == {SeqAdd(r.win.next, d) : d \in missing}
           first == SeqAdd(r.win.next, Least(missing))
           rest == missing \ {Least(missing)}
           done(x) == IF dist <= WindowSize THEN [x EXCEPT !.reorder = NoSeq] ELSE x
           w == GapWait(r, first, late)
           asked == SendNacks(w, {first})
<1>1. r.win.next \in Seqs /\ Aside(r, r)
  BY Fields, Asked, Zenon DEF ReceiverOK
<1>2. ASSUME NEW x, Aside(r, x) PROVE Aside(r, done(x))
  <2>1. ReceiverOK(x) /\ NoSeq \in Seqs \cup {NoSeq}
    BY <1>2, Zenon DEF Aside
  <2>2. Aside(x, [x EXCEPT !.reorder = NoSeq])
    BY <2>1, Reordered, Zenon
  <2> QED BY <1>2, <2>2, AsideTwice, Zenon
<1>3. missing \in SUBSET (0 .. WindowSize - 1) /\ rest \in SUBSET (0 .. WindowSize - 1)
  BY Zenon
<1> HIDE DEF missing, rest
<1>4. ASSUME NEW d \in 0 .. WindowSize - 1 PROVE SeqAdd(r.win.next, d) \in Seqs
  <2>1. d \in Int
    OBVIOUS
  <2> QED BY <1>1, <2>1, SeqAddTyped, Zenon
<1>5. seqs \in SUBSET Seqs
  BY <1>3, <1>4, Zenon
<1>6. Aside(r, SendNacks(r, seqs))
  BY <1>5, Asked, Zenon
<1>7. ASSUME missing # {} PROVE first \in Seqs /\ Aside(r, w) /\ Aside(r, asked)
  <2>1. first \in Seqs
    BY <1>3, <1>4, <1>7, LeastOf, Zenon
  <2>2. Aside(r, w)
    BY <2>1, Waited, Zenon
  <2>3. ReceiverOK(w) /\ {first} \in SUBSET Seqs
    BY <2>1, <2>2, Zenon DEF Aside
  <2>4. Aside(w, asked)
    BY <2>3, Asked, Zenon
  <2> QED BY <2>1, <2>2, <2>4, AsideTwice, Zenon
<1>8. ASSUME missing # {}, rest # {}
      PROVE  Aside(r, [asked EXCEPT !.reorder = SeqAdd(r.win.next, Least(rest))])
  <2>1. SeqAdd(r.win.next, Least(rest)) \in Seqs \cup {NoSeq}
    BY <1>3, <1>4, <1>8, LeastOf, Zenon
  <2>2. Aside(r, asked) /\ ReceiverOK(asked)
    BY <1>7, <1>8, Zenon DEF Aside
  <2> HIDE DEF asked
  <2>3. Aside(asked, [asked EXCEPT !.reorder = SeqAdd(r.win.next, Least(rest))])
    BY <2>1, <2>2, Reordered, Zenon
  <2> QED BY <2>2, <2>3, AsideTwice, Zenon
<1>9. Scan(r, m, late) =
        CASE missing = {} -> done(r)
          [] missing # {} /\ ~r.conf.wait -> done(SendNacks(r, seqs))
          [] missing # {} /\ r.conf.wait ->
                IF ~GapReady(r, first, late) THEN w
                ELSE IF rest = {} THEN done(asked)
                     ELSE [asked EXCEPT !.reorder = SeqAdd(r.win.next, Least(rest))]
  BY Zenon DEF Scan, missing, rest
<1> HIDE DEF done, w, asked, seqs, first
<1>10. CASE missing = {}
  BY <1>1, <1>2, <1>9, <1>10, Zenon
<1>11. CASE missing # {} /\ ~r.conf.wait
  <2>1. Scan(r, m, late) = done(SendNacks(r, seqs))
    BY <1>9, <1>11, Zenon
  <2> QED BY <1>2, <1>6, <2>1, Zenon
<1>12. CASE missing # {} /\ r.conf.wait
  <2>1. Scan(r, m, late) = IF ~GapReady(r, first, late) THEN w
                           ELSE IF rest = {} THEN done(asked)
                           ELSE [asked EXCEPT !.reorder = SeqAdd(r.win.next, Least(rest))]
    BY <1>9, <1>12, Zenon
  <2> QED BY <1>2, <1>7, <1>8, <1>12, <2>1, Zenon
<1> QED BY <1>10, <1>11, <1>12, Zenon

-----------------------------------------------------------------------------
\* What the application has got

LEMMA PacketParts ==
    ASSUME NEW e \in Packets
    PROVE  /\ e[1] \in Sessions /\ e[2] \in Elements /\ e = <<e[1], e[2]>>
           /\ e[1] \in Nat /\ e[2] \in Nat /\ e # NoPkt
<1>1. e \in Sessions \X Elements /\ Sessions \subseteq Nat /\ Elements \subseteq Nat /\ e # NoPkt
  BY ReceiverAssumption, WindowAssumption, Zenon
<1>2. e[1] \in Sessions /\ e[2] \in Elements /\ e = <<e[1], e[2]>>
  BY <1>1
<1> QED BY <1>1, <1>2, Zenon

\* Append and concatenation, position by position.
LEMMA Joined ==
    ASSUME NEW t \in Seq(Packets), NEW f \in Seq(Packets), NEW e \in Packets
    PROVE  /\ Len(t) \in Nat /\ \A i \in 1 .. Len(t) : t[i] \in Packets
           /\ Append(f, e) \in Seq(Packets) /\ Len(Append(f, e)) = Len(f) + 1
           /\ \A i \in 1 .. Len(f) : Append(f, e)[i] = f[i]
           /\ Append(f, e)[Len(f) + 1] = e
           /\ t \o f \in Seq(Packets) /\ Len(t \o f) = Len(t) + Len(f)
           /\ \A i \in 1 .. Len(t) : (t \o f)[i] = t[i]
           /\ \A i \in 1 .. Len(f) : (t \o f)[Len(t) + i] = f[i]
           /\ << >> \in Seq(Packets) /\ Len(<< >>) = 0 /\ Len(f) \in Nat
<1>1. Len(t) \in Nat /\ Len(f) \in Nat /\ \A i \in 1 .. Len(t) : t[i] \in Packets
  OBVIOUS
<1>2. Append(f, e) \in Seq(Packets) /\ Len(Append(f, e)) = Len(f) + 1
  OBVIOUS
<1>3. Append(f, e)[Len(f) + 1] = e /\ \A i \in 1 .. Len(f) : Append(f, e)[i] = f[i]
  BY <1>1
<1>4. t \o f \in Seq(Packets) /\ Len(t \o f) = Len(t) + Len(f)
  OBVIOUS
<1>5. \A i \in 1 .. Len(t) : (t \o f)[i] = t[i]
  BY <1>1
<1>6. \A i \in 1 .. Len(f) : (t \o f)[Len(t) + i] = f[i]
  BY <1>1
<1>7. << >> \in Seq(Packets) /\ Len(<< >>) = 0
  OBVIOUS
<1> QED BY <1>1, <1>2, <1>3, <1>4, <1>5, <1>6, <1>7, Zenon

\* The next element is handed over.
LEMMA ChainOn ==
    ASSUME NEW t \in Seq(Packets), NEW s \in Nat, NEW n \in Nat, NEW e \in Packets,
           e = <<s, n + 1>>, Chain(t, TRUE, s, n)
    PROVE  Chain(Append(t, e), TRUE, s, n + 1)
<1> DEFINE u == Append(t, e)
           k == Len(t)
<1>1. /\ k \in Nat /\ Len(u) = k + 1 /\ u[k + 1] = e /\ \A i \in 1 .. k : u[i] = t[i]
  BY Joined
<1>2. e[1] = s /\ e[2] = n + 1
  BY Zenon
<1> HIDE DEF u, k
<1>3. ASSUME NEW i \in 1 .. Len(u) - 1, u[i][1] = u[i + 1][1]
      PROVE  u[i + 1][2] = u[i][2] + 1
  <2>1. CASE i = k
    <3>1. u[i] = t[k] /\ u[i + 1] = e /\ k > 0
      BY <1>1, <2>1
    <3>2. t[k][1] < s \/ t[k] = <<s, n>>
      BY <3>1, Zenon DEF Chain, k
    <3>3. t[k][1] = s
      BY <1>2, <1>3, <3>1, Zenon
    <3>4. t[k] = <<s, n>>
      BY <3>2, <3>3
    <3>5. t[k][2] = n
      BY <3>4
    <3> QED BY <1>2, <3>1, <3>5, Zenon
  <2>2. CASE i # k
    <3>1. i \in 1 .. k - 1 /\ i \in 1 .. k /\ i + 1 \in 1 .. k
      BY <1>1, <2>2
    <3>2. u[i] = t[i] /\ u[i + 1] = t[i + 1]
      BY <1>1, <3>1, Zenon
    <3>3. t[i][1] = t[i + 1][1] => t[i + 1][2] = t[i][2] + 1
      BY <3>1, Zenon DEF Chain, k
    <3> QED BY <1>3, <3>2, <3>3, Zenon
  <2> QED BY <2>1, <2>2, Zenon
<1>4. u[Len(u)] = <<s, n + 1>>
  BY <1>1, Zenon
<1>5. Chain(u, TRUE, s, n + 1)
  BY <1>3, <1>4, Zenon DEF Chain
<1> QED BY <1>5, Zenon DEF u

\* A later session begins, or the first one.
LEMMA ChainNew ==
    ASSUME NEW t \in Seq(Packets), NEW known, NEW s \in Nat, NEW n, Chain(t, known, s, n)
    PROVE  \A s2 \in Nat : \A n2 : (known => s < s2) => Chain(t, TRUE, s2, n2)
<1> SUFFICES ASSUME NEW s2 \in Nat, NEW n2, known => s < s2
             PROVE  Chain(t, TRUE, s2, n2)
  BY Zenon
<1>1. ASSUME Len(t) > 0 PROVE t[Len(t)][1] < s2
  <2>1. known /\ (t[Len(t)][1] < s \/ t[Len(t)] = <<s, n>>) /\ s < s2
    BY <1>1, Zenon DEF Chain
  <2>2. t[Len(t)] \in Packets
    BY <1>1
  <2>3. t[Len(t)][1] \in Nat
    BY <2>2, PacketParts, Zenon
  <2>4. t[Len(t)][1] <= s
    <3>1. CASE t[Len(t)] = <<s, n>>
      <4>1. t[Len(t)][1] = s
        BY <3>1
      <4> QED BY <4>1
    <3>2. CASE t[Len(t)][1] < s
      BY <2>3, <3>2
    <3> QED BY <2>1, <3>1, <3>2, Zenon
  <2> QED BY <2>1, <2>3, <2>4
<1> QED BY <1>1, Zenon DEF Chain

\* What is behind is before the next element, and stays behind.
LEMMA BehindNext ==
    ASSUME NEW x \in Packets, NEW known, NEW s \in Nat, NEW n \in Nat, Behind(x, known, s, n)
    PROVE  /\ Before(x, <<s, n + 1>>)
           /\ Behind(x, known, s, n + 1)
           /\ \A s2 \in Nat : \A n2 : s < s2 => Behind(x, TRUE, s2, n2)
<1>1. x[1] \in Nat /\ x[2] \in Nat /\ (x[1] < s \/ (x[1] = s /\ x[2] <= n)) /\ known
  BY PacketParts, Zenon DEF Behind
<1>2. Before(x, <<s, n + 1>>)
  BY <1>1 DEF Before
<1>3. x[1] < s \/ (x[1] = s /\ x[2] <= n + 1)
  BY <1>1
<1>4. \A s2 \in Nat : s < s2 => x[1] < s2
  BY <1>1
<1> QED BY <1>1, <1>2, <1>3, <1>4, Zenon DEF Behind

\* The next element is taken out of the window.
LEMMA HistoryAppend ==
    ASSUME NEW o \in SUBSET Packets, NEW t \in Seq(Packets), NEW f \in Seq(Packets),
           NEW s \in Nat, NEW n \in Nat, NEW e \in Packets, e = <<s, n + 1>>,
           History(o, t, f, TRUE, s, n)
    PROVE  History(o, t, Append(f, e), TRUE, s, n + 1)
<1> DEFINE g == Append(f, e)
           k == Len(f)
<1>1. /\ k \in Nat /\ Len(g) = k + 1 /\ g[k + 1] = e /\ \A i \in 1 .. k : g[i] = f[i]
      /\ \A i \in 1 .. Len(t) : t[i] \in Packets
      /\ \A i \in 1 .. k : f[i] \in Packets
  BY Joined
<1>2. Behind(e, TRUE, s, n + 1)
  BY DEF Behind
<1> HIDE DEF g, k
<1>3. ASSUME NEW i \in 1 .. k + 1 PROVE i \in 1 .. k \/ i = k + 1
  BY <1>1
<1>4. \A x \in o : Before(x, e) /\ Behind(x, TRUE, s, n + 1)
  BY BehindNext, Zenon DEF History
<1>5. \A i \in 1 .. Len(t) : Before(t[i], e) /\ Behind(t[i], TRUE, s, n + 1)
  BY <1>1, BehindNext, Zenon DEF History
<1>6. \A i \in 1 .. k : Before(f[i], e) /\ Behind(f[i], TRUE, s, n + 1)
  BY <1>1, BehindNext, Zenon DEF History, k
<1>7. \A i \in 1 .. k + 1 : Behind(g[i], TRUE, s, n + 1)
  BY <1>1, <1>2, <1>3, <1>6, Zenon
<1>8. ASSUME NEW i \in 1 .. k + 1, NEW j \in 1 .. k + 1, i < j PROVE Before(g[i], g[j])
  <2>1. i \in 1 .. k
    BY <1>1, <1>8
  <2>2. CASE j \in 1 .. k
    BY <1>1, <1>8, <2>1, <2>2, Zenon DEF History, Rising, k
  <2>3. CASE j = k + 1
    BY <1>1, <1>6, <2>1, <2>3, Zenon
  <2> QED BY <1>3, <2>2, <2>3, Zenon
<1>9. ASSUME NEW j \in 1 .. k + 1
      PROVE  /\ \A i \in 1 .. Len(t) : Before(t[i], g[j])
             /\ \A x \in o : Before(x, g[j])
  <2>1. CASE j \in 1 .. k
    <3>1. \A i \in 1 .. Len(t) : Before(t[i], f[j])
      BY <2>1, Zenon DEF History, Rising, k
    <3>2. \A x \in o : Before(x, f[j])
      BY <2>1, Zenon DEF History, Rising, k
    <3>3. g[j] = f[j]
      BY <1>1, <2>1, Zenon
    <3> QED BY <3>1, <3>2, <3>3, Zenon
  <2>2. CASE j = k + 1
    BY <1>1, <1>4, <1>5, <2>2, Zenon
  <2> QED BY <1>3, <2>1, <2>2, Zenon
<1>10. Rising(o, t, g)
  BY <1>1, <1>8, <1>9, Zenon DEF History, Rising
<1>11. History(o, t, g, TRUE, s, n + 1)
  BY <1>1, <1>4, <1>5, <1>7, <1>10, Zenon DEF History
<1> QED BY <1>11, Zenon DEF g

\* The fragments are joined to a message and handed over, or thrown away, or
\* what was handed over becomes the past.
LEMMA HistoryMoved ==
    ASSUME NEW o \in SUBSET Packets, NEW t \in Seq(Packets), NEW f \in Seq(Packets),
           NEW known, NEW s, NEW n, History(o, t, f, known, s, n)
    PROVE  /\ History(o, t \o f, << >>, known, s, n)
           /\ History(o, t, << >>, known, s, n)
           /\ History(o \cup Range(t), << >>, f, known, s, n)
<1> DEFINE u == t \o f
           a == Len(t)
           b == Len(f)
<1>1. /\ a \in Nat /\ b \in Nat /\ Len(u) = a + b /\ \A i \in 1 .. a : u[i] = t[i]
      /\ \A i \in 1 .. b : u[a + i] = f[i]
      /\ DOMAIN t = 1 .. a
  BY Joined
<1>2. Len(<< >>) = 0 /\ 1 .. 0 = {}
  OBVIOUS
<1> HIDE DEF u
<1>3. ASSUME NEW i \in 1 .. a + b
      PROVE  (i \in 1 .. a /\ u[i] = t[i]) \/ (i - a \in 1 .. b /\ u[i] = f[i - a])
  <2>1. CASE i <= a
    BY <1>1, <2>1
  <2>2. CASE i > a
    <3>1. i - a \in 1 .. b /\ a + (i - a) = i
      BY <1>1, <2>2
    <3> QED BY <1>1, <3>1, Zenon
  <2> QED BY <1>1, <2>1, <2>2
<1>4. ASSUME NEW i \in 1 .. a + b, NEW j \in 1 .. a + b, i < j PROVE Before(u[i], u[j])
  <2>1. CASE i \in 1 .. a /\ j \in 1 .. a
    BY <1>1, <1>4, <2>1, Zenon DEF History, Rising
  <2>2. CASE i \in 1 .. a /\ j - a \in 1 .. b /\ u[j] = f[j - a]
    BY <1>1, <2>2, Zenon DEF History, Rising
  <2>3. CASE i - a \in 1 .. b /\ u[i] = f[i - a] /\ j - a \in 1 .. b /\ u[j] = f[j - a]
    <3>1. i - a < j - a
      BY <1>1, <1>4
    <3> QED BY <2>3, <3>1, Zenon DEF History, Rising
  <2>4. ~(i - a \in 1 .. b /\ j \in 1 .. a)
    BY <1>1, <1>4
  <2> QED BY <1>3, <2>1, <2>2, <2>3, <2>4, Zenon
<1>5. ASSUME NEW x \in o, NEW i \in 1 .. a + b PROVE Before(x, u[i])
  <2>1. /\ \A j \in 1 .. a : Before(x, t[j])
        /\ \A j \in 1 .. b : Before(x, f[j])
    BY Zenon DEF History, Rising
  <2> HIDE DEF a, b
  <2> QED BY <1>3, <2>1, Zenon
<1>6. ASSUME NEW i \in 1 .. a + b PROVE Behind(u[i], known, s, n)
  BY <1>3, Zenon DEF History
<1>7. History(o, u, << >>, known, s, n)
  BY <1>1, <1>2, <1>4, <1>5, <1>6, Zenon DEF History, Rising
<1>8. History(o, t, << >>, known, s, n)
  BY <1>2, Zenon DEF History, Rising
<1>9. History(o \cup Range(t), << >>, f, known, s, n)
  <2>1. \A e \in Range(t) : \E i \in 1 .. a : e = t[i]
    BY <1>1, Zenon DEF Range
  <2> QED BY <1>2, <2>1 DEF History, Rising
<1> QED BY <1>7, <1>8, <1>9, Zenon DEF u

\* A later session begins, or the first one; or a number is skipped.
LEMMA HistoryNew ==
    ASSUME NEW o \in SUBSET Packets, NEW t \in Seq(Packets), NEW f \in Seq(Packets),
           NEW known, NEW s \in Nat, NEW n \in Nat, History(o, t, f, known, s, n)
    PROVE  /\ \A s2 \in Nat : \A n2 : (known => s < s2) => History(o, t, f, TRUE, s2, n2)
           /\ History(o, t, f, known, s, n + 1)
<1>1. /\ \A i \in 1 .. Len(t) : t[i] \in Packets
      /\ \A i \in 1 .. Len(f) : f[i] \in Packets
  BY Joined
<1>2. ASSUME NEW x \in Packets, Behind(x, known, s, n)
      PROVE  /\ Behind(x, known, s, n + 1)
             /\ \A s2 \in Nat : \A n2 : (known => s < s2) => Behind(x, TRUE, s2, n2)
  <2>1. known
    BY <1>2, Zenon DEF Behind
  <2> QED BY <1>2, <2>1, BehindNext, Zenon
<1>3. History(o, t, f, known, s, n + 1)
  BY <1>1, <1>2, Zenon DEF History
<1>4. ASSUME NEW s2 \in Nat, NEW n2, known => s < s2 PROVE History(o, t, f, TRUE, s2, n2)
  BY <1>1, <1>2, <1>4, Zenon DEF History
<1> QED BY <1>3, <1>4, Zenon

-----------------------------------------------------------------------------
\* Disconnections and new sessions

\* What is left of a receiver when the application is told of the loss.
LEMMA Cut ==
    ASSUME NEW r, ReceiverOK(r)
    PROVE  LET x == Disconnect(r)
           IN  /\ ReceiverOK(x) /\ x.conf = r.conf /\ x.known = r.known /\ x.sess = r.sess
               /\ x.win = r.win /\ x.fin = r.fin /\ x.frag = r.frag /\ x.dropped = r.dropped
               /\ x.heard = r.heard /\ x.normal = {} /\ x.trace = << >>
               /\ x.old = r.old \cup Range(r.trace)
<1> DEFINE x == Disconnect(r)
<1>1. r \in Receivers /\ Expects(r.win, r.win.next) /\ r.trace \in Seq(Packets) /\ r.old \subseteq Packets
  BY Fields, Zenon DEF ReceiverOK
<1>2. Range(r.trace) \subseteq Packets
  BY <1>1 DEF Range
<1>3. /\ r.old \cup Range(r.trace) \in SUBSET Packets /\ {} \in SUBSET Paths
      /\ << >> \in Seq(Packets)
  BY <1>1, <1>2
<1>4. /\ x \in Receivers /\ x.conf = r.conf /\ x.known = r.known /\ x.sess = r.sess
      /\ x.win = r.win /\ x.fin = r.fin /\ x.frag = r.frag /\ x.dropped = r.dropped
      /\ x.heard = r.heard /\ x.normal = {} /\ x.trace = << >>
      /\ x.old = r.old \cup Range(r.trace)
  BY <1>1, <1>3, Zenon DEF Receivers, Disconnect
<1> HIDE DEF x
<1>5. ReceiverOK(x)
  BY <1>1, <1>4, Zenon DEF ReceiverOK
<1> QED BY <1>4, <1>5, Zenon DEF x

LEMMA CutBecomes ==
    ASSUME NEW r, NEW quiet, ReceiverOK(r)
    PROVE  Becomes(r, Disconnect(r), quiet)
<1> DEFINE x == Disconnect(r)
<1>1. /\ ReceiverOK(x) /\ x.conf = r.conf /\ x.known = r.known /\ x.sess = r.sess
      /\ x.win = r.win /\ x.fin = r.fin /\ x.frag = r.frag
      /\ x.heard = r.heard /\ x.normal = {} /\ x.trace = << >>
      /\ x.old = r.old \cup Range(r.trace)
  BY Cut, Zenon
<1> HIDE DEF x
<1>2. /\ r.old \in SUBSET Packets /\ r.trace \in Seq(Packets) /\ r.frag \in Seq(Packets)
  BY Fields, Zenon DEF ReceiverOK
<1>3. Fits(r) => Fits(x)
  BY <1>1, Zenon DEF Fits
<1>4. Gapless(r) => Gapless(x)
  <2>1. Len(<< >>) = 0
    BY Zenon
  <2> QED BY <1>1, <2>1 DEF Gapless, Chain
<1>5. ASSUME Ordered(r) PROVE Ordered(x)
  <2>1. r.fin = NoSeq /\ History(r.old, r.trace, r.frag, r.known, r.sess, r.win.next)
    BY <1>5, Zenon DEF Ordered
  <2>2. History(r.old \cup Range(r.trace), << >>, r.frag, r.known, r.sess, r.win.next)
    BY <1>2, <2>1, HistoryMoved, Zenon
  <2> QED BY <1>1, <2>1, <2>2, Zenon DEF Ordered
<1>6. Becomes(r, x, quiet)
  BY <1>1, <1>3, <1>4, <1>5, Zenon DEF Becomes, Sound
<1> QED BY <1>6, Zenon DEF x

\* A receiver that starts anew, after FIN or in a RAW service.
LEMMA Anew ==
    ASSUME NEW x, NEW quiet, ReceiverOK(x), x.normal = {}, x.trace = << >>,
           Fragments = {} => x.frag = << >>, NEW q \in Seqs, x.win = EmptyWindow(q),
           ~quiet \/ x.conf.raw
    PROVE  q <= Top => Sound(x, quiet)
<1>1. q \in Int /\ SeqNum(q) = q
  BY SeqNumItself, Zenon
<1>2. Expects(x.win, q) /\ \A d \in 0 .. WindowSize - 1 : At(x.win, d) = NoPkt
  BY <1>1, Emptied, Zenon
<1>3. x.win.next = q
  BY <1>1, <1>2, Zenon DEF Expects
<1>4. q <= Top => Fits(x)
  BY <1>2, <1>3, Zenon DEF Fits
<1>5. Fragments = {} => Gapless(x)
  <2>1. Len(<< >>) = 0
    BY Zenon
  <2> QED BY <2>1 DEF Gapless, Chain
<1> QED BY <1>4, <1>5, Zenon DEF Sound

\* thread_recv_session_adopt
LEMMA Adopted ==
    ASSUME NEW r, NEW quiet, ReceiverOK(r), NEW m, m.sess \in Sessions, m.seq \in Seqs, ~Outdated(r, m)
    PROVE  LET x == Adopt(r, m)
           IN  /\ ReceiverOK(x) /\ x.conf = r.conf /\ x.known /\ x.sess = m.sess
               /\ x = r \/ (x.fin = NoSeq /\ ~(r.known /\ m.sess = r.sess))
               /\ ShortSessions /\ m.seq <= Top /\ Sound(r, quiet) => Sound(x, quiet)
<1> DEFINE x == Adopt(r, m)
<1>1. /\ r \in Receivers /\ r.old \in SUBSET Packets /\ r.trace \in Seq(Packets)
      /\ r.frag \in Seq(Packets) /\ r.known \in BOOLEAN
      /\ r.sess \in Sessions \cup {0} /\ r.win.next \in Seqs
  BY Fields, Zenon DEF ReceiverOK
<1>2. r.sess \in Nat /\ m.sess \in Nat /\ r.win.next \in Nat
  BY <1>1, ReceiverAssumption, Sizing, Zenon
<1>3. CASE r.known /\ m.sess = r.sess
  BY <1>3, Zenon DEF Adopt
<1>4. CASE ~(r.known /\ m.sess = r.sess)
  <2>1. m.seq \in Int /\ SeqNum(m.seq) = m.seq
    BY SeqNumItself, Zenon
  <2>2. Expects(EmptyWindow(m.seq), m.seq) /\ \A d \in 0 .. WindowSize - 1 : At(EmptyWindow(m.seq), d) = NoPkt
    BY <2>1, Emptied, Zenon
  <2>3. EmptyWindow(m.seq) \in Windows /\ EmptyWindow(m.seq).next = m.seq
    BY <2>1, <2>2, Zenon DEF Expects
  <2>4. m.sess \in Sessions \cup {0} /\ NoSeq \in Seqs \cup {NoSeq} /\ TRUE \in BOOLEAN
    BY Zenon
  <2>5. x = [r EXCEPT !.known = TRUE, !.sess = m.sess, !.reorder = NoSeq, !.fin = NoSeq,
                      !.win = EmptyWindow(m.seq)]
    BY <1>4, Zenon DEF Adopt
  <2>6. /\ x \in Receivers /\ x.conf = r.conf /\ x.known = TRUE /\ x.sess = m.sess /\ x.fin = NoSeq
        /\ x.win = EmptyWindow(m.seq) /\ x.normal = r.normal /\ x.heard = r.heard
        /\ x.frag = r.frag /\ x.trace = r.trace /\ x.old = r.old
    BY <1>1, <2>3, <2>4, <2>5, Zenon DEF Receivers
  <2> HIDE DEF x
  <2>7. ReceiverOK(x)
    BY <2>2, <2>3, <2>6, Zenon DEF ReceiverOK
  <2>8. r.known => r.sess < m.sess
    BY <1>2, <1>4 DEF Outdated
  <2>9. ASSUME ShortSessions, m.seq <= Top, Sound(r, quiet) PROVE Sound(x, quiet)
    <3>1. Fits(x)
      <4>1. ~Alive(x) => x.trace = << >>
        BY <2>6, <2>9, Zenon DEF Alive, Sound, Fits
      <4>2. x.normal \subseteq x.heard /\ x.win.next <= Top
        BY <2>3, <2>6, <2>9, Zenon DEF Sound, Fits
      <4> QED BY <2>2, <2>6, <4>1, <4>2, Zenon DEF Fits
    <3>2. ASSUME Fragments = {} PROVE Gapless(x)
      <4>1. r.frag = << >> /\ Chain(r.trace, r.known, r.sess, r.win.next)
        BY <2>9, <3>2, Zenon DEF Sound, Gapless
      <4>2. \A s2 \in Nat : \A n2 : (r.known => r.sess < s2) => Chain(r.trace, TRUE, s2, n2)
        BY <1>1, <1>2, <4>1, ChainNew, Zenon
      <4>3. Chain(r.trace, TRUE, m.sess, m.seq)
        BY <1>2, <2>8, <4>2, Zenon
      <4> QED BY <2>3, <2>6, <4>1, <4>3, Zenon DEF Gapless
    <3>3. ASSUME quiet, ~x.conf.raw PROVE Ordered(x)
      <4>1. History(r.old, r.trace, r.frag, r.known, r.sess, r.win.next)
        BY <2>6, <2>9, <3>3, Zenon DEF Sound, Ordered
      <4>2. History(r.old, r.trace, r.frag, TRUE, m.sess, m.seq)
        BY <1>1, <1>2, <2>8, <4>1, HistoryNew, Zenon
      <4> QED BY <2>3, <2>6, <4>2, Zenon DEF Ordered
    <3> QED BY <3>1, <3>2, <3>3, Zenon DEF Sound
  <2>10. x.known
    BY <2>6, Zenon
  <2> QED BY <1>4, <2>6, <2>7, <2>9, <2>10, Zenon DEF x
<1> QED BY <1>3, <1>4, Zenon

-----------------------------------------------------------------------------
\* Delivery

\* The fields that delivery leaves alone.
Rest(r) == <<r.conf, r.known, r.sess, r.reorder, r.fin, r.normal, r.heard, r.stamped, r.ports, r.nacks, r.old>>

\* thread_recv_slot_deliver_payload_elem
LEMMA Delivering ==
    ASSUME NEW r \in Receivers, NEW e \in Packets
    PROVE  LET y == Deliver(r, e)
           IN  /\ y \in Receivers /\ Rest(y) = Rest(r) /\ y.win = r.win
               /\ ~Alive(r) => y.frag = r.frag /\ y.trace = r.trace /\ y.dropped = r.dropped \cup {e}
               /\ Alive(r) =>
                    /\ y.dropped = r.dropped
                    /\ \/ y.frag = Append(r.frag, e) /\ y.trace = r.trace /\ e[2] \in Fragments
                       \/ y.frag = << >> /\ y.trace = r.trace /\ (e[2] \in Fragments \/ r.frag # << >>)
                       \/ y.frag = << >> /\ y.trace = r.trace \o Append(r.frag, e)
<1> DEFINE y == Deliver(r, e)
           j == Append(r.frag, e)
           t == r.trace \o j
<1>1. r.frag \in Seq(Packets) /\ r.trace \in Seq(Packets) /\ r.dropped \in SUBSET Packets
  BY Fields, Zenon
<1>2. j \in Seq(Packets) /\ << >> \in Seq(Packets)
  BY <1>1
<1>3. t \in Seq(Packets) /\ r.dropped \cup {e} \in SUBSET Packets
  BY <1>1, <1>2
<1> HIDE DEF j, t
<1>4. CASE ~Alive(r)
  <2>1. y = [r EXCEPT !.dropped = r.dropped \cup {e}]
    BY <1>4, Zenon DEF Deliver
  <2>2. /\ y \in Receivers /\ Rest(y) = Rest(r) /\ y.win = r.win
        /\ y.frag = r.frag /\ y.trace = r.trace /\ y.dropped = r.dropped \cup {e}
    BY <1>3, <2>1, Zenon DEF Receivers, Rest
  <2> QED BY <1>4, <2>2, Zenon
<1>5. CASE Alive(r) /\ e[2] \in Fragments
  <2>1. \E g \in {j, << >>} : y = [r EXCEPT !.frag = g]
    BY <1>5, Zenon DEF Deliver, j
  <2>2. PICK g \in {j, << >>} : y = [r EXCEPT !.frag = g]
    BY <2>1, Zenon
  <2>3. g \in Seq(Packets)
    BY <1>2, <2>2, Zenon
  <2>4. /\ y \in Receivers /\ Rest(y) = Rest(r) /\ y.win = r.win
        /\ y.frag = g /\ y.trace = r.trace /\ y.dropped = r.dropped
    BY <2>2, <2>3, Zenon DEF Receivers, Rest
  <2> QED BY <1>5, <2>2, <2>4, Zenon DEF j
<1>6. CASE Alive(r) /\ e[2] \notin Fragments
  <2>1. \E g \in {t, r.trace} : /\ y = [r EXCEPT !.frag = << >>, !.trace = g]
                                /\ g = t \/ r.frag # << >>
    BY <1>6, Zenon DEF Deliver, j, t
  <2>2. PICK g \in {t, r.trace} : y = [r EXCEPT !.frag = << >>, !.trace = g] /\ (g = t \/ r.frag # << >>)
    BY <2>1, Zenon
  <2>3. g \in Seq(Packets)
    BY <1>1, <1>3, <2>2, Zenon
  <2>4. /\ y \in Receivers /\ Rest(y) = Rest(r) /\ y.win = r.win
        /\ y.frag = << >> /\ y.trace = g /\ y.dropped = r.dropped
    BY <1>2, <2>2, <2>3, Zenon DEF Receivers, Rest
  <2> QED BY <1>6, <2>2, <2>4, Zenon DEF j, t
<1> QED BY <1>4, <1>5, <1>6, Zenon

\* What a loop of n turns keeps.
LEMMA Climb ==
    ASSUME NEW n \in 0 .. WindowSize, NEW S, 0 \in S, \A i \in 0 .. n - 1 : i \in S => i + 1 \in S
    PROVE  n \in S
<1> DEFINE T == {i \in 0 .. n : i \notin S}
<1>1. WindowSize \in Nat /\ HasLeast(WindowSize)
  BY WindowAssumption, Zenon
<1>2. SUFFICES ASSUME n \notin S PROVE FALSE
  BY Zenon
<1>3. T \in SUBSET (0 .. WindowSize) /\ n \in T
  BY <1>1, <1>2
<1>4. PICK m \in T : \A k \in T : m <= k
  BY <1>1, <1>3, Zenon DEF HasLeast
<1>5. m \in 0 .. n /\ m # 0 /\ m \notin S
  BY <1>4, Zenon
<1>6. m - 1 \in 0 .. n - 1 /\ m - 1 \in 0 .. n /\ ~(m <= m - 1) /\ (m - 1) + 1 = m
  BY <1>1, <1>5
<1>7. m - 1 \in S
  BY <1>4, <1>6, Zenon
<1> QED BY <1>5, <1>6, <1>7, Zenon

\* The loop of slot_drain_recv_window takes its turns one after the other.
LEMMA Turns ==
    ASSUME NEW r, NEW n \in 0 .. WindowSize, Len(Poppable(r.win)) = n
    PROVE  \E f : /\ f[0] = r /\ Drained(r) = f[n]
                  /\ \A i \in 1 .. n :
                        f[i] = Deliver([f[i - 1] EXCEPT !.win = RecvAdvance(@)], Poppable(r.win)[i])
<1> DEFINE elems == Poppable(r.win)
           G(f, k) == f = [i \in 0 .. k |-> IF i = 0 THEN r
                                            ELSE Deliver([f[i - 1] EXCEPT !.win = RecvAdvance(@)], elems[i])]
           S == {k \in 0 .. n : \E f : G(f, k)}
<1>1. WindowSize \in Nat
  BY WindowAssumption, Zenon
<1>2. 0 \in S
  <2> DEFINE g == [i \in 0 .. 0 |-> r]
             h == [i \in 0 .. 0 |-> IF i = 0 THEN r
                                    ELSE Deliver([g[i - 1] EXCEPT !.win = RecvAdvance(@)], elems[i])]
  <2>1. \A i \in 0 .. 0 : i = 0
    OBVIOUS
  <2>2. g = h
    BY <2>1, Zenon
  <2>3. G(g, 0)
    BY <2>2, Zenon
  <2>4. 0 \in 0 .. n
    BY <1>1
  <2> HIDE DEF g
  <2> QED BY <2>3, <2>4, Zenon
<1>3. ASSUME NEW k \in 0 .. n - 1, k \in S PROVE k + 1 \in S
  <2>1. PICK f : G(f, k)
    BY <1>3, Zenon
  <2> DEFINE g == [i \in 0 .. k + 1 |-> IF i <= k THEN f[i]
                                        ELSE Deliver([f[k] EXCEPT !.win = RecvAdvance(@)], elems[k + 1])]
  <2>2. k \in Nat /\ k + 1 \in 0 .. n /\ DOMAIN g = 0 .. k + 1
    BY <1>1
  <2>3. ASSUME NEW i \in 0 .. k + 1
        PROVE  g[i] = IF i = 0 THEN r ELSE Deliver([g[i - 1] EXCEPT !.win = RecvAdvance(@)], elems[i])
    <3>1. CASE i = k + 1
      <4>1. i # 0 /\ i - 1 = k /\ ~(i <= k) /\ k \in 0 .. k + 1 /\ k <= k
        BY <2>2, <3>1
      <4>2. g[k] = f[k] /\ g[i] = Deliver([f[k] EXCEPT !.win = RecvAdvance(@)], elems[i])
        BY <3>1, <4>1, Zenon
      <4> HIDE DEF g
      <4> QED BY <4>1, <4>2, Zenon
    <3>2. CASE i # k + 1
      <4>1. i \in 0 .. k /\ i <= k
        BY <2>2, <3>2
      <4>2. g[i] = f[i]
        BY <4>1, Zenon
      <4>3. f[i] = IF i = 0 THEN r ELSE Deliver([f[i - 1] EXCEPT !.win = RecvAdvance(@)], elems[i])
        BY <2>1, <4>1, Zenon
      <4>4. i # 0 => i - 1 \in 0 .. k + 1 /\ i - 1 <= k
        BY <2>2, <4>1
      <4>5. i # 0 => g[i - 1] = f[i - 1]
        BY <4>4, Zenon
      <4> HIDE DEF g
      <4> QED BY <4>2, <4>3, <4>5, Zenon
    <3> QED BY <3>1, <3>2, Zenon
  <2>4. g = [i \in DOMAIN g |-> g[i]]
    BY Zenon
  <2> HIDE DEF g
  <2>5. G(g, k + 1)
    BY <2>2, <2>3, <2>4, Zenon
  <2> QED BY <2>2, <2>5, Zenon
<1>4. n \in S
  <2> HIDE DEF S
  <2> QED BY <1>2, <1>3, Climb, Zenon
<1>5. \E f : G(f, n)
  BY <1>4, Zenon
<1> DEFINE run == CHOOSE f : G(f, n)
<1>6. G(run, n)
  BY <1>5, Zenon
<1>7. Drained(r) = run[n]
  BY Zenon DEF Drained
<1> HIDE DEF run
<1>8. 0 \in 0 .. n /\ \A i \in 1 .. n : i \in 0 .. n /\ i # 0
  BY <1>1
<1>9. run[0] = r /\ \A i \in 1 .. n : run[i] = Deliver([run[i - 1] EXCEPT !.win = RecvAdvance(@)], elems[i])
  BY <1>6, <1>8, Zenon
<1> QED BY <1>7, <1>9, Zenon

\* Whatever becomes of the next element, the order stays.
LEMMA HistoryOn ==
    ASSUME NEW o \in SUBSET Packets, NEW t \in Seq(Packets), NEW f \in Seq(Packets),
           NEW s \in Nat, NEW n \in Nat, NEW e \in Packets, e = <<s, n + 1>>,
           History(o, t, f, TRUE, s, n)
    PROVE  /\ History(o, t, f, TRUE, s, n + 1)
           /\ History(o, t, Append(f, e), TRUE, s, n + 1)
           /\ History(o, t, << >>, TRUE, s, n + 1)
           /\ History(o, t \o Append(f, e), << >>, TRUE, s, n + 1)
<1>1. History(o, t, f, TRUE, s, n + 1)
  BY HistoryNew, Zenon
<1>2. History(o, t, Append(f, e), TRUE, s, n + 1)
  BY HistoryAppend, Zenon
<1>3. History(o, t, << >>, TRUE, s, n + 1)
  BY <1>1, HistoryMoved, Zenon
<1>4. Append(f, e) \in Seq(Packets)
  BY Joined, Zenon
<1>5. History(o, t \o Append(f, e), << >>, TRUE, s, n + 1)
  BY <1>2, <1>4, HistoryMoved, Zenon
<1> QED BY <1>1, <1>2, <1>3, <1>5, Zenon

LEMMA SessionsAreNat == Sessions \cup {0} \subseteq Nat
<1>1. Sessions \subseteq Nat
  BY ReceiverAssumption, Zenon
<1> QED BY <1>1

LEMMA Ranges ==
    ASSUME NEW t \in Seq(Packets), NEW f \in Seq(Packets), NEW e \in Packets
    PROVE  /\ Range(t) \subseteq Range(t \o f) /\ e \in Range(Append(f, e)) /\ Range(<< >>) = {}
<1>1. DOMAIN t = 1 .. Len(t) /\ t \o f \in Seq(Packets) /\ Append(f, e) \in Seq(Packets)
  BY Joined
<1>2. /\ DOMAIN (t \o f) = 1 .. Len(t \o f) /\ DOMAIN Append(f, e) = 1 .. Len(Append(f, e))
      /\ DOMAIN << >> = {}
  BY <1>1
<1>3. 1 .. Len(t) \subseteq 1 .. Len(t \o f) /\ Len(f) + 1 \in 1 .. Len(Append(f, e))
  BY Joined
<1>4. Range(t) \subseteq Range(t \o f)
  <2> SUFFICES ASSUME NEW i \in 1 .. Len(t) PROVE t[i] \in Range(t \o f)
    BY <1>1, Zenon DEF Range
  <2>1. i \in DOMAIN (t \o f) /\ (t \o f)[i] = t[i]
    BY <1>2, <1>3, Joined
  <2> QED BY <2>1, Zenon DEF Range
<1>5. e \in Range(Append(f, e))
  <2>1. Append(f, e)[Len(f) + 1] = e
    BY Joined, Zenon
  <2> QED BY <1>2, <1>3, <2>1, Zenon DEF Range
<1> QED BY <1>2, <1>4, <1>5, Zenon DEF Range

\* One turn: the packet at next_seq is popped and delivered.
LEMMA Turn ==
    ASSUME NEW x, NEW quiet, ReceiverOK(x), x.known = TRUE, NEW e \in Packets, At(x.win, 0) = e
    PROVE  LET y == Deliver([x EXCEPT !.win = RecvAdvance(@)], e)
           IN  /\ ReceiverOK(y) /\ Rest(y) = Rest(x) /\ y.win = RecvAdvance(x.win)
               /\ ShortSessions /\ Sound(x, quiet) =>
                    /\ Sound(y, quiet) /\ y.win.next = x.win.next + 1 /\ e = <<x.sess, x.win.next + 1>>
                    /\ Range(x.trace) \subseteq Range(y.trace) /\ x.dropped \subseteq y.dropped
                    /\ Fragments = {} => e \in Range(y.trace) \cup y.dropped
<1> DEFINE z == [x EXCEPT !.win = RecvAdvance(@)]
           y == Deliver(z, e)
           n == x.win.next
<1>1. /\ x \in Receivers /\ Expects(x.win, n) /\ n \in Seqs /\ n \in Nat /\ x.sess \in Sessions \cup {0}
      /\ x.old \in SUBSET Packets /\ x.trace \in Seq(Packets) /\ x.frag \in Seq(Packets)
  BY Fields, Sizing, Zenon DEF ReceiverOK
<1>2. /\ Expects(RecvAdvance(x.win), n + 1) /\ At(RecvAdvance(x.win), WindowSize - 1) = NoPkt
      /\ \A d \in 0 .. WindowSize - 2 : At(RecvAdvance(x.win), d) = At(x.win, d + 1)
  <2>1. n \in Int
    BY <1>1
  <2> QED BY <1>1, <2>1, MovedOn, Zenon
<1>3. RecvAdvance(x.win) \in Windows
  BY <1>2, Zenon DEF Expects
<1>4. /\ z \in Receivers /\ Rest(z) = Rest(x) /\ z.win = RecvAdvance(x.win) /\ z.normal = x.normal
      /\ z.frag = x.frag /\ z.trace = x.trace /\ z.dropped = x.dropped
  BY <1>1, <1>3, Zenon DEF Receivers, Rest
<1> HIDE DEF z
<1>5. Alive(z) <=> Alive(x)
  BY <1>4, Zenon DEF Alive
<1>6. /\ y \in Receivers /\ Rest(y) = Rest(x) /\ y.win = RecvAdvance(x.win)
      /\ ~Alive(x) => y.frag = x.frag /\ y.trace = x.trace /\ y.dropped = x.dropped \cup {e}
      /\ Alive(x) =>
           /\ y.dropped = x.dropped
           /\ \/ y.frag = Append(x.frag, e) /\ y.trace = x.trace /\ e[2] \in Fragments
              \/ y.frag = << >> /\ y.trace = x.trace /\ (e[2] \in Fragments \/ x.frag # << >>)
              \/ y.frag = << >> /\ y.trace = x.trace \o Append(x.frag, e)
  <2>1. /\ y \in Receivers /\ Rest(y) = Rest(z) /\ y.win = z.win
        /\ ~Alive(z) => y.frag = z.frag /\ y.trace = z.trace /\ y.dropped = z.dropped \cup {e}
        /\ Alive(z) =>
             /\ y.dropped = z.dropped
             /\ \/ y.frag = Append(z.frag, e) /\ y.trace = z.trace /\ e[2] \in Fragments
                \/ y.frag = << >> /\ y.trace = z.trace /\ (e[2] \in Fragments \/ z.frag # << >>)
                \/ y.frag = << >> /\ y.trace = z.trace \o Append(z.frag, e)
    BY <1>4, Delivering, Zenon
  <2> HIDE DEF y
  <2> QED BY <1>4, <1>5, <2>1, Zenon
<1>7. /\ y.conf = x.conf /\ y.known = TRUE /\ y.sess = x.sess /\ y.fin = x.fin /\ y.normal = x.normal
      /\ y.heard = x.heard /\ y.old = x.old
  BY <1>6, Zenon DEF Rest
<1> HIDE DEF y
<1>8. ReceiverOK(y)
  BY <1>1, <1>2, <1>6, OwnPosition DEF ReceiverOK
<1>9. ASSUME ShortSessions, Sound(x, quiet)
      PROVE  /\ Sound(y, quiet) /\ y.win.next = n + 1 /\ e = <<x.sess, n + 1>>
             /\ Range(x.trace) \subseteq Range(y.trace) /\ x.dropped \subseteq y.dropped
             /\ Fragments = {} => e \in Range(y.trace) \cup y.dropped
  <2>1. /\ WindowSize \in Nat /\ WindowSize >= 2 /\ SeqSpace \in Nat /\ x.sess \in Nat
        /\ 0 \in 0 .. WindowSize - 1
    <3>1. x.sess \in Nat
      BY <1>1, SessionsAreNat, Zenon
    <3>2. WindowSize \in Nat /\ WindowSize >= 2 /\ SeqSpace \in Nat
      BY Sizing, Zenon
    <3> QED BY <3>1, <3>2
  <2>2. /\ n <= Top /\ x.normal \subseteq x.heard /\ (~Alive(x) => x.trace = << >>)
        /\ \A d \in 0 .. WindowSize - 1 : At(x.win, d) # NoPkt => At(x.win, d) = <<x.sess, n + d + 1>>
    BY <1>9, Zenon DEF Sound, Fits
  <2>3. e = <<x.sess, n + 1>> /\ e # NoPkt /\ e[2] \in Elements
    <3>1. e # NoPkt /\ e[2] \in Elements
      BY PacketParts, Zenon
    <3>2. At(x.win, 0) = <<x.sess, n + 0 + 1>>
      BY <2>1, <2>2, <3>1, Zenon
    <3> QED BY <1>1, <3>1, <3>2
  <2>4. n + 1 <= Top
    <3>1. e[2] = n + 1
      BY <2>3
    <3> QED BY <1>9, <2>3, <3>1, Zenon DEF ShortSessions
  <2>5. n + 1 \in Seqs
    BY <1>1, <2>1, <2>4 DEF Top, Seqs
  <2>6. y.win.next = n + 1
    BY <1>2, <1>6, <2>5, SeqNumItself, Zenon DEF Expects
  <2>7. Fits(y)
    <3>1. ASSUME NEW d \in 0 .. WindowSize - 1, At(y.win, d) # NoPkt
          PROVE  At(y.win, d) = <<y.sess, y.win.next + d + 1>>
      <4>1. d # WindowSize - 1
        BY <1>2, <1>6, <3>1, Zenon
      <4>2. d \in 0 .. WindowSize - 2 /\ d + 1 \in 0 .. WindowSize - 1 /\ n + (d + 1) + 1 = (n + 1) + d + 1
        <5>1. n \in Nat
          BY <1>1, Zenon
        <5> HIDE DEF n
        <5> QED BY <2>1, <4>1, <5>1
      <4>3. At(y.win, d) = At(x.win, d + 1)
        BY <1>2, <1>6, <4>2, Zenon
      <4>4. At(x.win, d + 1) = <<x.sess, n + (d + 1) + 1>>
        BY <2>2, <3>1, <4>2, <4>3, Zenon
      <4> QED BY <1>7, <2>6, <4>2, <4>3, <4>4, Zenon
    <3>2. ~Alive(y) => y.trace = << >>
      BY <1>6, <1>7, <2>2, Zenon DEF Alive
    <3>3. y.normal \subseteq y.heard /\ y.win.next <= Top
      BY <1>7, <2>2, <2>4, <2>6, Zenon
    <3> QED BY <3>1, <3>2, <3>3, Zenon DEF Fits
  <2>8. ASSUME Fragments = {}
        PROVE  /\ Gapless(y) /\ e \in Range(y.trace) \cup y.dropped
    <3>1. x.frag = << >> /\ Chain(x.trace, TRUE, x.sess, n)
      BY <1>9, <2>8, Zenon DEF Sound, Gapless
    <3>2. CASE ~Alive(x)
      <4>1. y.trace = << >> /\ y.frag = << >> /\ e \in y.dropped
        BY <1>6, <2>2, <3>1, <3>2, Zenon
      <4>2. Len(<< >>) = 0
        BY Zenon
      <4> QED BY <4>1, <4>2 DEF Gapless, Chain
    <3>3. CASE Alive(x)
      <4>1. y.frag = << >> /\ y.trace = x.trace \o Append(<< >>, e)
        BY <1>6, <2>8, <3>1, <3>3, Zenon
      <4>2. x.trace \o Append(<< >>, e) = Append(x.trace, e)
        BY <1>1
      <4>3. Chain(Append(x.trace, e), TRUE, x.sess, n + 1)
        BY <1>1, <2>1, <2>3, <3>1, ChainOn, Zenon
      <4>4. Gapless(y)
        BY <1>7, <2>6, <4>1, <4>2, <4>3, Zenon DEF Gapless
      <4>5. e \in Range(Append(x.trace, e))
        BY <1>1, Ranges, Zenon
      <4> QED BY <4>1, <4>2, <4>4, <4>5, Zenon
    <3> QED BY <3>2, <3>3, Zenon
  <2>9. ASSUME quiet, ~y.conf.raw PROVE Ordered(y)
    <3>1. x.fin = NoSeq /\ History(x.old, x.trace, x.frag, TRUE, x.sess, n)
      BY <1>7, <1>9, <2>9, Zenon DEF Sound, Ordered
    <3>2. /\ History(x.old, x.trace, x.frag, TRUE, x.sess, n + 1)
          /\ History(x.old, x.trace, Append(x.frag, e), TRUE, x.sess, n + 1)
          /\ History(x.old, x.trace, << >>, TRUE, x.sess, n + 1)
          /\ History(x.old, x.trace \o Append(x.frag, e), << >>, TRUE, x.sess, n + 1)
      BY <1>1, <2>1, <2>3, <3>1, HistoryOn, Zenon
    <3>3. History(x.old, y.trace, y.frag, TRUE, x.sess, n + 1)
      BY <1>6, <3>2, Zenon
    <3> QED BY <1>7, <2>6, <3>1, <3>3, Zenon DEF Ordered
  <2>10. Range(x.trace) \subseteq Range(y.trace) /\ x.dropped \subseteq y.dropped
    <3>1. Range(x.trace) \subseteq Range(x.trace \o Append(x.frag, e))
      <4>1. Append(x.frag, e) \in Seq(Packets)
        BY <1>1
      <4> QED BY <1>1, <4>1, Ranges, Zenon
    <3>2. y.trace = x.trace \/ y.trace = x.trace \o Append(x.frag, e)
      BY <1>6, Zenon
    <3>3. x.dropped \subseteq y.dropped
      BY <1>6, Zenon
    <3> QED BY <3>1, <3>2, <3>3, Zenon
  <2> QED BY <2>3, <2>6, <2>7, <2>8, <2>9, <2>10, Zenon DEF Sound
<1> QED BY <1>6, <1>8, <1>9, Zenon DEF y, z

\* What the window of r passes before it is that of d was delivered or dropped.
Passed(r, d) ==
    \A k \in Nat : r.win.next < k /\ k <= d.win.next => <<r.sess, k>> \in Range(d.trace) \cup d.dropped

LEMMA PassedOn ==
    ASSUME NEW r, NEW x, NEW y, NEW e, r.win.next \in Nat, x.win.next \in Nat, Passed(r, x),
           y.win.next = x.win.next + 1, e = <<r.sess, x.win.next + 1>>,
           Range(x.trace) \subseteq Range(y.trace), x.dropped \subseteq y.dropped,
           e \in Range(y.trace) \cup y.dropped
    PROVE  Passed(r, y)
<1> SUFFICES ASSUME NEW k \in Nat, r.win.next < k, k <= y.win.next
             PROVE  <<r.sess, k>> \in Range(y.trace) \cup y.dropped
  BY Zenon DEF Passed
<1>1. k <= x.win.next \/ k = x.win.next + 1
  OBVIOUS
<1>2. CASE k <= x.win.next
  <2>1. <<r.sess, k>> \in Range(x.trace) \cup x.dropped
    BY <1>2, Zenon DEF Passed
  <2> QED BY <2>1, Zenon
<1>3. CASE k = x.win.next + 1
  BY <1>3, Zenon
<1> QED BY <1>1, <1>2, <1>3, Zenon

\* What the loop of slot_drain_recv_window comes to.
Loop(r, d, quiet) ==
    /\ ReceiverOK(d) /\ Rest(d) = Rest(r)
    /\ ShortSessions /\ Sound(r, quiet) => Sound(d, quiet) /\ (Fragments = {} => Passed(r, d))

LEMMA DrainedOK ==
    ASSUME NEW r, NEW quiet, ReceiverOK(r), r.known = TRUE
    PROVE  Loop(r, Drained(r), quiet)
<1> DEFINE w == r.win
           b == r.win.next
<1>1. r \in Receivers /\ Expects(w, b) /\ b \in Seqs /\ b \in Int /\ b \in Nat
  BY Fields, Sizing, Zenon DEF ReceiverOK
<1>2. PICK n \in 0 .. WindowSize :
              /\ \A d \in 0 .. n - 1 : At(w, d) \in Packets
              /\ n < WindowSize => At(w, n) = NoPkt
              /\ Poppable(w) = [i \in 1 .. n |-> At(w, i - 1)]
  BY <1>1, Popping, Zenon
<1>3. WindowSize \in Nat /\ n \in Nat /\ n <= WindowSize
  BY Sizing
<1>4. Len(Poppable(w)) = n /\ \A i \in 1 .. n : Poppable(w)[i] = At(w, i - 1) /\ At(w, i - 1) \in Packets
  <2>1. \A i \in 1 .. n : i - 1 \in 0 .. n - 1
    BY <1>3
  <2>2. \A i \in 1 .. n : Poppable(w)[i] = At(w, i - 1) /\ At(w, i - 1) \in Packets
    BY <1>2, <2>1, Zenon
  <2>3. Poppable(w) \in [1 .. n -> Packets]
    BY <1>2, <2>2, Zenon
  <2>4. Len(Poppable(w)) = n
    BY <1>3, <2>3
  <2> QED BY <2>2, <2>4, Zenon
<1>5. PICK f : /\ f[0] = r /\ Drained(r) = f[n]
               /\ \A i \in 1 .. n :
                     f[i] = Deliver([f[i - 1] EXCEPT !.win = RecvAdvance(@)], Poppable(w)[i])
  BY <1>4, Turns, Zenon
<1> DEFINE P(i) == /\ ReceiverOK(f[i]) /\ Rest(f[i]) = Rest(r) /\ f[i].win = Popped(w, i)
                   /\ ShortSessions /\ Sound(r, quiet) =>
                        /\ Sound(f[i], quiet) /\ f[i].win.next \in Nat
                        /\ Fragments = {} => Passed(r, f[i])
           S == {i \in 0 .. n : P(i)}
<1>6. P(0)
  <2>1. Popped(w, 0) = w
    <3>1. 0 \in 0 .. WindowSize - 1
      BY Sizing
    <3> QED BY <1>1, <3>1, PoppedStepwise, Zenon
  <2>2. Passed(r, r)
    BY <1>1 DEF Passed
  <2> QED BY <1>1, <1>5, <2>1, <2>2, Zenon
<1>7. ASSUME NEW i \in 0 .. n - 1, P(i) PROVE P(i + 1)
  <2> DEFINE x == f[i]
             y == f[i + 1]
             e == At(w, i)
  <2>1. /\ i \in 0 .. WindowSize - 1 /\ i \in 0 .. WindowSize /\ i + 1 \in 1 .. n /\ (i + 1) - 1 = i
        /\ 0 \in 0 .. WindowSize - 1 /\ 0 + i < WindowSize /\ 0 + i = i
    BY <1>3
  <2>2. y = Deliver([x EXCEPT !.win = RecvAdvance(@)], e) /\ e \in Packets
    BY <1>4, <1>5, <2>1, Zenon
  <2>3. x.win = Popped(w, i) /\ Popped(w, i + 1) = RecvAdvance(x.win)
    BY <1>1, <1>7, <2>1, PoppedStepwise
  <2>4. At(x.win, 0) = e
    BY <1>1, <2>1, <2>3, PoppedOff, Zenon
  <2>5. ReceiverOK(x) /\ Rest(x) = Rest(r)
    BY <1>7, Zenon
  <2>6. x.known = TRUE /\ x.sess = r.sess
    BY <2>5, Zenon DEF Rest
  <2> HIDE DEF x, y, e
  <2>7. /\ ReceiverOK(y) /\ Rest(y) = Rest(x) /\ y.win = RecvAdvance(x.win)
        /\ ShortSessions /\ Sound(x, quiet) =>
             /\ Sound(y, quiet) /\ y.win.next = x.win.next + 1 /\ e = <<x.sess, x.win.next + 1>>
             /\ Range(x.trace) \subseteq Range(y.trace) /\ x.dropped \subseteq y.dropped
             /\ Fragments = {} => e \in Range(y.trace) \cup y.dropped
    BY <2>2, <2>4, <2>5, <2>6, Turn, Zenon
  <2>8. ASSUME ShortSessions, Sound(r, quiet)
        PROVE  /\ Sound(y, quiet) /\ y.win.next \in Nat
               /\ Fragments = {} => Passed(r, y)
    <3>1. Sound(x, quiet) /\ x.win.next \in Nat /\ (Fragments = {} => Passed(r, x))
      BY <1>7, <2>8, Zenon DEF x
    <3>2. Sound(y, quiet) /\ y.win.next = x.win.next + 1
      BY <2>7, <2>8, <3>1, Zenon
    <3>3. y.win.next \in Nat
      BY <3>1, <3>2
    <3>4. Fragments = {} => Passed(r, y)
      BY <1>1, <2>6, <2>7, <2>8, <3>1, PassedOn, Zenon
    <3> QED BY <3>2, <3>3, <3>4, Zenon
  <2>9. ReceiverOK(y) /\ Rest(y) = Rest(r) /\ y.win = Popped(w, i + 1)
    BY <2>3, <2>5, <2>7, Zenon
  <2> QED BY <2>8, <2>9, Zenon DEF y
<1> HIDE DEF P
<1>8. 0 \in S /\ \A i \in 0 .. n - 1 : i \in S => i + 1 \in S
  <2>1. 0 \in 0 .. n /\ \A i \in 0 .. n - 1 : i + 1 \in 0 .. n
    BY <1>3
  <2> QED BY <1>6, <1>7, <2>1, Zenon
<1>9. n \in S
  <2> HIDE DEF S
  <2> QED BY <1>8, Climb, Zenon
<1>10. P(n)
  BY <1>9, Zenon
<1> QED BY <1>5, <1>10, Zenon DEF P, Loop

\* thread_recv_fin_fire
LEMMA Fired ==
    ASSUME NEW r, ReceiverOK(r)
    PROVE  LET x == FinFire(r)
           IN  /\ ReceiverOK(x) /\ x.conf = r.conf /\ x.known = FALSE /\ x.sess = r.sess
               /\ x.win = EmptyWindow(0) /\ x.fin = NoSeq /\ x.frag = r.frag /\ x.dropped = r.dropped
               /\ x.normal = {} /\ x.trace = << >> /\ x.old = r.old \cup Range(r.trace)
<1> DEFINE c == Disconnect(r)
           x == FinFire(r)
<1>1. /\ ReceiverOK(c) /\ c.conf = r.conf /\ c.sess = r.sess /\ c.frag = r.frag
      /\ c.dropped = r.dropped /\ c.normal = {} /\ c.trace = << >> /\ c.old = r.old \cup Range(r.trace)
  BY Cut, Zenon
<1>2. Expects(EmptyWindow(0), 0) /\ 0 \in Int
  BY SeqNumItself, Sizing, Emptied, Zenon
<1>3. Expects(EmptyWindow(0), EmptyWindow(0).next)
  BY <1>2, OwnPosition, Zenon
<1>4. /\ NoSeq \in Seqs \cup {NoSeq} /\ FALSE \in BOOLEAN /\ EmptyWindow(0) \in Windows /\ c \in Receivers
  BY <1>1, <1>2, Zenon DEF Expects, ReceiverOK
<1>5. x = [c EXCEPT !.fin = NoSeq, !.known = FALSE, !.reorder = NoSeq, !.stamped = FALSE,
                    !.win = EmptyWindow(0)]
  BY Zenon DEF FinFire
<1> HIDE DEF c, x
<1>6. /\ x \in Receivers /\ x.conf = c.conf /\ x.known = FALSE /\ x.sess = c.sess
      /\ x.win = EmptyWindow(0) /\ x.fin = NoSeq /\ x.frag = c.frag /\ x.dropped = c.dropped
      /\ x.normal = c.normal /\ x.trace = c.trace /\ x.old = c.old
  BY <1>4, <1>5, Zenon DEF Receivers
<1>7. ReceiverOK(x)
  BY <1>3, <1>6, Zenon DEF ReceiverOK
<1> QED BY <1>1, <1>6, <1>7, Zenon DEF x

\* A receiver that starts anew is sound, unless order has to be kept.
LEMMA FiredSound ==
    ASSUME NEW r, NEW quiet, ReceiverOK(r), ~quiet \/ r.conf.raw \/ r.fin # NoSeq, Sound(r, quiet)
    PROVE  Sound(FinFire(r), quiet)
<1> DEFINE x == FinFire(r)
<1>1. /\ ReceiverOK(x) /\ x.conf = r.conf /\ x.win = EmptyWindow(0) /\ x.frag = r.frag
      /\ x.normal = {} /\ x.trace = << >>
  BY Fired, Zenon
<1> HIDE DEF x
<1>2. ~quiet \/ x.conf.raw
  BY <1>1, Zenon DEF Sound, Ordered
<1>3. Fragments = {} => x.frag = << >>
  BY <1>1, Zenon DEF Sound, Gapless
<1>4. 0 \in Seqs /\ 0 <= Top
  BY Sizing DEF Top
<1>5. Sound(x, quiet)
  BY <1>1, <1>2, <1>3, <1>4, Anew, Zenon
<1> QED BY <1>5, Zenon DEF x

\* The session of r ended in x, after its last packet.
Ended(r, x) ==
    /\ r.fin # NoSeq
    /\ Fragments = {} =>
         \A k \in Nat : r.win.next < k /\ k <= r.fin => <<r.sess, k>> \in x.old \cup x.dropped

\* slot_drain_recv_window
LEMMA Draining ==
    ASSUME NEW r, NEW quiet, ReceiverOK(r), r.known = TRUE
    PROVE  LET x == Drain(r)
           IN  /\ Becomes(r, x, quiet) /\ x.known \in BOOLEAN
               /\ ShortSessions /\ Sound(r, quiet) /\ x.known = FALSE => Ended(r, x)
<1> DEFINE d == Drained(r)
           x == Drain(r)
<1>1. Loop(r, d, quiet)
  BY DrainedOK, Zenon
<1> HIDE DEF d
<1>2. /\ ReceiverOK(d) /\ d.conf = r.conf /\ d.known = TRUE /\ d.sess = r.sess /\ d.fin = r.fin
      /\ d.old = r.old
  BY <1>1, Zenon DEF Loop, Rest
<1>3. ShortSessions /\ Sound(r, quiet) => Sound(d, quiet) /\ (Fragments = {} => Passed(r, d))
  BY <1>1, Zenon DEF Loop
<1>4. CASE ~(d.fin # NoSeq /\ d.fin = d.win.next)
  <2>1. x = d
    BY <1>4, Zenon DEF Drain, d
  <2> HIDE DEF x
  <2>2. Becomes(r, x, quiet)
    BY <1>2, <1>3, <2>1, Zenon DEF Becomes
  <2>3. x.known = TRUE
    BY <1>2, <2>1, Zenon
  <2> QED BY <2>2, <2>3, Zenon DEF x
<1>5. CASE d.fin # NoSeq /\ d.fin = d.win.next
  <2>1. x = FinFire(d)
    BY <1>5, Zenon DEF Drain, d
  <2> HIDE DEF x
  <2>2. /\ ReceiverOK(x) /\ x.conf = d.conf /\ x.known = FALSE /\ x.sess = d.sess /\ x.fin = NoSeq
        /\ x.dropped = d.dropped /\ x.old = d.old \cup Range(d.trace)
    BY <1>2, <2>1, Fired, Zenon
  <2>3. Sound(d, quiet) => Sound(x, quiet)
    BY <1>2, <1>5, <2>1, FiredSound, Zenon
  <2>4. Becomes(r, x, quiet)
    BY <1>2, <1>3, <2>2, <2>3, Zenon DEF Becomes
  <2>5. ASSUME ShortSessions, Sound(r, quiet) PROVE Ended(r, x)
    <3>1. r.fin # NoSeq /\ r.fin = d.win.next
      BY <1>2, <1>5, Zenon
    <3>2. ASSUME Fragments = {}, NEW k \in Nat, r.win.next < k, k <= r.fin
          PROVE  <<r.sess, k>> \in x.old \cup x.dropped
      <4>1. <<r.sess, k>> \in Range(d.trace) \cup d.dropped
        BY <1>3, <2>5, <3>1, <3>2, Zenon DEF Passed
      <4> QED BY <2>2, <4>1, Zenon
    <3> QED BY <3>1, <3>2, Zenon DEF Ended
  <2> QED BY <2>2, <2>4, <2>5, Zenon DEF x
<1> QED BY <1>4, <1>5, Zenon

-----------------------------------------------------------------------------
\* The packets of the sender

MessageOK(m) == m \in Messages /\ (m.kind = "DATA" => m.elem \in Packets)

\* What is in a packet, as long as sessions are short.
Truthful(m) ==
    /\ m.seq <= Top
    /\ m.kind = "DATA" => m.elem = <<m.sess, m.seq + 1>>
    /\ m.kind = "REJECT" => m.ack < Top

\* potr_internal_window_recv_push keeps the shape of the window.
LEMMA PushTyped ==
    ASSUME NEW w, NEW p, Expects(w, p), NEW q \in Seqs, NEW e \in Packets
    PROVE  Expects(RecvPush(w, q, e), p) /\ RecvPush(w, q, e).next = w.next
<1>1. w \in Windows /\ w.index \in Indexes /\ w.base \in Seqs
  BY Zenon DEF Expects, Windows
<1>2. SeqSub(q, w.base) \in Int
  <2>1. q - w.base \in Int /\ SeqSpace \in Nat \ {0}
    BY <1>1, Sizing DEF Seqs
  <2>2. (q - w.base) % SeqSpace \in 0 .. SeqSpace - 1
    BY <2>1, DivMod, Zenon
  <2> QED BY <2>2 DEF SeqSub
<1>3. WinIndex(w, q) \in Indexes
  <2>1. w.index + SeqSub(q, w.base) \in Int /\ WindowSize \in Nat \ {0}
    BY <1>1, <1>2, Sizing DEF Indexes
  <2> QED BY <2>1, DivMod, Zenon DEF WinIndex, Indexes
<1>4. /\ SetSlot(w, q, e) \in Windows /\ SetSlot(w, q, e).next = w.next
      /\ SetSlot(w, q, e).base = w.base
  BY <1>1, <1>3, Zenon DEF SetSlot, Windows
<1> QED BY <1>4, Zenon DEF RecvPush, Expects

\* A packet of the session is pushed.
LEMMA Pushing ==
    ASSUME NEW r, NEW quiet, ReceiverOK(r), NEW m, MessageOK(m), m.kind = "DATA",
           ShortSessions => Truthful(m), m.sess = r.sess, RecvAccepts(r.win, m.seq)
    PROVE  LET x == [r EXCEPT !.win = RecvPush(@, m.seq, m.elem)]
           IN  /\ Becomes(r, x, quiet) /\ x.known = r.known /\ x.fin = r.fin
               /\ x.win.next = r.win.next
<1> DEFINE x == [r EXCEPT !.win = RecvPush(@, m.seq, m.elem)]
           v == RecvPush(r.win, m.seq, m.elem)
           n == r.win.next
<1>1. /\ r \in Receivers /\ Expects(r.win, n) /\ n \in Seqs /\ n \in Int /\ n \in Nat
  BY Fields, Sizing, Zenon DEF ReceiverOK
<1>2. m.seq \in Seqs /\ m.elem \in Packets
  BY Zenon DEF MessageOK, Messages
<1>3. Expects(v, n) /\ v.next = n
  BY <1>1, <1>2, PushTyped, Zenon
<1>4. v \in Windows
  BY <1>3, Zenon DEF Expects
<1>5. /\ x \in Receivers /\ x.win = v /\ x.conf = r.conf /\ x.known = r.known /\ x.sess = r.sess
      /\ x.fin = r.fin /\ x.normal = r.normal /\ x.heard = r.heard /\ x.frag = r.frag
      /\ x.trace = r.trace /\ x.old = r.old
  BY <1>1, <1>4, Zenon DEF Receivers
<1> HIDE DEF x
<1>6. ReceiverOK(x)
  BY <1>3, <1>5, Zenon DEF ReceiverOK
<1>7. ASSUME ShortSessions, Sound(r, quiet) PROVE Sound(x, quiet)
  <2>1. /\ n <= Top /\ m.seq <= Top /\ m.elem = <<r.sess, m.seq + 1>>
        /\ \A d \in 0 .. WindowSize - 1 : At(r.win, d) # NoPkt => At(r.win, d) = <<r.sess, n + d + 1>>
    BY <1>7, Zenon DEF Sound, Fits, Truthful
  <2>2. m.seq \in Int /\ SeqNum(m.seq) = m.seq
    BY <1>2, SeqNumItself, Zenon
  <2>3. n - m.seq <= SeqSpace - WindowSize /\ m.seq - n < SeqSpace
    <3>1. m.seq \in Nat /\ m.seq < SeqSpace
      BY <1>2, Sizing DEF Seqs
    <3>2. n \in Nat
      BY <1>1, Zenon
    <3> HIDE DEF n
    <3> QED BY <2>1, <3>1, <3>2, Sizing DEF Top
  <2>4. m.seq \in n .. n + WindowSize - 1
    BY <1>1, <2>2, <2>3, Acceptance, Zenon
  <2>5. m.seq - n \in 0 .. WindowSize - 1 /\ \A d \in Int : d = m.seq - n => n + d + 1 = m.seq + 1
    <3>1. n \in Nat
      BY <1>1, Zenon
    <3> HIDE DEF n
    <3> QED BY <2>2, <2>4, <3>1, Sizing, SMTT(20)
  <2>6. \A d \in 0 .. WindowSize - 1 : At(v, d) = IF d = m.seq - n /\ At(r.win, d) = NoPkt
                                                  THEN m.elem ELSE At(r.win, d)
    BY <1>1, <1>2, <2>2, <2>5, Stored, SMTT(20)
  <2>7. \A d \in 0 .. WindowSize - 1 : d \in Int
    OBVIOUS
  <2>8. \A d \in 0 .. WindowSize - 1 : At(v, d) # NoPkt => At(v, d) = <<r.sess, n + d + 1>>
    BY <2>1, <2>5, <2>6, <2>7, Zenon
  <2>9. Alive(x) <=> Alive(r)
    BY <1>5, Zenon DEF Alive
  <2>10. Fits(x)
    BY <1>3, <1>5, <1>7, <2>8, <2>9, Zenon DEF Fits, Sound
  <2>11. (Gapless(r) => Gapless(x)) /\ (Ordered(r) => Ordered(x))
    BY <1>3, <1>5, Zenon DEF Gapless, Ordered
  <2> QED BY <1>5, <1>7, <2>10, <2>11, Zenon DEF Sound
<1>8. Becomes(r, x, quiet)
  BY <1>5, <1>6, <1>7, Zenon DEF Becomes
<1> QED BY <1>3, <1>5, <1>8, Zenon DEF x

\* RAW services start the window anew.
LEMMA RawAnew ==
    ASSUME NEW r, NEW quiet, ReceiverOK(r), r.conf.raw, NEW q \in Seqs
    PROVE  LET x == [RawDisconnect(r) EXCEPT !.win = EmptyWindow(q)]
           IN  /\ ReceiverOK(x) /\ x.conf = r.conf /\ x.known = r.known
               /\ x.sess = r.sess /\ x.fin = NoSeq /\ x.win = EmptyWindow(q)
               /\ q <= Top => Sound(x, quiet)
<1> DEFINE c == Disconnect(r)
           x == [RawDisconnect(r) EXCEPT !.win = EmptyWindow(q)]
<1>1. /\ ReceiverOK(c) /\ c.conf = r.conf /\ c.sess = r.sess /\ c.known = r.known
      /\ c.normal = {} /\ c.trace = << >>
  BY Cut, Zenon
<1>2. Expects(EmptyWindow(q), q) /\ q \in Int
  BY SeqNumItself, Emptied, Zenon
<1>3. Expects(EmptyWindow(q), EmptyWindow(q).next)
  BY <1>2, OwnPosition, Zenon
<1>4. NoSeq \in Seqs \cup {NoSeq} /\ << >> \in Seq(Packets)
  OBVIOUS
<1>5. EmptyWindow(q) \in Windows /\ c \in Receivers
  BY <1>1, <1>2, Zenon DEF Expects, ReceiverOK
<1>6. x = [[c EXCEPT !.fin = NoSeq, !.frag = << >>] EXCEPT !.win = EmptyWindow(q)]
  BY Zenon DEF RawDisconnect
<1> HIDE DEF c, x
<1>7. /\ x \in Receivers /\ x.conf = c.conf /\ x.known = c.known /\ x.sess = c.sess
      /\ x.win = EmptyWindow(q) /\ x.fin = NoSeq /\ x.frag = << >>
      /\ x.normal = c.normal /\ x.trace = c.trace
  BY <1>4, <1>5, <1>6, Zenon DEF Receivers
<1>8. ReceiverOK(x)
  BY <1>3, <1>7, Zenon DEF ReceiverOK
<1>9. q <= Top => Sound(x, quiet)
  <2>1. /\ x.normal = {} /\ x.trace = << >> /\ x.conf.raw
    BY <1>1, <1>7, Zenon
  <2> QED BY <1>7, <1>8, <2>1, Anew, Zenon
<1> QED BY <1>1, <1>7, <1>8, <1>9, Zenon DEF x

LEMMA Restarted ==
    ASSUME NEW r, NEW quiet, ReceiverOK(r), r.conf.raw, NEW m, MessageOK(m), m.kind = "DATA",
           ShortSessions => Truthful(m), m.sess = r.sess
    PROVE  Becomes(r, RawRestart(r, m), quiet) /\ RawRestart(r, m).known = r.known
<1> DEFINE y == [RawDisconnect(r) EXCEPT !.win = EmptyWindow(m.seq)]
           x == [y EXCEPT !.win = RecvPush(@, m.seq, m.elem)]
<1>1. m.seq \in Seqs
  BY Zenon DEF MessageOK, Messages
<1>2. /\ ReceiverOK(y) /\ y.conf = r.conf /\ y.known = r.known
      /\ y.sess = r.sess /\ y.fin = NoSeq /\ y.win = EmptyWindow(m.seq)
      /\ m.seq <= Top => Sound(y, quiet)
  BY <1>1, RawAnew, Zenon
<1>3. RecvAccepts(y.win, m.seq)
  <2>1. y.win.base = m.seq
    BY <1>2 DEF EmptyWindow
  <2>2. m.seq - m.seq = 0 /\ 0 \in 0 .. SeqSpace - 1 /\ SeqSpace \in Nat \ {0} /\ 0 \in Int /\ 0 < WindowSize
    BY <1>1, Sizing DEF Seqs
  <2>3. 0 % SeqSpace = 0
    BY <2>2, ModNear, Zenon
  <2> QED BY <2>1, <2>2, <2>3, Zenon DEF RecvAccepts, InWindow, SeqSub
<1>4. RawRestart(r, m) = x
  <2>1. RawDisconnect(r) = [Disconnect(r) EXCEPT !.fin = NoSeq, !.frag = << >>]
    BY Zenon DEF RawDisconnect
  <2>2. ReceiverOK(Disconnect(r))
    BY Cut, Zenon
  <2>3. Disconnect(r) \in Receivers
    BY <2>2, Zenon DEF ReceiverOK
  <2> DEFINE c == Disconnect(r)
  <2> HIDE DEF c
  <2>4. c \in Receivers
    BY <2>3, Zenon DEF c
  <2>5. [[c EXCEPT !.fin = NoSeq, !.frag = << >>] EXCEPT !.win = RecvPush(EmptyWindow(m.seq), m.seq, m.elem)]
        = [[[c EXCEPT !.fin = NoSeq, !.frag = << >>] EXCEPT !.win = EmptyWindow(m.seq)]
               EXCEPT !.win = RecvPush(@, m.seq, m.elem)]
    BY <2>4, Zenon DEF Receivers
  <2> QED BY <2>1, <2>5, Zenon DEF RawRestart, c
<1> HIDE DEF y
<1>5. Becomes(y, x, quiet) /\ x.known = y.known
  <2>1. m.sess = y.sess
    BY <1>2, Zenon
  <2> QED BY <1>2, <1>3, <2>1, Pushing, Zenon
<1> HIDE DEF x
<1>6. Becomes(r, x, quiet)
  <2>1. x.fin \in {r.fin, NoSeq}
    BY <1>2, <1>5, Zenon DEF Becomes
  <2> QED BY <1>2, <1>5, <2>1, Zenon DEF Becomes, Truthful
<1> QED BY <1>2, <1>4, <1>5, <1>6, Zenon

LEMMA GapFirst ==
    ASSUME NEW r, NEW quiet, ReceiverOK(r), NEW m, MessageOK(m), m.kind = "DATA",
           ShortSessions => Truthful(m), m.sess = r.sess, NEW late
    PROVE  LET x == GapBeforeDrain(r, m, late)
           IN  /\ Becomes(r, x, quiet) /\ x.known = r.known
               /\ ~r.conf.raw => Aside(r, x)
<1> DEFINE n == r.win.next
           w == GapWait(r, n, late)
           x == GapBeforeDrain(r, m, late)
<1>1. n \in Seqs /\ {n} \in SUBSET Seqs /\ NoSeq \in Seqs \cup {NoSeq}
  BY Fields, Zenon DEF ReceiverOK
<1>2. Aside(r, w)
  BY <1>1, Waited, Zenon
<1>3. ReceiverOK(w) /\ w.conf = r.conf /\ w.sess = r.sess /\ w.known = r.known
  BY <1>2, Zenon DEF Aside, Flow
<1>4. \A y : Aside(r, y) => Becomes(r, y, quiet) /\ y.known = r.known
  <2> SUFFICES ASSUME NEW y, Aside(r, y) PROVE Becomes(r, y, quiet) /\ y.known = r.known
    BY Zenon
  <2>1. Flow(y) = Flow(r)
    BY Zenon DEF Aside
  <2> QED BY <2>1, AsideBecomes, Zenon DEF Flow
<1>5. CASE ~NeedsNack(r.win)
  <2>1. x = [r EXCEPT !.reorder = NoSeq]
    BY <1>5, Zenon DEF GapBeforeDrain
  <2>2. Aside(r, [r EXCEPT !.reorder = NoSeq])
    BY <1>1, Reordered, Zenon
  <2> HIDE DEF x
  <2>3. Aside(r, x)
    BY <2>1, <2>2, Zenon
  <2> QED BY <1>4, <2>3, Zenon DEF x
<1>6. CASE NeedsNack(r.win) /\ ~GapReady(r, n, late)
  <2>1. x = w
    BY <1>6, Zenon DEF GapBeforeDrain
  <2> QED BY <1>2, <1>4, <2>1, Zenon
<1>7. CASE NeedsNack(r.win) /\ GapReady(r, n, late) /\ r.conf.raw
  <2>1. x = RawRestart(w, m)
    BY <1>7, Zenon DEF GapBeforeDrain
  <2> HIDE DEF x, w
  <2>2. Becomes(w, x, quiet) /\ x.known = w.known
    BY <1>3, <1>7, <2>1, Restarted, Zenon
  <2>3. Becomes(r, x, quiet)
    BY <1>2, <1>4, <2>2, BecomesTwice, Zenon
  <2> QED BY <1>3, <1>7, <2>2, <2>3, Zenon DEF x
<1>8. CASE NeedsNack(r.win) /\ GapReady(r, n, late) /\ ~r.conf.raw
  <2>1. x = SendNacks(w, {n})
    BY <1>8, Zenon DEF GapBeforeDrain
  <2> HIDE DEF x, w
  <2>2. Aside(w, x)
    BY <1>1, <1>3, <2>1, Asked, Zenon
  <2>3. Aside(r, x)
    BY <1>2, <2>2, AsideTwice, Zenon
  <2> QED BY <1>4, <2>3, Zenon DEF x
<1> QED BY <1>5, <1>6, <1>7, <1>8, Zenon

LEMMA AsideFlow ==
    ASSUME NEW r, NEW x, Aside(r, x)
    PROVE  /\ ReceiverOK(x) /\ x.conf = r.conf /\ x.known = r.known /\ x.sess = r.sess /\ x.win = r.win
           /\ x.fin = r.fin /\ x.frag = r.frag /\ x.trace = r.trace /\ x.old = r.old /\ x.dropped = r.dropped
  BY Zenon DEF Aside, Flow

LEMMA EndedSame ==
    ASSUME NEW r, NEW h, NEW d, NEW x, Ended(h, d), h.fin = r.fin, h.win.next = r.win.next,
           h.sess = r.sess, x.old = d.old, x.dropped = d.dropped
    PROVE  Ended(r, x)
  BY Zenon DEF Ended

\* thread_recv_window_accept_outer
LEMMA Accepted ==
    ASSUME NEW r, NEW quiet, ReceiverOK(r), r.known = TRUE, NEW m, MessageOK(m), m.kind = "DATA",
           ShortSessions => Truthful(m), m.sess = r.sess, NEW p \in Paths, NEW late, NEW later
    PROVE  LET x == AcceptOuter(r, m, p, late, later)
           IN  /\ Becomes(r, x, quiet) /\ x.known \in BOOLEAN
               /\ ShortSessions /\ Sound(r, quiet) /\ ~r.conf.raw /\ x.known = FALSE => Ended(r, x)
<1> DEFINE x == AcceptOuter(r, m, p, late, later)
<1>1. CASE ~RecvAccepts(r.win, m.seq) /\ ~r.conf.raw
  <2>1. x = r
    BY <1>1, Zenon DEF AcceptOuter
  <2> HIDE DEF x
  <2>2. Aside(r, r)
    <3>1. {} \in SUBSET Seqs
      BY Zenon
    <3> QED BY <3>1, Asked, Zenon
  <2>3. Becomes(r, x, quiet)
    BY <2>1, <2>2, AsideBecomes, Zenon
  <2>4. x.known = TRUE
    BY <2>1, Zenon
  <2> QED BY <2>3, <2>4, Zenon DEF x
<1>2. CASE RecvAccepts(r.win, m.seq) \/ r.conf.raw
  <2> DEFINE q == IF RecvAccepts(r.win, m.seq)
                  THEN [r EXCEPT !.win = RecvPush(@, m.seq, m.elem)]
                  ELSE RawRestart(r, m)
             g == GapBeforeDrain(q, m, late)
             h == UpdateHealth(g, p)
             d == Drain(h)
  <2>1. x = GapAfterDrain(d, later)
    BY <1>2, Zenon DEF AcceptOuter
  <2>2. /\ Becomes(r, q, quiet) /\ q.known = TRUE
        /\ ~r.conf.raw => q.fin = r.fin /\ q.win.next = r.win.next
    <3>1. CASE RecvAccepts(r.win, m.seq)
      <4>1. q = [r EXCEPT !.win = RecvPush(@, m.seq, m.elem)]
        BY <3>1, Zenon
      <4> HIDE DEF q
      <4> QED BY <3>1, <4>1, Pushing, Zenon
    <3>2. CASE ~RecvAccepts(r.win, m.seq)
      <4>1. q = RawRestart(r, m)
        BY <3>2, Zenon
      <4> HIDE DEF q
      <4> QED BY <1>2, <3>2, <4>1, Restarted, Zenon
    <3> QED BY <3>1, <3>2, Zenon
  <2> HIDE DEF q, x
  <2>3. ReceiverOK(q) /\ q.conf = r.conf /\ m.sess = q.sess
    BY <2>2, Zenon DEF Becomes
  <2>4. Becomes(q, g, quiet) /\ g.known = TRUE /\ (~r.conf.raw => Aside(q, g))
    BY <2>2, <2>3, GapFirst, Zenon
  <2> HIDE DEF g
  <2>5. ReceiverOK(g)
    BY <2>4, Zenon DEF Becomes
  <2>6. Aside(g, h)
    BY <2>5, Learned, Zenon
  <2> HIDE DEF h
  <2>7. ReceiverOK(h) /\ h.known = TRUE
    BY <2>4, <2>6, AsideFlow, Zenon
  <2>8. /\ Becomes(h, d, quiet) /\ d.known \in BOOLEAN
        /\ ShortSessions /\ Sound(h, quiet) /\ d.known = FALSE => Ended(h, d)
    BY <2>7, Draining, Zenon
  <2> HIDE DEF d
  <2>9. ReceiverOK(d)
    BY <2>8, Zenon DEF Becomes
  <2>10. Aside(d, x)
    BY <2>1, <2>9, GapAsked, Zenon
  <2>11. x.known = d.known /\ x.old = d.old /\ x.dropped = d.dropped
    BY <2>10, AsideFlow, Zenon
  <2>12. Becomes(r, h, quiet)
    <3>1. Becomes(r, g, quiet)
      BY <2>2, <2>4, BecomesTwice, Zenon
    <3>2. Becomes(g, h, quiet)
      BY <2>6, AsideBecomes, Zenon
    <3> QED BY <3>1, <3>2, BecomesTwice, Zenon
  <2>13. Becomes(r, x, quiet)
    <3>1. Becomes(r, d, quiet)
      BY <2>8, <2>12, BecomesTwice, Zenon
    <3>2. Becomes(d, x, quiet)
      BY <2>10, AsideBecomes, Zenon
    <3> QED BY <3>1, <3>2, BecomesTwice, Zenon
  <2>14. ASSUME ShortSessions, Sound(r, quiet), ~r.conf.raw, x.known = FALSE PROVE Ended(r, x)
    <3>1. Sound(h, quiet)
      BY <2>12, <2>14, Zenon DEF Becomes
    <3>2. Ended(h, d)
      BY <2>8, <2>11, <2>14, <3>1, Zenon
    <3>3. Aside(q, h)
      BY <2>4, <2>6, <2>14, AsideTwice, Zenon
    <3>4. h.fin = q.fin /\ h.win = q.win /\ h.sess = q.sess
      BY <3>3, AsideFlow, Zenon
    <3>5. h.fin = r.fin /\ h.win.next = r.win.next /\ h.sess = r.sess
      BY <2>2, <2>3, <2>14, <3>4, Zenon
    <3> QED BY <2>11, <3>2, <3>5, EndedSame, Zenon
  <2>15. x.known \in BOOLEAN
    BY <2>8, <2>11, Zenon
  <2> QED BY <2>13, <2>14, <2>15, Zenon DEF x
<1> QED BY <1>1, <1>2, Zenon

\* dispatch_ping
LEMMA Pinging ==
    ASSUME NEW r, NEW quiet, ReceiverOK(r), NEW m, MessageOK(m), ShortSessions => Truthful(m),
           NEW p \in Paths, NEW late
    PROVE  Becomes(r, OnPing(r, m, p, late), quiet) /\ OnPing(r, m, p, late).known = r.known
<1> DEFINE h == UpdateHealth(r, p)
           n == h.win.next
           w == GapWait(h, n, late)
           x == OnPing(r, m, p, late)
<1>1. Aside(r, h)
  BY Learned, Zenon
<1>2. ReceiverOK(h) /\ h.known = r.known /\ h.conf = r.conf
  BY <1>1, AsideFlow, Zenon
<1>3. Becomes(r, h, quiet)
  BY <1>1, AsideBecomes, Zenon
<1>4. \A y : Aside(h, y) => Becomes(r, y, quiet) /\ y.known = r.known
  BY <1>2, <1>3, AsideFlow, AsideBecomes, BecomesTwice, Zenon
<1>5. CASE ~r.conf.raw
  <2>1. x = Scan(h, m, late)
    BY <1>5, Zenon DEF OnPing
  <2> HIDE DEF x, h
  <2>2. Aside(h, x)
    BY <1>2, <2>1, Scanned, Zenon
  <2> QED BY <1>4, <2>2, Zenon DEF x
<1>6. CASE r.conf.raw
  <2>1. x = RawScan(h, m, late)
    BY <1>6, Zenon DEF OnPing
  <2> HIDE DEF x, h
  <2>2. n \in Seqs /\ m.seq \in Seqs /\ NoSeq \in Seqs \cup {NoSeq}
    BY <1>2, Fields, Zenon DEF ReceiverOK, MessageOK, Messages
  <2>3. Aside(h, w) /\ Aside(h, [h EXCEPT !.reorder = NoSeq])
    BY <1>2, <2>2, Waited, Reordered, Zenon
  <2>4. x \in {w, [h EXCEPT !.reorder = NoSeq], [RawDisconnect(w) EXCEPT !.win = EmptyWindow(m.seq)]}
    BY <2>1, Zenon DEF RawScan
  <2> HIDE DEF w
  <2>5. CASE x = [RawDisconnect(w) EXCEPT !.win = EmptyWindow(m.seq)]
    <3>1. ReceiverOK(w) /\ w.conf = h.conf /\ w.known = h.known /\ w.sess = h.sess
      BY <2>3, AsideFlow, Zenon
    <3>2. w.conf.raw
      BY <1>2, <1>6, <3>1, Zenon
    <3>3. /\ ReceiverOK(x) /\ x.conf = w.conf /\ x.known = w.known /\ x.sess = w.sess /\ x.fin = NoSeq
          /\ m.seq <= Top => Sound(x, quiet)
      BY <2>2, <2>5, <3>1, <3>2, RawAnew, ZenonT(30)
    <3>4. x.fin \in {h.fin, NoSeq}
      BY <3>3, Zenon
    <3>5. Becomes(h, x, quiet)
      BY <3>1, <3>3, <3>4, Zenon DEF Becomes, Truthful
    <3>6. Becomes(r, x, quiet)
      BY <1>3, <3>5, BecomesTwice, Zenon
    <3> QED BY <1>2, <3>1, <3>3, <3>6, Zenon DEF x
  <2>6. CASE x = w
    BY <1>4, <2>3, <2>6, Zenon DEF x
  <2>7. CASE x = [h EXCEPT !.reorder = NoSeq]
    <3>1. Aside(h, x)
      BY <2>3, <2>7, Zenon
    <3> QED BY <1>4, <3>1, Zenon DEF x
  <2> QED BY <2>4, <2>5, <2>6, <2>7, Zenon
<1> QED BY <1>5, <1>6, Zenon

\* potr_internal_window_recv_skip after a disconnection
Silent(r) == r.normal = {} /\ r.trace = << >>

Passes(r, x, n) == x.win.next = r.win.next \/ (r.win.next = n /\ x.win.next = n + 1)

SkipTo(r, n) == [r EXCEPT !.reorder = NoSeq, !.win = RecvSkip(@, n)]

LEMMA Skipped ==
    ASSUME NEW r, NEW quiet, ReceiverOK(r), Silent(r), NEW n
    PROVE  LET x == SkipTo(r, n)
           IN  /\ ReceiverOK(x) /\ x.conf = r.conf /\ x.known = r.known /\ x.sess = r.sess /\ x.fin = r.fin
               /\ ShortSessions /\ Sound(r, quiet) /\ n < Top => Sound(x, quiet) /\ Passes(r, x, n)
<1> DEFINE x == SkipTo(r, n)
           v == RecvSkip(r.win, n)
           b == r.win.next
<1>1. /\ r \in Receivers /\ Expects(r.win, b) /\ b \in Seqs /\ b \in Int /\ b \in Nat
      /\ r.old \in SUBSET Packets /\ r.frag \in Seq(Packets) /\ r.sess \in Nat /\ r.known \in BOOLEAN
  BY Fields, Sizing, SessionsAreNat, Zenon DEF ReceiverOK
<1>2. /\ Expects(RecvAdvance(r.win), b + 1) /\ At(RecvAdvance(r.win), WindowSize - 1) = NoPkt
      /\ \A d \in 0 .. WindowSize - 2 : At(RecvAdvance(r.win), d) = At(r.win, d + 1)
  BY <1>1, MovedOn, Zenon
<1>3. Expects(v, v.next) /\ v \in Windows
  <2>1. b + 1 \in Int
    BY <1>1
  <2>2. Expects(RecvAdvance(r.win), RecvAdvance(r.win).next)
    BY <1>2, <2>1, OwnPosition, Zenon
  <2>3. v = RecvAdvance(r.win) \/ v = r.win
    BY Zenon DEF RecvSkip
  <2>4. Expects(v, v.next)
    BY <1>1, <2>2, <2>3, Zenon
  <2> QED BY <2>4, Zenon DEF Expects
<1>4. NoSeq \in Seqs \cup {NoSeq}
  BY Zenon
<1>5. /\ x \in Receivers /\ x.win = v /\ x.conf = r.conf /\ x.known = r.known /\ x.sess = r.sess
      /\ x.fin = r.fin /\ x.normal = r.normal /\ x.heard = r.heard /\ x.frag = r.frag
      /\ x.trace = r.trace /\ x.old = r.old /\ x.dropped = r.dropped
  BY <1>1, <1>3, <1>4, Zenon DEF Receivers, SkipTo
<1> HIDE DEF x
<1>6. ReceiverOK(x)
  BY <1>3, <1>5, Zenon DEF ReceiverOK
<1>7. ASSUME ShortSessions, Sound(r, quiet), n < Top
      PROVE  Sound(x, quiet) /\ Passes(r, x, n)
  <2>1. CASE b # n
    <3>1. v = r.win
      BY <2>1, Zenon DEF RecvSkip
    <3>2. Alive(x) <=> Alive(r)
      BY <1>5, Zenon DEF Alive
    <3>3. Sound(x, quiet)
      BY <1>5, <1>7, <3>1, <3>2, Zenon DEF Sound, Fits, Gapless, Ordered
    <3> QED BY <1>5, <3>1, <3>3, Zenon DEF Passes
  <2>2. CASE b = n
    <3>1. v = RecvAdvance(r.win)
      BY <2>2, Zenon DEF RecvSkip
    <3>2. b + 1 \in Seqs /\ b + 1 <= Top
      <4>1. b \in Nat /\ b < Top
        BY <1>1, <1>7, <2>2, Zenon
      <4> HIDE DEF b
      <4> QED BY <4>1, Sizing DEF Top, Seqs
    <3>3. x.win.next = b + 1
      BY <1>2, <1>5, <3>1, <3>2, SeqNumItself, Zenon DEF Expects
    <3>4. \A d \in 0 .. WindowSize - 1 : At(r.win, d) # NoPkt => At(r.win, d) = <<r.sess, b + d + 1>>
      BY <1>7, Zenon DEF Sound, Fits
    <3>5. ASSUME NEW d \in 0 .. WindowSize - 1, At(x.win, d) # NoPkt
          PROVE  At(x.win, d) = <<x.sess, x.win.next + d + 1>>
      <4>1. d # WindowSize - 1
        BY <1>2, <1>5, <3>1, <3>5, Zenon
      <4>2. d \in 0 .. WindowSize - 2 /\ d + 1 \in 0 .. WindowSize - 1 /\ b + (d + 1) + 1 = (b + 1) + d + 1
        <5>1. b \in Nat
          BY <1>1, Zenon
        <5> HIDE DEF b
        <5> QED BY <4>1, <5>1, Sizing
      <4>3. At(x.win, d) = At(r.win, d + 1)
        BY <1>2, <1>5, <3>1, <4>2, Zenon
      <4>4. At(r.win, d + 1) = <<r.sess, b + (d + 1) + 1>>
        BY <3>4, <3>5, <4>2, <4>3, Zenon
      <4> QED BY <1>5, <3>3, <4>2, <4>3, <4>4, Zenon
    <3>6. Fits(x)
      <4>1. x.normal \subseteq x.heard /\ x.win.next <= Top /\ x.trace = << >>
        BY <1>5, <3>2, <3>3, Zenon DEF Silent
      <4> QED BY <3>5, <4>1, Zenon DEF Fits
    <3>7. ASSUME Fragments = {} PROVE Gapless(x)
      <4>1. x.frag = << >> /\ x.trace = << >> /\ Len(<< >>) = 0
        BY <1>5, <1>7, <3>7, Zenon DEF Sound, Gapless, Silent
      <4> QED BY <4>1 DEF Gapless, Chain
    <3>8. ASSUME quiet, ~x.conf.raw PROVE Ordered(x)
      <4>1. r.fin = NoSeq /\ History(r.old, r.trace, r.frag, r.known, r.sess, b)
        BY <1>5, <1>7, <3>8, Zenon DEF Sound, Ordered
      <4>2. << >> \in Seq(Packets)
        OBVIOUS
      <4>3. History(r.old, r.trace, r.frag, r.known, r.sess, b + 1)
        BY <1>1, <4>1, <4>2, HistoryNew, Zenon DEF Silent
      <4> QED BY <1>5, <3>3, <4>1, <4>3, Zenon DEF Ordered
    <3>9. Sound(x, quiet)
      BY <3>6, <3>7, <3>8, Zenon DEF Sound
    <3> QED BY <2>2, <3>3, <3>9, Zenon DEF Passes
  <2> QED BY <2>1, <2>2, Zenon
<1> QED BY <1>5, <1>6, <1>7, Zenon DEF x

\* The session of r ended in x, after its last packet; number n was rejected.
EndedBut(r, x, n) ==
    /\ r.fin # NoSeq
    /\ Fragments = {} =>
         \A k \in Nat : r.win.next < k /\ k <= r.fin => <<r.sess, k>> \in x.old \cup x.dropped \/ n = k - 1

\* thread_recv_window_on_reject
LEMMA Rejecting ==
    ASSUME NEW r, NEW quiet, ReceiverOK(r), r.known = TRUE, NEW n, ShortSessions => n < Top
    PROVE  LET x == Drain([Disconnect(r) EXCEPT !.reorder = NoSeq, !.win = RecvSkip(@, n)])
           IN  /\ Becomes(r, x, quiet) /\ x.known \in BOOLEAN
               /\ ShortSessions /\ Sound(r, quiet) /\ x.known = FALSE => EndedBut(r, x, n)
<1> DEFINE c == Disconnect(r)
           s == SkipTo(c, n)
           x == Drain(s)
<1>1. /\ Becomes(r, c, quiet) /\ ReceiverOK(c) /\ c.conf = r.conf /\ c.known = TRUE /\ c.sess = r.sess
      /\ c.win = r.win /\ c.fin = r.fin /\ c.normal = {} /\ c.trace = << >>
  BY Cut, CutBecomes, Zenon
<1> HIDE DEF c
<1>2. /\ ReceiverOK(s) /\ s.conf = c.conf /\ s.known = c.known /\ s.sess = c.sess /\ s.fin = c.fin
      /\ ShortSessions /\ Sound(c, quiet) /\ n < Top => Sound(s, quiet) /\ Passes(c, s, n)
  <2>1. ReceiverOK(c) /\ Silent(c)
    BY <1>1, Zenon DEF Silent
  <2> QED BY <2>1, Skipped, Zenon
<1> HIDE DEF s
<1>3. Becomes(r, s, quiet)
  <2>1. s.fin \in {c.fin, NoSeq}
    BY <1>2, Zenon
  <2>2. Becomes(c, s, quiet)
    BY <1>2, <2>1, Zenon DEF Becomes
  <2> QED BY <1>1, <2>2, BecomesTwice, Zenon
<1>4. s.known = TRUE
  BY <1>1, <1>2, Zenon
<1>5. /\ Becomes(s, x, quiet) /\ x.known \in BOOLEAN
      /\ ShortSessions /\ Sound(s, quiet) /\ x.known = FALSE => Ended(s, x)
  BY <1>2, <1>4, Draining, Zenon
<1> HIDE DEF x
<1>6. Becomes(r, x, quiet)
  BY <1>3, <1>5, BecomesTwice, Zenon
<1>7. ASSUME ShortSessions, Sound(r, quiet), x.known = FALSE PROVE EndedBut(r, x, n)
  <2>1. Sound(c, quiet) /\ Sound(s, quiet)
    BY <1>1, <1>3, <1>7, Zenon DEF Becomes
  <2>2. Ended(s, x)
    BY <1>5, <1>7, <2>1, Zenon
  <2>3. s.win.next = r.win.next \/ (r.win.next = n /\ s.win.next = n + 1)
    BY <1>1, <1>2, <1>7, <2>1, Zenon DEF Passes
  <2>4. s.fin = r.fin /\ s.sess = r.sess
    BY <1>1, <1>2, Zenon
  <2>5. r.win.next \in Nat
    BY Fields, Sizing, Zenon DEF ReceiverOK
  <2>6. ASSUME Fragments = {}, NEW k \in Nat, r.win.next < k, k <= r.fin
        PROVE  <<r.sess, k>> \in x.old \cup x.dropped \/ n = k - 1
    <3>1. s.win.next < k \/ n = k - 1
      BY <2>3, <2>5, <2>6
    <3>2. ASSUME s.win.next < k PROVE <<r.sess, k>> \in x.old \cup x.dropped
      BY <2>2, <2>4, <2>6, <3>2, Zenon DEF Ended
    <3> QED BY <3>1, <3>2, Zenon
  <2> QED BY <2>2, <2>4, <2>6, Zenon DEF Ended, EndedBut
<1> QED BY <1>5, <1>6, <1>7, Zenon DEF x, s, c, SkipTo

\* The receiver knows the session of the packet, and the path it came on.
LEMMA Greeted ==
    ASSUME NEW r, NEW quiet, ReceiverOK(r), NEW m, MessageOK(m), ShortSessions => Truthful(m),
           ~Outdated(r, m), NEW p \in Paths
    PROVE  LET a == LearnPath(Adopt(r, m), p)
           IN  /\ ReceiverOK(a) /\ a.conf = r.conf /\ a.known = TRUE /\ a.sess = m.sess
               /\ a.fin = NoSeq \/ (m.sess = r.sess /\ a.fin = r.fin)
               /\ r.known = TRUE /\ m.sess = r.sess => a.win = r.win /\ a.fin = r.fin
               /\ ShortSessions /\ Sound(r, quiet) => Sound(a, quiet)
<1> DEFINE b == Adopt(r, m)
           a == LearnPath(b, p)
<1>1. m.sess \in Sessions /\ m.seq \in Seqs
  BY Zenon DEF MessageOK, Messages
<1>2. /\ ReceiverOK(b) /\ b.conf = r.conf /\ b.known /\ b.sess = m.sess
      /\ b = r \/ (b.fin = NoSeq /\ ~(r.known /\ m.sess = r.sess))
      /\ ShortSessions /\ m.seq <= Top /\ Sound(r, quiet) => Sound(b, quiet)
  BY <1>1, Adopted, Zenon
<1> HIDE DEF b
<1>3. Aside(b, a)
  BY <1>2, Learned, Zenon
<1>4. Becomes(b, a, quiet)
  BY <1>3, AsideBecomes, Zenon
<1> HIDE DEF a
<1>5. ReceiverOK(a) /\ a.conf = b.conf /\ a.known = b.known /\ a.sess = b.sess /\ a.win = b.win /\ a.fin = b.fin
  BY <1>3, AsideFlow, Zenon
<1>6. b.known = TRUE
  <2>1. b.known \in BOOLEAN
    BY <1>2, Fields, Zenon DEF ReceiverOK
  <2> QED BY <1>2, <2>1, Zenon
<1>7. ShortSessions /\ Sound(r, quiet) => Sound(a, quiet)
  BY <1>2, <1>4, Zenon DEF Becomes, Truthful
<1>8. a.fin = NoSeq \/ (m.sess = r.sess /\ a.fin = r.fin)
  BY <1>2, <1>5, Zenon
<1>9. r.known = TRUE /\ m.sess = r.sess => a.win = r.win /\ a.fin = r.fin
  BY <1>2, <1>5, Zenon
<1> QED BY <1>2, <1>5, <1>6, <1>7, <1>8, <1>9, Zenon DEF a, b

\* thread_recv_fin_on_packet
LEMMA Finishing ==
    ASSUME NEW r, ReceiverOK(r), NEW n \in Seqs \cup {NoSeq}
    PROVE  LET x == IF n # NoSeq /\ n # r.win.next THEN [r EXCEPT !.fin = n] ELSE FinFire(r)
           IN  /\ ReceiverOK(x) /\ x.conf = r.conf /\ x.sess = r.sess /\ x.fin \in {n, NoSeq}
               /\ x.known = r.known \/ n = NoSeq \/ n = r.win.next
               /\ Sound(r, FALSE) => Sound(x, FALSE)
<1> DEFINE x == IF n # NoSeq /\ n # r.win.next THEN [r EXCEPT !.fin = n] ELSE FinFire(r)
<1>1. CASE n # NoSeq /\ n # r.win.next
  <2>1. x = [r EXCEPT !.fin = n]
    BY <1>1, Zenon
  <2>2. r \in Receivers
    BY Zenon DEF ReceiverOK
  <2> HIDE DEF x
  <2>3. /\ x \in Receivers /\ x.win = r.win /\ x.conf = r.conf /\ x.known = r.known /\ x.sess = r.sess
        /\ x.fin = n /\ x.normal = r.normal /\ x.heard = r.heard /\ x.frag = r.frag
        /\ x.trace = r.trace
    BY <2>1, <2>2, Zenon DEF Receivers
  <2>4. ReceiverOK(x)
    BY <2>3, Zenon DEF ReceiverOK
  <2>5. Alive(x) <=> Alive(r)
    BY <2>3, Zenon DEF Alive
  <2>6. Sound(r, FALSE) => Sound(x, FALSE)
    BY <2>3, <2>5, Zenon DEF Sound, Fits, Gapless
  <2>7. x.fin \in {n, NoSeq}
    BY <2>3, Zenon
  <2> QED BY <2>3, <2>4, <2>6, <2>7, Zenon DEF x
<1>2. CASE ~(n # NoSeq /\ n # r.win.next)
  <2>1. x = FinFire(r)
    BY <1>2, Zenon
  <2> HIDE DEF x
  <2>2. ReceiverOK(x) /\ x.conf = r.conf /\ x.sess = r.sess /\ x.fin = NoSeq
    BY <2>1, Fired, Zenon
  <2>3. Sound(r, FALSE) => Sound(x, FALSE)
    BY <2>1, FiredSound, Zenon
  <2>4. x.fin \in {n, NoSeq}
    BY <2>2, Zenon
  <2> QED BY <1>2, <2>2, <2>3, <2>4, Zenon DEF x
<1> QED BY <1>1, <1>2, Zenon

\* Where a receiver may be after packet m.
Follows(r, m, x) ==
    /\ ReceiverOK(x) /\ x.conf = r.conf
    /\ x.sess \in {r.sess, m.sess}
    /\ \/ x.fin = NoSeq
       \/ x.sess = r.sess /\ x.fin = r.fin
       \/ m.kind = "FIN" /\ x.sess = m.sess /\ x.fin = m.ack

\* The packet m ended the session of r.
Done(r, m, x) ==
    \/ m.kind = "FIN" /\ (m.ack = NoSeq \/ m.ack = r.win.next)
    \/ Ended(r, x)
    \/ m.kind = "REJECT" /\ EndedBut(r, x, m.ack)

\* thread_recv_dispatch_packet
LEMMA Dispatched ==
    ASSUME NEW r, NEW quiet \in BOOLEAN, ReceiverOK(r), NEW m, MessageOK(m), ShortSessions => Truthful(m),
           m.kind = "FIN" => quiet = FALSE, NEW p \in Paths, NEW late, NEW later
    PROVE  LET x == Dispatch(r, m, p, late, later)
           IN  /\ Follows(r, m, x)
               /\ ShortSessions /\ Sound(r, quiet) =>
                    /\ Sound(x, quiet)
                    /\ ~r.conf.raw /\ r.known = TRUE /\ x.known = FALSE =>
                         ~(m.sess < r.sess) /\ (m.sess = r.sess => Done(r, m, x))
<1> DEFINE a == LearnPath(Adopt(r, m), p)
           x == Dispatch(r, m, p, late, later)
<1>1. m.kind \in {"DATA", "PING", "REJECT", "FIN"} /\ m.ack \in Seqs \cup {NoSeq}
  BY Zenon DEF MessageOK, Messages
<1>2. CASE x = r
  <2> HIDE DEF x
  <2>1. Follows(r, m, x)
    BY <1>2, Zenon DEF Follows
  <2>2. ~(r.known = TRUE /\ x.known = FALSE)
    BY <1>2, Zenon
  <2> QED BY <1>2, <2>1, <2>2, Zenon DEF x
<1>3. ASSUME ~Outdated(r, m)
      PROVE  /\ ReceiverOK(a) /\ a.conf = r.conf /\ a.known = TRUE /\ a.sess = m.sess
             /\ a.fin = NoSeq \/ (m.sess = r.sess /\ a.fin = r.fin)
             /\ r.known = TRUE /\ m.sess = r.sess => a.win = r.win /\ a.fin = r.fin
             /\ ShortSessions /\ Sound(r, quiet) => Sound(a, quiet)
  BY <1>3, Greeted, Zenon
<1> HIDE DEF a
<1>4. ASSUME NEW y, ~Outdated(r, m), Becomes(a, y, quiet) PROVE Follows(r, m, y)
  <2>1. ReceiverOK(y) /\ y.conf = r.conf /\ y.sess = m.sess /\ (y.fin = a.fin \/ y.fin = NoSeq)
    BY <1>3, <1>4, Zenon DEF Becomes
  <2> QED BY <1>3, <1>4, <2>1, Zenon DEF Follows
<1>5. ASSUME NEW y, ~Outdated(r, m), Becomes(a, y, quiet), ShortSessions, Sound(r, quiet)
      PROVE  Sound(y, quiet)
  BY <1>3, <1>5, Zenon DEF Becomes
<1>6. ASSUME r.known = TRUE, ~Outdated(r, m) PROVE ~(m.sess < r.sess)
  BY <1>6, Zenon DEF Outdated
<1>7. ASSUME ~Outdated(r, m), r.known = TRUE, m.sess = r.sess
      PROVE  a.fin = r.fin /\ a.win.next = r.win.next /\ a.sess = r.sess
  BY <1>3, <1>7, Zenon
<1>8. CASE m.kind = "FIN" /\ ~Outdated(r, m)
  <2> DEFINE b == Adopt(r, m)
  <2>1. x = IF m.ack # NoSeq /\ m.ack # b.win.next THEN [b EXCEPT !.fin = m.ack] ELSE FinFire(b)
    BY <1>8, Zenon DEF Dispatch, OnFin
  <2>2. m.sess \in Sessions /\ m.seq \in Seqs
    BY Zenon DEF MessageOK, Messages
  <2>3. /\ ReceiverOK(b) /\ b.conf = r.conf /\ b.known /\ b.sess = m.sess
        /\ b = r \/ (b.fin = NoSeq /\ ~(r.known /\ m.sess = r.sess))
        /\ ShortSessions /\ m.seq <= Top /\ Sound(r, quiet) => Sound(b, quiet)
    BY <1>8, <2>2, Adopted, Zenon
  <2> HIDE DEF b, x
  <2>4. /\ ReceiverOK(x) /\ x.conf = b.conf /\ x.sess = b.sess /\ x.fin \in {m.ack, NoSeq}
        /\ x.known = b.known \/ m.ack = NoSeq \/ m.ack = b.win.next
        /\ Sound(b, FALSE) => Sound(x, FALSE)
    BY <1>1, <2>1, <2>3, Finishing, Zenon
  <2>5. Follows(r, m, x)
    BY <1>8, <2>3, <2>4, Zenon DEF Follows
  <2>6. quiet = FALSE
    BY <1>8, Zenon
  <2>7. ShortSessions /\ Sound(r, quiet) => Sound(x, quiet)
    BY <2>3, <2>4, <2>6, Zenon DEF Truthful
  <2>8. ASSUME r.known = TRUE, x.known = FALSE, m.sess = r.sess PROVE Done(r, m, x)
    <3>1. b = r
      BY <2>3, <2>8, Zenon
    <3>2. x.known # b.known
      BY <2>8, <3>1, Zenon
    <3> QED BY <1>8, <2>4, <3>1, <3>2, Zenon DEF Done
  <2> QED BY <1>6, <1>8, <2>5, <2>7, <2>8, Zenon DEF x
<1>9. CASE m.kind = "REJECT" /\ ~r.conf.raw /\ ~Outdated(r, m)
  <2>1. x = Drain([Disconnect(a) EXCEPT !.reorder = NoSeq, !.win = RecvSkip(@, m.ack)])
    BY <1>9, Zenon DEF Dispatch, OnReject, a
  <2> HIDE DEF x
  <2>2. /\ Becomes(a, x, quiet)
        /\ ShortSessions /\ Sound(a, quiet) /\ x.known = FALSE => EndedBut(a, x, m.ack)
    <3>1. ShortSessions => m.ack < Top
      BY <1>9, Zenon DEF Truthful
    <3> QED BY <1>3, <1>9, <2>1, <3>1, Rejecting, Zenon
  <2>3. ASSUME ShortSessions, Sound(r, quiet), r.known = TRUE, x.known = FALSE, m.sess = r.sess
        PROVE  Done(r, m, x)
    <3>1. EndedBut(a, x, m.ack)
      BY <1>3, <1>9, <2>2, <2>3, Zenon
    <3>2. EndedBut(r, x, m.ack)
      BY <1>7, <1>9, <2>3, <3>1, Zenon DEF EndedBut
    <3> QED BY <1>9, <3>2, Zenon DEF Done
  <2> QED BY <1>4, <1>5, <1>6, <1>9, <2>2, <2>3, Zenon DEF x
<1>10. CASE m.kind = "PING" /\ ~Outdated(r, m)
  <2>1. x = OnPing(a, m, p, late)
    BY <1>10, Zenon DEF Dispatch, a
  <2> HIDE DEF x
  <2>2. Becomes(a, x, quiet) /\ x.known = a.known
    BY <1>3, <1>10, <2>1, Pinging, Zenon
  <2>3. x.known = TRUE
    BY <1>3, <1>10, <2>2, Zenon
  <2> QED BY <1>4, <1>5, <1>10, <2>2, <2>3, Zenon DEF x
<1>11. CASE m.kind = "DATA" /\ ~Outdated(r, m)
  <2>1. x = AcceptOuter(a, m, p, late, later)
    BY <1>11, Zenon DEF Dispatch, a
  <2> HIDE DEF x
  <2>2. m.sess = a.sess /\ a.known = TRUE /\ ReceiverOK(a) /\ a.conf = r.conf
    BY <1>3, <1>11, Zenon
  <2>3. /\ Becomes(a, x, quiet)
        /\ ShortSessions /\ Sound(a, quiet) /\ ~a.conf.raw /\ x.known = FALSE => Ended(a, x)
    BY <1>11, <2>1, <2>2, Accepted, Zenon
  <2>4. ASSUME ShortSessions, Sound(r, quiet), ~r.conf.raw, r.known = TRUE, x.known = FALSE, m.sess = r.sess
        PROVE  Done(r, m, x)
    <3>1. Ended(a, x)
      BY <1>3, <1>11, <2>2, <2>3, <2>4, Zenon
    <3>2. Ended(r, x)
      BY <1>7, <1>11, <2>4, <3>1, EndedSame, Zenon
    <3> QED BY <3>2, Zenon DEF Done
  <2> QED BY <1>4, <1>5, <1>6, <1>11, <2>3, <2>4, Zenon DEF x
<1>12. CASE Outdated(r, m) \/ (m.kind = "REJECT" /\ r.conf.raw)
  <2>1. x = r
    BY <1>1, <1>12, Zenon DEF Dispatch
  <2> QED BY <1>2, <2>1, Zenon
<1> QED BY <1>1, <1>8, <1>9, <1>10, <1>11, <1>12, Zenon

-----------------------------------------------------------------------------
\* The quiet poll

\* thread_recv_health_check_service.  A path counts as NORMAL only while there is
\* a time it was heard of, so the last case does not arise.
LEMMA Checked ==
    ASSUME NEW r, NEW quiet, ReceiverOK(r), NEW expired \in SUBSET Paths
    PROVE  LET x == HealthCheck(r, expired)
           IN  Becomes(r, x, quiet) /\ (Sound(r, quiet) => x.known = r.known)
<1> DEFINE s == [r EXCEPT !.normal = @ \ expired, !.heard = @ \ expired, !.ports = @ \ expired]
           y == IF s.normal = {} THEN Disconnect(s) ELSE s
           x == HealthCheck(r, expired)
<1>1. r \in Receivers /\ Expects(r.win, r.win.next)
  BY Zenon DEF ReceiverOK
<1>2. /\ r.normal \ expired \in SUBSET Paths /\ r.heard \ expired \in SUBSET Paths
      /\ r.ports \ expired \in SUBSET Paths /\ r.trace \in Seq(Packets) /\ r.old \in SUBSET Packets
  BY <1>1, Fields, Zenon
<1>3. /\ s \in Receivers /\ s.conf = r.conf /\ Flow(s) = Flow(r) /\ s.win = r.win
      /\ s.normal = r.normal \ expired /\ s.heard = r.heard \ expired /\ s.ports = r.ports \ expired
  BY <1>1, <1>2, Zenon DEF Receivers, Flow
<1> HIDE DEF s
<1>4. ReceiverOK(s)
  BY <1>1, <1>3, Zenon DEF ReceiverOK
<1>5. x = IF ~Alive(y) \/ ~r.stamped \/ r.heard # expired THEN y ELSE FinFire(y)
  BY ZenonT(30) DEF HealthCheck, FinFire, s
<1>6. Becomes(r, y, quiet) /\ y.known = r.known /\ (Sound(r, quiet) /\ r.heard = expired => ~Alive(y))
  <2>0. /\ s.known = r.known /\ s.sess = r.sess /\ s.fin = r.fin /\ s.frag = r.frag
        /\ s.trace = r.trace /\ s.old = r.old
    BY <1>3, Zenon DEF Flow
  <2>1. CASE s.normal # {}
    <3>1. y = s
      BY <2>1, Zenon
    <3>2. r.normal \subseteq r.heard => s.normal \subseteq s.heard
      BY <1>3, Zenon
    <3>3. Alive(s)
      BY <2>1, Zenon DEF Alive
    <3>4. Sound(r, quiet) => Sound(s, quiet)
      BY <1>3, <2>0, <3>2, <3>3, Zenon DEF Sound, Fits, Gapless, Ordered
    <3>5. s.fin \in {r.fin, NoSeq}
      BY <2>0, Zenon
    <3>6. Becomes(r, s, quiet)
      BY <1>3, <1>4, <2>0, <3>4, <3>5, Zenon DEF Becomes
    <3>7. ~(Sound(r, quiet) /\ r.heard = expired)
      BY <1>3, <2>1, Zenon DEF Sound, Fits
    <3> QED BY <2>0, <3>1, <3>6, <3>7, Zenon
  <2>2. CASE s.normal = {}
    <3> DEFINE c == Disconnect(r)
               d == Disconnect(s)
    <3>1. y = d
      BY <2>2, Zenon
    <3>2. /\ ReceiverOK(c) /\ c.conf = r.conf /\ c.known = r.known /\ c.sess = r.sess
          /\ c.win = r.win /\ c.fin = r.fin /\ c.frag = r.frag /\ c.dropped = r.dropped
          /\ c.heard = r.heard /\ c.normal = {} /\ c.trace = << >>
          /\ c.old = r.old \cup Range(r.trace)
      BY Cut, Zenon
    <3>3. /\ ReceiverOK(d) /\ d.conf = s.conf /\ d.known = s.known /\ d.sess = s.sess
          /\ d.win = s.win /\ d.fin = s.fin /\ d.frag = s.frag /\ d.dropped = s.dropped
          /\ d.heard = s.heard /\ d.normal = {} /\ d.trace = << >>
          /\ d.old = s.old \cup Range(s.trace)
      BY <1>4, Cut, Zenon
    <3>4. Becomes(r, c, quiet)
      BY CutBecomes, Zenon
    <3> HIDE DEF c, d
    <3>5. s.dropped = r.dropped
      BY <1>3, Zenon DEF Flow
    <3>6. Aside(c, d)
      <4>1. Flow(d) = Flow(c)
        BY <1>3, <2>0, <3>2, <3>3, <3>5, Zenon DEF Flow
      <4>2. c.normal \subseteq d.normal /\ d.normal \subseteq d.heard
        BY <3>2, <3>3, Zenon
      <4>3. d.conf = c.conf
        BY <1>3, <3>2, <3>3, Zenon
      <4> QED BY <3>3, <4>1, <4>2, <4>3, Zenon DEF Aside
    <3>7. Becomes(r, d, quiet)
      BY <3>4, <3>6, AsideBecomes, BecomesTwice, Zenon
    <3>8. ~Alive(d)
      BY <3>3, Zenon DEF Alive
    <3>9. d.known = r.known
      BY <2>0, <3>3, Zenon
    <3> QED BY <3>1, <3>7, <3>8, <3>9, Zenon
  <2> QED BY <2>1, <2>2, Zenon
<1> HIDE DEF y, x
<1>7. CASE ~Alive(y) \/ ~r.stamped \/ r.heard # expired
  <2>1. x = y
    BY <1>5, <1>7, Zenon
  <2> QED BY <1>6, <2>1, Zenon DEF x
<1>8. CASE Alive(y) /\ r.heard = expired /\ x = FinFire(y)
  <2>1. ReceiverOK(y)
    BY <1>6, Zenon DEF Becomes
  <2>2. ReceiverOK(x) /\ x.conf = y.conf /\ x.sess = y.sess /\ x.fin = NoSeq
    BY <1>8, <2>1, Fired, Zenon
  <2>3. ~Sound(r, quiet)
    BY <1>6, <1>8, Zenon
  <2>4. x.fin \in {r.fin, NoSeq}
    BY <2>2, Zenon
  <2>5. Becomes(r, x, quiet)
    BY <1>6, <2>2, <2>3, <2>4, Zenon DEF Becomes
  <2> QED BY <2>3, <2>5, Zenon DEF x
<1> QED BY <1>5, <1>7, <1>8, Zenon

\* thread_recv_window_check_reorder_timeout
LEMMA ReorderChecked ==
    ASSUME NEW r, NEW quiet, ReceiverOK(r), NEW late
    PROVE  LET x == ReorderCheck(r, late)
           IN  Becomes(r, x, quiet) /\ (~r.conf.raw => x.known = r.known)
<1> DEFINE w == [r EXCEPT !.reorder = NoSeq]
           x == ReorderCheck(r, late)
<1>1. NoSeq \in Seqs \cup {NoSeq} /\ r.reorder \in Seqs \cup {NoSeq} /\ r \in Receivers
  BY Fields, Zenon DEF ReceiverOK
<1>2. Aside(r, w)
  BY <1>1, Reordered, Zenon
<1>3. Becomes(r, w, quiet) /\ ReceiverOK(w) /\ w.conf = r.conf /\ w.known = r.known /\ w.sess = r.sess
  BY <1>2, AsideBecomes, AsideFlow, Zenon
<1>4. CASE x = r
  <2> HIDE DEF x
  <2>1. {} \in SUBSET Seqs
    BY Zenon
  <2>2. Aside(r, r)
    BY <2>1, Asked, Zenon
  <2> QED BY <1>4, <2>2, AsideBecomes, Zenon DEF x
<1>5. CASE ~(~r.conf.wait \/ r.reorder = NoSeq \/ ~late) /\ ~r.conf.raw
  <2>1. x = SendNacks(w, {r.reorder})
    BY <1>5, Zenon DEF ReorderCheck
  <2>2. {r.reorder} \in SUBSET Seqs
    BY <1>1, <1>5, Zenon
  <2> HIDE DEF x, w
  <2>3. Aside(w, x)
    BY <1>3, <2>1, <2>2, Asked, Zenon
  <2>4. Becomes(r, x, quiet)
    BY <1>3, <2>3, AsideBecomes, BecomesTwice, Zenon
  <2>5. x.known = r.known
    BY <1>3, <2>3, AsideFlow, Zenon
  <2> QED BY <2>4, <2>5, Zenon DEF x
<1>6. CASE ~(~r.conf.wait \/ r.reorder = NoSeq \/ ~late) /\ r.conf.raw
  <2> DEFINE c == [RawDisconnect(w) EXCEPT !.win = EmptyWindow(0)]
  <2>1. x = [RawDisconnect(w) EXCEPT !.known = FALSE, !.stamped = FALSE, !.win = EmptyWindow(0)]
    BY <1>6, Zenon DEF ReorderCheck
  <2> HIDE DEF x, w
  <2>2. w.conf.raw
    BY <1>3, <1>6, Zenon
  <2> DEFINE v == Disconnect(w)
  <2>3. /\ ReceiverOK(v) /\ v.conf = w.conf /\ v.sess = w.sess /\ v.normal = {} /\ v.trace = << >>
    BY <1>3, Cut, Zenon
  <2>4. x = [[v EXCEPT !.fin = NoSeq, !.frag = << >>] EXCEPT !.known = FALSE, !.stamped = FALSE, !.win = EmptyWindow(0)]
    BY <2>1, Zenon DEF RawDisconnect
  <2> HIDE DEF v
  <2>5. Expects(EmptyWindow(0), 0) /\ 0 \in Int
    BY SeqNumItself, Sizing, Emptied, Zenon
  <2>6. Expects(EmptyWindow(0), EmptyWindow(0).next) /\ EmptyWindow(0) \in Windows
    BY <2>5, OwnPosition, Zenon DEF Expects
  <2>7. v \in Receivers /\ << >> \in Seq(Packets) /\ FALSE \in BOOLEAN
    BY <2>3 DEF ReceiverOK
  <2>8. /\ x \in Receivers /\ x.conf = v.conf /\ x.sess = v.sess /\ x.win = EmptyWindow(0) /\ x.fin = NoSeq
        /\ x.frag = << >> /\ x.normal = v.normal /\ x.trace = v.trace
    BY <1>1, <2>4, <2>6, <2>7, Zenon DEF Receivers
  <2>9. ReceiverOK(x)
    BY <2>6, <2>8, Zenon DEF ReceiverOK
  <2>10. x.conf.raw /\ x.normal = {} /\ x.trace = << >> /\ 0 \in Seqs /\ 0 <= Top
    BY <2>2, <2>3, <2>8, Sizing DEF Top
  <2>11. Sound(x, quiet)
    BY <2>8, <2>9, <2>10, Anew, Zenon
  <2>12. x.fin \in {r.fin, NoSeq} /\ x.conf = r.conf /\ x.sess = r.sess
    BY <1>3, <2>3, <2>8, Zenon
  <2>13. Becomes(r, x, quiet)
    BY <2>9, <2>11, <2>12, Zenon DEF Becomes
  <2> QED BY <1>6, <2>13, Zenon DEF x
<1>7. CASE ~r.conf.wait \/ r.reorder = NoSeq \/ ~late
  <2>1. x = r
    BY <1>7, Zenon DEF ReorderCheck
  <2> QED BY <1>4, <2>1, Zenon
<1> QED BY <1>5, <1>6, <1>7, Zenon

-----------------------------------------------------------------------------
\* The sender

LEMMA IndexTyped ==
    ASSUME NEW w \in Windows, NEW q \in Seqs
    PROVE  WinIndex(w, q) \in Indexes /\ Slot(w, q) \in Packets \cup {NoPkt}
<1>1. w.index \in Indexes /\ w.base \in Seqs /\ w.slots \in [Indexes -> Packets \cup {NoPkt}]
  BY Zenon DEF Windows
<1>2. SeqSub(q, w.base) \in Int
  <2>1. q - w.base \in Int /\ SeqSpace \in Nat \ {0}
    BY <1>1, Sizing DEF Seqs
  <2>2. (q - w.base) % SeqSpace \in 0 .. SeqSpace - 1
    BY <2>1, DivMod, Zenon
  <2> QED BY <2>2 DEF SeqSub
<1>3. WinIndex(w, q) \in Indexes
  <2>1. w.index + SeqSub(q, w.base) \in Int /\ WindowSize \in Nat \ {0}
    BY <1>1, <1>2, Sizing DEF Indexes
  <2> QED BY <2>1, DivMod, Zenon DEF WinIndex, Indexes
<1> QED BY <1>1, <1>3, Zenon DEF Slot

LEMMA SetSlotTyped ==
    ASSUME NEW w \in Windows, NEW q \in Seqs, NEW e \in Packets \cup {NoPkt}
    PROVE  SetSlot(w, q, e) \in Windows
<1>1. WinIndex(w, q) \in Indexes
  BY IndexTyped, Zenon
<1> QED BY <1>1, Zenon DEF SetSlot, Windows

LEMMA AdvanceTyped ==
    ASSUME NEW w \in Windows
    PROVE  AdvanceBase(w) \in Windows
<1>1. w.base \in Seqs /\ w.index \in Indexes
  BY Zenon DEF Windows
<1>2. SeqAdd(w.base, 1) \in Seqs
  BY <1>1, Sizing, Zenon
<1>3. (w.index + 1) % WindowSize \in Indexes
  <2>1. w.index + 1 \in Int /\ WindowSize \in Nat \ {0}
    BY <1>1, Sizing DEF Indexes
  <2> QED BY <2>1, DivMod, Zenon DEF Indexes
<1> QED BY <1>2, <1>3, Zenon DEF AdvanceBase, Windows

LEMMA SendPushTyped ==
    ASSUME NEW w \in Windows, NEW e \in Packets
    PROVE  SendPush(w, e) \in Windows
<1> DEFINE v == IF SendFull(w) THEN AdvanceBase(SetSlot(w, w.base, NoPkt)) ELSE w
           u == SetSlot(v, v.next, e)
<1>1. v \in Windows
  <2>1. w.base \in Seqs
    BY Zenon DEF Windows
  <2>2. SetSlot(w, w.base, NoPkt) \in Windows
    BY <2>1, SetSlotTyped, Zenon
  <2> QED BY <2>2, AdvanceTyped, Zenon
<1>2. SendPush(w, e) = [u EXCEPT !.next = SeqAdd(@, 1)]
  BY Zenon DEF SendPush
<1> HIDE DEF v
<1>3. u \in Windows
  <2>1. v.next \in Seqs
    BY <1>1, Zenon DEF Windows
  <2> QED BY <1>1, <2>1, SetSlotTyped, Zenon
<1> HIDE DEF u
<1>4. u.next \in Seqs
  BY <1>3, Zenon DEF Windows
<1>5. SeqAdd(u.next, 1) \in Seqs
  BY <1>4, Sizing, Zenon
<1> QED BY <1>2, <1>3, <1>5, Zenon DEF Windows

\* nack_dedup_buf has DedupSlots entries.
LEMMA Remembered ==
    ASSUME NEW q \in Seq(Seqs), Len(q) <= DedupSlots, NEW n \in Seqs
    PROVE  Remember(q, n) \in Seq(Seqs) /\ Len(Remember(q, n)) <= DedupSlots
<1>1. DedupSlots \in Nat
  BY LinkAssumption, Zenon
<1> DEFINE a == Append(q, n)
<1>2. a \in Seq(Seqs) /\ Len(a) = Len(q) + 1 /\ Len(q) \in Nat
  OBVIOUS
<1>3. a # << >>
  BY <1>2
<1> HIDE DEF a
<1>4. Tail(a) \in Seq(Seqs) /\ Len(Tail(a)) = Len(a) - 1
  BY <1>2, <1>3
<1>5. CASE Len(a) > DedupSlots
  <2>1. Remember(q, n) = Tail(a)
    BY <1>5, Zenon DEF Remember, a
  <2> QED BY <1>1, <1>2, <1>4, <2>1
<1>6. CASE ~(Len(a) > DedupSlots)
  <2>1. Remember(q, n) = a
    BY <1>6, Zenon DEF Remember, a
  <2> QED BY <1>1, <1>2, <1>6, <2>1
<1> QED BY <1>5, <1>6, Zenon

LEMMA Forgotten ==
    ASSUME NEW q \in Seq(Seqs), Len(q) <= DedupSlots, q # << >>
    PROVE  Tail(q) \in Seq(Seqs) /\ Len(Tail(q)) <= DedupSlots
<1>1. DedupSlots \in Nat /\ Len(q) \in Nat
  BY LinkAssumption
<1>2. Tail(q) \in Seq(Seqs) /\ Len(Tail(q)) = Len(q) - 1
  OBVIOUS
<1> QED BY <1>1, <1>2

LEMMA Kinds ==
    ASSUME NEW s \in Sessions, NEW q \in Seqs, NEW e \in Packets, NEW n \in Seqs \cup {NoSeq}
    PROVE  /\ MessageOK(Data(s, q, e)) /\ MessageOK(Ping(s, q)) /\ MessageOK(Reject(s, n)) /\ MessageOK(Fin(s, n))
<1>1. 0 \in Seqs /\ NoSeq \in Seqs \cup {NoSeq} /\ NoPkt \in Packets \cup {NoPkt} /\ e \in Packets \cup {NoPkt}
  BY Sizing, Zenon
<1>2. Data(s, q, e) \in Messages /\ Data(s, q, e).elem = e
  BY <1>1, Zenon DEF Data, Messages
<1>3. Ping(s, q) \in Messages /\ Ping(s, q).kind = "PING"
  BY <1>1, Zenon DEF Ping, Messages
<1>4. Reject(s, n) \in Messages /\ Reject(s, n).kind = "REJECT"
  BY <1>1, Zenon DEF Reject, Messages
<1>5. Fin(s, n) \in Messages /\ Fin(s, n).kind = "FIN"
  BY <1>1, Zenon DEF Fin, Messages
<1> QED BY <1>2, <1>3, <1>4, <1>5, Zenon DEF MessageOK

\* The window of the sender holds its latest packets, and win.next counts them.
SenderSound(s) ==
    /\ s.win.next = s.sent /\ s.sent <= Top
    /\ s.win.base <= s.sent /\ s.sent - s.win.base <= WindowSize
    /\ \A d \in 0 .. s.sent - s.win.base - 1 : At(s.win, d) = <<s.sess, s.win.base + d + 1>>
    /\ s.hasData = TRUE <=> s.sent > 0

LEMMA SenderFields ==
    ASSUME NEW s \in Senders
    PROVE  /\ s.sess \in Sessions /\ s.sess \in Nat /\ s.win \in Windows /\ s.hasData \in BOOLEAN
           /\ s.sent \in Nat /\ s.phase \in {"open", "closing"} /\ s.recent \in Seq(Seqs)
           /\ Len(s.recent) <= DedupSlots
           /\ s.win.base \in Seqs /\ s.win.next \in Seqs /\ s.win.base \in Nat /\ s.win.next \in Nat
<1>1. /\ s.sess \in Sessions /\ s.win \in Windows /\ s.hasData \in BOOLEAN
      /\ s.sent \in Nat /\ s.phase \in {"open", "closing"} /\ s.recent \in Seq(Seqs)
      /\ Len(s.recent) <= DedupSlots
  BY Zenon DEF Senders
<1>2. s.win.base \in Seqs /\ s.win.next \in Seqs
  BY <1>1, Zenon DEF Windows
<1>3. s.win.base \in Nat /\ s.win.next \in Nat
  BY <1>2, Sizing, Zenon
<1>4. s.sess \in Nat
  BY <1>1, SessionsAreNat, Zenon
<1> QED BY <1>1, <1>2, <1>3, <1>4, Zenon

LEMMA SenderNew ==
    ASSUME NEW s \in Sessions
    PROVE  LET x == NewSender(s)
           IN  /\ x \in Senders /\ x.sess = s /\ x.phase = "open" /\ x.win.next = 0
               /\ SenderSound(x)
<1> DEFINE x == NewSender(s)
<1>1. Expects(EmptyWindow(0), 0)
  BY SeqNumItself, Sizing, Emptied, Zenon
<1>2. EmptyWindow(0) \in Windows /\ EmptyWindow(0).next = 0 /\ EmptyWindow(0).base = 0
  BY <1>1, Zenon DEF EmptyWindow, Expects
<1>3. << >> \in {q \in Seq(Seqs) : Len(q) <= DedupSlots}
  BY LinkAssumption
<1>4. x \in Senders
  BY <1>2, <1>3, Zenon DEF NewSender, Senders
<1>5. /\ x.sess = s /\ x.phase = "open" /\ x.win = EmptyWindow(0) /\ x.sent = 0 /\ x.hasData = FALSE
  BY Zenon DEF NewSender
<1> HIDE DEF x
<1>6. SenderSound(x)
  <2>1. 0 <= Top /\ 0 <= WindowSize
    BY Sizing DEF Top
  <2> QED BY <1>2, <1>5, <2>1 DEF SenderSound
<1> QED BY <1>2, <1>4, <1>5, <1>6, Zenon DEF x

LEMMA ElementPacket ==
    ASSUME NEW s \in Sessions, NEW k \in Elements
    PROVE  <<s, k>> \in Packets
<1>1. Packets = Sessions \X Elements
  BY ReceiverAssumption, Zenon
<1> QED BY <1>1, Zenon

LEMMA SenderPushes ==
    ASSUME NEW s \in Senders, NEW k, k = s.sent + 1, k \in Elements, NEW x,
           x = [s EXCEPT !.win = SendPush(@, <<s.sess, s.sent + 1>>), !.hasData = TRUE, !.sent = @ + 1]
    PROVE  /\ x \in Senders /\ x.sess = s.sess /\ x.phase = s.phase
           /\ ShortSessions /\ SenderSound(s) => SenderSound(x)
<1> DEFINE e == <<s.sess, s.sent + 1>>
           w == s.win
           v == SendPush(w, e)
           n == s.sent
           b == s.win.base
<1>1. /\ w \in Windows /\ s.sess \in Sessions /\ n \in Nat /\ b \in Seqs /\ b \in Nat
  BY SenderFields, Zenon
<1>2. e \in Packets
  BY <1>1, ElementPacket, Zenon
<1>3. v \in Windows /\ s.sent + 1 \in Nat /\ TRUE \in BOOLEAN
  BY <1>1, <1>2, SendPushTyped
<1>4. /\ x \in Senders /\ x.sess = s.sess /\ x.phase = s.phase /\ x.win = v /\ x.hasData = TRUE
      /\ x.sent = n + 1
  BY <1>3, Zenon DEF Senders
<1>5. ASSUME ShortSessions, SenderSound(s) PROVE SenderSound(x)
  <2>1. /\ w.next = n /\ n <= Top /\ b <= n /\ n - b <= WindowSize
        /\ \A d \in 0 .. n - b - 1 : At(w, d) = <<s.sess, b + d + 1>>
    BY <1>5, Zenon DEF SenderSound
  <2>2. n + 1 <= Top
    BY <1>5, Zenon DEF ShortSessions
  <2> DEFINE c == IF n - b = WindowSize THEN b + 1 ELSE b
  <2> HIDE DEF n, b, w, v, e
  <2>3. n \in Seqs /\ n + 1 \in Seqs /\ c \in Seqs /\ c \in Nat /\ c <= n /\ n \in Int /\ b \in Int /\ c \in Int
    BY <1>1, <2>1, <2>2, Sizing DEF Top, Seqs
  <2>4. /\ n - b \in 0 .. WindowSize /\ (n - b = WindowSize => c = b + 1) /\ (n - b # WindowSize => c = b)
    BY <1>1, <2>1, Sizing
  <2> HIDE DEF c
  <2>5. w.base = SeqNum(b) /\ w.next = SeqNum(n)
    BY <1>1, <2>1, <2>3, SeqNumItself, Zenon DEF b, w
  <2>6. /\ v.base = SeqNum(c) /\ v.next = SeqNum(n + 1) /\ n - c \in 0 .. WindowSize - 1
        /\ \A d \in 0 .. n - c - 1 : At(v, d) = At(w, d + (c - b))
        /\ At(v, n - c) = e
    BY <1>1, <1>2, <2>3, <2>4, <2>5, SendPushed DEF v
  <2>7. v.base = c /\ v.next = n + 1
    BY <2>3, <2>6, SeqNumItself, Zenon
  <2>8. ASSUME NEW d \in 0 .. (n + 1) - c - 1 PROVE At(v, d) = <<s.sess, c + d + 1>>
    <3>1. CASE d = n - c
      <4>1. e = <<s.sess, n + 1>> /\ c + d + 1 = n + 1
        BY <1>1, <2>3, <3>1 DEF e, n
      <4> QED BY <2>6, <3>1, <4>1, Zenon
    <3>2. CASE d # n - c
      <4>1. d \in 0 .. n - c - 1 /\ d + (c - b) \in 0 .. n - b - 1 /\ b + (d + (c - b)) + 1 = c + d + 1
        BY <1>1, <2>3, <2>4, <3>2
      <4>2. At(v, d) = At(w, d + (c - b))
        BY <2>6, <4>1, Zenon
      <4>3. At(w, d + (c - b)) = <<s.sess, b + (d + (c - b)) + 1>>
        BY <2>1, <4>1, Zenon
      <4> QED BY <4>1, <4>2, <4>3, Zenon
    <3> QED BY <3>1, <3>2, Zenon
  <2>9. n + 1 - c <= WindowSize /\ c <= n + 1 /\ n + 1 > 0
    BY <1>1, <2>3, <2>6, Sizing
  <2>10. x.win = v /\ x.sent = n + 1 /\ x.sess = s.sess /\ x.hasData = TRUE
    BY <1>4, Zenon DEF n, v, w, e
  <2>11. \A d \in 0 .. x.sent - x.win.base - 1 : At(x.win, d) = <<x.sess, x.win.base + d + 1>>
    BY <2>7, <2>8, <2>10, Zenon
  <2>12. /\ x.win.next = x.sent /\ x.sent <= Top /\ x.win.base <= x.sent
         /\ x.sent - x.win.base <= WindowSize /\ x.sent > 0
    <3>1. x.win.next = n + 1 /\ x.win.base = c /\ x.sent = n + 1
      BY <2>7, <2>10, Zenon
    <3>2. x.win.next = x.sent /\ x.sent <= Top
      BY <2>2, <3>1, Zenon
    <3>3. x.win.base <= x.sent /\ x.sent > 0
      BY <2>9, <3>1, Zenon
    <3>4. x.sent - x.win.base <= WindowSize
      <4>1. n \in Nat /\ c \in Nat /\ WindowSize \in Nat
        BY <1>1, <2>3, Sizing, Zenon
      <4> HIDE DEF c
      <4> QED BY <2>9, <3>1, <4>1
    <3> QED BY <3>2, <3>3, <3>4, Zenon
  <2> QED BY <2>10, <2>11, <2>12, Zenon DEF SenderSound
<1> QED BY <1>4, <1>5, Zenon

\* potr_internal_window_send_get finds the packet with the number, or none.
LEMMA Gets ==
    ASSUME NEW s \in Senders, NEW n \in Seqs
    PROVE  /\ SendGet(s.win, n) \in Packets \cup {NoPkt}
           /\ SenderSound(s) => SendGet(s.win, n) \in {NoPkt, <<s.sess, n + 1>>}
<1> DEFINE w == s.win
           b == s.win.base
           q == s.win.next
<1>1. w \in Windows /\ b \in Seqs /\ q \in Seqs /\ b \in Nat /\ q \in Nat /\ n \in Nat /\ n \in Seqs
  BY SenderFields, Sizing, Zenon
<1>2. SendGet(w, n) \in Packets \cup {NoPkt}
  <2>1. Slot(w, n) \in Packets \cup {NoPkt}
    BY <1>1, IndexTyped, Zenon
  <2> QED BY <2>1, Zenon DEF SendGet
<1>3. ASSUME SenderSound(s), InWindow(n, b, SeqSub(q, b)) PROVE Slot(w, n) = <<s.sess, n + 1>>
  <2>1. /\ q = s.sent /\ q <= Top /\ b <= q /\ q - b <= WindowSize
        /\ \A d \in 0 .. q - b - 1 : At(w, d) = <<s.sess, b + d + 1>>
    BY <1>3, Zenon DEF SenderSound
  <2> HIDE DEF w, b, q
  <2>2. SeqNum(n) = n /\ SeqNum(b) = b /\ SeqNum(q) = q /\ n \in Int /\ b \in Int /\ q \in Int
    BY <1>1, SeqNumItself, Zenon
  <2>3. q - b \in 0 .. SeqSpace - 1
    BY <1>1, <2>1, Sizing DEF Seqs
  <2>4. SeqSub(q, b) = q - b
    BY <2>2, <2>3, Distance, Zenon
  <2>5. n >= b
    <3>1. SUFFICES ASSUME n < b PROVE FALSE
      BY <1>1
    <3>2. n - b \in -SeqSpace .. -1
      BY <1>1, <3>1, Sizing DEF Seqs
    <3>3. SeqSub(n, b) = n - b + SeqSpace
      BY <2>2, <3>2, Distance, Zenon
    <3>4. n - b + SeqSpace < q - b
      BY <1>3, <2>4, <3>3, Zenon DEF InWindow
    <3> QED BY <1>1, <2>1, <3>4, Sizing DEF Top
  <2>6. n - b \in 0 .. SeqSpace - 1
    BY <1>1, <2>5, Sizing DEF Seqs
  <2>7. SeqSub(n, b) = n - b
    BY <2>2, <2>6, Distance, Zenon
  <2>8. n - b < q - b
    BY <1>3, <2>4, <2>7, Zenon DEF InWindow
  <2>9. n - b \in 0 .. q - b - 1 /\ b + (n - b) + 1 = n + 1
    BY <1>1, <2>5, <2>8
  <2>10. WinIndex(w, n) = (w.index + (n - b)) % WindowSize
    <3>1. w.base = SeqNum(b)
      BY <2>2, Zenon DEF w, b
    <3> QED BY <2>2, <2>6, <3>1, IndexOf
  <2>11. Slot(w, n) = At(w, n - b)
    BY <2>10, Zenon DEF Slot, At
  <2>12. At(w, n - b) = <<s.sess, b + (n - b) + 1>>
    BY <2>1, <2>9, Zenon
  <2> QED BY <2>9, <2>11, <2>12, Zenon
<1>4. SenderSound(s) => SendGet(s.win, n) \in {NoPkt, <<s.sess, n + 1>>}
  BY <1>3, Zenon DEF SendGet
<1> QED BY <1>2, <1>4, Zenon

-----------------------------------------------------------------------------
\* The link

\* A packet under way from sender s or from one before it.
Sane(m, s) ==
    /\ Truthful(m) /\ m.sess <= s.sess
    /\ m.kind = "FIN" /\ m.sess = s.sess =>
         s.phase = "closing" /\ m.ack = IF s.hasData = TRUE THEN s.sent ELSE NoSeq
    /\ m.kind = "REJECT" => m = Reject(m.sess, m.ack)

\* A receiver that waits for the last packet of s waits for the right one.
Agrees(r, s) ==
    /\ r.sess <= s.sess
    /\ r.fin # NoSeq /\ r.sess = s.sess => s.phase = "closing" /\ r.fin = s.sent

\* No FIN was ever sent.
Quiet == Keeps = TRUE /\ \A m \in net : m.kind # "FIN"

Typed ==
    /\ TypeOK /\ ReceiverOK(rcv) /\ asks \subseteq rcv.conf.asks
    /\ \A m \in net : MessageOK(m)
    /\ \A m \in pings : MessageOK(m) /\ m.kind = "PING"

Kept ==
    /\ SenderSound(snd)
    /\ \A m \in net \cup pings : Sane(m, snd)
    /\ Agrees(rcv, snd)
    /\ Sound(rcv, FALSE) /\ (Quiet => Sound(rcv, TRUE))

Inv == Typed /\ (ShortSessions => Kept)

\* What a step of the sender makes of it: it starts anew, or what it said in a FIN
\* stays true.
Renews(s, x) ==
    \/ x.sess = s.sess + 1
    \/ x.sess = s.sess /\ s.phase = "open"
    \/ x.sess = s.sess /\ x.phase = s.phase /\ x.hasData = s.hasData /\ x.sent = s.sent

LEMMA SaneOn ==
    ASSUME NEW m, NEW s, NEW x, m.sess \in Nat, s.sess \in Nat, Renews(s, x), Sane(m, s)
    PROVE  Sane(m, x)
<1>1. CASE x.sess = s.sess + 1
  <2>1. m.sess <= x.sess /\ m.sess # x.sess
    BY <1>1 DEF Sane
  <2> QED BY <2>1, Zenon DEF Sane
<1>2. CASE x.sess = s.sess /\ s.phase = "open"
  <2>1. ~(m.kind = "FIN" /\ m.sess = s.sess)
    BY <1>2, Zenon DEF Sane
  <2> QED BY <1>2, <2>1, Zenon DEF Sane
<1>3. CASE x.sess = s.sess /\ x.phase = s.phase /\ x.hasData = s.hasData /\ x.sent = s.sent
  BY <1>3, Zenon DEF Sane
<1> QED BY <1>1, <1>2, <1>3, Zenon DEF Renews

LEMMA AgreesOn ==
    ASSUME NEW r, NEW s, NEW x, r.sess \in Nat, s.sess \in Nat, Renews(s, x), Agrees(r, s)
    PROVE  Agrees(r, x)
<1>1. CASE x.sess = s.sess + 1
  <2>1. r.sess <= x.sess /\ r.sess # x.sess
    BY <1>1 DEF Agrees
  <2> QED BY <2>1, Zenon DEF Agrees
<1>2. CASE x.sess = s.sess /\ s.phase = "open"
  <2>1. ~(r.fin # NoSeq /\ r.sess = s.sess)
    BY <1>2, Zenon DEF Agrees
  <2> QED BY <1>2, <2>1, Zenon DEF Agrees
<1>3. CASE x.sess = s.sess /\ x.phase = s.phase /\ x.hasData = s.hasData /\ x.sent = s.sent
  BY <1>3, Zenon DEF Agrees
<1> QED BY <1>1, <1>2, <1>3, Zenon DEF Renews

\* What a sender sends is sane.
LEMMA SaneKinds ==
    ASSUME NEW s \in Senders, NEW q \in Seqs, q <= Top
    PROVE  /\ Sane(Data(s.sess, q, <<s.sess, q + 1>>), s) /\ Sane(Ping(s.sess, q), s)
           /\ q < Top => Sane(Reject(s.sess, q), s)
           /\ s.phase = "closing" => Sane(Fin(s.sess, IF s.hasData = TRUE THEN s.sent ELSE NoSeq), s)
<1>1. 0 <= Top /\ s.sess <= s.sess
  BY Sizing, SenderFields DEF Top
<1>2. Sane(Data(s.sess, q, <<s.sess, q + 1>>), s)
  <2>1. /\ Data(s.sess, q, <<s.sess, q + 1>>).kind = "DATA" /\ Data(s.sess, q, <<s.sess, q + 1>>).sess = s.sess
        /\ Data(s.sess, q, <<s.sess, q + 1>>).seq = q
        /\ Data(s.sess, q, <<s.sess, q + 1>>).elem = <<s.sess, q + 1>>
    BY Zenon DEF Data
  <2> QED BY <1>1, <2>1, Zenon DEF Sane, Truthful
<1>3. Sane(Ping(s.sess, q), s)
  <2>1. Ping(s.sess, q).kind = "PING" /\ Ping(s.sess, q).sess = s.sess /\ Ping(s.sess, q).seq = q
    BY Zenon DEF Ping
  <2> QED BY <1>1, <2>1, Zenon DEF Sane, Truthful
<1>4. ASSUME q < Top PROVE Sane(Reject(s.sess, q), s)
  <2>1. /\ Reject(s.sess, q).kind = "REJECT" /\ Reject(s.sess, q).sess = s.sess
        /\ Reject(s.sess, q).seq = 0 /\ Reject(s.sess, q).ack = q
    BY Zenon DEF Reject
  <2> QED BY <1>1, <1>4, <2>1, Zenon DEF Sane, Truthful
<1>5. ASSUME s.phase = "closing" PROVE Sane(Fin(s.sess, IF s.hasData = TRUE THEN s.sent ELSE NoSeq), s)
  <2> DEFINE a == IF s.hasData = TRUE THEN s.sent ELSE NoSeq
  <2> HIDE DEF a
  <2>1. Fin(s.sess, a).kind = "FIN" /\ Fin(s.sess, a).sess = s.sess /\ Fin(s.sess, a).seq = 0 /\ Fin(s.sess, a).ack = a
    BY Zenon DEF Fin
  <2>2. /\ Truthful(Fin(s.sess, a)) /\ Fin(s.sess, a).sess <= s.sess
    BY <1>1, <2>1, Zenon DEF Truthful
  <2>3. Fin(s.sess, a).kind # "REJECT"
    BY <2>1, Zenon
  <2>4. Sane(Fin(s.sess, a), s)
    BY <1>5, <2>1, <2>2, <2>3, Zenon DEF Sane, a
  <2> QED BY <2>4, Zenon DEF a
<1> QED BY <1>2, <1>3, <1>4, <1>5, Zenon

\* The PINGs of a sender.
LEMMA PingsOK ==
    ASSUME NEW s \in Senders, NEW m \in Pinged(s)
    PROVE  MessageOK(m) /\ m.kind = "PING" /\ (SenderSound(s) => Sane(m, s))
<1>1. m = Ping(s.sess, s.win.next)
  BY Zenon DEF Pinged
<1>2. s.sess \in Sessions /\ s.win.next \in Seqs
  BY SenderFields, Zenon
<1>3. m \in Messages /\ m.kind = "PING"
  BY <1>1, <1>2, Sizing, Zenon DEF Ping, Messages
<1>4. MessageOK(m)
  BY <1>3, Zenon DEF MessageOK
<1>5. SenderSound(s) => Sane(m, s)
  <2>1. SenderSound(s) => s.win.next <= Top
    BY Zenon DEF SenderSound
  <2> QED BY <1>1, <1>2, <2>1, SaneKinds, Zenon
<1> QED BY <1>3, <1>4, <1>5, Zenon

\* A receiver that has just been opened.
LEMMA ReceiverNew ==
    ASSUME NEW c \in Confs
    PROVE  LET x == NewReceiver(c)
           IN  /\ ReceiverOK(x) /\ x.conf = c /\ x.sess = 0 /\ x.fin = NoSeq
               /\ Sound(x, FALSE) /\ Sound(x, TRUE)
<1> DEFINE x == NewReceiver(c)
<1>1. /\ Expects(EmptyWindow(0), 0)
      /\ \A d \in 0 .. WindowSize - 1 : At(EmptyWindow(0), d) = NoPkt
  BY SeqNumItself, Sizing, Emptied, Zenon
<1>2. EmptyWindow(0) \in Windows /\ EmptyWindow(0).next = 0
  BY <1>1, Zenon DEF EmptyWindow, Expects
<1>3. << >> \in Seq(Packets) /\ Len(<< >>) = 0
  BY SMTT(20)
<1>4. x \in Receivers
  BY <1>2, <1>3, Zenon DEF NewReceiver, Receivers
<1>5. /\ x.conf = c /\ x.known = FALSE /\ x.sess = 0 /\ x.win = EmptyWindow(0) /\ x.fin = NoSeq
      /\ x.normal = {} /\ x.heard = {} /\ x.frag = << >> /\ x.trace = << >> /\ x.old = {}
  BY Zenon DEF NewReceiver
<1> HIDE DEF x
<1>6. ReceiverOK(x)
  BY <1>1, <1>2, <1>4, <1>5, Zenon DEF ReceiverOK
<1>7. Fits(x)
  <2>1. x.win.next <= Top
    BY <1>2, <1>5, Sizing DEF Top
  <2> QED BY <1>1, <1>5, <2>1, Zenon DEF Fits
<1>8. 1 .. Len(<< >>) = {} /\ 1 .. Len(<< >>) - 1 = {} /\ ~(Len(<< >>) > 0)
  BY <1>3
<1>9. Gapless(x)
  BY <1>5, <1>8, Zenon DEF Gapless, Chain
<1>10. Ordered(x)
  BY <1>5, <1>8, Zenon DEF Ordered, History, Rising
<1> QED BY <1>5, <1>6, <1>7, <1>9, <1>10, Zenon DEF Sound, x

\* The configuration of a receiver.
LEMMA ConfParts ==
    ASSUME NEW c \in Confs
    PROVE  c.paths \subseteq Paths /\ c.sessions \subseteq Sessions /\ c.elements \subseteq Elements /\ c.asks \subseteq Seqs
  BY LinkAssumption, Zenon

LEMMA InvInit == Init => Inv
<1>1. SUFFICES ASSUME Init PROVE Inv
  BY Zenon
<1>2. PICK s \in Sessions : snd = NewSender(s)
  BY <1>1, Zenon DEF Init
<1>3. PICK c \in Confs : rcv = NewReceiver(c)
  BY <1>1, Zenon DEF Init
<1>4. net = {} /\ asks = {} /\ pings = Pinged(snd)
  BY <1>1, Zenon DEF Init
<1>5. snd \in Senders /\ snd.sess \in Nat /\ SenderSound(snd)
  BY <1>2, SenderNew, SenderFields, Zenon
<1>6. /\ ReceiverOK(rcv) /\ rcv.sess = 0 /\ rcv.fin = NoSeq /\ Sound(rcv, FALSE) /\ Sound(rcv, TRUE)
  BY <1>3, ReceiverNew, Zenon
<1>7. \A m \in pings : MessageOK(m) /\ m.kind = "PING" /\ Sane(m, snd)
  BY <1>4, <1>5, PingsOK, Zenon
<1>8. Typed
  <2>1. TypeOK
    BY <1>4, <1>5, <1>6, <1>7, Zenon DEF TypeOK, ReceiverOK, MessageOK
  <2> QED BY <1>4, <1>6, <1>7, <2>1, Zenon DEF Typed
<1>9. Kept
  <2>1. Agrees(rcv, snd)
    BY <1>5, <1>6 DEF Agrees
  <2> QED BY <1>4, <1>5, <1>6, <1>7, <2>1, Zenon DEF Kept
<1> QED BY <1>8, <1>9, Zenon DEF Inv

\* The sender sends the packets N and may send the PINGs P.
Sends(N, P) ==
    /\ net \subseteq net' /\ net' \subseteq net \cup N /\ pings' \subseteq pings \cup P
    /\ \A m \in N : MessageOK(m)
    /\ \A m \in P : MessageOK(m) /\ m.kind = "PING"
    /\ ShortSessions /\ Kept => \A m \in N \cup P : Sane(m, snd')

LEMMA SenderMoves ==
    ASSUME Inv, snd' \in Senders, Renews(snd, snd'), rcv' = rcv, asks' \subseteq asks,
           NEW N, NEW P, Sends(N, P), ShortSessions /\ Kept => SenderSound(snd')
    PROVE  Inv'
<1>1. Typed /\ TypeOK
  BY Zenon DEF Inv, Typed
<1>2. \A m \in net' : MessageOK(m)
  BY <1>1, Zenon DEF Typed, Sends
<1>3. \A m \in pings' : MessageOK(m) /\ m.kind = "PING"
  BY <1>1, Zenon DEF Typed, Sends
<1>4. Typed'
  <2>1. net' \subseteq Messages /\ pings' \subseteq Messages /\ asks' \subseteq Seqs /\ rcv' \in Receivers
    BY <1>1, <1>2, <1>3, Zenon DEF TypeOK, MessageOK
  <2>2. TypeOK'
    BY <2>1, Zenon DEF TypeOK
  <2>3. ReceiverOK(rcv') /\ asks' \subseteq rcv'.conf.asks
    BY <1>1, Zenon DEF Typed
  <2> QED BY <1>2, <1>3, <2>2, <2>3, Zenon DEF Typed
<1>5. ASSUME ShortSessions PROVE Kept'
  <2>1. Kept
    BY <1>5, Zenon DEF Inv
  <2>2. snd.sess \in Nat /\ rcv.sess \in Nat
    BY <1>1, SenderFields, SessionsAreNat, Fields, Zenon DEF TypeOK
  <2>3. ASSUME NEW m \in net \cup pings PROVE Sane(m, snd')
    <3>1. m \in Messages
      BY <1>1, Zenon DEF TypeOK
    <3>2. m.sess \in Nat
      BY <3>1, SessionsAreNat, Zenon DEF Messages
    <3>3. Sane(m, snd)
      BY <2>1, Zenon DEF Kept
    <3> QED BY <2>2, <3>2, <3>3, SaneOn, Zenon
  <2>4. \A m \in net' \cup pings' : Sane(m, snd')
    BY <1>5, <2>1, <2>3, Zenon DEF Sends
  <2>5. Agrees(rcv', snd')
    <3>1. Agrees(rcv, snd)
      BY <2>1, Zenon DEF Kept
    <3> QED BY <2>2, <3>1, AgreesOn, Zenon
  <2>6. Quiet' => Quiet
    BY Zenon DEF Quiet, Sends
  <2>7. Sound(rcv', FALSE) /\ (Quiet' => Sound(rcv', TRUE))
    BY <2>1, <2>6, Zenon DEF Kept
  <2>8. SenderSound(snd')
    BY <1>5, <2>1, Zenon
  <2> QED BY <2>4, <2>5, <2>7, <2>8, Zenon DEF Kept
<1> QED BY <1>4, <1>5, Zenon DEF Inv

\* A step of the receiver that leaves x and the NACKs of x.
LEMMA ReceiverMoves ==
    ASSUME Inv, snd' = snd, net' \subseteq net, Keeps = TRUE => net' = net, pings' = pings,
           NEW x, ReceiverOK(x), x.conf = rcv.conf, Handled(x),
           ShortSessions /\ Kept => Agrees(x, snd) /\ Sound(x, FALSE) /\ (Quiet => Sound(x, TRUE))
    PROVE  Inv'
<1>1. Typed /\ TypeOK
  BY Zenon DEF Inv, Typed
<1>2. rcv.conf \in Confs
  BY <1>1, Fields, Zenon DEF TypeOK
<1>3. rcv' = [x EXCEPT !.nacks = {}] /\ asks' \subseteq asks \cup rcv.conf.asks
  BY Zenon DEF Handled, Conf
<1>4. Aside(x, rcv')
  <2>1. {} \in SUBSET Seqs
    BY Zenon
  <2>2. Aside(x, [x EXCEPT !.nacks = {}])
    BY <2>1, Asked, Zenon
  <2> QED BY <1>3, <2>2, Zenon
<1>5. Becomes(x, rcv', FALSE) /\ Becomes(x, rcv', TRUE)
  BY <1>4, AsideBecomes, Zenon
<1>6. ReceiverOK(rcv') /\ rcv'.conf = rcv.conf
  BY <1>5, Zenon DEF Becomes
<1>7. Typed'
  <2>1. asks' \subseteq rcv'.conf.asks /\ asks' \subseteq Seqs
    <3>1. asks \subseteq rcv.conf.asks /\ rcv.conf.asks \subseteq Seqs
      BY <1>1, <1>2, ConfParts, Zenon DEF Typed
    <3> QED BY <1>3, <1>6, <3>1, Zenon
  <2>2. TypeOK'
    BY <1>1, <1>6, <2>1, Zenon DEF TypeOK, ReceiverOK
  <2> QED BY <1>1, <1>6, <2>1, <2>2, Zenon DEF Typed
<1>8. ASSUME ShortSessions PROVE Kept'
  <2>1. Kept
    BY <1>8, Zenon DEF Inv
  <2>2. Agrees(x, snd) /\ Sound(x, FALSE) /\ (Quiet => Sound(x, TRUE))
    BY <1>8, <2>1, Zenon
  <2>3. rcv'.sess = x.sess /\ rcv'.fin = x.fin
    BY <1>4, Zenon DEF Aside, Flow
  <2>4. Agrees(rcv', snd')
    BY <2>2, <2>3, Zenon DEF Agrees
  <2>5. Quiet' => Quiet
    BY Zenon DEF Quiet
  <2>6. Sound(rcv', FALSE) /\ (Quiet' => Sound(rcv', TRUE))
    BY <1>5, <1>8, <2>2, <2>5, Zenon DEF Becomes
  <2>7. SenderSound(snd') /\ \A m \in net' \cup pings' : Sane(m, snd')
    BY <2>1, Zenon DEF Kept
  <2> QED BY <2>4, <2>6, <2>7, Zenon DEF Kept
<1> QED BY <1>7, <1>8, Zenon DEF Inv

\* What Sent(m) leaves under way.
LEMMA SentNet ==
    ASSUME NEW m, Sent(m)
    PROVE  net \subseteq net' /\ net' \subseteq net \cup {m}
  BY Zenon DEF Sent

LEMMA SendDataStep == Inv /\ SendData => Inv'
<1>1. SUFFICES ASSUME Inv, SendData PROVE Inv'
  BY Zenon
<1> DEFINE e == <<snd.sess, snd.sent + 1>>
           m == Data(snd.sess, snd.win.next, e)
<1>2. /\ snd.phase = "open" /\ snd.sent + 1 \in rcv.conf.elements
      /\ snd' = [snd EXCEPT !.win = SendPush(@, e), !.hasData = TRUE, !.sent = @ + 1]
      /\ Sent(m) /\ pings' = pings \cup Pinged(snd') /\ asks' = asks /\ rcv' = rcv
  BY <1>1, Zenon DEF SendData, Conf
<1>3. snd \in Senders /\ rcv \in Receivers
  BY <1>1, Zenon DEF Inv, Typed, TypeOK
<1>4. snd.sent + 1 \in Elements
  BY <1>2, <1>3, Fields, ConfParts, Zenon
<1>5. /\ snd' \in Senders /\ snd'.sess = snd.sess
      /\ ShortSessions /\ SenderSound(snd) => SenderSound(snd')
  BY <1>2, <1>3, <1>4, SenderPushes, Zenon
<1>6. Renews(snd, snd')
  BY <1>2, <1>5, Zenon DEF Renews
<1>7. snd.sess \in Sessions /\ snd.win.next \in Seqs /\ e \in Packets
  BY <1>3, <1>4, SenderFields, ElementPacket, Zenon
<1>8. \A y \in {m} : MessageOK(y)
  <2>1. NoSeq \in Seqs \cup {NoSeq}
    BY Zenon
  <2> QED BY <1>7, <2>1, Kinds, Zenon
<1>9. \A y \in Pinged(snd') : MessageOK(y) /\ y.kind = "PING" /\ (SenderSound(snd') => Sane(y, snd'))
  BY <1>5, PingsOK, Zenon
<1>10. ASSUME ShortSessions, Kept PROVE SenderSound(snd') /\ \A y \in {m} \cup Pinged(snd') : Sane(y, snd')
  <2>1. SenderSound(snd) /\ SenderSound(snd')
    BY <1>5, <1>10, Zenon DEF Kept
  <2>2. snd.win.next = snd.sent /\ snd.win.next <= Top
    BY <2>1, Zenon DEF SenderSound
  <2>3. m = Data(snd'.sess, snd.win.next, <<snd'.sess, snd.win.next + 1>>)
    BY <1>5, <2>2, Zenon
  <2>4. Sane(m, snd')
    <3> HIDE DEF m, e
    <3> QED BY <1>5, <1>7, <2>2, <2>3, SaneKinds, Zenon
  <2> QED BY <1>9, <2>1, <2>4, Zenon
<1>11. net \subseteq net' /\ net' \subseteq net \cup {m}
  BY <1>2, SentNet, Zenon
<1> HIDE DEF m
<1>12. asks' \subseteq asks /\ pings' \subseteq pings \cup Pinged(snd')
  BY <1>2, Zenon
<1>13. Sends({m}, Pinged(snd'))
  BY <1>8, <1>9, <1>10, <1>11, <1>12, Zenon DEF Sends
<1> QED BY <1>1, <1>2, <1>5, <1>6, <1>10, <1>12, <1>13, SenderMoves, Zenon

LEMMA CloseFinStep == Inv /\ CloseFin => Inv'
<1>1. SUFFICES ASSUME Inv, CloseFin PROVE Inv'
  BY Zenon
<1> DEFINE a == IF snd.hasData THEN snd.win.next ELSE NoSeq
           m == Fin(snd.sess, a)
<1>2. /\ snd.phase = "open" /\ snd' = [snd EXCEPT !.phase = "closing"]
      /\ Sent(m) /\ pings' = pings /\ asks' = asks /\ rcv' = rcv
  BY <1>1, Zenon DEF CloseFin
<1>3. snd \in Senders
  BY <1>1, Zenon DEF Inv, Typed, TypeOK
<1>4. /\ snd' \in Senders /\ snd'.sess = snd.sess /\ snd'.win = snd.win /\ snd'.sent = snd.sent
      /\ snd'.hasData = snd.hasData /\ snd'.phase = "closing"
  BY <1>2, <1>3, Zenon DEF Senders
<1>5. Renews(snd, snd')
  BY <1>2, <1>4, Zenon DEF Renews
<1>6. snd.sess \in Sessions /\ snd.win.next \in Seqs /\ snd.hasData \in BOOLEAN
  BY <1>3, SenderFields, Zenon
<1>7. \A y \in {m} : MessageOK(y)
  <2>1. a \in Seqs \cup {NoSeq} /\ 0 \in Seqs /\ NoPkt \in Packets \cup {NoPkt}
    BY <1>6, Sizing, Zenon
  <2> HIDE DEF a
  <2>2. m \in Messages /\ m.kind = "FIN"
    BY <1>6, <2>1, Zenon DEF Fin, Messages
  <2> HIDE DEF m
  <2> QED BY <2>2, Zenon DEF MessageOK
<1>8. ASSUME ShortSessions, Kept PROVE SenderSound(snd') /\ \A y \in {m} \cup {} : Sane(y, snd')
  <2>1. SenderSound(snd)
    BY <1>8, Zenon DEF Kept
  <2>2. SenderSound(snd')
    BY <1>4, <2>1, Zenon DEF SenderSound
  <2>3. snd'.win.next = snd'.sent /\ snd'.win.next <= Top /\ snd'.win.next \in Seqs
    BY <1>4, <1>6, <2>2, Zenon DEF SenderSound
  <2>4. a = IF snd'.hasData = TRUE THEN snd'.sent ELSE NoSeq
    <3>1. snd.hasData <=> snd'.hasData = TRUE
      BY <1>4, <1>6, Zenon
    <3> QED BY <1>4, <2>3, <3>1, Zenon
  <2>5. Sane(m, snd')
    <3> HIDE DEF a
    <3>1. Sane(Fin(snd'.sess, IF snd'.hasData = TRUE THEN snd'.sent ELSE NoSeq), snd')
      BY <1>4, <2>3, SaneKinds, Zenon
    <3> QED BY <1>4, <2>4, <3>1, Zenon
  <2> QED BY <2>2, <2>5, Zenon
<1>9. net \subseteq net' /\ net' \subseteq net \cup {m}
  BY <1>2, SentNet, Zenon
<1> HIDE DEF m, a
<1>10. asks' \subseteq asks /\ pings' \subseteq pings \cup {}
  BY <1>2, Zenon
<1>11. \A y \in {} : MessageOK(y) /\ y.kind = "PING"
  BY Zenon
<1>12. Sends({m}, {})
  BY <1>7, <1>8, <1>9, <1>10, <1>11, Zenon DEF Sends
<1> QED BY <1>1, <1>2, <1>4, <1>5, <1>8, <1>10, <1>12, SenderMoves, Zenon

LEMMA RestartStep == Inv /\ Restart => Inv'
<1>1. SUFFICES ASSUME Inv, Restart PROVE Inv'
  BY Zenon
<1>2. /\ snd.sess + 1 \in rcv.conf.sessions /\ snd' = NewSender(snd.sess + 1)
      /\ pings' = pings \cup Pinged(snd') /\ net' = net /\ asks' = asks /\ rcv' = rcv
  BY <1>1, ZenonT(30) DEF Restart, Conf
<1>3. snd \in Senders /\ rcv \in Receivers
  BY <1>1, Zenon DEF Inv, Typed, TypeOK
<1>4. snd.sess + 1 \in Sessions
  BY <1>2, <1>3, Fields, ConfParts, Zenon
<1>5. snd' \in Senders /\ snd'.sess = snd.sess + 1 /\ SenderSound(snd')
  BY <1>2, <1>4, SenderNew, Zenon
<1>6. Renews(snd, snd')
  BY <1>5, Zenon DEF Renews
<1>7. \A y \in Pinged(snd') : MessageOK(y) /\ y.kind = "PING" /\ Sane(y, snd')
  BY <1>5, PingsOK, Zenon
<1>8. \A y \in {} \cup Pinged(snd') : Sane(y, snd')
  BY <1>7, Zenon
<1>9. /\ asks' \subseteq asks /\ pings' \subseteq pings \cup Pinged(snd')
      /\ net \subseteq net' /\ net' \subseteq net \cup {} /\ \A y \in {} : MessageOK(y)
  BY <1>2, Zenon
<1>10. Sends({}, Pinged(snd'))
  BY <1>7, <1>8, <1>9, Zenon DEF Sends
<1> QED BY <1>1, <1>2, <1>5, <1>6, <1>9, <1>10, SenderMoves, Zenon

\* What the record of the answered NACKs is makes no difference.
LEMMA RecentStep ==
    ASSUME NEW s \in Senders, NEW q \in {t \in Seq(Seqs) : Len(t) <= DedupSlots}
    PROVE  LET x == [s EXCEPT !.recent = q]
           IN  /\ x \in Senders /\ x.sess = s.sess /\ x.phase = s.phase /\ x.win = s.win
               /\ Renews(s, x) /\ (SenderSound(s) => SenderSound(x))
               /\ \A m : Sane(m, s) => Sane(m, x)
<1> DEFINE x == [s EXCEPT !.recent = q]
<1>1. /\ x \in Senders /\ x.sess = s.sess /\ x.phase = s.phase /\ x.win = s.win /\ x.sent = s.sent
      /\ x.hasData = s.hasData
  BY Zenon DEF Senders
<1> HIDE DEF x
<1>2. Renews(s, x)
  BY <1>1, Zenon DEF Renews
<1>3. SenderSound(s) => SenderSound(x)
  BY <1>1, Zenon DEF SenderSound
<1>4. \A m : Sane(m, s) => Sane(m, x)
  BY <1>1, Zenon DEF Sane
<1> QED BY <1>1, <1>2, <1>3, <1>4, Zenon DEF x

LEMMA ForgetNackStep == Inv /\ ForgetNack => Inv'
<1>1. SUFFICES ASSUME Inv, ForgetNack PROVE Inv'
  BY Zenon
<1>2. /\ snd.recent # << >> /\ snd' = [snd EXCEPT !.recent = Tail(snd.recent)]
      /\ net' = net /\ pings' = pings /\ asks' = asks /\ rcv' = rcv
  BY <1>1, Zenon DEF ForgetNack
<1>3. snd \in Senders
  BY <1>1, Zenon DEF Inv, Typed, TypeOK
<1>4. Tail(snd.recent) \in {t \in Seq(Seqs) : Len(t) <= DedupSlots}
  BY <1>2, <1>3, SenderFields, Forgotten, Zenon
<1>5. snd' \in Senders /\ Renews(snd, snd') /\ (SenderSound(snd) => SenderSound(snd'))
  BY <1>2, <1>3, <1>4, RecentStep, Zenon
<1>6. /\ asks' \subseteq asks /\ pings' \subseteq pings \cup {}
      /\ net \subseteq net' /\ net' \subseteq net \cup {}
      /\ \A y \in {} : MessageOK(y) /\ y.kind = "PING"
      /\ \A y \in {} \cup {} : Sane(y, snd')
  BY <1>2, Zenon
<1>7. ShortSessions /\ Kept => SenderSound(snd')
  BY <1>5, Zenon DEF Kept
<1>8. Sends({}, {})
  BY <1>6, Zenon DEF Sends
<1> QED BY <1>1, <1>2, <1>5, <1>6, <1>7, <1>8, SenderMoves, Zenon

LEMMA RecvNackStep ==
    ASSUME Inv, NEW n \in asks, RecvNack(n)
    PROVE  Inv'
<1> DEFINE e == SendGet(snd.win, n)
           m == Answer(n)
<1>1. /\ snd \in Senders /\ rcv \in Receivers /\ asks \subseteq Seqs /\ asks \subseteq rcv.conf.asks
  BY Zenon DEF Inv, Typed, TypeOK
<1>2. asks' \subseteq asks /\ pings' = pings /\ rcv' = rcv
  BY Zenon DEF RecvNack
<1>3. CASE snd' = snd /\ net' = net
  <2>1. Renews(snd, snd') /\ snd' \in Senders
    BY <1>1, <1>3, Zenon DEF Renews
  <2>2. Sends({}, {})
    BY <1>2, <1>3, Zenon DEF Sends
  <2>3. ShortSessions /\ Kept => SenderSound(snd')
    BY <1>3, Zenon DEF Kept
  <2> QED BY <1>2, <2>1, <2>2, <2>3, SenderMoves, Zenon
<1>4. CASE snd' = [snd EXCEPT !.recent = Remember(snd.recent, n)] /\ Sent(m)
  <2>1. n \in Seqs /\ snd.sess \in Sessions
    BY <1>1, SenderFields, Zenon
  <2>2. Remember(snd.recent, n) \in {t \in Seq(Seqs) : Len(t) <= DedupSlots}
    BY <1>1, <2>1, SenderFields, Remembered, Zenon
  <2>3. /\ snd' \in Senders /\ Renews(snd, snd') /\ (SenderSound(snd) => SenderSound(snd'))
        /\ \A y : Sane(y, snd) => Sane(y, snd')
    BY <1>1, <1>4, <2>2, RecentStep, Zenon
  <2>4. net \subseteq net' /\ net' \subseteq net \cup {m}
    BY <1>4, SentNet, Zenon
  <2>5. m = Reject(snd.sess, n) \/ (e \in Packets /\ m = Data(snd.sess, n, e))
    <3>1. e \in Packets \cup {NoPkt}
      BY <1>1, <2>1, Gets, Zenon
    <3> QED BY <3>1, Zenon DEF Answer
  <2>6. MessageOK(m)
    <3>1. n \in Seqs \cup {NoSeq}
      BY <2>1, Zenon
    <3>2. Reject(snd.sess, n) \in Messages /\ Reject(snd.sess, n).kind = "REJECT"
      BY <2>1, <3>1, Sizing, Zenon DEF Reject, Messages
    <3>3. MessageOK(Reject(snd.sess, n))
      BY <3>2, Zenon DEF MessageOK
    <3>4. e \in Packets => MessageOK(Data(snd.sess, n, e))
      BY <2>1, <3>1, Kinds, Zenon
    <3> HIDE DEF e, m
    <3> QED BY <2>5, <3>3, <3>4, Zenon
  <2>7. ASSUME ShortSessions, Kept PROVE SenderSound(snd') /\ Sane(m, snd')
    <3>1. SenderSound(snd) /\ SenderSound(snd')
      BY <2>3, <2>7, Zenon DEF Kept
    <3>2. n < Top /\ n <= Top
      <4>1. n \in 0 .. Top - 1
        BY <1>1, <2>7, Fields, Zenon DEF ShortSessions
      <4> QED BY <4>1, Sizing DEF Top
    <3>3. e \in {NoPkt, <<snd.sess, n + 1>>}
      BY <1>1, <2>1, <3>1, Gets, Zenon
    <3>4. m = Reject(snd.sess, n) \/ m = Data(snd.sess, n, <<snd.sess, n + 1>>)
      BY <3>3, Zenon DEF Answer
    <3>5. Sane(Reject(snd.sess, n), snd) /\ Sane(Data(snd.sess, n, <<snd.sess, n + 1>>), snd)
      BY <1>1, <2>1, <3>2, SaneKinds, Zenon
    <3> HIDE DEF e, m
    <3> QED BY <2>3, <3>1, <3>4, <3>5, Zenon
  <2> HIDE DEF e, m
  <2>8. Sends({m}, {})
    BY <1>2, <2>4, <2>6, <2>7, Zenon DEF Sends
  <2> QED BY <1>2, <2>3, <2>7, <2>8, SenderMoves, Zenon
<1>5. \/ snd' = snd /\ net' = net
      \/ snd' = [snd EXCEPT !.recent = Remember(snd.recent, n)] /\ Sent(m)
  BY Zenon DEF RecvNack
<1> QED BY <1>3, <1>4, <1>5, Zenon

LEMMA LoseNackStep == Inv /\ LoseNack => Inv'
<1>1. SUFFICES ASSUME Inv, LoseNack PROVE Inv'
  BY Zenon
<1>2. snd' = snd /\ net' = net /\ pings' = pings /\ rcv' = rcv /\ asks' \subseteq asks
  BY <1>1, Zenon DEF LoseNack
<1>3. Renews(snd, snd') /\ snd' \in Senders
  BY <1>1, <1>2, Zenon DEF Renews, Inv, Typed, TypeOK
<1>4. Sends({}, {})
  BY <1>2, Zenon DEF Sends
<1>5. ShortSessions /\ Kept => SenderSound(snd')
  BY <1>2, Zenon DEF Kept
<1> QED BY <1>1, <1>2, <1>3, <1>4, <1>5, SenderMoves, Zenon

LEMMA Agreeing ==
    ASSUME NEW r, NEW m, NEW x, NEW s, Follows(r, m, x), Agrees(r, s), Sane(m, s)
    PROVE  Agrees(x, s)
<1>1. x.sess <= s.sess
  BY Zenon DEF Follows, Agrees, Sane
<1>2. ASSUME x.fin # NoSeq, x.sess = s.sess PROVE s.phase = "closing" /\ x.fin = s.sent
  BY <1>2, Zenon DEF Follows, Agrees, Sane
<1> QED BY <1>1, <1>2, Zenon DEF Agrees

\* What the receiver makes of a packet.
LEMMA Received ==
    ASSUME Inv, NEW m \in net \cup pings, NEW p \in rcv.conf.paths, NEW late, NEW later
    PROVE  LET x == Dispatch(rcv, m, p, late, later)
           IN  /\ ReceiverOK(x) /\ x.conf = rcv.conf
               /\ ShortSessions =>
                    /\ Agrees(x, snd) /\ Sound(x, FALSE) /\ (Quiet => Sound(x, TRUE))
                    /\ ~rcv.conf.raw /\ rcv.known = TRUE /\ x.known = FALSE =>
                         ~(m.sess < rcv.sess) /\ (m.sess = rcv.sess => Done(rcv, m, x))
<1> DEFINE x == Dispatch(rcv, m, p, late, later)
<1>1. Typed /\ TypeOK /\ ReceiverOK(rcv)
  BY Zenon DEF Inv, Typed
<1>2. MessageOK(m)
  BY <1>1, Zenon DEF Typed
<1>3. p \in Paths
  BY <1>1, Fields, ConfParts, Zenon DEF TypeOK
<1>4. ASSUME ShortSessions
      PROVE  Sane(m, snd) /\ Truthful(m) /\ Agrees(rcv, snd) /\ Sound(rcv, FALSE) /\ (Quiet => Sound(rcv, TRUE))
  BY <1>4, Zenon DEF Inv, Kept, Sane
<1>5. /\ Follows(rcv, m, x)
      /\ ShortSessions /\ Sound(rcv, FALSE) =>
           /\ Sound(x, FALSE)
           /\ ~rcv.conf.raw /\ rcv.known = TRUE /\ x.known = FALSE =>
                ~(m.sess < rcv.sess) /\ (m.sess = rcv.sess => Done(rcv, m, x))
  BY <1>1, <1>2, <1>3, <1>4, Dispatched, Zenon
<1>6. ASSUME Quiet, ShortSessions, Sound(rcv, TRUE) PROVE Sound(x, TRUE)
  <2>1. m.kind # "FIN"
    <3>1. CASE m \in net
      BY <1>6, <3>1, Zenon DEF Quiet
    <3>2. CASE m \in pings
      <4>1. m.kind = "PING"
        BY <1>1, <3>2, Zenon DEF Typed
      <4> QED BY <4>1, Zenon
    <3> QED BY <3>1, <3>2, Zenon
  <2> QED BY <1>1, <1>2, <1>3, <1>4, <1>6, <2>1, Dispatched, Zenon
<1> HIDE DEF x
<1>7. ReceiverOK(x) /\ x.conf = rcv.conf
  BY <1>5, Zenon DEF Follows
<1>8. ShortSessions => Agrees(x, snd)
  BY <1>4, <1>5, Agreeing, Zenon
<1> QED BY <1>4, <1>5, <1>6, <1>7, <1>8, Zenon DEF x

LEMMA ReceiveStep ==
    ASSUME Inv, NEW m \in net \cup pings, NEW p \in rcv.conf.paths, Receive(m, p)
    PROVE  Inv'
<1>1. PICK late, later : Handled(Dispatch(rcv, m, p, late, later))
  BY Zenon DEF Receive
<1> DEFINE x == Dispatch(rcv, m, p, late, later)
<1>2. snd' = snd /\ pings' = pings /\ net' \subseteq net /\ (Keeps = TRUE => net' = net)
  BY Zenon DEF Receive
<1>3. /\ ReceiverOK(x) /\ x.conf = rcv.conf
      /\ ShortSessions => Agrees(x, snd) /\ Sound(x, FALSE) /\ (Quiet => Sound(x, TRUE))
  BY Received, Zenon
<1> HIDE DEF x
<1>4. Handled(x)
  BY <1>1, Zenon DEF x
<1> QED BY <1>2, <1>3, <1>4, ReceiverMoves, Zenon

\* What the receiver makes of a silence.
LEMMA Polled ==
    ASSUME Inv, NEW late, NEW expired \in SUBSET rcv.heard
    PROVE  LET x == ReorderCheck(HealthCheck(rcv, expired), late)
           IN  /\ ReceiverOK(x) /\ x.conf = rcv.conf
               /\ ShortSessions =>
                    /\ Agrees(x, snd) /\ Sound(x, FALSE) /\ (Quiet => Sound(x, TRUE))
                    /\ ~rcv.conf.raw => x.known = rcv.known
<1> DEFINE y == HealthCheck(rcv, expired)
           x == ReorderCheck(y, late)
<1>1. Typed /\ TypeOK /\ ReceiverOK(rcv)
  BY Zenon DEF Inv, Typed
<1>2. expired \in SUBSET Paths
  BY <1>1, Fields, Zenon DEF TypeOK
<1>3. Becomes(rcv, y, FALSE) /\ Becomes(rcv, y, TRUE) /\ (Sound(rcv, FALSE) => y.known = rcv.known)
  BY <1>1, <1>2, Checked, Zenon
<1> HIDE DEF y
<1>4. ReceiverOK(y) /\ y.conf = rcv.conf
  BY <1>3, Zenon DEF Becomes
<1>5. Becomes(y, x, FALSE) /\ Becomes(y, x, TRUE) /\ (~y.conf.raw => x.known = y.known)
  BY <1>4, ReorderChecked, Zenon
<1> HIDE DEF x
<1>6. Becomes(rcv, x, FALSE) /\ Becomes(rcv, x, TRUE)
  BY <1>3, <1>5, BecomesTwice, Zenon
<1>7. ASSUME ShortSessions
      PROVE  Agrees(rcv, snd) /\ Sound(rcv, FALSE) /\ (Quiet => Sound(rcv, TRUE))
  BY <1>7, Zenon DEF Inv, Kept
<1>8. ShortSessions => Agrees(x, snd)
  BY <1>6, <1>7, Zenon DEF Agrees, Becomes
<1>9. ShortSessions => Sound(x, FALSE) /\ (Quiet => Sound(x, TRUE))
  BY <1>6, <1>7, Zenon DEF Becomes
<1>10. ReceiverOK(x) /\ x.conf = rcv.conf
  BY <1>6, Zenon DEF Becomes
<1>11. ShortSessions /\ ~rcv.conf.raw => x.known = rcv.known
  BY <1>3, <1>4, <1>5, <1>7, Zenon
<1> QED BY <1>8, <1>9, <1>10, <1>11, Zenon DEF x, y

LEMMA Silences ==
    ASSUME Poll
    PROVE  \E late : \E expired \in SUBSET rcv.heard : Handled(ReorderCheck(HealthCheck(rcv, expired), late))
<1>1. {{}} \subseteq SUBSET rcv.heard
  BY Zenon
<1> QED BY <1>1, Zenon DEF Poll

LEMMA PollStep == Inv /\ Poll => Inv'
<1>1. SUFFICES ASSUME Inv, Poll PROVE Inv'
  BY Zenon
<1>2. PICK late : \E expired \in SUBSET rcv.heard : Handled(ReorderCheck(HealthCheck(rcv, expired), late))
  BY <1>1, Silences, Zenon
<1>3. PICK expired \in SUBSET rcv.heard : Handled(ReorderCheck(HealthCheck(rcv, expired), late))
  BY <1>2, Zenon
<1> DEFINE x == ReorderCheck(HealthCheck(rcv, expired), late)
<1>4. snd' = snd /\ pings' = pings /\ net' \subseteq net /\ (Keeps = TRUE => net' = net)
  BY <1>1, Zenon DEF Poll
<1>5. /\ ReceiverOK(x) /\ x.conf = rcv.conf
      /\ ShortSessions => Agrees(x, snd) /\ Sound(x, FALSE) /\ (Quiet => Sound(x, TRUE))
  BY <1>1, Polled, Zenon
<1> HIDE DEF x
<1>6. Handled(x)
  BY <1>3, Zenon DEF x
<1> QED BY <1>1, <1>4, <1>5, <1>6, ReceiverMoves, Zenon

-----------------------------------------------------------------------------
\* Theorems

LEMMA InvNext == Inv /\ [Next]_vars => Inv'
<1>1. SUFFICES ASSUME Inv, [Next]_vars PROVE Inv'
  BY Zenon
<1>2. CASE UNCHANGED vars
  <2>1. snd' = snd /\ net' = net /\ pings' = pings /\ rcv' = rcv /\ asks' = asks
    BY <1>2, Zenon DEF vars
  <2>2. Renews(snd, snd') /\ snd' \in Senders
    BY <1>1, <2>1, Zenon DEF Renews, Inv, Typed, TypeOK
  <2>3. Sends({}, {}) /\ asks' \subseteq asks
    BY <2>1, Zenon DEF Sends
  <2>4. ShortSessions /\ Kept => SenderSound(snd')
    BY <2>1, Zenon DEF Kept
  <2> QED BY <1>1, <2>1, <2>2, <2>3, <2>4, SenderMoves, Zenon
<1>3. CASE SendData
  BY <1>1, <1>3, SendDataStep, Zenon
<1>4. CASE CloseFin
  BY <1>1, <1>4, CloseFinStep, Zenon
<1>5. CASE Restart
  BY <1>1, <1>5, RestartStep, Zenon
<1>6. CASE ForgetNack
  BY <1>1, <1>6, ForgetNackStep, Zenon
<1>7. ASSUME NEW n \in asks, RecvNack(n) PROVE Inv'
  BY <1>1, <1>7, RecvNackStep, Zenon
<1>8. ASSUME NEW m \in net \cup pings, NEW p \in rcv.conf.paths, Receive(m, p) PROVE Inv'
  BY <1>1, <1>8, ReceiveStep, Zenon
<1>9. CASE Poll
  BY <1>1, <1>9, PollStep, Zenon
<1>10. CASE LoseNack
  BY <1>1, <1>10, LoseNackStep, Zenon
<1> QED BY <1>1, <1>2, <1>3, <1>4, <1>5, <1>6, <1>7, <1>8, <1>9, <1>10, Zenon DEF Next, Conf

\* The invariant, of which the statements below are consequences.
THEOREM LinkSafe == Spec => []Inv
<1>1. Init => Inv
  BY InvInit, Zenon
<1>2. Inv /\ [Next]_vars => Inv'
  BY InvNext, Zenon
<1> QED BY <1>1, <1>2, PTL DEF Spec

\* Both ends and the packets under way keep their types: no number leaves the
\* number space, and nack_dedup_buf never has more than its slots, however the
\* network loses, repeats and reorders packets and however long a session is.
THEOREM TypeCorrect == Spec => []TypeOK
<1>1. Inv => TypeOK
  BY Zenon DEF Inv, Typed
<1> QED BY <1>1, LinkSafe, PTL

\* As long as no FIN is sent and no session is so long that its numbers meet
\* again, a service that retransmits delivers everything in the order it was
\* sent in, over any number of lost and repeated packets, skipped numbers,
\* disconnections and restarts.  Keeps says that net still has every packet that
\* was sent.
THEOREM DeliveredInOrder ==
    ASSUME ShortSessions, Keeps = TRUE
    PROVE  Spec => []StrictOrder
<1>1. Inv => StrictOrder
  <2>1. SUFFICES ASSUME Inv, ~rcv.conf.raw, \A m \in net : m.kind # "FIN"
                 PROVE  /\ \A i, j \in DOMAIN rcv.trace : i < j => Before(rcv.trace[i], rcv.trace[j])
                        /\ \A i \in DOMAIN rcv.trace, e \in rcv.old : Before(e, rcv.trace[i])
    BY Zenon DEF StrictOrder, Conf
  <2>2. Quiet
    BY <2>1, Zenon DEF Quiet
  <2>3. Sound(rcv, TRUE) /\ rcv \in Receivers
    BY <2>1, <2>2, Zenon DEF Inv, Kept, Typed, TypeOK
  <2>4. Rising(rcv.old, rcv.trace, rcv.frag)
    BY <2>1, <2>3, Zenon DEF Sound, Ordered, History
  <2>5. DOMAIN rcv.trace = 1 .. Len(rcv.trace)
    BY <2>3, Fields
  <2> QED BY <2>4, <2>5, Zenon DEF Rising
<1> QED BY <1>1, LinkSafe, PTL

\* If every message is one packet and no session is so long that its numbers
\* meet again, the application misses no element of a session between CONNECTED
\* and DISCONNECTED, with FIN and without, RAW and not.
THEOREM GapsAreAnnounced ==
    ASSUME ShortSessions, Fragments = {}
    PROVE  Spec => []NoSilentGap
<1>1. Inv => NoSilentGap
  <2>1. SUFFICES ASSUME Inv PROVE NoSilentGap
    BY Zenon
  <2>2. Sound(rcv, FALSE)
    BY <2>1, Zenon DEF Inv, Kept
  <2>3. Chain(rcv.trace, rcv.known, rcv.sess, rcv.win.next)
    BY <2>2, Zenon DEF Sound, Gapless
  <2> QED BY <2>3, Zenon DEF Chain, NoSilentGap
<1> QED BY <1>1, LinkSafe, PTL

\* A receiver that ends the session of its sender is done with number k - 1.
LEMMA EndedAfter ==
    ASSUME Inv, ShortSessions, Fragments = {}, NEW m \in net \cup pings, NEW x,
           rcv.sess = snd.sess, m.sess = rcv.sess, Done(rcv, m, x), NEW k \in 1 .. snd.sent
    PROVE  \/ k - 1 < rcv.win.next
           \/ <<snd.sess, k>> \in x.old \cup x.dropped
           \/ Reject(snd.sess, k - 1) \in net
<1>1. Sane(m, snd) /\ Agrees(rcv, snd) /\ SenderSound(snd)
  BY Zenon DEF Inv, Kept
<1>2. /\ snd.sent \in Nat /\ rcv.win.next \in Nat /\ rcv.win.next # NoSeq /\ snd.sent # NoSeq /\ k \in Nat
  <2>1. snd \in Senders /\ rcv \in Receivers
    BY Zenon DEF Inv, Typed, TypeOK
  <2>2. snd.sent \in Nat /\ rcv.win.next \in Seqs
    BY <2>1, SenderFields, Fields, Zenon
  <2>3. rcv.win.next \in Nat
    BY <2>2, Sizing, Zenon
  <2>4. \A n \in Nat : n # NoSeq
    BY DEF NoSeq
  <2>5. k \in Nat
    OBVIOUS
  <2> QED BY <2>2, <2>3, <2>4, <2>5, Zenon
<1>3. CASE m.kind = "FIN" /\ (m.ack = NoSeq \/ m.ack = rcv.win.next)
  <2>1. m.ack = IF snd.hasData = TRUE THEN snd.sent ELSE NoSeq
    BY <1>1, <1>3, Zenon DEF Sane
  <2>2. snd.hasData = TRUE
    <3>1. snd.hasData = TRUE <=> snd.sent > 0
      BY <1>1, Zenon DEF SenderSound
    <3> QED BY <1>2, <3>1
  <2>3. snd.sent = rcv.win.next
    BY <1>2, <1>3, <2>1, <2>2, Zenon
  <2>4. k <= snd.sent /\ k \in Int
    OBVIOUS
  <2>5. k <= rcv.win.next
    BY <2>3, <2>4, Zenon
  <2> QED BY <1>2, <2>4, <2>5
<1>4. CASE ~(k - 1 < rcv.win.next)
  <2>1. rcv.win.next < k /\ k <= snd.sent
    BY <1>2, <1>4
  <2>2. CASE Ended(rcv, x)
    <3>1. rcv.fin = snd.sent
      BY <1>1, <2>2, Zenon DEF Ended, Agrees
    <3> QED BY <1>2, <2>1, <2>2, <3>1, Zenon DEF Ended
  <2>3. CASE m.kind = "REJECT" /\ EndedBut(rcv, x, m.ack)
    <3>1. rcv.fin = snd.sent
      BY <1>1, <2>3, Zenon DEF EndedBut, Agrees
    <3>2. <<snd.sess, k>> \in x.old \cup x.dropped \/ m.ack = k - 1
      BY <1>2, <2>1, <2>3, <3>1, Zenon DEF EndedBut
    <3>3. m = Reject(snd.sess, m.ack)
      BY <1>1, <2>3, Zenon DEF Sane
    <3>4. m \notin pings
      <4>1. m \in pings => m.kind = "PING"
        BY Zenon DEF Inv, Typed
      <4> QED BY <2>3, <4>1, Zenon
    <3> QED BY <3>2, <3>3, <3>4, Zenon
  <2> QED BY <1>3, <2>2, <2>3, Zenon DEF Done
<1> QED BY <1>4, Zenon

\* If every message is one packet and no session is so long that its numbers
\* meet again, FIN ends the session only when the receiver is done with every
\* number the sender used.
THEOREM FinComesLast ==
    ASSUME ShortSessions, Fragments = {}
    PROVE  Spec => FinAfterData
<1> DEFINE Last == ~Conf.raw /\ rcv.known /\ ~rcv'.known /\ rcv.sess = snd.sess =>
                     \A k \in 1 .. snd.sent :
                         \/ k - 1 < rcv.win.next
                         \/ <<snd.sess, k>> \in rcv'.old \cup rcv'.dropped
                         \/ Reject(snd.sess, k - 1) \in net
<1>1. ASSUME Inv, [Next]_vars PROVE Last
  <2>1. CASE rcv' = rcv
    BY <2>1, Zenon
  <2>2. CASE Poll
    <3>1. PICK late : \E expired \in SUBSET rcv.heard : Handled(ReorderCheck(HealthCheck(rcv, expired), late))
      BY <2>2, Silences, Zenon
    <3>2. PICK expired \in SUBSET rcv.heard : Handled(ReorderCheck(HealthCheck(rcv, expired), late))
      BY <3>1, Zenon
    <3> DEFINE x == ReorderCheck(HealthCheck(rcv, expired), late)
    <3>3. ReceiverOK(x) /\ (~rcv.conf.raw => x.known = rcv.known)
      BY <1>1, Polled, Zenon
    <3> HIDE DEF x
    <3>4. rcv'.known = x.known
      BY <3>2, <3>3, Zenon DEF Handled, x, ReceiverOK, Receivers
    <3> QED BY <3>3, <3>4, Zenon DEF Conf
  <2>3. ASSUME NEW m \in net \cup pings, NEW p \in rcv.conf.paths, Receive(m, p) PROVE Last
    <3>1. PICK late, later : Handled(Dispatch(rcv, m, p, late, later))
      BY <2>3, Zenon DEF Receive
    <3> DEFINE x == Dispatch(rcv, m, p, late, later)
    <3>2. /\ ReceiverOK(x)
          /\ ~rcv.conf.raw /\ rcv.known = TRUE /\ x.known = FALSE =>
               ~(m.sess < rcv.sess) /\ (m.sess = rcv.sess => Done(rcv, m, x))
      BY <1>1, Received, Zenon
    <3> HIDE DEF x
    <3>3. rcv'.known = x.known /\ rcv'.old = x.old /\ rcv'.dropped = x.dropped
      BY <3>1, <3>2, Zenon DEF Handled, x, ReceiverOK, Receivers
    <3>4. SUFFICES ASSUME ~rcv.conf.raw, rcv.known, ~rcv'.known, rcv.sess = snd.sess, NEW k \in 1 .. snd.sent
                   PROVE  \/ k - 1 < rcv.win.next
                          \/ <<snd.sess, k>> \in rcv'.old \cup rcv'.dropped
                          \/ Reject(snd.sess, k - 1) \in net
      BY Zenon DEF Conf
    <3>5. rcv.known = TRUE /\ x.known = FALSE
      <4>1. rcv.known \in BOOLEAN /\ x.known \in BOOLEAN
        BY <1>1, <3>2, Fields, Zenon DEF Inv, Typed, ReceiverOK
      <4> QED BY <3>3, <3>4, <4>1, Zenon
    <3>6. ~(m.sess < rcv.sess) /\ (m.sess = rcv.sess => Done(rcv, m, x))
      BY <3>2, <3>4, <3>5, Zenon
    <3>7. m.sess = rcv.sess
      <4>1. m.sess <= rcv.sess
        BY <1>1, <3>4, Zenon DEF Inv, Kept, Sane
      <4>2. m \in Messages /\ rcv \in Receivers
        BY <1>1, Zenon DEF Inv, Typed, TypeOK
      <4>3. m.sess \in Nat /\ rcv.sess \in Nat
        BY <4>2, Fields, SessionsAreNat, Zenon DEF Messages
      <4> QED BY <3>6, <4>1, <4>3
    <3> QED BY <1>1, <3>3, <3>4, <3>6, <3>7, EndedAfter, Zenon
  <2>4. SendData \/ CloseFin \/ Restart \/ ForgetNack \/ LoseNack \/ UNCHANGED vars => rcv' = rcv
    BY Zenon DEF SendData, CloseFin, Restart, ForgetNack, LoseNack, vars
  <2>5. \A n : RecvNack(n) => rcv' = rcv
    BY Zenon DEF RecvNack
  <2> HIDE DEF Last
  <2> QED BY <1>1, <2>1, <2>2, <2>3, <2>4, <2>5, Zenon DEF Next, Conf
<1>2. Spec => [][Last]_vars
  BY <1>1, LinkSafe, PTL DEF Spec
<1> QED BY <1>2, Zenon DEF FinAfterData
=============================================================================

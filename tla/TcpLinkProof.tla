---------------------------- MODULE TcpLinkProof ----------------------------
(***************************************************************************)
(* Proofs about TcpLink, for any number of paths, sessions, packets and    *)
(* connections, and every window size and number space.                    *)
(***************************************************************************)
EXTENDS TcpLink, WindowLemmas

\* The points at which a path is counted in, and the paths that are.
Live == {"up", "ended", "shut"}

Counted(e) == {p \in Paths : e.at[p] \in Live}

\* The sender on its own has its type, and its path count is right.
SenderOK(e) == e \in Senders /\ e.active = Cardinality(Counted(e))

SenderTyped ==
    /\ SenderOK(snd)
    /\ snd.queued => snd.sent + 1 \in Elements

\* The receiver r has its type, its path count is right, and the two ends of
\* its window agree.
ReceiverOK(r) ==
    /\ r \in Receivers /\ r.active = Cardinality(Counted(r)) /\ Expects(r.win, r.win.next)

\* When no path is counted in, the session is forgotten or about to be.
Deserted(r) ==
    \/ ~r.alive /\ r.accepted = None /\ ~r.known
    \/ \E p \in Paths : r.at[p] = "left"

ReceiverTyped ==
    /\ ReceiverOK(rcv)
    /\ rcv.active = 0 => Deserted(rcv)
    /\ ~rcv.alive => rcv.trace = << >>

-----------------------------------------------------------------------------
\* Paths

\* The thread of p gave its connection up, and e became f.
Off(e, f, p) == \E x \in Points \ Live : f.at = [e.at EXCEPT ![p] = x]

LEMMA OffAt ==
    ASSUME NEW e, NEW f, NEW p \in Paths, e.at \in [Paths -> Points], Off(e, f, p)
    PROVE  f.at[p] \notin Live /\ \A k \in Paths : k # p => f.at[k] = e.at[k]
<1>1. PICK x \in Points \ Live : f.at = [e.at EXCEPT ![p] = x]
  BY Zenon DEF Off
<1> QED BY <1>1, Zenon

\* What becomes of the number of paths when the thread of one moves on.
LEMMA Counting ==
    ASSUME NEW e, NEW f, NEW p \in Paths, NEW x \in Points, e.at \in [Paths -> Points],
           f.at = [e.at EXCEPT ![p] = x]
    PROVE  /\ Cardinality(Counted(e)) \in 0 .. Cardinality(Paths)
           /\ Cardinality(Counted(f)) \in 0 .. Cardinality(Paths)
           /\ Cardinality(Counted(e)) = 0 <=> Counted(e) = {}
           /\ p \notin Counted(e) /\ x \in Live =>
                 Cardinality(Counted(f)) = Cardinality(Counted(e)) + 1
           /\ p \in Counted(e) /\ x \notin Live =>
                 Cardinality(Counted(f)) = Cardinality(Counted(e)) - 1
           /\ (p \in Counted(e) <=> x \in Live) => Counted(f) = Counted(e)
<1>1. Counted(e) \in SUBSET Paths /\ Counted(f) \in SUBSET Paths
  BY Zenon DEF Counted
<1>2. ASSUME NEW S \in SUBSET Paths
      PROVE  /\ Cardinality(S) \in 0 .. Cardinality(Paths) /\ Cardinality(Paths) \in Nat
             /\ Cardinality(S) = 0 <=> S = {}
             /\ p \notin S => Cardinality(S \cup {p}) = Cardinality(S) + 1
  BY TcpAssumption, Zenon DEF Sized
<1>3. /\ Cardinality(Counted(e)) \in 0 .. Cardinality(Paths) /\ Cardinality(Paths) \in Nat
      /\ Cardinality(Counted(f)) \in 0 .. Cardinality(Paths)
  BY <1>1, <1>2, Zenon
<1>4. Cardinality(Counted(e)) = 0 <=> Counted(e) = {}
  BY <1>1, <1>2, Zenon
<1>5. Counted(f) = IF x \in Live THEN Counted(e) \cup {p} ELSE Counted(e) \ {p}
  BY Zenon DEF Counted
<1>6. p \notin Counted(e) => Cardinality(Counted(e) \cup {p}) = Cardinality(Counted(e)) + 1
  BY <1>1, <1>2, Zenon
<1>7. p \in Counted(e) => Cardinality(Counted(e) \ {p}) = Cardinality(Counted(e)) - 1
  <2>1. /\ Counted(e) \ {p} \in SUBSET Paths /\ p \notin Counted(e) \ {p}
        /\ p \in Counted(e) => (Counted(e) \ {p}) \cup {p} = Counted(e)
    BY <1>1, Zenon
  <2>2. /\ Cardinality((Counted(e) \ {p}) \cup {p}) = Cardinality(Counted(e) \ {p}) + 1
        /\ Cardinality(Counted(e) \ {p}) \in 0 .. Cardinality(Paths)
    BY <1>2, <2>1, Zenon
  <2>3. p \in Counted(e) => Cardinality(Counted(e)) = Cardinality(Counted(e) \ {p}) + 1
    BY <2>1, <2>2, Zenon
  <2> QED BY <2>2, <2>3
<1> QED BY <1>3, <1>4, <1>5, <1>6, <1>7, Zenon

-----------------------------------------------------------------------------
\* The sender

\* The fields that have to do with packets, not with paths.
Transfer(e) ==
    <<e.sess, e.seq, e.sent, e.queued, e.phase, e.target, e.acked, e.renumbered>>

\* potr_internal_sync_service_path_state_locked changes one flag.
LEMMA SenderSync ==
    ASSUME NEW e \in Senders
    PROVE  /\ Sync(e) \in Senders /\ Sync(e).at = e.at /\ Sync(e).active = e.active
           /\ Transfer(Sync(e)) = Transfer(e)
  BY Zenon DEF Sync, Senders, Transfer

\* A connection is made, and one is lost.
LEMMA SenderJoined ==
    ASSUME NEW e, SenderOK(e), NEW p \in Paths, p \notin Counted(e)
    PROVE  /\ SenderOK(Joined(e, p)) /\ Transfer(Joined(e, p)) = Transfer(e)
           /\ Joined(e, p).at = [e.at EXCEPT ![p] = "up"]
<1> DEFINE f == Joined(e, p)
<1>1. e \in Senders /\ e.active = Cardinality(Counted(e)) /\ e.at \in [Paths -> Points]
  BY Zenon DEF SenderOK, Senders
<1>2. /\ f.at = [e.at EXCEPT ![p] = "up"] /\ f.active = e.active + 1
      /\ Transfer(f) = Transfer(e)
  BY <1>1, Zenon DEF Joined, Senders, Transfer
<1>3. /\ Cardinality(Counted(f)) = Cardinality(Counted(e)) + 1
      /\ Cardinality(Counted(f)) \in 0 .. Cardinality(Paths)
  <2>1. "up" \in Points /\ "up" \in Live
    BY Zenon DEF Points, Live
  <2> QED BY <1>1, <1>2, <2>1, Counting
<1>4. f \in Senders
  <2>1. e.active + 1 \in 0 .. Cardinality(Paths)
    BY <1>1, <1>3, Zenon
  <2> QED BY <1>1, <2>1, Zenon DEF Joined, Senders, PingStates, Points
<1> QED BY <1>1, <1>2, <1>3, <1>4, Zenon DEF SenderOK

LEMMA SenderCountedOut ==
    ASSUME NEW e, SenderOK(e), NEW p \in Counted(e), NEW idle \in {"down", "exited"}
    PROVE  /\ SenderOK(CountedOut(e, p, idle)) /\ Transfer(CountedOut(e, p, idle)) = Transfer(e)
           /\ Off(e, CountedOut(e, p, idle), p)
<1> DEFINE f == CountedOut(e, p, idle)
           x == IF e.active = 1 THEN "left" ELSE idle
<1>1. /\ e \in Senders /\ e.active = Cardinality(Counted(e)) /\ e.at \in [Paths -> Points]
      /\ p \in Paths
  BY Zenon DEF SenderOK, Senders, Counted
<1>2. f.at = [e.at EXCEPT ![p] = x] /\ f.active = e.active - 1 /\ Transfer(f) = Transfer(e)
  BY <1>1, Zenon DEF CountedOut, Senders, Transfer
<1>3. x \in Points /\ x \notin Live
  BY Zenon DEF Points, Live
<1> HIDE DEF x
<1>4. /\ Cardinality(Counted(f)) = Cardinality(Counted(e)) - 1
      /\ Cardinality(Counted(f)) \in 0 .. Cardinality(Paths)
  BY <1>1, <1>2, <1>3, Counting
<1>5. f \in Senders
  <2>1. e.active - 1 \in 0 .. Cardinality(Paths)
    BY <1>1, <1>4, Zenon
  <2> QED BY <1>1, <1>3, <2>1, Zenon DEF CountedOut, Senders, Points, x
<1> QED BY <1>1, <1>2, <1>3, <1>4, <1>5, Zenon DEF SenderOK, Off

LEMMA SenderLoses ==
    ASSUME NEW e, SenderOK(e), NEW p \in Counted(e), NEW idle \in {"down", "exited"}
    PROVE  /\ SenderOK(Lost(e, p, idle)) /\ Transfer(Lost(e, p, idle)) = Transfer(e)
           /\ Off(e, Lost(e, p, idle), p)
<1> DEFINE f == CountedOut(e, p, idle)
           g == [f EXCEPT !.ping[p] = "UNDEFINED"]
<1>1. /\ SenderOK(f) /\ Transfer(f) = Transfer(e)
      /\ Off(e, f, p)
  BY SenderCountedOut, Zenon
<1> HIDE DEF f
<1>2. p \in Paths
  BY Zenon DEF Counted
<1>3. g \in Senders /\ g.at = f.at /\ g.active = f.active /\ Transfer(g) = Transfer(f)
  BY <1>1, <1>2, Zenon DEF SenderOK, Senders, PingStates, Transfer
<1>4. Lost(e, p, idle) = Sync(g)
  BY Zenon DEF Lost, f
<1> HIDE DEF g
<1>5. /\ Sync(g) \in Senders /\ Sync(g).at = g.at /\ Sync(g).active = g.active
      /\ Transfer(Sync(g)) = Transfer(g)
  BY <1>3, SenderSync, Zenon
<1> QED BY <1>1, <1>3, <1>4, <1>5, Zenon DEF SenderOK, Counted, Off

\* A PING arrives, or none for too long.
LEMMA SenderHears ==
    ASSUME NEW e, SenderOK(e), NEW p \in Paths, NEW m, m.states \in PingStates
    PROVE  /\ SenderOK(OnPing(e, p, m)) /\ Transfer(OnPing(e, p, m)) = Transfer(e)
           /\ OnPing(e, p, m).at = e.at
<1> DEFINE g == [e EXCEPT !.ping[p] = "NORMAL", !.remote = Apply(@, m.states)]
<1>1. e \in Senders /\ Apply(e.remote, m.states) \in PingStates
  BY Zenon DEF SenderOK, Senders, Apply, PingStates
<1>2. g \in Senders /\ g.at = e.at /\ g.active = e.active /\ Transfer(g) = Transfer(e)
  BY <1>1, Zenon DEF Senders, PingStates, Transfer
<1>3. OnPing(e, p, m) = Sync(g)
  BY Zenon DEF OnPing
<1> HIDE DEF g
<1> QED BY <1>2, <1>3, SenderSync, Zenon DEF SenderOK, Counted

LEMMA SenderWaitsInVain ==
    ASSUME NEW e, SenderOK(e), NEW p \in Paths, e.at[p] = "up"
    PROVE  /\ SenderOK(TimedOut(e, p)) /\ Transfer(TimedOut(e, p)) = Transfer(e)
           /\ TimedOut(e, p).at = [e.at EXCEPT ![p] = "ended"]
<1> DEFINE g == [e EXCEPT !.ping[p] = "ABNORMAL"]
           h == Sync(g)
           f == TimedOut(e, p)
<1>1. e \in Senders /\ e.at \in [Paths -> Points]
  BY Zenon DEF SenderOK, Senders
<1>2. g \in Senders /\ g.at = e.at /\ g.active = e.active /\ Transfer(g) = Transfer(e)
  BY <1>1, Zenon DEF Senders, PingStates, Transfer
<1> HIDE DEF g
<1>3. h \in Senders /\ h.at = e.at /\ h.active = e.active /\ Transfer(h) = Transfer(e)
  BY <1>2, SenderSync, Zenon
<1>4. f = [h EXCEPT !.at[p] = "ended"]
  BY Zenon DEF TimedOut, g
<1> HIDE DEF h
<1>5. /\ f \in Senders /\ f.at = [e.at EXCEPT ![p] = "ended"] /\ f.active = e.active
      /\ Transfer(f) = Transfer(e)
  BY <1>3, <1>4 DEF Senders, Points, Transfer
<1>6. Counted(f) = Counted(e)
  BY <1>1, <1>5, Zenon DEF Counted, Live
<1> QED BY <1>5, <1>6, Zenon DEF SenderOK

LEMMA SenderIdleOK == SenderIdle \in {"down", "exited"}
  BY Zenon DEF SenderIdle

\* The connect and receive threads of the sender leave the packets alone.
LEMMA SenderPaths ==
    ASSUME SenderOK(snd), rcv \in Receivers, NEW p \in Paths,
           \/ Connect(p) \/ ConnectFails(p) \/ SenderPinged(p) \/ SenderTimeout(p)
           \/ SenderLost(p) \/ StartFails(p)
    PROVE  /\ SenderOK(snd') /\ Transfer(snd') = Transfer(snd)
           /\ Sockets(snd') \subseteq Sockets(snd) \cup {p}
           /\ ~Connect(p) => Sockets(snd') \subseteq Sockets(snd)
<1>1. snd \in Senders /\ snd.at \in [Paths -> Points]
  BY Zenon DEF SenderOK, Senders
<1>2. SenderIdle \in {"down", "exited"} /\ SenderIdle \in Points \ Live
  BY SenderIdleOK, Zenon DEF Points, Live
<1>3. CASE Connect(p)
  <2> DEFINE j == Joined(snd, p)
  <2>1. p \notin Counted(snd)
    BY <1>3, Zenon DEF Connect, Counted, Live
  <2>2. SenderOK(j) /\ Transfer(j) = Transfer(snd) /\ j.at = [snd.at EXCEPT ![p] = "up"]
    BY <2>1, SenderJoined, Zenon
  <2>3. snd' = [j EXCEPT !.sending = @ \/ p = Path0]
    BY <1>3, Zenon DEF Connect
  <2> HIDE DEF j
  <2>4. /\ snd' \in Senders /\ snd'.at = j.at /\ snd'.active = j.active
        /\ Transfer(snd') = Transfer(j)
    BY <2>2, <2>3, Zenon DEF SenderOK, Senders, Transfer
  <2>5. Sockets(snd') \subseteq Sockets(snd) \cup {p}
    BY <1>1, <2>2, <2>4, Zenon DEF Sockets
  <2> QED BY <1>3, <2>2, <2>4, <2>5, Zenon DEF SenderOK, Counted
<1>4. CASE ConnectFails(p)
  <2>1. CASE snd' = [snd EXCEPT !.at[p] = SenderIdle]
    <3>1. /\ snd' \in Senders /\ snd'.at = [snd.at EXCEPT ![p] = SenderIdle]
          /\ snd'.active = snd.active /\ Transfer(snd') = Transfer(snd)
      BY <1>1, <1>2, <2>1, Zenon DEF Senders, Transfer
    <3>2. p \notin Counted(snd)
      BY <1>4, Zenon DEF ConnectFails, Counted, Live
    <3>3. Counted(snd') = Counted(snd)
      BY <1>1, <1>2, <3>1, <3>2, Zenon DEF Counted
    <3>4. Sockets(snd') \subseteq Sockets(snd)
      BY <1>1, <1>2, <3>1, Zenon DEF Sockets, Live
    <3> QED BY <3>1, <3>3, <3>4, Zenon DEF SenderOK
  <2>2. CASE snd' = CountedOut(Joined(snd, p), p, SenderIdle)
    <3> DEFINE j == Joined(snd, p)
    <3>1. p \notin Counted(snd)
      BY <1>4, Zenon DEF ConnectFails, Counted, Live
    <3>2. SenderOK(j) /\ Transfer(j) = Transfer(snd) /\ j.at = [snd.at EXCEPT ![p] = "up"]
      BY <3>1, SenderJoined, Zenon
    <3>3. p \in Counted(j)
      BY <1>1, <3>2, Zenon DEF Counted, Live
    <3>6. snd' = CountedOut(j, p, SenderIdle)
      BY <2>2, Zenon
    <3> HIDE DEF j
    <3>4. /\ SenderOK(snd') /\ Transfer(snd') = Transfer(j)
          /\ Off(j, snd', p)
      <4>1. /\ SenderOK(CountedOut(j, p, SenderIdle))
            /\ Transfer(CountedOut(j, p, SenderIdle)) = Transfer(j)
            /\ Off(j, CountedOut(j, p, SenderIdle), p)
        BY <1>2, <3>2, <3>3, SenderCountedOut, Zenon
      <4> QED BY <3>6, <4>1, Zenon
    <3>5. Sockets(snd') \subseteq Sockets(snd)
      BY <1>1, <3>2, <3>4, Zenon DEF Sockets, Live, Off
    <3> QED BY <3>2, <3>4, <3>5, Zenon
  <2> QED BY <1>4, <2>1, <2>2, Zenon DEF ConnectFails
<1>5. CASE SenderPinged(p)
  <2>1. Ping(rcv).states \in PingStates
    BY Zenon DEF Ping, Receivers
  <2>2. snd' = OnPing(snd, p, Ping(rcv))
    BY <1>5, Zenon DEF SenderPinged
  <2> QED BY <2>1, <2>2, SenderHears, Zenon DEF Sockets
<1>6. CASE SenderTimeout(p)
  <2>1. snd.at[p] = "up" /\ snd' = TimedOut(snd, p)
    BY <1>6, Zenon DEF SenderTimeout
  <2>2. /\ SenderOK(snd') /\ Transfer(snd') = Transfer(snd)
        /\ snd'.at = [snd.at EXCEPT ![p] = "ended"]
    BY <2>1, SenderWaitsInVain, Zenon
  <2>3. Sockets(snd') \subseteq Sockets(snd)
    BY <1>1, <2>1, <2>2, Zenon DEF Sockets
  <2> QED BY <2>2, <2>3, Zenon
<1>7. CASE SenderLost(p)
  <2>1. p \in Counted(snd) /\ snd' = Lost(snd, p, SenderIdle)
    BY <1>7, Zenon DEF SenderLost, Counted, Live
  <2>2. /\ SenderOK(snd') /\ Transfer(snd') = Transfer(snd)
        /\ Off(snd, snd', p)
    <3>1. /\ SenderOK(Lost(snd, p, SenderIdle)) /\ Transfer(Lost(snd, p, SenderIdle)) = Transfer(snd)
          /\ Off(snd, Lost(snd, p, SenderIdle), p)
      <4>1. SenderOK(snd) /\ p \in Counted(snd) /\ SenderIdle \in {"down", "exited"}
        BY <1>2, <2>1, Zenon
      <4> QED BY <4>1, SenderLoses, Zenon
    <3> QED BY <2>1, <3>1, Zenon
  <2>3. Sockets(snd') \subseteq Sockets(snd)
    BY <1>1, <2>2, Zenon DEF Sockets, Live, Off
  <2> QED BY <2>2, <2>3, Zenon
<1>8. CASE StartFails(p)
  <2> DEFINE f == CountedOut(snd, p, SenderIdle)
  <2>1. /\ p \in Counted(snd) /\ snd' = [f EXCEPT !.cuts = @ + 1]
        /\ snd.cuts \in 0 .. MaxCuts /\ snd.cuts < MaxCuts
    BY <1>1, <1>8, Zenon DEF StartFails, Counted, Live, Senders
  <2>2. SenderOK(f) /\ Transfer(f) = Transfer(snd) /\ Off(snd, f, p)
    <3>1. SenderOK(snd) /\ p \in Counted(snd) /\ SenderIdle \in {"down", "exited"}
      BY <1>2, <2>1, Zenon
    <3> QED BY <3>1, SenderCountedOut, Zenon
  <2>3. f.cuts = snd.cuts
    BY <1>1, Zenon DEF CountedOut, Senders
  <2>4. snd.cuts + 1 \in 0 .. MaxCuts
    BY <2>1, TcpAssumption
  <2> HIDE DEF f
  <2>5. /\ snd' \in Senders /\ snd'.at = f.at /\ snd'.active = f.active
        /\ Transfer(snd') = Transfer(f)
    BY <2>1, <2>2, <2>3, <2>4, Zenon DEF SenderOK, Senders, Transfer
  <2>6. Sockets(snd') \subseteq Sockets(snd)
    BY <1>1, <2>2, <2>5, Zenon DEF Sockets, Live, Off
  <2> QED BY <2>2, <2>5, <2>6, Zenon DEF SenderOK, Counted
<1> QED BY <1>3, <1>4, <1>5, <1>6, <1>7, <1>8, Zenon

\* A sender that is just opened
LEMMA NewSenderOK ==
    ASSUME NEW s \in Sessions
    PROVE  /\ SenderOK(NewSender(s)) /\ ~NewSender(s).queued /\ NewSender(s).sess = s
           /\ NewSender(s).active = 0
<1> DEFINE e == NewSender(s)
<1>1. Counted(e) = {} /\ e.active = 0 /\ ~e.queued /\ e.sess = s
  BY Zenon DEF NewSender, Counted, Live
<1>2. Cardinality(Counted(e)) = 0
  BY <1>1, TcpAssumption, Zenon DEF Sized
<1>3. Cardinality(Paths) \in Nat /\ MaxCuts \in Nat /\ 0 \in Seqs
  BY TcpAssumption, WindowAssumption DEF Seqs, Sized
<1>4. e \in Senders
  BY <1>3 DEF NewSender, Senders, AllUndefined, PingStates, Points
<1> QED BY <1>1, <1>2, <1>4, Zenon DEF SenderOK

\* The counters of the sender move on, and its paths stay.
LEMMA SenderStays ==
    ASSUME NEW e, NEW f \in Senders, SenderOK(e), f.at = e.at, f.active = e.active
    PROVE  SenderOK(f) /\ Sockets(f) = Sockets(e)
  BY Zenon DEF SenderOK, Counted, Sockets

\* potr_service_close ends with a handle that is freed.
LEMMA ClosedOK ==
    ASSUME SenderTyped, NEW ret \in {"OK", "TIMEOUT", "DISCONNECTED", "IO"}, Closed(ret)
    PROVE  /\ SenderTyped' /\ Sockets(snd') = {} /\ snd'.sess = snd.sess
           /\ snd'.phase = "closed" /\ snd'.sent = snd.sent /\ snd'.target = snd.target
           /\ snd'.acked = snd.acked /\ snd'.renumbered = snd.renumbered
<1> DEFINE n == NewSender(snd.sess)
<1>1. snd \in Senders /\ snd.sess \in Sessions
  BY Zenon DEF SenderTyped, SenderOK, Senders
<1>2. SenderOK(n) /\ ~n.queued /\ n.sess = snd.sess /\ n.active = 0
  BY <1>1, NewSenderOK, Zenon
<1>3. snd' = [n EXCEPT !.phase = "closed", !.ret = ret, !.sent = snd.sent,
                       !.target = snd.target, !.acked = snd.acked, !.cuts = snd.cuts,
                       !.renumbered = snd.renumbered, !.at = [p \in Paths |-> "exited"]]
  BY Zenon DEF Closed
<1> HIDE DEF n
<1>4. /\ snd' \in Senders /\ snd'.active = 0 /\ snd'.at = [p \in Paths |-> "exited"]
      /\ ~snd'.queued /\ snd'.sess = snd.sess
      /\ snd'.phase = "closed" /\ snd'.sent = snd.sent /\ snd'.target = snd.target
      /\ snd'.acked = snd.acked /\ snd'.renumbered = snd.renumbered
  BY <1>1, <1>2, <1>3, ZenonT(30) DEF SenderOK, Senders, Points
<1>5. Counted(snd') = {} /\ Sockets(snd') = {}
  BY <1>4, Zenon DEF Counted, Sockets, Live
<1>6. Cardinality({}) = 0
  BY TcpAssumption, Zenon DEF Sized
<1> QED BY <1>4, <1>5, <1>6, Zenon DEF SenderTyped, SenderOK

\* reset_all_paths_disconnected at the sender begins again at number 0.
LEMMA SenderResets ==
    ASSUME SenderTyped, NEW p \in Paths, SenderReset(p)
    PROVE  /\ SenderTyped' /\ Sockets(snd') \subseteq Sockets(snd)
           /\ snd'.sess = snd.sess /\ snd'.sent = snd.sent /\ snd'.phase = snd.phase
           /\ snd'.target = snd.target /\ snd'.acked = snd.acked
           /\ \/ Transfer(snd') = Transfer(snd)
              \/ snd'.seq = 0 /\ snd'.renumbered = (snd.renumbered \/ snd.sent > 0)
<1>1. /\ snd \in Senders /\ snd.at \in [Paths -> Points] /\ snd.at[p] = "left"
      /\ snd.active = Cardinality(Counted(snd)) /\ snd.sent \in Nat
      /\ snd.queued => snd.sent + 1 \in Elements
  BY Zenon DEF SenderTyped, SenderOK, Senders, SenderReset
<1>2. SenderIdle \in Points \ Live /\ 0 \in Seqs
  BY SenderIdleOK, WindowAssumption DEF Points, Live, Seqs
<1>3. CASE snd.active # 0
  <2>1. snd' = [snd EXCEPT !.at[p] = SenderIdle]
    BY <1>3, Zenon DEF SenderReset
  <2>2. /\ snd' \in Senders /\ snd'.at = [snd.at EXCEPT ![p] = SenderIdle]
        /\ snd'.active = snd.active /\ Transfer(snd') = Transfer(snd)
    BY <1>1, <1>2, <2>1 DEF Senders, Transfer
  <2>3. Counted(snd') = Counted(snd) /\ Sockets(snd') \subseteq Sockets(snd)
    BY <1>1, <1>2, <2>2, Zenon DEF Counted, Sockets, Live
  <2> QED BY <1>1, <2>2, <2>3, Zenon DEF SenderTyped, SenderOK, Transfer
<1>4. CASE snd.active = 0
  <2>1. snd' = [snd EXCEPT !.at[p] = SenderIdle, !.seq = 0, !.remote = AllUndefined,
                           !.alive = FALSE, !.renumbered = @ \/ snd.sent > 0]
    BY <1>4, Zenon DEF SenderReset
  <2>2. /\ snd' \in Senders /\ snd'.at = [snd.at EXCEPT ![p] = SenderIdle]
        /\ snd'.active = snd.active
        /\ snd'.sess = snd.sess /\ snd'.sent = snd.sent /\ snd'.phase = snd.phase
        /\ snd'.target = snd.target /\ snd'.acked = snd.acked /\ snd'.queued = snd.queued
        /\ snd'.seq = 0 /\ snd'.renumbered = (snd.renumbered \/ snd.sent > 0)
    BY <1>1, <1>2, <2>1, ZenonT(30) DEF Senders, AllUndefined, PingStates
  <2>3. Counted(snd') = Counted(snd) /\ Sockets(snd') \subseteq Sockets(snd)
    BY <1>1, <1>2, <2>2, Zenon DEF Counted, Sockets, Live
  <2> QED BY <1>1, <2>2, <2>3, Zenon DEF SenderTyped, SenderOK
<1> QED BY <1>1, <1>3, <1>4, Zenon DEF Senders

\* The steps of the sender that leave its paths alone
LEMMA SenderCounters ==
    ASSUME SenderTyped, rcv \in Receivers,
           \/ \E p \in Paths : Break(p) \/ SenderAcked(p)
           \/ Submit \/ Flush
    PROVE  SenderTyped' /\ Sockets(snd') = Sockets(snd)
<1>1. /\ SenderOK(snd) /\ snd \in Senders /\ snd.sent \in Nat /\ snd.seq \in Seqs
      /\ snd.queued => snd.sent + 1 \in Elements
  BY Zenon DEF SenderTyped, SenderOK, Senders
<1>2. ASSUME NEW p \in Paths, Break(p) PROVE SenderTyped' /\ Sockets(snd') = Sockets(snd)
  <2>1. snd' = [snd EXCEPT !.cuts = @ + 1] /\ snd.cuts + 1 \in 0 .. MaxCuts
    BY <1>1, <1>2, TcpAssumption DEF Break, Senders
  <2>2. /\ snd' \in Senders /\ snd'.at = snd.at /\ snd'.active = snd.active
        /\ snd'.queued = snd.queued /\ snd'.sent = snd.sent
    BY <1>1, <2>1, Zenon DEF Senders
  <2> QED BY <1>1, <2>2, SenderStays, Zenon DEF SenderTyped
<1>3. ASSUME NEW p \in Paths, SenderAcked(p) PROVE SenderTyped' /\ Sockets(snd') = Sockets(snd)
  <2>1. /\ snd' \in Senders /\ snd'.at = snd.at /\ snd'.active = snd.active
        /\ snd'.queued = snd.queued /\ snd'.sent = snd.sent
    BY <1>1, <1>3, Zenon DEF SenderAcked, Senders
  <2> QED BY <1>1, <2>1, SenderStays, Zenon DEF SenderTyped
<1>4. CASE Submit
  <2>1. /\ snd' \in Senders /\ snd'.at = snd.at /\ snd'.active = snd.active
        /\ snd'.queued /\ snd'.sent = snd.sent
    BY <1>1, <1>4, Zenon DEF Submit, Senders
  <2>2. snd.sent + 1 \in Elements
    BY <1>4, TcpAssumption, Zenon DEF Submit, Conf, Receivers
  <2> QED BY <1>1, <2>1, <2>2, SenderStays, Zenon DEF SenderTyped
<1>5. CASE Flush
  <2>1. SeqAdd(snd.seq, 1) \in Seqs
    <3>1. SeqSpace \in Nat \ {0} /\ snd.seq + 1 \in Int
      BY <1>1, WindowAssumption DEF Seqs
    <3> QED BY <3>1, DivMod, Zenon DEF SeqAdd, Seqs
  <2>2. snd' = [snd EXCEPT !.queued = FALSE, !.seq = SeqAdd(@, 1), !.sent = @ + 1]
    BY <1>5, Zenon DEF Flush
  <2>3. snd' \in Senders /\ snd'.at = snd.at /\ snd'.active = snd.active /\ ~snd'.queued
    <3>1. snd.sent + 1 \in Nat
      BY <1>1
    <3> QED BY <1>1, <2>1, <2>2, <3>1, Zenon DEF Senders
  <2> QED BY <1>1, <2>3, SenderStays, Zenon DEF SenderTyped
<1> QED BY <1>2, <1>3, <1>4, <1>5, Zenon

\* potr_service_close, and the next sender
LEMMA SenderCloses ==
    ASSUME SenderTyped, rcv \in Receivers,
           CloseBegin \/ CloseFin \/ CloseEnd \/ Restart
    PROVE  /\ SenderTyped'
           /\ Sockets(snd') \subseteq Sockets(snd) /\ (Sockets(snd') # {} => snd'.sess = snd.sess)
<1>1. /\ SenderOK(snd) /\ snd \in Senders /\ snd.seq \in Seqs
      /\ snd.queued => snd.sent + 1 \in Elements
  BY Zenon DEF SenderTyped, SenderOK, Senders
<1>2. ASSUME NEW ret \in {"OK", "TIMEOUT", "DISCONNECTED", "IO"}, Closed(ret)
      PROVE  SenderTyped' /\ Sockets(snd') = {}
  BY <1>2, ClosedOK, Zenon
<1>3. CASE CloseBegin
  <2>1. CASE snd' = [snd EXCEPT !.phase = "drain"]
    <3>1. /\ snd' \in Senders /\ snd'.at = snd.at /\ snd'.active = snd.active
          /\ snd'.queued = snd.queued /\ snd'.sent = snd.sent /\ snd'.sess = snd.sess
      BY <1>1, <2>1 DEF Senders
    <3> QED BY <1>1, <3>1, SenderStays, Zenon DEF SenderTyped
  <2> QED BY <1>2, <1>3, <2>1, Zenon DEF CloseBegin
<1>4. CASE CloseFin
  <2>1. CASE snd' = [snd EXCEPT !.phase = "wait", !.target = snd.seq]
    <3>1. /\ snd' \in Senders /\ snd'.at = snd.at /\ snd'.active = snd.active
          /\ snd'.queued = snd.queued /\ snd'.sent = snd.sent /\ snd'.sess = snd.sess
      BY <1>1, <2>1, Zenon DEF Senders
    <3> QED BY <1>1, <3>1, SenderStays, Zenon DEF SenderTyped
  <2>2. CASE \E ret \in {"OK", "TIMEOUT", "DISCONNECTED", "IO"} : Closed(ret)
    BY <1>2, <2>2, Zenon
  <2> QED BY <1>4, <2>1, <2>2, Zenon DEF CloseFin
<1>5. CASE CloseEnd
  BY <1>2, <1>5, Zenon DEF CloseEnd
<1>6. CASE Restart
  <2> DEFINE n == NewSender(snd.sess + 1)
  <2>1. snd.sess + 1 \in Sessions
    BY <1>6, TcpAssumption, Zenon DEF Restart, Conf, Receivers
  <2>2. SenderOK(n) /\ ~n.queued /\ n.active = 0 /\ n.at = [q \in Paths |-> "down"]
    BY <2>1, NewSenderOK, Zenon DEF NewSender
  <2>3. snd' = [n EXCEPT !.cuts = snd.cuts, !.renumbered = snd.renumbered]
    BY <1>6, Zenon DEF Restart
  <2> HIDE DEF n
  <2>4. snd' \in Senders /\ snd'.at = n.at /\ snd'.active = n.active /\ ~snd'.queued
    BY <1>1, <2>2, <2>3, Zenon DEF SenderOK, Senders
  <2>5. Sockets(n) = {}
    BY <2>2, Zenon DEF Sockets
  <2> QED BY <2>2, <2>4, <2>5, SenderStays, Zenon DEF SenderTyped
<1> QED BY <1>3, <1>4, <1>5, <1>6, Zenon

\* Session numbers are not None.
LEMMA SessionNumbers ==
    /\ Sessions \subseteq Nat /\ None \notin Sessions
    /\ \A s \in Sessions \cup {None} : s \in Nat
  BY TcpAssumption DEF None

-----------------------------------------------------------------------------
\* The receiver

\* The fields that have to do with packets and sessions, not with paths.
Session(r) ==
    <<r.accepted, r.known, r.sess, r.win, r.fin, r.trace, r.old, r.past, r.dropped>>

\* potr_internal_sync_service_path_state_locked changes one flag.
LEMMA ReceiverSync ==
    ASSUME NEW e \in Receivers
    PROVE  /\ Sync(e) \in Receivers /\ Sync(e).at = e.at /\ Sync(e).active = e.active
           /\ Session(Sync(e)) = Session(e) /\ Sync(e).alive = (Logical(e) # {})
           /\ Sync(e).conf = e.conf
  BY Zenon DEF Sync, Receivers, Session

\* A path that has a socket is counted in.
LEMMA SocketsCounted ==
    ASSUME NEW e
    PROVE  Logical(e) \subseteq Sockets(e) /\ Sockets(e) \subseteq Counted(e)
  BY Zenon DEF Logical, Sockets, Counted, Live

\* As long as a path is counted in, the count is not zero.
LEMMA CountedNotZero ==
    ASSUME NEW r \in Receivers, r.active = Cardinality(Counted(r))
    PROVE  r.active = 0 <=> Counted(r) = {}
<1>1. Counted(r) \in SUBSET Paths
  BY Zenon DEF Counted
<1> QED BY <1>1, TcpAssumption, Zenon DEF Sized

\* A connection is accepted, and one is lost.
LEMMA ReceiverJoined ==
    ASSUME NEW e, ReceiverOK(e), NEW p \in Paths, p \notin Counted(e)
    PROVE  /\ ReceiverOK(Joined(e, p)) /\ Session(Joined(e, p)) = Session(e)
           /\ Joined(e, p).at = [e.at EXCEPT ![p] = "up"] /\ Joined(e, p).alive = e.alive
           /\ Joined(e, p).active = e.active + 1 /\ Joined(e, p).conf = e.conf
<1> DEFINE f == Joined(e, p)
<1>1. e \in Receivers /\ e.active = Cardinality(Counted(e)) /\ e.at \in [Paths -> Points]
  BY Zenon DEF ReceiverOK, Receivers
<1>2. /\ f.at = [e.at EXCEPT ![p] = "up"] /\ f.active = e.active + 1
      /\ Session(f) = Session(e) /\ f.alive = e.alive /\ f.conf = e.conf /\ f.win = e.win
  BY <1>1, Zenon DEF Joined, Receivers, Session
<1>3. /\ Cardinality(Counted(f)) = Cardinality(Counted(e)) + 1
      /\ Cardinality(Counted(f)) \in 0 .. Cardinality(Paths)
  <2>1. "up" \in Points /\ "up" \in Live
    BY Zenon DEF Points, Live
  <2> QED BY <1>1, <1>2, <2>1, Counting
<1>4. f \in Receivers
  <2>1. e.active + 1 \in 0 .. Cardinality(Paths)
    BY <1>1, <1>3, Zenon
  <2> QED BY <1>1, <2>1, Zenon DEF Joined, Receivers, PingStates, Points
<1> HIDE DEF f
<1>5. ReceiverOK(f)
  BY <1>1, <1>2, <1>3, <1>4, Zenon DEF ReceiverOK
<1> QED BY <1>2, <1>5, Zenon DEF f

LEMMA ReceiverCountedOut ==
    ASSUME NEW e, ReceiverOK(e), NEW p \in Counted(e)
    PROVE  /\ ReceiverOK(CountedOut(e, p, "down"))
           /\ Session(CountedOut(e, p, "down")) = Session(e)
           /\ Off(e, CountedOut(e, p, "down"), p)
           /\ CountedOut(e, p, "down").alive = e.alive
           /\ CountedOut(e, p, "down").conf = e.conf
           /\ CountedOut(e, p, "down").active = 0 => CountedOut(e, p, "down").at[p] = "left"
<1> DEFINE f == CountedOut(e, p, "down")
           x == IF e.active = 1 THEN "left" ELSE "down"
<1>1. /\ e \in Receivers /\ e.active = Cardinality(Counted(e)) /\ e.at \in [Paths -> Points]
      /\ p \in Paths
  BY Zenon DEF ReceiverOK, Receivers, Counted
<1>2. /\ f.at = [e.at EXCEPT ![p] = x] /\ f.active = e.active - 1
      /\ Session(f) = Session(e) /\ f.alive = e.alive /\ f.conf = e.conf /\ f.win = e.win
  BY <1>1, Zenon DEF CountedOut, Receivers, Session
<1>3. x \in Points /\ x \notin Live
  BY Zenon DEF Points, Live
<1> HIDE DEF x
<1>4. /\ Cardinality(Counted(f)) = Cardinality(Counted(e)) - 1
      /\ Cardinality(Counted(f)) \in 0 .. Cardinality(Paths)
      /\ Cardinality(Counted(e)) \in 0 .. Cardinality(Paths)
  BY <1>1, <1>2, <1>3, Counting
<1>5. f \in Receivers
  <2>1. e.active - 1 \in 0 .. Cardinality(Paths)
    BY <1>1, <1>4, Zenon
  <2> QED BY <1>1, <1>3, <2>1, Zenon DEF CountedOut, Receivers, Points, x
<1>6. f.active = 0 => f.at[p] = "left"
  <2>1. f.active = 0 => e.active = 1
    BY <1>1, <1>2, <1>4
  <2> QED BY <1>1, <1>2, <2>1, Zenon DEF x
<1> HIDE DEF f
<1>7. ReceiverOK(f)
  BY <1>1, <1>2, <1>4, <1>5, Zenon DEF ReceiverOK
<1> QED BY <1>2, <1>3, <1>6, <1>7, Zenon DEF f, Off

LEMMA ReceiverLoses ==
    ASSUME NEW e, ReceiverOK(e), NEW p \in Counted(e)
    PROVE  /\ ReceiverOK(Lost(e, p, "down")) /\ Session(Lost(e, p, "down")) = Session(e)
           /\ Off(e, Lost(e, p, "down"), p)
           /\ Lost(e, p, "down").conf = e.conf
           /\ Lost(e, p, "down").active = 0 =>
                 ~Lost(e, p, "down").alive /\ Lost(e, p, "down").at[p] = "left"
<1> DEFINE f == CountedOut(e, p, "down")
           g == [f EXCEPT !.ping[p] = "UNDEFINED"]
           h == Sync(g)
<1>1. /\ ReceiverOK(f) /\ Session(f) = Session(e) /\ f.conf = e.conf
      /\ Off(e, f, p)
      /\ f.active = 0 => f.at[p] = "left"
  BY ReceiverCountedOut, Zenon
<1> HIDE DEF f
<1>2. p \in Paths /\ f \in Receivers /\ f.active = Cardinality(Counted(f))
  BY <1>1, Zenon DEF Counted, ReceiverOK
<1>3. /\ g \in Receivers /\ g.at = f.at /\ g.active = f.active /\ Session(g) = Session(f)
      /\ g.conf = f.conf
  BY <1>2, Zenon DEF Receivers, PingStates, Session
<1>4. Lost(e, p, "down") = h
  BY Zenon DEF Lost, f
<1> HIDE DEF g
<1>5. /\ h \in Receivers /\ h.at = g.at /\ h.active = g.active /\ Session(h) = Session(g)
      /\ h.alive = (Logical(g) # {}) /\ h.conf = g.conf
  BY <1>3, ReceiverSync, Zenon
<1> HIDE DEF h
<1>6. Counted(g) = Counted(f) /\ Counted(h) = Counted(f)
  BY <1>3, <1>5, Zenon DEF Counted
<1>7. h.active = 0 => ~h.alive
  <2>1. h.active = 0 => Counted(g) = {}
    BY <1>3, <1>5, <1>6, <1>2, CountedNotZero, Zenon
  <2> QED BY <1>5, <2>1, SocketsCounted, Zenon
<1>8. ReceiverOK(h)
  <2>1. h.win = f.win
    BY <1>3, <1>5, Zenon DEF Session
  <2> QED BY <1>1, <1>2, <1>3, <1>5, <1>6, <2>1, Zenon DEF ReceiverOK
<1>9. Off(e, h, p)
  BY <1>1, <1>3, <1>5, Zenon DEF Off
<1> QED BY <1>1, <1>3, <1>4, <1>5, <1>7, <1>8, <1>9, Zenon

-----------------------------------------------------------------------------
\* The connections

\* c became d: what was on the way may be read or lost, and new is at most
\* what M and A allow on a connection of its session.
Grown(c, d, M, A) ==
    /\ d.sess = c.sess
    /\ \A j \in 1 .. Len(d.toR) :
         <<c.sess, d.toR[j]>> \in M \/ \E k \in 1 .. Len(c.toR) : d.toR[j] = c.toR[k]
    /\ d.ack \in {c.ack, NoFin} \/ <<c.sess, d.ack>> \in A

\* The connections w became v, one by one.
WireGrown(w, v, M, A) ==
    /\ v \in [Paths -> Seq(Connections)]
    /\ \A p \in Paths : /\ Len(v[p]) = Len(w[p])
                        /\ \A i \in 1 .. Len(w[p]) : Grown(w[p][i], v[p][i], M, A)

LEMMA ConnectionOps ==
    ASSUME NEW c \in Connections, NEW M, NEW A
    PROVE  /\ Grown(c, c, M, A)
           /\ CutOff(c) \in Connections /\ Grown(c, CutOff(c), M, A)
           /\ [CutOff(c) EXCEPT !.ack = NoFin] \in Connections
           /\ Grown(c, [CutOff(c) EXCEPT !.ack = NoFin], M, A)
           /\ \A st \in PingStates : /\ [c EXCEPT !.said = st] \in Connections
                                     /\ Grown(c, [c EXCEPT !.said = st], M, A)
<1>1. c.toR \in Seq(Messages) /\ Len(c.toR) \in Nat
  BY DEF Connections
<1>2. AllUndefined \in PingStates
  BY Zenon DEF AllUndefined, PingStates
<1> QED BY <1>1, <1>2, Zenon DEF Grown, CutOff, Connections

\* A packet is written, one is read, and FIN is acknowledged.
LEMMA ConnectionData ==
    ASSUME NEW c \in Connections, NEW M, NEW A, NEW m \in Messages, NEW a \in Seqs
    PROVE  /\ [c EXCEPT !.toR = Append(@, m)] \in Connections
           /\ <<c.sess, m>> \in M => Grown(c, [c EXCEPT !.toR = Append(@, m)], M, A)
           /\ c.toR # << >> => /\ [c EXCEPT !.toR = Tail(@)] \in Connections
                               /\ Grown(c, [c EXCEPT !.toR = Tail(@)], M, A)
           /\ [c EXCEPT !.ack = a] \in Connections
           /\ <<c.sess, a>> \in A => Grown(c, [c EXCEPT !.ack = a], M, A)
<1>1. c.toR \in Seq(Messages) /\ Len(c.toR) \in Nat
  BY DEF Connections
<1>2. [c EXCEPT !.toR = Append(@, m)] \in Connections
  <2>1. Append(c.toR, m) \in Seq(Messages)
    BY <1>1
  <2> QED BY <2>1, Zenon DEF Connections
<1>3. <<c.sess, m>> \in M => Grown(c, [c EXCEPT !.toR = Append(@, m)], M, A)
  <2> DEFINE d == [c EXCEPT !.toR = Append(@, m)]
  <2>1. d.sess = c.sess /\ d.toR = Append(c.toR, m) /\ d.ack = c.ack
    BY Zenon DEF Connections
  <2> HIDE DEF d
  <2>2. \A j \in 1 .. Len(d.toR) : d.toR[j] = m \/ \E k \in 1 .. Len(c.toR) : d.toR[j] = c.toR[k]
    BY <1>1, <2>1
  <2>3. <<c.sess, m>> \in M => Grown(c, d, M, A)
    BY <2>1, <2>2, Zenon DEF Grown
  <2> QED BY <2>3, Zenon DEF d
<1>4. ASSUME c.toR # << >>
      PROVE  /\ [c EXCEPT !.toR = Tail(@)] \in Connections
             /\ Grown(c, [c EXCEPT !.toR = Tail(@)], M, A)
  <2>1. Tail(c.toR) \in Seq(Messages) /\ Len(Tail(c.toR)) = Len(c.toR) - 1
    BY <1>1, <1>4
  <2>2. \A j \in 1 .. Len(Tail(c.toR)) : Tail(c.toR)[j] = c.toR[j + 1] /\ j + 1 \in 1 .. Len(c.toR)
    BY <1>1, <1>4
  <2> QED BY <1>1, <2>1, <2>2, Zenon DEF Grown, Connections
<1>5. /\ [c EXCEPT !.ack = a] \in Connections
      /\ <<c.sess, a>> \in A => Grown(c, [c EXCEPT !.ack = a], M, A)
  BY <1>1, Zenon DEF Grown, Connections
<1> QED BY <1>2, <1>3, <1>4, <1>5, Zenon

LEMMA GrownTwice ==
    ASSUME NEW c, NEW d, NEW e, NEW M, NEW A, NEW B, Grown(c, d, M, A), Grown(d, e, M, B),
           A \subseteq B
    PROVE  Grown(c, e, M, B)
  BY Zenon DEF Grown

\* One connection of a path changes, or all are cut.
LEMMA OneGrown ==
    ASSUME NEW q \in Seq(Connections), NEW i \in 1 .. Len(q), NEW d \in Connections,
           NEW M, NEW A, Grown(q[i], d, M, A)
    PROVE  /\ [q EXCEPT ![i] = d] \in Seq(Connections)
           /\ Len([q EXCEPT ![i] = d]) = Len(q)
           /\ \A j \in 1 .. Len(q) : Grown(q[j], [q EXCEPT ![i] = d][j], M, A)
<1>1. [q EXCEPT ![i] = d] \in Seq(Connections) /\ Len([q EXCEPT ![i] = d]) = Len(q)
  OBVIOUS
<1>2. \A j \in 1 .. Len(q) : Grown(q[j], q[j], M, A)
  <2>1. \A j \in 1 .. Len(q) : q[j] \in Connections
    OBVIOUS
  <2> QED BY <2>1, ConnectionOps, Zenon
<1>3. \A j \in 1 .. Len(q) : [q EXCEPT ![i] = d][j] = IF j = i THEN d ELSE q[j]
  OBVIOUS
<1> QED BY <1>1, <1>2, <1>3, Zenon

LEMMA AllCut ==
    ASSUME NEW q \in Seq(Connections), NEW M, NEW A
    PROVE  /\ Cut(q) \in Seq(Connections) /\ Len(Cut(q)) = Len(q)
           /\ \A j \in 1 .. Len(q) : Grown(q[j], Cut(q)[j], M, A)
<1>1. DOMAIN q = 1 .. Len(q) /\ Len(q) \in Nat /\ \A j \in 1 .. Len(q) : q[j] \in Connections
  OBVIOUS
<1>2. Cut(q) = [i \in 1 .. Len(q) |-> [CutOff(q[i]) EXCEPT !.ack = NoFin]]
  BY <1>1, Zenon DEF Cut
<1>3. \A i \in 1 .. Len(q) : [CutOff(q[i]) EXCEPT !.ack = NoFin] \in Connections
  BY <1>1, ConnectionOps, Zenon
<1>4. Cut(q) \in Seq(Connections) /\ Len(Cut(q)) = Len(q)
  BY <1>1, <1>2, <1>3
<1>5. \A j \in 1 .. Len(q) : Grown(q[j], [CutOff(q[j]) EXCEPT !.ack = NoFin], M, A)
  BY <1>1, ConnectionOps, Zenon
<1> QED BY <1>2, <1>4, <1>5, Zenon

WireTyped == wire \in [Paths -> Seq(Connections)]

\* On the way out the newest connection of a path is the sender's, and on the
\* way in the oldest one belongs to the accepted session.
Linked(e, r, w) ==
    /\ \A p \in Sockets(e) : w[p] # << >> => Last(w[p]).sess = e.sess
    /\ \A p \in Sockets(r) : w[p] # << >> /\ Head(w[p]).sess = r.accepted

\* A path whose connection at position i changes.
LEMMA PathGrown ==
    ASSUME NEW w \in [Paths -> Seq(Connections)], NEW p \in Paths, NEW i \in 1 .. Len(w[p]),
           NEW d \in Connections, NEW M, NEW A, Grown(w[p][i], d, M, A)
    PROVE  WireGrown(w, [w EXCEPT ![p] = [@ EXCEPT ![i] = d]], M, A)
<1>1. \A k \in Paths : w[k] \in Seq(Connections)
  BY Zenon
<1>2. \A k \in Paths : \A j \in 1 .. Len(w[k]) : Grown(w[k][j], w[k][j], M, A)
  <2>1. \A k \in Paths : \A j \in 1 .. Len(w[k]) : w[k][j] \in Connections
    BY <1>1
  <2> QED BY <2>1, ConnectionOps, Zenon
<1> DEFINE q == [w[p] EXCEPT ![i] = d]
<1>3. /\ q \in Seq(Connections) /\ Len(q) = Len(w[p])
      /\ \A j \in 1 .. Len(w[p]) : Grown(w[p][j], q[j], M, A)
  BY <1>1, OneGrown, Zenon
<1> HIDE DEF q
<1>4. WireGrown(w, [w EXCEPT ![p] = q], M, A)
  BY <1>1, <1>2, <1>3, Zenon DEF WireGrown
<1> QED BY <1>4, Zenon DEF q

LEMMA WireGrownTwice ==
    ASSUME NEW w, NEW v, NEW u, NEW M, NEW A, NEW B, WireGrown(w, v, M, A),
           WireGrown(v, u, M, B), A \subseteq B
    PROVE  WireGrown(w, u, M, B)
<1> SUFFICES ASSUME NEW p \in Paths, NEW i \in 1 .. Len(w[p])
             PROVE  Grown(w[p][i], u[p][i], M, B)
  BY Zenon DEF WireGrown
<1>1. Grown(w[p][i], v[p][i], M, A) /\ Grown(v[p][i], u[p][i], M, B)
  BY Zenon DEF WireGrown
<1> QED BY <1>1, GrownTwice, Zenon

LEMMA WireStays ==
    ASSUME WireTyped, NEW M, NEW A
    PROVE  WireGrown(wire, wire, M, A)
<1>1. \A k \in Paths : \A j \in 1 .. Len(wire[k]) : wire[k][j] \in Connections
  BY DEF WireTyped
<1>2. \A k \in Paths : \A j \in 1 .. Len(wire[k]) : Grown(wire[k][j], wire[k][j], M, A)
  BY <1>1, ConnectionOps, Zenon
<1> QED BY <1>2, Zenon DEF WireGrown, WireTyped

\* m is written on some paths.
Longer(p, m) ==
    [wire[p][Len(wire[p])] EXCEPT !.toR = Append(wire[p][Len(wire[p])].toR, m)]

LEMMA WireSent ==
    ASSUME WireTyped, NEW ps \in SUBSET SenderWrites, NEW m \in Messages, NEW M, NEW A,
           \A p \in ps : <<Last(wire[p]).sess, m>> \in M
    PROVE  WireGrown(wire, Sent(ps, m), M, A)
<1>1. \A p \in Paths : wire[p] \in Seq(Connections)
  BY Zenon DEF WireTyped
<1>2. \A p \in ps : p \in Paths /\ wire[p] # << >>
  BY Zenon DEF SenderWrites, Sockets
<1>3. Sent(ps, m) = [p \in Paths |-> IF p \in ps
                                     THEN [wire[p] EXCEPT ![Len(wire[p])] = Longer(p, m)]
                                     ELSE wire[p]]
  BY Zenon DEF Sent, Longer
<1>4. ASSUME NEW p \in ps
      PROVE  LET q == [wire[p] EXCEPT ![Len(wire[p])] = Longer(p, m)]
             IN  /\ q \in Seq(Connections) /\ Len(q) = Len(wire[p])
                 /\ \A j \in 1 .. Len(wire[p]) : Grown(wire[p][j], q[j], M, A)
  <2> DEFINE i == Len(wire[p])
             c == wire[p][i]
             d == [c EXCEPT !.toR = Append(@, m)]
  <2>1. i \in 1 .. Len(wire[p]) /\ c \in Connections /\ Last(wire[p]) = c
    BY <1>1, <1>2 DEF Last
  <2>2. d \in Connections /\ Grown(c, d, M, A)
    <3>1. <<c.sess, m>> \in M
      BY <1>4, <2>1, Zenon
    <3> HIDE DEF c
    <3>2. 0 \in Seqs
      BY WindowAssumption DEF Seqs
    <3> QED BY <2>1, <3>1, <3>2, ConnectionData, Zenon
  <2> HIDE DEF d
  <2>3. LET q == [wire[p] EXCEPT ![i] = d]
        IN  /\ q \in Seq(Connections) /\ Len(q) = Len(wire[p])
            /\ \A j \in 1 .. Len(wire[p]) : Grown(wire[p][j], q[j], M, A)
    BY <1>1, <1>2, <2>1, <2>2, OneGrown, Zenon
  <2> QED BY <2>1, <2>3, Zenon DEF d, Longer
<1>5. \A k \in Paths : \A j \in 1 .. Len(wire[k]) : Grown(wire[k][j], wire[k][j], M, A)
  BY WireStays, Zenon DEF WireGrown
<1> QED BY <1>1, <1>3, <1>4, <1>5 DEF WireGrown

\* What each step does to connections that are there before and after it.
Pings == Sessions \X [kind : {"PING"}, states : PingStates]

LEMMA WireCut ==
    ASSUME WireTyped, SenderTyped
    PROVE  /\ \A p \in Paths : Break(p) \/ SenderLost(p) \/ StartFails(p) => WireGrown(wire, wire', {}, {})
           /\ \A ret : Closed(ret) => WireGrown(wire, wire', {}, {})
           /\ Restart => WireGrown(wire, wire', {}, {})
<1>1. \A p \in Paths : wire[p] \in Seq(Connections)
  BY Zenon DEF WireTyped
<1>2. \A p \in Paths : /\ Cut(wire[p]) \in Seq(Connections) /\ Len(Cut(wire[p])) = Len(wire[p])
                       /\ \A j \in 1 .. Len(wire[p]) : Grown(wire[p][j], Cut(wire[p])[j], {}, {})
  BY <1>1, AllCut, Zenon
<1>3. \A k \in Paths : \A j \in 1 .. Len(wire[k]) : Grown(wire[k][j], wire[k][j], {}, {})
  BY WireStays, Zenon DEF WireGrown
<1>4. ASSUME NEW p \in Paths, Break(p) PROVE WireGrown(wire, wire', {}, {})
  <2> DEFINE i == Len(wire[p])
             d == CutOff(wire[p][i])
  <2>1. wire' = [wire EXCEPT ![p] = [@ EXCEPT ![i] = d]] /\ wire[p] # << >>
    BY <1>4, <1>1, Zenon DEF Break, WireTyped
  <2>2. i \in 1 .. Len(wire[p]) /\ wire[p][i] \in Connections
    BY <1>1, <2>1
  <2>3. d \in Connections /\ Grown(wire[p][i], d, {}, {})
    BY <2>2, ConnectionOps, Zenon
  <2> HIDE DEF d, i
  <2> QED BY <2>1, <2>2, <2>3, PathGrown, Zenon DEF WireTyped
<1>5. ASSUME NEW p \in Paths, SenderLost(p) \/ StartFails(p) PROVE WireGrown(wire, wire', {}, {})
  <2>1. wire' = [wire EXCEPT ![p] = Cut(wire[p])]
    BY <1>5, Zenon DEF SenderLost, StartFails
  <2> QED BY <1>1, <1>2, <1>3, <2>1, Zenon DEF WireGrown, WireTyped
<1>6. ASSUME wire' = [p \in Paths |-> Cut(wire[p])] PROVE WireGrown(wire, wire', {}, {})
  BY <1>2, <1>6, Zenon DEF WireGrown
<1> QED BY <1>4, <1>5, <1>6, Zenon DEF Closed, Restart

LEMMA WireWritten ==
    ASSUME WireTyped, SenderTyped, Linked(snd, rcv, wire)
    PROVE  /\ \A p \in Paths : SenderPing(p) => WireGrown(wire, wire', Pings, {})
           /\ Flush => WireGrown(wire, wire', {<<snd.sess,
                 [kind |-> "DATA", seq |-> snd.seq, elem |-> <<snd.sess, snd.sent + 1>>]>>}, {})
           /\ CloseFin => WireGrown(wire, wire',
                                    {<<snd.sess, [kind |-> "FIN", target |-> snd.seq]>>}, {})
<1>1. \A p \in Paths : wire[p] \in Seq(Connections)
  BY Zenon DEF WireTyped
<1>2. snd \in Senders /\ snd.sess \in Sessions /\ snd.ping \in PingStates /\ snd.seq \in Seqs
  BY Zenon DEF SenderTyped, SenderOK, Senders
<1>3. \A p \in SenderWrites : Last(wire[p]).sess = snd.sess
  BY Zenon DEF SenderWrites, Linked
<1>4. ASSUME NEW p \in Paths, SenderPing(p) PROVE WireGrown(wire, wire', Pings, {})
  <2> DEFINE m == Ping(snd)
             v == Sent({p}, m)
             i == Len(wire[p])
             d == [v[p][i] EXCEPT !.said = snd.ping]
  <2>1. p \in SenderWrites /\ wire[p] # << >>
    BY <1>4, Zenon DEF SenderPing, SenderWrites
  <2>2. m \in Messages /\ <<snd.sess, m>> \in Pings
    BY <1>2, Zenon DEF Ping, Messages, Pings
  <2> HIDE DEF m
  <2>3. WireGrown(wire, v, Pings, {})
    BY <1>3, <2>1, <2>2, WireSent, Zenon
  <2>4. v \in [Paths -> Seq(Connections)] /\ Len(v[p]) = i
    BY <2>3, Zenon DEF WireGrown
  <2>5. wire' = [v EXCEPT ![p] = [@ EXCEPT ![i] = d]]
    <3>1. wire' = [v EXCEPT ![p][i].said = snd.ping]
      BY <1>4, Zenon DEF SenderPing, m
    <3> HIDE DEF v
    <3> QED BY <3>1, Zenon
  <2> HIDE DEF v
  <2>6. i \in 1 .. Len(v[p]) /\ v[p][i] \in Connections
    BY <1>1, <2>1, <2>4
  <2>7. d \in Connections /\ Grown(v[p][i], d, Pings, {})
    BY <1>2, <2>6, ConnectionOps, Zenon
  <2> HIDE DEF d
  <2>8. WireGrown(v, wire', Pings, {})
    BY <2>4, <2>5, <2>6, <2>7, PathGrown, Zenon
  <2> QED BY <2>3, <2>8, WireGrownTwice
<1>5. ASSUME Flush PROVE WireGrown(wire, wire', {<<snd.sess,
                 [kind |-> "DATA", seq |-> snd.seq, elem |-> <<snd.sess, snd.sent + 1>>]>>}, {})
  <2> DEFINE m == [kind |-> "DATA", seq |-> snd.seq, elem |-> <<snd.sess, snd.sent + 1>>]
  <2>1. snd.sent + 1 \in Elements /\ Packets = Sessions \X Elements
    BY <1>5, TcpAssumption, Zenon DEF Flush, SenderTyped
  <2>2. m \in Messages
    BY <1>2, <2>1, Zenon DEF Messages
  <2>3. wire' = Sent(Writable, m) /\ Writable \in SUBSET SenderWrites
    BY <1>5, Zenon DEF Flush, Writable
  <2> HIDE DEF m
  <2>4. WireGrown(wire, Sent(Writable, m), {<<snd.sess, m>>}, {})
    BY <1>3, <2>2, <2>3, WireSent, Zenon
  <2> QED BY <2>3, <2>4, Zenon DEF m
<1>6. ASSUME CloseFin PROVE WireGrown(wire, wire',
                                    {<<snd.sess, [kind |-> "FIN", target |-> snd.seq]>>}, {})
  <2> DEFINE m == [kind |-> "FIN", target |-> snd.seq]
  <2>1. CASE \E ret : Closed(ret)
    <3>1. WireGrown(wire, wire', {}, {})
      BY <2>1, WireCut, Zenon
    <3> QED BY <3>1, ZenonT(30) DEF WireGrown, Grown
  <2>2. CASE wire' = Sent(SenderWrites, m)
    <3>1. m \in Messages
      BY <1>2, Zenon DEF Messages
    <3> HIDE DEF m
    <3>2. WireGrown(wire, Sent(SenderWrites, m), {<<snd.sess, m>>}, {})
      BY <1>3, <3>1, WireSent, Zenon
    <3> QED BY <2>2, <3>2, Zenon DEF m
  <2> QED BY <1>6, <2>1, <2>2, Zenon DEF CloseFin
<1> QED BY <1>4, <1>5, <1>6, Zenon

-----------------------------------------------------------------------------
\* The receiver and its window

\* The fields that only the accept thread and the PINGs change.
Place(r) == <<r.conf, r.at, r.active, r.alive, r.accepted>>

\* A number the window accepts is one of the next positions.
LEMMA Reached ==
    ASSUME NEW w, Expects(w, w.next), NEW seq \in Seqs, RecvAccepts(w, seq)
    PROVE  /\ w.next \in Seqs
           /\ \E n \in w.next .. w.next + WindowSize - 1 : seq = SeqNum(n)
<1>1. /\ WindowSize \in Nat /\ WindowSize >= 2 /\ SeqSpace \in Nat
      /\ 2 * WindowSize <= SeqSpace
  BY WindowAssumption, Zenon
<1>2. w.next \in Seqs /\ w.next \in 0 .. SeqSpace - 1 /\ seq \in 0 .. SeqSpace - 1
  BY Zenon DEF Expects, Windows, Seqs
<1>3. SeqNum(seq) = seq /\ SeqNum(seq + SeqSpace) = seq
  BY SeqNumItself, Zenon
<1>4. CASE w.next - seq <= SeqSpace - WindowSize
  <2>1. seq \in w.next .. w.next + WindowSize - 1
    BY <1>1, <1>2, <1>3, <1>4, Acceptance
  <2> QED BY <1>2, <1>3, <2>1, Zenon
<1>5. CASE w.next - seq > SeqSpace - WindowSize
  <2>1. seq + SeqSpace \in w.next .. w.next + WindowSize - 1
    BY <1>1, <1>2, <1>5, SMTT(20)
  <2> QED BY <1>2, <1>3, <2>1, Zenon
<1> QED BY <1>1, <1>2, <1>4, <1>5

LEMMA AdoptOK ==
    ASSUME NEW r, ReceiverOK(r), NEW s \in Sessions, NEW q \in Seqs
    PROVE  /\ ReceiverOK(Adopt(r, s, q)) /\ Place(Adopt(r, s, q)) = Place(r)
           /\ Adopt(r, s, q).known /\ Adopt(r, s, q).sess = s
           /\ Adopt(r, s, q).trace = r.trace /\ Adopt(r, s, q).old = r.old
           /\ Adopt(r, s, q).past = r.past /\ Adopt(r, s, q).dropped = r.dropped
           /\ IF r.known /\ r.sess = s
              THEN Adopt(r, s, q) = r
              ELSE Adopt(r, s, q).win = EmptyWindow(q) /\ Adopt(r, s, q).fin = NoFin
<1>1. r \in Receivers /\ r.active = Cardinality(Counted(r)) /\ Expects(r.win, r.win.next)
  BY Zenon DEF ReceiverOK
<1>2. CASE r.known /\ r.sess = s
  BY <1>2, Zenon DEF Adopt
<1>3. CASE ~(r.known /\ r.sess = s)
  <2> DEFINE w == EmptyWindow(q)
             f == [r EXCEPT !.known = TRUE, !.sess = s, !.fin = NoFin, !.win = w]
  <2>1. Expects(w, q) /\ w \in Windows /\ w.next = q
    <3>1. q \in Int /\ SeqNum(q) = q
      BY SeqNumItself, Zenon
    <3>2. Expects(w, q)
      BY <3>1, Emptied, Zenon
    <3> QED BY <3>2, Zenon DEF Expects, EmptyWindow
  <2>2. Adopt(r, s, q) = f
    BY <1>3, Zenon DEF Adopt
  <2> HIDE DEF w
  <2>3. /\ f \in Receivers /\ Place(f) = Place(r) /\ f.known /\ f.sess = s /\ f.win = w
        /\ f.fin = NoFin /\ f.at = r.at /\ f.active = r.active
        /\ f.trace = r.trace /\ f.old = r.old /\ f.past = r.past /\ f.dropped = r.dropped
    BY <1>1, <2>1, Zenon DEF Receivers, Place
  <2> HIDE DEF f
  <2>4. ReceiverOK(f)
    BY <1>1, <2>1, <2>3, Zenon DEF ReceiverOK, Counted
  <2> QED BY <1>3, <2>2, <2>3, <2>4, Zenon DEF w
<1> QED BY <1>2, <1>3, Zenon

\* Draining hands over what the window holds in a row, and moves it on.
LEMMA DrainOK ==
    ASSUME NEW r, ReceiverOK(r)
    PROVE  /\ ReceiverOK(Drain(r)) /\ Place(Drain(r)) = Place(r)
           /\ Drain(r).known = r.known /\ Drain(r).sess = r.sess /\ Drain(r).fin = r.fin
           /\ Drain(r).old = r.old /\ Drain(r).past = r.past
           /\ \E n \in 0 .. WindowSize :
                /\ \A d \in 0 .. n - 1 : At(r.win, d) \in Packets
                /\ n < WindowSize => At(r.win, n) = NoPkt
                /\ Poppable(r.win) = [i \in 1 .. n |-> At(r.win, i - 1)]
                /\ Poppable(r.win) \in Seq(Packets) /\ Len(Poppable(r.win)) = n
                /\ Drain(r).win = Popped(r.win, n) /\ Expects(Drain(r).win, r.win.next + n)
           /\ Drain(r).trace = IF r.alive THEN r.trace \o Poppable(r.win) ELSE r.trace
           /\ Drain(r).dropped =
                 IF r.alive THEN r.dropped ELSE r.dropped \cup Range(Poppable(r.win))
<1> DEFINE got == Poppable(r.win)
           w == Popped(r.win, Len(got))
           e == [r EXCEPT !.win = w]
           f == Drain(r)
<1>1. /\ r \in Receivers /\ r.active = Cardinality(Counted(r)) /\ Expects(r.win, r.win.next)
      /\ r.win.next \in Int
  BY WindowAssumption DEF ReceiverOK, Expects, Windows, Seqs
<1>2. PICK n \in 0 .. WindowSize : /\ \A d \in 0 .. n - 1 : At(r.win, d) \in Packets
                                   /\ n < WindowSize => At(r.win, n) = NoPkt
                                   /\ got = [i \in 1 .. n |-> At(r.win, i - 1)]
  BY <1>1, Popping, Zenon
<1>3. got \in Seq(Packets) /\ Len(got) = n
  <2>1. n \in Nat /\ \A i \in 1 .. n : i - 1 \in 0 .. n - 1
    BY WindowAssumption
  <2>2. \A i \in 1 .. n : At(r.win, i - 1) \in Packets
    BY <1>2, <2>1, Zenon
  <2> QED BY <1>2, <2>1, <2>2
<1>4. /\ w = Popped(r.win, n) /\ Expects(w, r.win.next + n)
  BY <1>1, <1>3, PoppedOff, Zenon
<1>5. w \in Windows /\ Expects(w, w.next)
  <2>1. w \in Windows /\ w.base = w.next /\ w.next \in Seqs
    BY <1>4, Zenon DEF Expects, Windows
  <2> HIDE DEF w
  <2> QED BY <2>1, SeqNumItself, Zenon DEF Expects
<1> HIDE DEF w
<1>6. e \in Receivers /\ e.alive = r.alive
  BY <1>1, <1>5, Zenon DEF Receivers
<1>7. f = IF r.alive THEN [r EXCEPT !.win = w, !.trace = r.trace \o got]
          ELSE [r EXCEPT !.win = w, !.dropped = r.dropped \cup Range(got)]
  <2>1. f = Deliver(e, got)
    BY Zenon DEF Drain, w
  <2>2. e.trace = r.trace /\ e.dropped = r.dropped
    BY <1>1, Zenon DEF Receivers
  <2> QED BY <1>1, <1>6, <2>1, <2>2, Zenon DEF Deliver, Receivers
<1>8. Range(got) \in SUBSET Packets
  BY <1>3 DEF Range
<1>9. r.trace \o got \in Seq(Packets)
  BY <1>1, <1>3 DEF Receivers
<1> HIDE DEF f, got
<1>10. /\ f \in Receivers /\ Place(f) = Place(r) /\ f.at = r.at /\ f.active = r.active
       /\ f.known = r.known /\ f.sess = r.sess /\ f.fin = r.fin /\ f.old = r.old
       /\ f.past = r.past /\ f.win = w
       /\ f.trace = IF r.alive THEN r.trace \o got ELSE r.trace
       /\ f.dropped = IF r.alive THEN r.dropped ELSE r.dropped \cup Range(got)
  BY <1>1, <1>5, <1>7, <1>8, <1>9, Zenon DEF Receivers, Place
<1>11. ReceiverOK(f)
  BY <1>1, <1>5, <1>10, Zenon DEF ReceiverOK, Counted
<1> QED BY <1>2, <1>3, <1>4, <1>10, <1>11, Zenon DEF f, got

LEMMA ToldOK ==
    ASSUME NEW r, ReceiverOK(r)
    PROVE  /\ ReceiverOK(Told(r)) /\ Place(Told(r)) = Place(r)
           /\ Told(r).known = r.known /\ Told(r).sess = r.sess /\ Told(r).win = r.win
           /\ Told(r).fin = r.fin /\ Told(r).past = r.past /\ Told(r).dropped = r.dropped
           /\ r.alive => Told(r) = r
           /\ ~r.alive => Told(r).trace = << >> /\ Told(r).old = r.old \cup Range(r.trace)
<1>1. r \in Receivers /\ r.active = Cardinality(Counted(r)) /\ Expects(r.win, r.win.next)
  BY Zenon DEF ReceiverOK
<1>2. CASE r.alive
  BY <1>2, Zenon DEF Told
<1>3. CASE ~r.alive
  <2> DEFINE o == r.old \cup Range(r.trace)
             t == << >>
             f == [r EXCEPT !.old = o, !.trace = t]
  <2>1. o \in SUBSET Packets
    <3>1. r.trace \in Seq(Packets) /\ r.old \in SUBSET Packets
      BY <1>1, Zenon DEF Receivers
    <3>2. Range(r.trace) \in SUBSET Packets
      BY <3>1 DEF Range
    <3> QED BY <3>1, <3>2
  <2>2. Told(r) = f
    BY <1>3, Zenon DEF Told
  <2>5. t \in Seq(Packets)
    OBVIOUS
  <2> HIDE DEF o, t
  <2>3. /\ f \in Receivers /\ Place(f) = Place(r) /\ f.known = r.known /\ f.sess = r.sess
        /\ f.win = r.win /\ f.fin = r.fin /\ f.past = r.past /\ f.dropped = r.dropped
        /\ f.at = r.at /\ f.active = r.active /\ f.trace = t /\ f.old = o
    BY <1>1, <2>1, <2>5, Zenon DEF Receivers, Place
  <2> HIDE DEF f
  <2>4. ReceiverOK(f)
    BY <1>1, <2>3, Zenon DEF ReceiverOK, Counted
  <2> QED BY <1>3, <2>2, <2>3, <2>4, Zenon DEF o, t
<1> QED BY <1>2, <1>3, Zenon

LEMMA PartedOK ==
    ASSUME NEW r, ReceiverOK(r)
    PROVE  /\ ReceiverOK(Parted(r)) /\ Place(Parted(r)) = Place(r)
           /\ Parted(r).known = r.known /\ Parted(r).sess = r.sess /\ Parted(r).win = r.win
           /\ Parted(r).fin = r.fin /\ Parted(r).trace = r.trace
           /\ Parted(r).dropped = r.dropped /\ Parted(r).old = {}
           /\ Parted(r).past = r.past \cup r.old
<1>1. r \in Receivers /\ r.active = Cardinality(Counted(r)) /\ Expects(r.win, r.win.next)
  BY Zenon DEF ReceiverOK
<1> DEFINE f == Parted(r)
<1>2. /\ f \in Receivers /\ Place(f) = Place(r) /\ f.known = r.known /\ f.sess = r.sess
      /\ f.win = r.win /\ f.fin = r.fin /\ f.trace = r.trace /\ f.dropped = r.dropped
      /\ f.old = {} /\ f.past = r.past \cup r.old /\ f.at = r.at /\ f.active = r.active
  BY <1>1, Zenon DEF Parted, Receivers, Place
<1> HIDE DEF f
<1>3. ReceiverOK(f)
  BY <1>1, <1>2, Zenon DEF ReceiverOK, Counted
<1> QED BY <1>2, <1>3 DEF f

LEMMA OnDataOK ==
    ASSUME NEW r, ReceiverOK(r), NEW s \in Sessions, NEW m,
           m.seq \in Seqs, m.elem \in Packets
    PROVE  /\ ReceiverOK(OnData(r, s, m)) /\ Place(OnData(r, s, m)) = Place(r)
           /\ ~r.alive => OnData(r, s, m).trace = r.trace
           /\ ReceiverOK([Adopt(r, s, m.seq) EXCEPT !.win = RecvPush(@, m.seq, m.elem)])
                 \/ ~RecvAccepts(Adopt(r, s, m.seq).win, m.seq)
<1> DEFINE a == Adopt(r, s, m.seq)
           w == RecvPush(a.win, m.seq, m.elem)
           b == [a EXCEPT !.win = w]
<1>1. ReceiverOK(a) /\ Place(a) = Place(r) /\ a.trace = r.trace /\ a.alive = r.alive
  BY AdoptOK DEF Place
<1>2. OnData(r, s, m) = IF RecvAccepts(a.win, m.seq) THEN Drain(b) ELSE a
  BY Zenon DEF OnData
<1> HIDE DEF a
<1>3. CASE ~RecvAccepts(a.win, m.seq)
  BY <1>1, <1>2, <1>3, Zenon DEF a
<1>4. CASE RecvAccepts(a.win, m.seq)
  <2>1. a \in Receivers /\ a.active = Cardinality(Counted(a)) /\ Expects(a.win, a.win.next)
    BY <1>1, Zenon DEF ReceiverOK
  <2>2. PICK n \in a.win.next .. a.win.next + WindowSize - 1 : m.seq = SeqNum(n)
    BY <1>4, <2>1, Reached, Zenon
  <2>3. /\ a.win.next \in Int /\ n \in Int /\ n - a.win.next \in 0 .. WindowSize - 1
        /\ a.win.next \in Seqs
    BY <2>1, <2>2, WindowAssumption DEF Expects, Windows, Seqs
  <2>4. Expects(w, a.win.next)
    BY <2>1, <2>2, <2>3, Stored
  <2>5. w \in Windows /\ w.next = a.win.next
    BY <2>3, <2>4, SeqNumItself, Zenon DEF Expects
  <2> HIDE DEF w
  <2>6. /\ b \in Receivers /\ b.win = w /\ b.at = a.at /\ b.active = a.active
        /\ b.trace = a.trace /\ b.alive = a.alive /\ Place(b) = Place(a)
    BY <2>1, <2>5, Zenon DEF Receivers, Place
  <2>7. b = [Adopt(r, s, m.seq) EXCEPT !.win = RecvPush(@, m.seq, m.elem)]
    BY Zenon DEF a, w
  <2> HIDE DEF b
  <2>8. ReceiverOK(b)
    BY <2>1, <2>4, <2>5, <2>6, Zenon DEF ReceiverOK, Counted
  <2>9. /\ ReceiverOK(Drain(b)) /\ Place(Drain(b)) = Place(b)
        /\ Drain(b).trace = IF b.alive THEN b.trace \o Poppable(b.win) ELSE b.trace
    BY <2>8, DrainOK, Zenon
  <2> QED BY <1>1, <1>2, <1>4, <2>6, <2>7, <2>8, <2>9, Zenon
<1> QED BY <1>3, <1>4, Zenon

LEMMA OnFinOK ==
    ASSUME NEW r, ReceiverOK(r), NEW s \in Sessions, NEW m, m.target \in Seqs
    PROVE  /\ ReceiverOK(OnFin(r, s, m)) /\ Place(OnFin(r, s, m)) = Place(r)
           /\ OnFin(r, s, m).trace = r.trace /\ OnFin(r, s, m).fin = m.target
           /\ OnFin(r, s, m) = [Adopt(r, s, 0) EXCEPT !.fin = m.target]
<1> DEFINE a == Adopt(r, s, 0)
           f == [a EXCEPT !.fin = m.target]
<1>1. 0 \in Seqs
  BY WindowAssumption DEF Seqs
<1>2. ReceiverOK(a) /\ Place(a) = Place(r) /\ a.trace = r.trace
  BY <1>1, AdoptOK
<1>3. OnFin(r, s, m) = f
  BY Zenon DEF OnFin
<1> HIDE DEF a
<1>4. a \in Receivers /\ a.active = Cardinality(Counted(a)) /\ Expects(a.win, a.win.next)
  BY <1>2, Zenon DEF ReceiverOK
<1>5. /\ f \in Receivers /\ Place(f) = Place(a) /\ f.trace = a.trace /\ f.win = a.win
      /\ f.at = a.at /\ f.active = a.active /\ f.fin = m.target
  BY <1>4, Zenon DEF Receivers, Place
<1>6. f = [Adopt(r, s, 0) EXCEPT !.fin = m.target]
  BY Zenon DEF a
<1> HIDE DEF f
<1>7. ReceiverOK(f)
  BY <1>4, <1>5, Zenon DEF ReceiverOK, Counted
<1> QED BY <1>2, <1>3, <1>5, <1>6, <1>7, Zenon

LEMMA ReceiverHears ==
    ASSUME NEW e, ReceiverOK(e), NEW p \in Paths, NEW m, m.states \in PingStates
    PROVE  /\ ReceiverOK(OnPing(e, p, m)) /\ Session(OnPing(e, p, m)) = Session(e)
           /\ OnPing(e, p, m).at = e.at /\ OnPing(e, p, m).active = e.active
           /\ OnPing(e, p, m).conf = e.conf
<1> DEFINE a == Apply(e.remote, m.states)
           f == [e EXCEPT !.ping[p] = "NORMAL", !.remote = a]
           h == Sync(f)
<1>1. e \in Receivers /\ e.active = Cardinality(Counted(e)) /\ Expects(e.win, e.win.next)
  BY Zenon DEF ReceiverOK
<1>2. a \in PingStates
  BY <1>1, Zenon DEF Apply, PingStates, Receivers
<1>3. OnPing(e, p, m) = h
  BY <1>1, Zenon DEF OnPing, Receivers
<1> HIDE DEF a
<1>4. /\ f \in Receivers /\ f.at = e.at /\ f.active = e.active /\ Session(f) = Session(e)
      /\ f.conf = e.conf
  BY <1>1, <1>2, Zenon DEF Receivers, Session, PingStates
<1> HIDE DEF f
<1>5. /\ h \in Receivers /\ h.at = f.at /\ h.active = f.active /\ Session(h) = Session(f)
      /\ h.conf = f.conf
  BY <1>4, ReceiverSync, Zenon
<1> HIDE DEF h
<1>6. h.win = e.win
  BY <1>4, <1>5, Zenon DEF Session
<1>7. ReceiverOK(h)
  BY <1>1, <1>4, <1>5, <1>6, Zenon DEF ReceiverOK, Counted
<1> QED BY <1>3, <1>4, <1>5, <1>7, Zenon

LEMMA ReceiverWaitsInVain ==
    ASSUME NEW e, ReceiverOK(e), NEW p \in Paths, e.at[p] = "up"
    PROVE  /\ ReceiverOK(TimedOut(e, p)) /\ Session(TimedOut(e, p)) = Session(e)
           /\ TimedOut(e, p).at = [e.at EXCEPT ![p] = "ended"]
           /\ TimedOut(e, p).active = e.active /\ TimedOut(e, p).conf = e.conf
<1> DEFINE f == [e EXCEPT !.ping[p] = "ABNORMAL"]
           g == Sync(f)
           h == [g EXCEPT !.at[p] = "ended"]
<1>1. e \in Receivers /\ e.active = Cardinality(Counted(e)) /\ Expects(e.win, e.win.next)
  BY Zenon DEF ReceiverOK
<1>2. /\ f \in Receivers /\ f.at = e.at /\ f.active = e.active /\ Session(f) = Session(e)
      /\ f.conf = e.conf
  BY <1>1, Zenon DEF Receivers, Session, PingStates
<1>3. TimedOut(e, p) = h
  BY Zenon DEF TimedOut
<1> HIDE DEF f
<1>4. /\ g \in Receivers /\ g.at = f.at /\ g.active = f.active /\ Session(g) = Session(f)
      /\ g.conf = f.conf
  BY <1>2, ReceiverSync, Zenon
<1> HIDE DEF g
<1>5. /\ h \in Receivers /\ h.at = [g.at EXCEPT ![p] = "ended"] /\ h.active = g.active
      /\ Session(h) = Session(g) /\ h.conf = g.conf
  BY <1>4, Zenon DEF Receivers, Session, Points
<1> HIDE DEF h
<1>6. h.win = e.win
  BY <1>2, <1>4, <1>5, Zenon DEF Session
<1>7. Counted(h) = Counted(e)
  <2>1. e.at \in [Paths -> Points]
    BY <1>1, Zenon DEF Receivers
  <2>2. h.at = [e.at EXCEPT ![p] = "ended"]
    BY <1>2, <1>4, <1>5, Zenon
  <2> QED BY <2>1, <2>2, Zenon DEF Counted, Live
<1>8. ReceiverOK(h)
  BY <1>1, <1>2, <1>4, <1>5, <1>6, <1>7, Zenon DEF ReceiverOK
<1> QED BY <1>2, <1>3, <1>4, <1>5, <1>8, Zenon

\* FIN ends the session: nothing is alive and nothing is kept.
LEMMA FinFireOK ==
    ASSUME NEW r, ReceiverOK(r)
    PROVE  /\ ReceiverOK(FinFire(r)) /\ FinFire(r).conf = r.conf /\ FinFire(r).at = r.at
           /\ FinFire(r).active = r.active /\ FinFire(r).accepted = r.accepted
           /\ ~FinFire(r).alive /\ FinFire(r).trace = << >> /\ ~FinFire(r).known
           /\ FinFire(r).old = {} /\ FinFire(r).past = r.past \cup r.old \cup Range(r.trace)
           /\ FinFire(r).dropped = r.dropped /\ FinFire(r).fin = NoFin
<1> DEFINE w == EmptyWindow(0)
           f == [r EXCEPT !.ping = AllUndefined, !.remote = AllUndefined, !.alive = FALSE,
                          !.fin = NoFin, !.known = FALSE, !.win = w]
           g == Told(f)
           h == Parted(g)
<1>1. r \in Receivers /\ r.active = Cardinality(Counted(r))
  BY Zenon DEF ReceiverOK
<1>2. w \in Windows /\ Expects(w, w.next)
  <2>1. 0 \in Seqs
    BY WindowAssumption DEF Seqs
  <2>2. Expects(EmptyWindow(0), 0) /\ EmptyWindow(0).next = 0
    BY <2>1, SeqNumItself, Emptied, Zenon DEF EmptyWindow
  <2> QED BY <2>2, Zenon DEF Expects
<1>3. FinFire(r) = h
  BY Zenon DEF FinFire
<1>4. AllUndefined \in PingStates
  BY Zenon DEF AllUndefined, PingStates
<1> HIDE DEF w
<1>5. /\ f \in Receivers /\ f.conf = r.conf /\ f.at = r.at /\ f.active = r.active
      /\ f.accepted = r.accepted /\ ~f.alive /\ ~f.known /\ f.fin = NoFin /\ f.win = w
      /\ f.trace = r.trace /\ f.old = r.old /\ f.past = r.past /\ f.dropped = r.dropped
  BY <1>1, <1>2, <1>4, Zenon DEF Receivers
<1> HIDE DEF f
<1>6. ReceiverOK(f)
  BY <1>1, <1>2, <1>5, Zenon DEF ReceiverOK, Counted
<1>7. /\ ReceiverOK(g) /\ Place(g) = Place(f) /\ g.known = f.known /\ g.fin = f.fin
      /\ g.past = f.past /\ g.dropped = f.dropped
      /\ g.trace = << >> /\ g.old = f.old \cup Range(f.trace)
  BY <1>5, <1>6, ToldOK, Zenon
<1> HIDE DEF g
<1>8. /\ ReceiverOK(h) /\ Place(h) = Place(g) /\ h.known = g.known /\ h.fin = g.fin
      /\ h.trace = g.trace /\ h.dropped = g.dropped /\ h.old = {} /\ h.past = g.past \cup g.old
  BY <1>7, PartedOK, Zenon
<1> HIDE DEF h
<1>9. /\ h.conf = r.conf /\ h.at = r.at /\ h.active = r.active /\ h.accepted = r.accepted
      /\ ~h.alive
  BY <1>5, <1>7, <1>8, Zenon DEF Place
<1>10. h.past = r.past \cup r.old \cup Range(r.trace)
  BY <1>5, <1>7, <1>8, Zenon
<1> QED BY <1>3, <1>5, <1>7, <1>8, <1>9, <1>10, Zenon

\* What tcp_handle_packet makes of a packet, up to thread_recv_fin_fire.
Handled(p) ==
    LET s == Head(wire[p]).sess
        m == Head(Head(wire[p]).toR)
    IN  CASE m.kind = "PING" -> Told(OnPing(rcv, p, m))
          [] m.kind = "DATA" -> OnData(rcv, s, m)
          [] m.kind = "FIN"  -> OnFin(rcv, s, m)

LEMMA FirstMessage ==
    ASSUME WireTyped, NEW p \in Paths, wire[p] # << >>, Head(wire[p]).toR # << >>
    PROVE  LET c == Head(wire[p])
               m == Head(c.toR)
           IN  /\ c \in Connections /\ c = wire[p][1] /\ 1 \in 1 .. Len(wire[p])
               /\ c.sess \in Sessions /\ m = c.toR[1] /\ 1 \in 1 .. Len(c.toR)
               /\ \/ m.kind = "PING" /\ m.states \in PingStates
                  \/ m.kind = "DATA" /\ m.seq \in Seqs /\ m.elem \in Packets
                  \/ m.kind = "FIN" /\ m.target \in Seqs
<1>1. wire[p] \in Seq(Connections)
  BY Zenon DEF WireTyped
<1>2. /\ Head(wire[p]) = wire[p][1] /\ 1 \in 1 .. Len(wire[p]) /\ wire[p][1] \in Connections
  BY <1>1
<1>3. Head(wire[p]).toR \in Seq(Messages) /\ Head(wire[p]).sess \in Sessions
  BY <1>2, Zenon DEF Connections
<1>4. /\ Head(Head(wire[p]).toR) = Head(wire[p]).toR[1] /\ 1 \in 1 .. Len(Head(wire[p]).toR)
      /\ Head(wire[p]).toR[1] \in Messages
  BY <1>3
<1>5. \A m \in Messages : \/ m.kind = "PING" /\ m.states \in PingStates
                          \/ m.kind = "DATA" /\ m.seq \in Seqs /\ m.elem \in Packets
                          \/ m.kind = "FIN" /\ m.target \in Seqs
  BY Zenon DEF Messages
<1> QED BY <1>2, <1>3, <1>4, <1>5, Zenon

LEMMA HandledOK ==
    ASSUME WireTyped, ReceiverTyped, NEW p \in Paths, wire[p] # << >>,
           Head(wire[p]).toR # << >>
    PROVE  LET r == Handled(p)
           IN  /\ ReceiverOK(r) /\ r.conf = rcv.conf /\ r.at = rcv.at
               /\ r.active = rcv.active /\ r.accepted = rcv.accepted
               /\ ~r.alive => r.trace = << >>
<1> DEFINE s == Head(wire[p]).sess
           m == Head(Head(wire[p]).toR)
<1>1. /\ s \in Sessions
      /\ \/ m.kind = "PING" /\ m.states \in PingStates
         \/ m.kind = "DATA" /\ m.seq \in Seqs /\ m.elem \in Packets
         \/ m.kind = "FIN" /\ m.target \in Seqs
  BY FirstMessage, Zenon
<1>2. ReceiverOK(rcv) /\ (~rcv.alive => rcv.trace = << >>)
  BY Zenon DEF ReceiverTyped
<1>3. Handled(p) = CASE m.kind = "PING" -> Told(OnPing(rcv, p, m))
                     [] m.kind = "DATA" -> OnData(rcv, s, m)
                     [] m.kind = "FIN"  -> OnFin(rcv, s, m)
  BY Zenon DEF Handled
<1> HIDE DEF s, m
<1>4. CASE m.kind = "PING"
  <2> DEFINE e == OnPing(rcv, p, m)
             f == Told(e)
  <2>1. /\ ReceiverOK(e) /\ Session(e) = Session(rcv) /\ e.at = rcv.at
        /\ e.active = rcv.active /\ e.conf = rcv.conf
    BY <1>1, <1>2, <1>4, ReceiverHears
  <2>2. Handled(p) = f
    BY <1>3, <1>4, Zenon
  <2> HIDE DEF e
  <2>3. ReceiverOK(f) /\ Place(f) = Place(e) /\ (~e.alive => f.trace = << >>)
    BY <2>1, ToldOK, Zenon
  <2> HIDE DEF f
  <2> QED BY <2>1, <2>2, <2>3, Zenon DEF Place, Session
<1>5. CASE m.kind = "DATA"
  <2> DEFINE f == OnData(rcv, s, m)
  <2>1. ReceiverOK(f) /\ Place(f) = Place(rcv) /\ (~rcv.alive => f.trace = rcv.trace)
    BY <1>1, <1>2, <1>5, OnDataOK, Zenon
  <2>2. Handled(p) = f
    BY <1>3, <1>5, Zenon
  <2> HIDE DEF f
  <2> QED BY <1>2, <2>1, <2>2, Zenon DEF Place
<1>6. CASE m.kind = "FIN"
  <2> DEFINE f == OnFin(rcv, s, m)
  <2>1. ReceiverOK(f) /\ Place(f) = Place(rcv) /\ f.trace = rcv.trace
    BY <1>1, <1>2, <1>6, OnFinOK
  <2>2. Handled(p) = f
    BY <1>3, <1>6, Zenon
  <2> HIDE DEF f
  <2> QED BY <1>2, <2>1, <2>2, Zenon DEF Place
<1> QED BY <1>1, <1>4, <1>5, <1>6, Zenon

\* A path that is up is counted in.
LEMMA UpCounts ==
    ASSUME NEW r, ReceiverOK(r), NEW p \in Paths, r.at[p] \in Live
    PROVE  p \in Counted(r) /\ r.active # 0
<1>1. p \in Counted(r)
  BY Zenon DEF Counted
<1> QED BY <1>1, CountedNotZero, Zenon DEF ReceiverOK

LEMMA ReceiverReads ==
    ASSUME WireTyped, ReceiverTyped, Linked(snd, rcv, wire), NEW p \in Paths, ReceiverRead(p)
    PROVE  /\ ReceiverTyped' /\ rcv'.at = rcv.at /\ rcv'.accepted = rcv.accepted
           /\ rcv'.conf = rcv.conf /\ rcv'.active = rcv.active
           /\ wire[p] # << >> /\ Head(wire[p]).toR # << >>
           /\ Head(wire[p]).sess = rcv.accepted /\ rcv.at[p] = "up"
           /\ \/ ~FinReached(Handled(p)) /\ rcv' = Handled(p)
              \/ FinReached(Handled(p)) /\ rcv' = FinFire(Handled(p))
           /\ WireGrown(wire, wire', {},
                  {<<rcv.accepted, x>> : x \in IF FinReached(Handled(p))
                                               THEN {Handled(p).fin} ELSE {}})
<1> DEFINE c == Head(wire[p])
           w == [wire EXCEPT ![p][1].toR = Tail(@)]
           r == Handled(p)
           A == {<<rcv.accepted, x>> : x \in IF FinReached(r) THEN {r.fin} ELSE {}}
<1>1. rcv.at[p] = "up" /\ c.toR # << >>
  BY Zenon DEF ReceiverRead
<1>2. p \in Sockets(rcv) /\ wire[p] # << >> /\ c.sess = rcv.accepted
  BY <1>1, Zenon DEF Sockets, Linked
<1>3. /\ c \in Connections /\ c = wire[p][1] /\ 1 \in 1 .. Len(wire[p])
      /\ c.sess \in Sessions
  BY <1>1, <1>2, FirstMessage, Zenon
<1>4. Accepted(rcv, c.sess)
  BY <1>2, Zenon DEF Accepted
<1>5. \/ ~FinReached(r) /\ rcv' = r /\ wire' = w
      \/ FinReached(r) /\ rcv' = FinFire(r) /\ wire' = Acknowledged(w, ReceiverWrites, r.fin)
  BY <1>4, Zenon DEF ReceiverRead, Handled
<1>6. /\ ReceiverOK(r) /\ r.conf = rcv.conf /\ r.at = rcv.at /\ r.active = rcv.active
      /\ r.accepted = rcv.accepted /\ (~r.alive => r.trace = << >>)
  BY <1>1, <1>2, HandledOK, Zenon
<1>7. WireGrown(wire, w, {}, {})
  <2> DEFINE d == [c EXCEPT !.toR = Tail(@)]
  <2>1. w = [wire EXCEPT ![p] = [@ EXCEPT ![1] = d]]
    BY <1>3, Zenon DEF WireTyped
  <2>2. d \in Connections /\ Grown(c, d, {}, {})
    <3>1. 0 \in Seqs /\ [kind |-> "FIN", target |-> 0] \in Messages
      BY WindowAssumption, SMTT(20) DEF Seqs, Messages
    <3> HIDE DEF c
    <3> QED BY <1>1, <1>3, <3>1, ConnectionData, Zenon
  <2> HIDE DEF d, c
  <2> QED BY <1>3, <2>1, <2>2, PathGrown, Zenon DEF WireTyped
<1> HIDE DEF w, c, r
<1>8. /\ rcv'.at = rcv.at /\ rcv'.accepted = rcv.accepted /\ rcv'.conf = rcv.conf
      /\ rcv'.active = rcv.active /\ ReceiverOK(rcv)' /\ (~rcv'.alive => rcv'.trace = << >>)
  <2>1. CASE rcv' = r
    BY <1>6, <2>1, Zenon DEF ReceiverOK, Counted
  <2>2. CASE rcv' = FinFire(r)
    <3> DEFINE f == FinFire(r)
    <3>1. /\ ReceiverOK(f) /\ f.conf = r.conf /\ f.at = r.at /\ f.active = r.active
          /\ f.accepted = r.accepted /\ f.trace = << >>
      BY <1>6, FinFireOK, Zenon
    <3> HIDE DEF f
    <3>2. rcv' = f
      BY <2>2 DEF f
    <3> QED BY <1>6, <3>1, <3>2, Zenon DEF ReceiverOK, Counted
  <2> QED BY <1>5, <2>1, <2>2, Zenon
<1>9. rcv.active # 0
  BY <1>1, UpCounts, Zenon DEF ReceiverTyped, Live
<1>10. ReceiverTyped'
  BY <1>8, <1>9, Zenon DEF ReceiverTyped
<1>11. WireGrown(wire, wire', {}, A)
  <2>1. CASE ~FinReached(r) /\ wire' = w
    BY <1>7, <2>1 DEF WireGrown, Grown
  <2>2. CASE FinReached(r) /\ wire' = Acknowledged(w, ReceiverWrites, r.fin)
    <3>1. r.fin \in Seqs
      BY <1>6, <2>2, Zenon DEF FinReached, ReceiverOK, Receivers
    <3>2. A = {<<rcv.accepted, r.fin>>}
      BY <2>2, Zenon
    <3> HIDE DEF A
    <3>3. w \in [Paths -> Seq(Connections)]
      BY <1>7, Zenon DEF WireGrown
    <3>4. ASSUME NEW k \in ReceiverWrites
          PROVE  LET q == [w[k] EXCEPT ![1].ack = r.fin]
                 IN  /\ q \in Seq(Connections) /\ Len(q) = Len(w[k])
                     /\ \A j \in 1 .. Len(w[k]) : Grown(w[k][j], q[j], {}, A)
      <4> DEFINE d == w[k][1]
                 e == [d EXCEPT !.ack = r.fin]
      <4>1. /\ k \in Sockets(rcv) /\ k \in Paths /\ wire[k] # << >>
            /\ Head(wire[k]).sess = rcv.accepted
        BY Zenon DEF ReceiverWrites, Sockets, Linked
      <4>2. wire[k] \in Seq(Connections)
        BY <4>1, Zenon DEF WireTyped
      <4>3. 1 \in 1 .. Len(wire[k]) /\ Head(wire[k]) = wire[k][1]
        BY <4>1, <4>2
      <4>4. Len(w[k]) = Len(wire[k]) /\ d.sess = rcv.accepted
        BY <1>7, <4>1, <4>3, Zenon DEF WireGrown, Grown
      <4>5. w[k] \in Seq(Connections) /\ d \in Connections /\ 1 \in 1 .. Len(w[k])
        BY <3>3, <4>1, <4>3, <4>4
      <4>6. e \in Connections /\ Grown(d, e, {}, A)
        <5>1. [kind |-> "FIN", target |-> r.fin] \in Messages /\ <<d.sess, r.fin>> \in A
          BY <3>1, <3>2, <4>4, Zenon DEF Messages
        <5> HIDE DEF d
        <5> QED BY <3>1, <4>5, <5>1, ConnectionData, Zenon
      <4> HIDE DEF e
      <4>7. LET q == [w[k] EXCEPT ![1] = e]
            IN  /\ q \in Seq(Connections) /\ Len(q) = Len(w[k])
                /\ \A j \in 1 .. Len(w[k]) : Grown(w[k][j], q[j], {}, A)
        BY <4>5, <4>6, OneGrown, Zenon
      <4> QED BY <4>7, Zenon DEF e
    <3>5. \A k \in Paths : \A j \in 1 .. Len(w[k]) : Grown(w[k][j], w[k][j], {}, A)
      <4>1. \A k \in Paths : \A j \in 1 .. Len(w[k]) : w[k][j] \in Connections
        BY <3>3
      <4> QED BY <4>1, ConnectionOps, Zenon
    <3>6. WireGrown(w, wire', {}, A)
      BY <2>2, <3>3, <3>4, <3>5, Zenon DEF WireGrown, Acknowledged
    <3> QED BY <1>7, <3>6, WireGrownTwice, SMTT(20)
  <2> QED BY <1>5, <2>1, <2>2, Zenon
<1> QED BY <1>1, <1>2, <1>5, <1>8, <1>10, <1>11, Zenon DEF c, r

-----------------------------------------------------------------------------
\* Connections come and go

\* On some paths the oldest connection is gone.
WireShifted(w, v) ==
    /\ v \in [Paths -> Seq(Connections)]
    /\ \A p \in Paths : v[p] = w[p] \/ (w[p] # << >> /\ v[p] = Tail(w[p]))

LEMMA Shifted ==
    ASSUME NEW q \in Seq(Connections), q # << >>
    PROVE  /\ Tail(q) \in Seq(Connections) /\ Len(Tail(q)) = Len(q) - 1
           /\ \A i \in 1 .. Len(Tail(q)) : Tail(q)[i] = q[i + 1] /\ i + 1 \in 1 .. Len(q)
           /\ Tail(q) # << >> => Last(Tail(q)) = Last(q)
<1>1. /\ Tail(q) \in Seq(Connections) /\ Len(Tail(q)) = Len(q) - 1 /\ Len(q) \in Nat
      /\ \A i \in 1 .. Len(Tail(q)) : Tail(q)[i] = q[i + 1] /\ i + 1 \in 1 .. Len(q)
  OBVIOUS
<1>2. Tail(q) # << >> => Len(Tail(q)) \in 1 .. Len(Tail(q))
  BY <1>1
<1> QED BY <1>1, <1>2 DEF Last

LEMMA ShiftedLinks ==
    ASSUME WireTyped, NEW e, NEW v, WireShifted(wire, v),
           \A p \in Sockets(e) : wire[p] # << >> => Last(wire[p]).sess = e.sess
    PROVE  \A p \in Sockets(e) : v[p] # << >> => Last(v[p]).sess = e.sess
<1> SUFFICES ASSUME NEW p \in Sockets(e), v[p] # << >>
             PROVE  Last(v[p]).sess = e.sess
  BY Zenon
<1>1. p \in Paths /\ wire[p] \in Seq(Connections)
  BY Zenon DEF Sockets, WireTyped
<1>2. CASE v[p] = wire[p]
  BY <1>2, Zenon
<1>3. CASE wire[p] # << >> /\ v[p] = Tail(wire[p])
  BY <1>1, <1>3, Shifted, Zenon
<1> QED BY <1>1, <1>2, <1>3, Zenon DEF WireShifted

\* TCP_SESSION_NEW leaves the count of paths, and shuts all the others.
LEMMA NewSessionOK ==
    ASSUME NEW r, ReceiverOK(r), NEW p \in Paths, r.at[p] = "down", NEW s \in Sessions
    PROVE  LET j == NewSession(r, p, s)
           IN  /\ ReceiverOK(j) /\ Sockets(j) = {} /\ Counted(j) = Counted(r)
               /\ \A k \in Paths : j.at[k] = r.at[k] <=> k \notin Sockets(r)
               /\ j.at[p] = "down" /\ j.active = r.active /\ j.conf = r.conf
               /\ j.alive = r.alive /\ ~j.known /\ j.fin = NoFin /\ j.accepted = s
               /\ j.trace = r.trace /\ j.old = r.old /\ j.past = r.past
               /\ j.dropped = r.dropped /\ j.win = r.win
<1> DEFINE a == [k \in Paths |-> IF k # p /\ k \in Sockets(r) THEN "shut" ELSE r.at[k]]
           j == NewSession(r, p, s)
<1>1. r \in Receivers /\ r.active = Cardinality(Counted(r)) /\ Expects(r.win, r.win.next)
  BY Zenon DEF ReceiverOK
<1>2. j = [r EXCEPT !.known = FALSE, !.fin = NoFin, !.accepted = s, !.at = a]
  BY Zenon DEF NewSession
<1>3. a \in [Paths -> Points] /\ \A k \in Paths : a[k] = r.at[k] <=> k \notin Sockets(r)
  BY <1>1, Zenon DEF Receivers, Points, Sockets
<1>4. \A k \in Paths : (a[k] \in Live <=> r.at[k] \in Live) /\ a[k] \notin {"up", "ended"}
  BY <1>1, Zenon DEF Receivers, Live, Sockets, Points
<1>5. a[p] = "down"
  BY Zenon
<1> HIDE DEF a, j
<1>6. /\ j \in Receivers /\ j.at = a /\ j.active = r.active /\ j.conf = r.conf
      /\ j.alive = r.alive /\ ~j.known /\ j.fin = NoFin /\ j.accepted = s
      /\ j.trace = r.trace /\ j.old = r.old /\ j.past = r.past
      /\ j.dropped = r.dropped /\ j.win = r.win
  BY <1>1, <1>2, <1>3, Zenon DEF Receivers
<1>7. Counted(j) = Counted(r) /\ Sockets(j) = {}
  BY <1>4, <1>6, Zenon DEF Counted, Sockets
<1>8. ReceiverOK(j)
  BY <1>1, <1>6, <1>7, Zenon DEF ReceiverOK
<1> QED BY <1>3, <1>5, <1>6, <1>7, <1>8, ZenonT(30) DEF j

\* The receiver before the path is counted in.
Joining(p) ==
    IF Compare(rcv, Head(wire[p]).sess) = "NEW"
    THEN NewSession(rcv, p, Head(wire[p]).sess) ELSE rcv

LEMMA ReceiverAccepts ==
    ASSUME WireTyped, ReceiverTyped, Linked(snd, rcv, wire), NEW p \in Paths, Accept(p)
    PROVE  /\ ReceiverTyped' /\ Linked(snd, rcv, wire)' /\ WireShifted(wire, wire')
           /\ Session(rcv') = Session(Joining(p)) /\ rcv'.conf = rcv.conf
           /\ rcv'.alive = rcv.alive /\ Head(wire[p]).sess \in Sessions
           /\ \/ Compare(rcv, Head(wire[p]).sess) = "NEW"
              \/ Joining(p) = rcv /\ Head(wire[p]).sess = rcv.accepted
<1> DEFINE s == Head(wire[p]).sess
           j == Joining(p)
           r == Joined(j, p)
           f == CountedOut(r, p, "down")
           w == [k \in Paths |-> IF k # p /\ j.at[k] # rcv.at[k] THEN Tail(wire[k]) ELSE wire[k]]
<1>1. /\ rcv.at[p] = "down" /\ wire[p] # << >> /\ Head(wire[p]).toR # << >>
      /\ Compare(rcv, s) # "OLD" /\ snd' = snd
      /\ \/ rcv' = r /\ wire' = w
         \/ rcv' = f /\ wire' = [w EXCEPT ![p] = Tail(@)]
  BY Zenon DEF Accept, Joining
<1>2. s \in Sessions /\ s \in Nat /\ s # None
  BY <1>1, FirstMessage, TcpAssumption, Zenon DEF None
<1>3. /\ ReceiverOK(rcv) /\ rcv \in Receivers /\ (rcv.active = 0 => Deserted(rcv))
      /\ (~rcv.alive => rcv.trace = << >>) /\ rcv.accepted \in Nat
  <2>1. /\ ReceiverOK(rcv) /\ rcv \in Receivers /\ (rcv.active = 0 => Deserted(rcv))
        /\ (~rcv.alive => rcv.trace = << >>)
    BY Zenon DEF ReceiverTyped, ReceiverOK
  <2>2. rcv.accepted \in Sessions \cup {None}
    BY <2>1, Zenon DEF Receivers
  <2> QED BY <2>1, <2>2, SessionNumbers, Zenon
<1>4. /\ \/ Compare(rcv, s) = "NEW" /\ j = NewSession(rcv, p, s)
         \/ Compare(rcv, s) = "SAME" /\ j = rcv /\ rcv.accepted = s
  <2>1. \/ Compare(rcv, s) = "NEW" \/ (Compare(rcv, s) = "SAME" /\ rcv.accepted = s)
    BY <1>1, <1>2, <1>3 DEF Compare
  <2> QED BY <2>1, Zenon DEF Joining
<1> HIDE DEF s
<1>5. /\ ReceiverOK(j) /\ j.at[p] = "down" /\ j.conf = rcv.conf /\ j.alive = rcv.alive
      /\ j.trace = rcv.trace /\ j.accepted = s /\ j.active = rcv.active
      /\ \A k \in Sockets(j) : k \in Sockets(rcv) /\ j.at[k] = rcv.at[k] /\ j.accepted = rcv.accepted
      /\ \A k \in Paths : j.at[k] # rcv.at[k] => k \in Sockets(rcv)
  <2>1. CASE j = rcv /\ rcv.accepted = s
    BY <1>1, <1>3, <2>1, ZenonT(30)
  <2>2. CASE j = NewSession(rcv, p, s)
    <3>1. /\ ReceiverOK(j) /\ Sockets(j) = {} /\ j.at[p] = "down" /\ j.active = rcv.active
          /\ j.conf = rcv.conf /\ j.alive = rcv.alive /\ j.accepted = s /\ j.trace = rcv.trace
          /\ \A k \in Paths : j.at[k] = rcv.at[k] <=> k \notin Sockets(rcv)
      <4>1. ReceiverOK(rcv) /\ rcv.at[p] = "down" /\ s \in Sessions
        BY <1>1, <1>2, <1>3, Zenon
      <4> QED BY <2>2, <4>1, NewSessionOK
    <3> QED BY <3>1, Zenon
  <2> QED BY <1>4, <2>1, <2>2, Zenon
<1> HIDE DEF j
<1>6. p \notin Counted(j) /\ p \notin Sockets(j)
  BY <1>5, Zenon DEF Counted, Live, Sockets
<1>7. /\ ReceiverOK(r) /\ Session(r) = Session(j) /\ r.at = [j.at EXCEPT ![p] = "up"]
      /\ r.alive = j.alive /\ r.active = j.active + 1 /\ r.conf = j.conf
  BY <1>5, <1>6, ReceiverJoined, SMTT(20)
<1> HIDE DEF r
<1>8. j.at \in [Paths -> Points] /\ r.at \in [Paths -> Points] /\ r.at[p] = "up"
  BY <1>5, <1>7, Zenon DEF ReceiverOK, Receivers
<1>9. p \in Counted(r) /\ r.active # 0
  BY <1>7, <1>8, UpCounts, Zenon DEF Live
<1>10. /\ ReceiverOK(f) /\ Session(f) = Session(r) /\ f.alive = r.alive /\ f.conf = r.conf
       /\ Off(r, f, p)
       /\ f.active = 0 => f.at[p] = "left"
  BY <1>7, <1>9, ReceiverCountedOut, SMTT(30)
<1> HIDE DEF f
<1>12. /\ ReceiverOK(rcv)' /\ Session(rcv') = Session(j) /\ rcv'.conf = rcv.conf
       /\ rcv'.alive = rcv.alive /\ (~rcv'.alive => rcv'.trace = << >>)
       /\ rcv'.active = 0 => rcv' = f
       /\ rcv'.accepted = s
  <2>1. rcv' \in {r, f}
    BY <1>1, Zenon
  <2>2. rcv'.trace = j.trace /\ rcv'.accepted = j.accepted
    BY <1>7, <1>10, <2>1, Zenon DEF Session
  <2>3. ReceiverOK(rcv)'
    BY <1>7, <1>10, <2>1, Zenon DEF ReceiverOK, Counted
  <2> QED BY <1>3, <1>5, <1>7, <1>9, <1>10, <2>1, <2>2, <2>3, Zenon
<1>13. ReceiverTyped'
  BY <1>10, <1>12, Zenon DEF ReceiverTyped, Deserted
<1>14. WireShifted(wire, wire')
  <2>1. \A k \in Paths : wire[k] \in Seq(Connections)
    BY Zenon DEF WireTyped
  <2>2. \A k \in Paths : j.at[k] # rcv.at[k] => wire[k] # << >>
    BY <1>5, Zenon DEF Linked
  <2>3. \A k \in Paths : wire[k] # << >> => Tail(wire[k]) \in Seq(Connections)
    BY <2>1, Shifted, Zenon
  <2>4. w \in [Paths -> Seq(Connections)] /\ w[p] = wire[p]
    BY <2>1, <2>2, <2>3, Zenon
  <2>5. CASE wire' = w
    BY <2>2, <2>4, <2>5, Zenon DEF WireShifted
  <2>6. CASE wire' = [w EXCEPT ![p] = Tail(@)]
    <3>1. wire' = [w EXCEPT ![p] = Tail(wire[p])]
      BY <2>4, <2>6, SMTT(20)
    <3> QED BY <1>1, <2>2, <2>3, <2>4, <3>1, Zenon DEF WireShifted
  <2> QED BY <1>1, <2>5, <2>6, Zenon
<1>15. Linked(snd, rcv, wire)'
  <2>1. \A k \in Sockets(snd) : wire'[k] # << >> => Last(wire'[k]).sess = snd.sess
    BY <1>14, ShiftedLinks, Zenon DEF Linked
  <2>2. ASSUME NEW k \in Sockets(rcv')
        PROVE  wire'[k] # << >> /\ Head(wire'[k]).sess = rcv'.accepted
    <3>1. k \in Paths
      BY Zenon DEF Sockets
    <3>2. CASE k = p
      <4>1. rcv' # f
        <5>1. f.at[p] \notin Live
          BY <1>8, <1>10, OffAt, Zenon
        <5>2. rcv'.at[p] \in {"up", "ended"}
          BY <2>2, <3>2, Zenon DEF Sockets
        <5>3. rcv'.at[p] \in Live
          BY <5>2, Zenon DEF Live
        <5> QED BY <5>1, <5>3, Zenon
      <4>2. wire' = w
        BY <1>1, <4>1, Zenon
      <4>3. wire'[p] = wire[p]
        BY <4>2, Zenon
      <4> QED BY <1>1, <1>12, <3>2, <4>3, Zenon DEF s
    <3>3. CASE k # p
      <4>1. rcv'.at[k] = j.at[k]
        <5>1. r.at[k] = j.at[k]
          BY <1>7, <1>8, <3>1, <3>3, Zenon
        <5>2. f.at[k] = r.at[k]
          BY <1>8, <1>10, <3>1, <3>3, OffAt, Zenon
        <5> QED BY <1>1, <5>1, <5>2, Zenon
      <4>2. k \in Sockets(j)
        BY <2>2, <4>1, <3>1, Zenon DEF Sockets
      <4>3. k \in Sockets(rcv) /\ j.at[k] = rcv.at[k] /\ rcv.accepted = s
        BY <1>5, <4>2, Zenon
      <4>4. wire'[k] = wire[k]
        BY <1>1, <3>1, <3>3, <4>3, Zenon
      <4> QED BY <1>12, <4>3, <4>4, Zenon DEF Linked
    <3> QED BY <3>2, <3>3, Zenon
  <2> QED BY <1>1, <2>1, <2>2, Zenon DEF Linked, Sockets
<1> QED BY <1>2, <1>4, <1>12, <1>13, <1>14, <1>15, Zenon DEF s, j

LEMMA OneShifted ==
    ASSUME WireTyped, NEW p \in Paths, wire[p] # << >>
    PROVE  WireShifted(wire, [wire EXCEPT ![p] = Tail(@)])
<1>1. \A k \in Paths : wire[k] \in Seq(Connections)
  BY Zenon DEF WireTyped
<1>2. Tail(wire[p]) \in Seq(Connections)
  BY <1>1, Shifted, Zenon
<1> QED BY <1>1, <1>2, Zenon DEF WireShifted, WireTyped

\* The paths that are left keep their connections.
LEMMA LinkedOff ==
    ASSUME WireTyped, ReceiverOK(rcv), Linked(snd, rcv, wire), NEW p \in Paths, Off(rcv, rcv', p),
           rcv'.accepted = rcv.accepted, snd' = snd, WireShifted(wire, wire'),
           \A k \in Paths : k # p => wire'[k] = wire[k]
    PROVE  Linked(snd, rcv, wire)'
<1>1. \A k \in Sockets(snd) : wire'[k] # << >> => Last(wire'[k]).sess = snd.sess
  BY ShiftedLinks, Zenon DEF Linked
<1>2. ASSUME NEW k \in Sockets(rcv')
      PROVE  wire'[k] # << >> /\ Head(wire'[k]).sess = rcv'.accepted
  <2>1. rcv.at \in [Paths -> Points]
    BY Zenon DEF ReceiverOK, Receivers
  <2>2. rcv'.at[p] \notin Live /\ \A i \in Paths : i # p => rcv'.at[i] = rcv.at[i]
    BY <2>1, OffAt
  <2>3. k \in Paths /\ rcv'.at[k] \in {"up", "ended"} /\ rcv'.at[k] \in Live
    BY <1>2, Zenon DEF Sockets, Live
  <2>4. k # p
    BY <2>2, <2>3, Zenon
  <2>5. k \in Sockets(rcv)
    BY <2>2, <2>3, <2>4, Zenon DEF Sockets
  <2> QED BY <2>3, <2>4, <2>5, Zenon DEF Linked
<1> QED BY <1>1, <1>2, Zenon DEF Linked, Sockets

\* A start that fails leaves the session as it is.
LEMMA ReceiverGivesUp ==
    ASSUME WireTyped, ReceiverTyped, Linked(snd, rcv, wire), NEW p \in Paths, AcceptFails(p)
    PROVE  /\ ReceiverTyped' /\ Linked(snd, rcv, wire)' /\ WireShifted(wire, wire')
           /\ Session(rcv') = Session(rcv) /\ rcv'.conf = rcv.conf /\ rcv'.alive = rcv.alive
<1> DEFINE e == CountedOut(rcv, p, "down")
<1>1. rcv.at[p] = "up" /\ rcv' = e /\ snd' = snd /\ wire' = [wire EXCEPT ![p] = Tail(@)]
  BY Zenon DEF AcceptFails
<1>2. p \in Counted(rcv) /\ ReceiverOK(rcv)
  BY <1>1, Zenon DEF Counted, Live, ReceiverTyped
<1>3. /\ ReceiverOK(e) /\ Session(e) = Session(rcv) /\ e.conf = rcv.conf /\ e.alive = rcv.alive
      /\ Off(rcv, e, p)
      /\ e.active = 0 => e.at[p] = "left"
  BY <1>2, ReceiverCountedOut, ZenonT(30)
<1> HIDE DEF e
<1>4. e.trace = rcv.trace /\ e.accepted = rcv.accepted
  BY <1>3, Zenon DEF Session
<1>5. ReceiverOK(rcv)'
  BY <1>1, <1>3, Zenon DEF ReceiverOK, Counted
<1>6. ReceiverTyped'
  BY <1>1, <1>3, <1>4, <1>5, Zenon DEF ReceiverTyped, Deserted
<1>7. wire[p] # << >>
  BY <1>1, Zenon DEF Linked, Sockets
<1>8. WireShifted(wire, wire')
  BY <1>1, <1>7, OneShifted, Zenon
<1>9. Linked(snd, rcv, wire)'
  <2>1. Off(rcv, rcv', p) /\ rcv'.accepted = rcv.accepted
    BY <1>1, <1>3, <1>4, Zenon DEF Off
  <2>2. \A k \in Paths : k # p => wire'[k] = wire[k]
    BY <1>1, Zenon DEF WireTyped
  <2> QED BY <1>1, <1>2, <1>8, <2>1, <2>2, LinkedOff, Zenon
<1> QED BY <1>1, <1>3, <1>6, <1>8, <1>9, ZenonT(30)

LEMMA ReceiverLeaves ==
    ASSUME WireTyped, ReceiverTyped, Linked(snd, rcv, wire), NEW p \in Paths, ReceiverLost(p)
    PROVE  /\ ReceiverTyped' /\ Linked(snd, rcv, wire)' /\ WireShifted(wire, wire')
           /\ ReceiverOK(Lost(rcv, p, "down")) /\ rcv' = Told(Lost(rcv, p, "down"))
           /\ Session(Lost(rcv, p, "down")) = Session(rcv) /\ rcv'.conf = rcv.conf
           /\ rcv'.accepted = rcv.accepted
<1> DEFINE e == Lost(rcv, p, "down")
           f == Told(e)
<1>1. /\ rcv.at[p] \in {"ended", "shut", "up"} /\ rcv' = f /\ snd' = snd
      /\ wire' = IF rcv.at[p] = "shut" THEN wire ELSE [wire EXCEPT ![p] = Tail(@)]
  BY Zenon DEF ReceiverLost
<1>2. p \in Counted(rcv) /\ ReceiverOK(rcv)
  BY <1>1, Zenon DEF Counted, Live, ReceiverTyped
<1>3. /\ ReceiverOK(e) /\ Session(e) = Session(rcv) /\ e.conf = rcv.conf
      /\ Off(rcv, e, p)
      /\ e.active = 0 => ~e.alive /\ e.at[p] = "left"
  BY <1>2, ReceiverLoses, ZenonT(30)
<1> HIDE DEF e
<1>4. ReceiverOK(f) /\ Place(f) = Place(e) /\ (~e.alive => f.trace = << >>)
  BY <1>3, ToldOK, Zenon
<1> HIDE DEF f
<1>5. /\ f.conf = rcv.conf /\ f.at = e.at /\ f.active = e.active /\ f.alive = e.alive
      /\ f.accepted = rcv.accepted
  BY <1>3, <1>4, Zenon DEF Place, Session
<1>6. ReceiverOK(rcv)'
  BY <1>1, <1>4, Zenon DEF ReceiverOK, Counted
<1>7. ReceiverTyped'
  BY <1>1, <1>3, <1>4, <1>5, <1>6, Zenon DEF ReceiverTyped, Deserted
<1>8. rcv.at[p] # "shut" => wire[p] # << >>
  BY <1>1, Zenon DEF Linked, Sockets
<1>9. WireShifted(wire, wire')
  <2>1. CASE rcv.at[p] = "shut"
    BY <1>1, <2>1, Zenon DEF WireShifted, WireTyped
  <2>2. CASE rcv.at[p] # "shut"
    BY <1>1, <1>8, <2>2, OneShifted, Zenon
  <2> QED BY <2>1, <2>2, Zenon
<1>10. Linked(snd, rcv, wire)'
  <2>1. Off(rcv, rcv', p) /\ rcv'.accepted = rcv.accepted
    BY <1>1, <1>3, <1>5, Zenon DEF Off
  <2>2. \A k \in Paths : k # p => wire'[k] = wire[k]
    BY <1>1, Zenon DEF WireTyped
  <2> QED BY <1>1, <1>2, <1>9, <2>1, <2>2, LinkedOff, Zenon
<1> QED BY <1>1, <1>3, <1>5, <1>7, <1>9, <1>10, ZenonT(30) DEF e, f

LEMMA ReceiverWaits ==
    ASSUME WireTyped, ReceiverTyped, Linked(snd, rcv, wire), NEW p \in Paths,
           ReceiverTimeout(p)
    PROVE  /\ ReceiverTyped' /\ Linked(snd, rcv, wire)'
           /\ ReceiverOK(TimedOut(rcv, p)) /\ rcv' = Told(TimedOut(rcv, p))
           /\ Session(TimedOut(rcv, p)) = Session(rcv) /\ rcv'.conf = rcv.conf
           /\ rcv'.accepted = rcv.accepted
<1> DEFINE e == TimedOut(rcv, p)
           f == Told(e)
<1>1. rcv.at[p] = "up" /\ rcv' = f /\ snd' = snd /\ wire' = wire
  BY Zenon DEF ReceiverTimeout
<1>2. ReceiverOK(rcv) /\ rcv.active # 0 /\ rcv.at \in [Paths -> Points]
  <2>1. ReceiverOK(rcv)
    BY Zenon DEF ReceiverTyped
  <2> QED BY <1>1, <2>1, UpCounts, Zenon DEF Live, ReceiverOK, Receivers
<1>3. /\ ReceiverOK(e) /\ Session(e) = Session(rcv) /\ e.conf = rcv.conf
      /\ e.at = [rcv.at EXCEPT ![p] = "ended"] /\ e.active = rcv.active
  BY <1>1, <1>2, ReceiverWaitsInVain, ZenonT(30)
<1> HIDE DEF e
<1>4. ReceiverOK(f) /\ Place(f) = Place(e) /\ (~e.alive => f.trace = << >>)
  BY <1>3, ToldOK, ZenonT(30)
<1> HIDE DEF f
<1>5. /\ f.conf = rcv.conf /\ f.at = e.at /\ f.active = e.active /\ f.alive = e.alive
      /\ f.accepted = rcv.accepted
  BY <1>3, <1>4, ZenonT(30) DEF Place, Session
<1>6. ReceiverOK(rcv)'
  BY <1>1, <1>4, Zenon DEF ReceiverOK, Counted
<1>7. ReceiverTyped'
  BY <1>1, <1>2, <1>3, <1>4, <1>5, <1>6, Zenon DEF ReceiverTyped
<1>8. Sockets(f) = Sockets(rcv)
  BY <1>1, <1>2, <1>3, <1>5, Zenon DEF Sockets
<1>9. Linked(snd, rcv, wire)'
  <2>1. Linked(snd, f, wire)
    BY <1>5, <1>8, Zenon DEF Linked
  <2> QED BY <1>1, <2>1, Zenon DEF Linked, Sockets
<1> QED BY <1>1, <1>3, <1>5, <1>7, <1>9, Zenon DEF e, f

\* reset_all_paths_disconnected forgets the session when it is deserted.
LEMMA ReceiverResets ==
    ASSUME WireTyped, ReceiverTyped, Linked(snd, rcv, wire), NEW p \in Paths,
           ReceiverReset(p)
    PROVE  /\ ReceiverTyped' /\ Linked(snd, rcv, wire)' /\ rcv'.conf = rcv.conf
           /\ \/ Session(rcv') = Session(rcv) /\ rcv'.alive = rcv.alive
              \/ /\ rcv.active = 0 /\ ~rcv'.known /\ rcv'.fin = NoFin /\ rcv'.accepted = None
                 /\ rcv'.old = {} /\ rcv'.past = rcv.past \cup (rcv.old \cup Range(rcv.trace))
                 /\ rcv'.dropped = rcv.dropped /\ rcv'.trace = << >>
<1> DEFINE f == [rcv EXCEPT !.known = FALSE, !.fin = NoFin, !.remote = AllUndefined,
                            !.alive = FALSE, !.accepted = None]
           h == Told(f)
           g == Parted(h)
<1>1. /\ ReceiverOK(rcv) /\ rcv \in Receivers
      /\ (~rcv.alive => rcv.trace = << >>) /\ rcv.active = Cardinality(Counted(rcv))
      /\ Expects(rcv.win, rcv.win.next)
  BY Zenon DEF ReceiverTyped, ReceiverOK
<1>2. rcv.at[p] = "left" /\ rcv' = [ResetAll(rcv) EXCEPT !.at[p] = "down"]
      /\ snd' = snd /\ wire' = wire
  BY Zenon DEF ReceiverReset
<1>3. CASE rcv.active # 0
  <2>1. rcv' = [rcv EXCEPT !.at[p] = "down"]
    BY <1>2, <1>3, Zenon DEF ResetAll
  <2>2. /\ rcv' \in Receivers /\ Session(rcv') = Session(rcv) /\ rcv'.alive = rcv.alive
        /\ rcv'.active = rcv.active /\ rcv'.conf = rcv.conf
        /\ rcv'.at = [rcv.at EXCEPT ![p] = "down"] /\ rcv.at \in [Paths -> Points]
    BY <1>1, <2>1, Zenon DEF Receivers, Points, Session
  <2>3. rcv'.win = rcv.win /\ rcv'.trace = rcv.trace /\ rcv'.accepted = rcv.accepted
    BY <2>2, Zenon DEF Session
  <2>4. Counted(rcv') = Counted(rcv) /\ Sockets(rcv') = Sockets(rcv)
    BY <1>2, <2>2 DEF Counted, Live, Sockets
  <2>5. ReceiverTyped'
    BY <1>1, <1>3, <2>2, <2>3, <2>4, Zenon DEF ReceiverTyped, ReceiverOK, Counted
  <2>6. Linked(snd, rcv, wire)'
    <3>1. Linked(snd, rcv', wire)
      BY <2>3, <2>4, Zenon DEF Linked
    <3> QED BY <1>2, <3>1, Zenon DEF Linked, Sockets
  <2> QED BY <2>2, <2>5, <2>6, Zenon
<1>4. CASE rcv.active = 0
  <2>1. rcv' = [g EXCEPT !.at[p] = "down"]
    BY <1>2, <1>4, Zenon DEF ResetAll
  <2>2. /\ f \in Receivers /\ f.conf = rcv.conf /\ f.at = rcv.at /\ f.active = rcv.active
        /\ ~f.known /\ f.fin = NoFin /\ ~f.alive /\ f.accepted = None /\ f.trace = rcv.trace
        /\ f.old = rcv.old /\ f.past = rcv.past /\ f.dropped = rcv.dropped /\ f.win = rcv.win
    BY <1>1, ZenonT(30) DEF Receivers, AllUndefined, PingStates
  <2> HIDE DEF f
  <2>3. ReceiverOK(f)
    BY <1>1, <2>2, Zenon DEF ReceiverOK, Counted
  <2>7. /\ ReceiverOK(h) /\ Place(h) = Place(f) /\ h.known = f.known /\ h.fin = f.fin
        /\ h.win = f.win /\ h.dropped = f.dropped /\ h.past = f.past
        /\ h.trace = << >> /\ h.old = f.old \cup Range(f.trace)
    BY <2>2, <2>3, ToldOK, Zenon
  <2> HIDE DEF h
  <2>4. /\ ReceiverOK(g) /\ Place(g) = Place(f) /\ g.known = f.known /\ g.fin = f.fin
        /\ g.trace = << >> /\ g.win = f.win
        /\ g.dropped = f.dropped /\ g.old = {} /\ g.past = f.past \cup (f.old \cup Range(f.trace))
    <3>1. /\ ReceiverOK(g) /\ Place(g) = Place(h) /\ g.known = h.known /\ g.fin = h.fin
          /\ g.trace = h.trace /\ g.win = h.win
          /\ g.dropped = h.dropped /\ g.old = {} /\ g.past = h.past \cup h.old
      BY <2>7, PartedOK, Zenon
    <3> QED BY <2>7, <3>1, Zenon
  <2> HIDE DEF g
  <2>5. /\ g \in Receivers /\ g.conf = rcv.conf /\ g.at = rcv.at /\ g.active = 0
        /\ ~g.alive /\ g.accepted = None /\ g.at \in [Paths -> Points]
    BY <1>4, <2>2, <2>4, Zenon DEF Place, ReceiverOK, Receivers
  <2>6. /\ rcv' \in Receivers /\ rcv'.at = [g.at EXCEPT ![p] = "down"] /\ rcv'.conf = g.conf
        /\ rcv'.active = g.active /\ rcv'.alive = g.alive /\ rcv'.accepted = g.accepted
        /\ rcv'.known = g.known /\ rcv'.fin = g.fin /\ rcv'.trace = g.trace
        /\ rcv'.old = g.old /\ rcv'.past = g.past /\ rcv'.dropped = g.dropped
        /\ rcv'.win = g.win
    BY <2>1, <2>5, Zenon DEF Receivers, Points
  <2>8. Counted(rcv') = Counted(rcv) /\ Sockets(rcv') = {}
    <3>1. Counted(rcv') = Counted(rcv)
      BY <1>2, <2>5, <2>6 DEF Counted, Live
    <3>2. Counted(rcv) = {}
      BY <1>1, <1>4, CountedNotZero, Zenon
    <3>3. Sockets(rcv') \subseteq Counted(rcv')
      BY Zenon DEF Sockets, Counted, Live
    <3> QED BY <3>1, <3>2, <3>3, Zenon
  <2>9. ReceiverTyped'
    <3>1. rcv'.active = Cardinality(Counted(rcv')) /\ rcv'.active = 0
      BY <1>1, <1>4, <2>5, <2>6, <2>8, Zenon
    <3>2. Expects(rcv'.win, rcv'.win.next)
      BY <1>1, <2>2, <2>4, <2>6, Zenon
    <3>3. ~rcv'.alive /\ rcv'.accepted = None /\ ~rcv'.known /\ rcv'.trace = << >>
      BY <2>2, <2>4, <2>5, <2>6, Zenon
    <3>4. ReceiverOK(rcv)'
      BY <2>6, <3>1, <3>2, Zenon DEF ReceiverOK, Counted
    <3> QED BY <3>1, <3>3, <3>4, Zenon DEF ReceiverTyped, Deserted
  <2>10. Linked(snd, rcv, wire)'
    <3>1. Linked(snd, rcv', wire)
      BY <2>8, Zenon DEF Linked
    <3> QED BY <1>2, <3>1, Zenon DEF Linked, Sockets
  <2> QED BY <1>4, <2>2, <2>4, <2>5, <2>6, <2>9, <2>10, Zenon
<1> QED BY <1>3, <1>4, ZenonT(30)

-----------------------------------------------------------------------------
\* Paths and sessions: the invariant and what follows from it

\* Both ends have their types and count their paths right, and what is on a
\* connection that is in use belongs to the session its end is in.
PathInv == SenderTyped /\ ReceiverTyped /\ WireTyped /\ Linked(snd, rcv, wire)

LEMMA InitPath == Init => PathInv
<1> SUFFICES ASSUME Init PROVE PathInv
  BY Zenon
<1>1. SenderOK(snd) /\ ~snd.queued
  BY NewSenderOK, Zenon DEF Init
<1>2. PICK c \in Confs :
       rcv = [conf |-> c, at |-> [p \in Paths |-> "down"], active |-> 0, ping |-> AllUndefined,
              remote |-> AllUndefined, alive |-> FALSE, accepted |-> None,
              known |-> FALSE, sess |-> None, win |-> EmptyWindow(0), fin |-> NoFin,
              trace |-> << >>, old |-> {}, past |-> {}, dropped |-> {}]
  BY Zenon DEF Init
<1>3. EmptyWindow(0) \in Windows /\ Expects(EmptyWindow(0), 0) /\ EmptyWindow(0).next = 0
  <2>1. 0 \in Seqs
    BY WindowAssumption DEF Seqs
  <2>2. Expects(EmptyWindow(0), 0) /\ EmptyWindow(0).next = 0
    BY <2>1, SeqNumItself, Emptied, Zenon DEF EmptyWindow
  <2> QED BY <2>2, Zenon DEF Expects
<1>4. Counted(rcv) = {} /\ Sockets(rcv) = {} /\ Sockets(snd) = {}
  <2>1. rcv.at = [p \in Paths |-> "down"]
    BY <1>2, Zenon
  <2>2. snd.at = [p \in Paths |-> "down"]
    BY DEF Init, NewSender
  <2> QED BY <2>1, <2>2, Zenon DEF Counted, Sockets, Live
<1>5. Cardinality(Paths) \in Nat /\ Cardinality({}) = 0
  BY TcpAssumption, Zenon DEF Sized
<1>6. rcv \in Receivers
  <2>1. << >> \in Seq(Packets) /\ AllUndefined \in PingStates
    BY DEF AllUndefined, PingStates
  <2>2. /\ [p \in Paths |-> "down"] \in [Paths -> Points] /\ 0 \in 0 .. Cardinality(Paths)
    BY <1>5 DEF Points
  <2> QED BY <1>2, <1>3, <2>1, <2>2, Zenon DEF Receivers
<1>7. ReceiverTyped
  BY <1>2, <1>3, <1>4, <1>5, <1>6, Zenon DEF ReceiverTyped, ReceiverOK, Deserted
<1>8. WireTyped
  BY DEF Init, WireTyped
<1> QED BY <1>1, <1>4, <1>7, <1>8, Zenon DEF PathInv, SenderTyped, Linked

LEMMA GrownLinks ==
    ASSUME WireTyped, Linked(snd, rcv, wire), NEW e, NEW r, NEW v, NEW M, NEW A,
           WireGrown(wire, v, M, A), Sockets(e) \subseteq Sockets(snd),
           Sockets(e) # {} => e.sess = snd.sess,
           Sockets(r) = Sockets(rcv), r.accepted = rcv.accepted
    PROVE  Linked(e, r, v)
<1>1. /\ \A p \in Paths : wire[p] \in Seq(Connections) /\ v[p] \in Seq(Connections)
      /\ \A p \in Paths : Len(v[p]) = Len(wire[p]) /\ \A i \in 1 .. Len(wire[p]) :
            v[p][i].sess = wire[p][i].sess
  BY Zenon DEF WireTyped, WireGrown, Grown
<1>2. ASSUME NEW p \in Sockets(e), v[p] # << >>
      PROVE  Last(v[p]).sess = e.sess
  <2>1. p \in Paths /\ p \in Sockets(snd) /\ e.sess = snd.sess
    BY Zenon DEF Sockets
  <2>2. wire[p] # << >> /\ Len(wire[p]) \in 1 .. Len(wire[p]) /\ Len(v[p]) = Len(wire[p])
    BY <1>1, <1>2, <2>1, SMTT(20)
  <2> QED BY <1>1, <2>1, <2>2, ZenonT(30) DEF Linked, Last
<1>3. ASSUME NEW p \in Sockets(r)
      PROVE  v[p] # << >> /\ Head(v[p]).sess = r.accepted
  <2>1. p \in Paths /\ p \in Sockets(rcv)
    BY Zenon DEF Sockets
  <2>2. wire[p] # << >> /\ Head(wire[p]).sess = rcv.accepted
    BY <2>1, Zenon DEF Linked
  <2>3. wire[p] \in Seq(Connections) /\ v[p] \in Seq(Connections) /\ Len(v[p]) = Len(wire[p])
    BY <1>1, <2>1, Zenon
  <2>4. 1 \in 1 .. Len(wire[p]) /\ v[p] # << >>
    BY <2>2, <2>3, SMTT(20)
  <2>5. Head(wire[p]) = wire[p][1] /\ Head(v[p]) = v[p][1]
    BY <2>2, <2>3, <2>4
  <2> QED BY <1>1, <2>1, <2>2, <2>4, <2>5, Zenon
<1> QED BY <1>2, <1>3, Zenon DEF Linked

LEMMA Appended ==
    ASSUME NEW q \in Seq(Connections), NEW c \in Connections
    PROVE  /\ Append(q, c) \in Seq(Connections) /\ Append(q, c) # << >>
           /\ Len(Append(q, c)) = Len(q) + 1 /\ Append(q, c)[Len(q) + 1] = c
           /\ \A i \in 1 .. Len(q) : Append(q, c)[i] = q[i]
           /\ Last(Append(q, c)) = c
           /\ q # << >> => Head(Append(q, c)) = Head(q)
<1> DEFINE a == Append(q, c)
<1>1. /\ a \in Seq(Connections) /\ Len(a) = Len(q) + 1 /\ a[Len(q) + 1] = c
      /\ Len(q) \in Nat /\ \A i \in 1 .. Len(q) : a[i] = q[i]
  OBVIOUS
<1> HIDE DEF a
<1>2. a # << >> /\ Last(a) = c /\ Head(a) = a[1]
  BY <1>1 DEF Last
<1>3. ASSUME q # << >> PROVE Head(a) = Head(q)
  <2>1. 1 \in 1 .. Len(q) /\ Head(q) = q[1]
    BY <1>3, SMTT(20)
  <2> QED BY <1>1, <1>2, <2>1, Zenon
<1> QED BY <1>1, <1>2, <1>3, Zenon DEF a

\* A new connection is the newest one, and no other changes.
LEMMA Connects ==
    ASSUME PathInv, NEW p \in Paths, Connect(p)
    PROVE  /\ WireTyped' /\ Linked(snd, rcv, wire)' /\ rcv' = rcv
           /\ \A k \in Paths \ {p} : wire'[k] = wire[k]
           /\ \E c \in Connections : /\ wire'[p] = Append(wire[p], c) /\ c.sess = snd.sess
                                     /\ c.toR = <<Ping(Joined(snd, p))>> /\ c.ack = NoFin
<1> DEFINE j == Joined(snd, p)
           c == [sess |-> snd.sess, cut |-> FALSE, said |-> j.ping, toR |-> <<Ping(j)>>,
                 ack |-> NoFin]
<1>1. wire' = [wire EXCEPT ![p] = Append(@, c)] /\ rcv' = rcv /\ snd.at[p] = "down"
  BY Zenon DEF Connect
<1>2. SenderOK(snd) /\ snd \in Senders /\ rcv \in Receivers
  BY Zenon DEF PathInv, SenderTyped, SenderOK, ReceiverTyped, ReceiverOK
<1>3. SenderOK(j)
  BY <1>1, <1>2, SenderJoined, Zenon DEF Counted, Live
<1> HIDE DEF j
<1>4. c \in Connections
  <2>1. j.ping \in PingStates /\ snd.sess \in Sessions
    BY <1>2, <1>3, Zenon DEF SenderOK, Senders
  <2>2. Ping(j) \in Messages
    BY <2>1, Zenon DEF Ping, Messages
  <2>3. <<Ping(j)>> \in Seq(Messages)
    BY <2>2
  <2> QED BY <2>1, <2>3, Zenon DEF Connections
<1>5. c.sess = snd.sess /\ c.toR = <<Ping(j)>> /\ c.ack = NoFin
  BY Zenon
<1> HIDE DEF c
<1>6. \A k \in Paths : wire[k] \in Seq(Connections)
  BY Zenon DEF PathInv, WireTyped
<1>7. /\ Append(wire[p], c) \in Seq(Connections) /\ Append(wire[p], c) # << >>
      /\ Last(Append(wire[p], c)) = c
      /\ wire[p] # << >> => Head(Append(wire[p], c)) = Head(wire[p])
  BY <1>4, <1>6, Appended, Zenon
<1>8. wire'[p] = Append(wire[p], c) /\ \A k \in Paths \ {p} : wire'[k] = wire[k]
  BY <1>1, Zenon DEF PathInv, WireTyped
<1>9. WireTyped'
  BY <1>1, <1>6, <1>7, Zenon DEF WireTyped, PathInv
<1>10. snd'.sess = snd.sess /\ Sockets(snd') \subseteq Sockets(snd) \cup {p}
  BY <1>2, SenderPaths, Zenon DEF Transfer
<1>11. Linked(snd, rcv, wire)'
  <2>1. \A k \in Sockets(snd') : wire'[k] # << >> => Last(wire'[k]).sess = snd'.sess
    <3> SUFFICES ASSUME NEW k \in Sockets(snd'), wire'[k] # << >>
                 PROVE  Last(wire'[k]).sess = snd'.sess
      BY Zenon
    <3>1. CASE k = p
      BY <1>5, <1>7, <1>8, <1>10, <3>1, Zenon
    <3>2. CASE k # p
      <4>1. k \in Sockets(snd) /\ k \in Paths
        BY <1>10, <3>2, Zenon DEF Sockets
      <4> QED BY <1>8, <1>10, <3>2, <4>1, Zenon DEF PathInv, Linked
    <3> QED BY <3>1, <3>2, Zenon
  <2>2. \A k \in Sockets(rcv) : wire'[k] # << >> /\ Head(wire'[k]).sess = rcv.accepted
    <3> SUFFICES ASSUME NEW k \in Sockets(rcv)
                 PROVE  wire'[k] # << >> /\ Head(wire'[k]).sess = rcv.accepted
      BY Zenon
    <3>1. k \in Paths /\ wire[k] # << >> /\ Head(wire[k]).sess = rcv.accepted
      BY Zenon DEF Sockets, PathInv, Linked
    <3>2. CASE k = p
      BY <1>7, <1>8, <3>1, <3>2, Zenon
    <3>3. CASE k # p
      BY <1>8, <3>1, <3>3, Zenon
    <3> QED BY <3>2, <3>3, Zenon
  <2> QED BY <1>1, <2>1, <2>2, Zenon DEF Linked, Sockets
<1> QED BY <1>1, <1>4, <1>5, <1>8, <1>9, <1>11, Zenon DEF j

LEMMA Refuses ==
    ASSUME PathInv, NEW p \in Paths, Refuse(p)
    PROVE  /\ Linked(snd, rcv, wire)' /\ WireShifted(wire, wire') /\ snd' = snd /\ rcv' = rcv
<1>1. /\ rcv.at[p] = "down" /\ wire[p] # << >> /\ wire' = [wire EXCEPT ![p] = Tail(@)]
      /\ snd' = snd /\ rcv' = rcv
  BY Zenon DEF Refuse
<1>2. WireTyped /\ Linked(snd, rcv, wire)
  BY Zenon DEF PathInv
<1>3. WireShifted(wire, wire')
  BY <1>1, <1>2, OneShifted, Zenon
<1>4. \A k \in Sockets(snd) : wire'[k] # << >> => Last(wire'[k]).sess = snd.sess
  BY <1>2, <1>3, ShiftedLinks, Zenon DEF Linked
<1>5. \A k \in Sockets(rcv) : k \in Paths /\ k # p /\ wire'[k] = wire[k]
  BY <1>1, <1>2, Zenon DEF Sockets, WireTyped
<1>6. Linked(snd, rcv, wire')
  BY <1>2, <1>4, <1>5, Zenon DEF Linked
<1> QED BY <1>1, <1>3, <1>6, Zenon DEF Linked, Sockets

LEMMA PathStep ==
    ASSUME PathInv, [Next]_vars
    PROVE  PathInv'
<1>1. SenderTyped /\ ReceiverTyped /\ WireTyped /\ Linked(snd, rcv, wire)
  BY Zenon DEF PathInv
<1>2. SenderOK(snd) /\ rcv \in Receivers /\ ReceiverOK(rcv)
  BY <1>1, Zenon DEF SenderTyped, ReceiverTyped, ReceiverOK
\* The sender moves, the connections change one by one, the receiver waits.
<1>3. ASSUME SenderTyped', rcv' = rcv, NEW M, NEW A, WireGrown(wire, wire', M, A),
             Sockets(snd') \subseteq Sockets(snd), Sockets(snd') # {} => snd'.sess = snd.sess
      PROVE  PathInv'
  <2>1. WireTyped'
    BY <1>3, Zenon DEF WireGrown, WireTyped
  <2>2. ReceiverTyped'
    BY <1>1, <1>3, Zenon DEF ReceiverTyped, ReceiverOK, Deserted, Counted
  <2>3. Linked(snd', rcv, wire')
    BY <1>1, <1>3, GrownLinks, Zenon
  <2>4. Linked(snd, rcv, wire)'
    BY <1>3, <2>3, Zenon DEF Linked, Sockets
  <2> QED BY <1>3, <2>1, <2>2, <2>4, Zenon DEF PathInv
\* The receiver moves, and the sender waits.
<1>4. ASSUME snd' = snd, ReceiverTyped', WireTyped', Linked(snd, rcv, wire)'
      PROVE  PathInv'
  <2>1. SenderTyped'
    BY <1>1, <1>4, Zenon DEF SenderTyped, SenderOK, Counted
  <2> QED BY <1>4, <2>1, Zenon DEF PathInv
<1>5. WireGrown(wire, wire, {}, {})
  BY <1>1, WireStays, Zenon
<1>6. WireShifted(wire, wire') => WireTyped'
  BY Zenon DEF WireShifted, WireTyped
<1>7. CASE UNCHANGED vars
  <2>1. SenderTyped'
    BY <1>1, <1>7, Zenon DEF vars, SenderTyped, SenderOK, Counted
  <2>2. WireGrown(wire, wire', {}, {}) /\ rcv' = rcv /\ snd' = snd
    BY <1>5, <1>7, Zenon DEF vars
  <2> QED BY <1>3, <2>1, <2>2, Zenon
<1>8. ASSUME NEW p \in Paths, PathNext(p) PROVE PathInv'
  <2>1. CASE Break(p)
    <3>1. WireGrown(wire, wire', {}, {}) /\ SenderTyped' /\ Sockets(snd') = Sockets(snd)
      BY <1>1, <1>2, <2>1, WireCut, SenderCounters, Zenon
    <3>2. rcv' = rcv /\ snd'.sess = snd.sess
      BY <1>2, <2>1, Zenon DEF Break, SenderOK, Senders
    <3> QED BY <1>3, <3>1, <3>2, Zenon
  <2>2. CASE Connect(p)
    <3>1. SenderOK(snd') /\ Transfer(snd') = Transfer(snd)
      BY <1>2, <2>2, SenderPaths, Zenon
    <3>2. SenderTyped'
      BY <1>1, <3>1, Zenon DEF SenderTyped, Transfer, SenderOK, Counted
    <3>3. WireTyped' /\ Linked(snd, rcv, wire)' /\ rcv' = rcv
      BY <2>2, Connects, Zenon
    <3>4. ReceiverTyped'
      BY <1>1, <3>3, Zenon DEF ReceiverTyped, ReceiverOK, Deserted, Counted
    <3> QED BY <3>2, <3>3, <3>4, Zenon DEF PathInv
  <2>3. CASE ConnectFails(p) \/ StartFails(p) \/ SenderPinged(p) \/ SenderTimeout(p) \/ SenderLost(p)
    <3>1. /\ SenderOK(snd') /\ Transfer(snd') = Transfer(snd)
          /\ ~Connect(p) => Sockets(snd') \subseteq Sockets(snd)
      BY <1>2, <2>3, SenderPaths, Zenon
    <3>2. SenderTyped' /\ snd'.sess = snd.sess
      BY <1>1, <3>1, Zenon DEF SenderTyped, Transfer, SenderOK, Counted
    <3>3. rcv' = rcv /\ WireGrown(wire, wire', {}, {})
      BY <1>1, <1>5, <2>3, WireCut, Zenon
      DEF ConnectFails, StartFails, SenderPinged, SenderTimeout, SenderLost
    <3>4. CASE Connect(p)
      <4>1. WireTyped' /\ Linked(snd, rcv, wire)' /\ rcv' = rcv
        BY <3>4, Connects, Zenon
      <4>2. ReceiverTyped'
        BY <1>1, <4>1, Zenon DEF ReceiverTyped, ReceiverOK, Deserted, Counted
      <4> QED BY <3>2, <4>1, <4>2, Zenon DEF PathInv
    <3> QED BY <1>3, <3>1, <3>2, <3>3, <3>4, Zenon
  <2>4. CASE SenderPing(p)
    <3>1. snd' = snd /\ rcv' = rcv /\ WireGrown(wire, wire', Pings, {})
      BY <1>1, <2>4, WireWritten, Zenon DEF SenderPing
    <3>2. SenderTyped'
      BY <1>1, <3>1, Zenon DEF SenderTyped, SenderOK, Counted
    <3> QED BY <1>3, <3>1, <3>2, Zenon
  <2>5. CASE SenderAcked(p)
    <3>1. rcv' = rcv /\ wire' = wire /\ snd'.sess = snd.sess
      BY <1>2, <2>5, Zenon DEF SenderAcked, SenderOK, Senders
    <3>2. SenderTyped' /\ Sockets(snd') = Sockets(snd)
      BY <1>1, <1>2, <2>5, SenderCounters, Zenon
    <3> QED BY <1>3, <1>5, <3>1, <3>2, Zenon
  <2>6. CASE SenderReset(p)
    <3>1. rcv' = rcv /\ wire' = wire
      BY <2>6, Zenon DEF SenderReset
    <3>2. SenderTyped' /\ Sockets(snd') \subseteq Sockets(snd) /\ snd'.sess = snd.sess
      BY <1>1, <2>6, SenderResets, Zenon
    <3> QED BY <1>3, <1>5, <3>1, <3>2, Zenon
  <2>7. CASE Accept(p)
    BY <1>1, <1>4, <1>6, <2>7, ReceiverAccepts, Zenon DEF Accept
  <2>8. CASE Refuse(p)
    <3>1. Linked(snd, rcv, wire)' /\ WireShifted(wire, wire') /\ snd' = snd /\ rcv' = rcv
      BY <2>8, Refuses, Zenon
    <3>2. ReceiverTyped'
      BY <1>1, <3>1, Zenon DEF ReceiverTyped, ReceiverOK, Deserted, Counted
    <3> QED BY <1>4, <1>6, <3>1, <3>2, Zenon
  <2>9. CASE ReceiverRead(p)
    <3>1. PICK A : WireGrown(wire, wire', {}, A)
      BY <1>1, <2>9, ReceiverReads, Zenon
    <3>2. ReceiverTyped' /\ rcv'.at = rcv.at /\ rcv'.accepted = rcv.accepted /\ snd' = snd
      BY <1>1, <2>9, ReceiverReads, ZenonT(30) DEF ReceiverRead
    <3>3. WireTyped'
      BY <3>1, Zenon DEF WireGrown, WireTyped
    <3>4. Sockets(rcv') = Sockets(rcv)
      BY <3>2, Zenon DEF Sockets
    <3>5. Linked(snd, rcv', wire')
      BY <1>1, <3>1, <3>2, <3>4, GrownLinks, Zenon
    <3>6. Linked(snd, rcv, wire)'
      BY <3>2, <3>5, Zenon DEF Linked, Sockets
    <3> QED BY <1>4, <3>2, <3>3, <3>6, Zenon
  <2>10. CASE ReceiverTimeout(p)
    <3>1. ReceiverTyped' /\ Linked(snd, rcv, wire)' /\ wire' = wire /\ snd' = snd
      BY <1>1, <2>10, ReceiverWaits, Zenon DEF ReceiverTimeout
    <3>2. WireTyped'
      BY <1>1, <3>1, Zenon DEF WireTyped
    <3> QED BY <1>4, <3>1, <3>2, Zenon
  <2>11. CASE ReceiverLost(p)
    BY <1>1, <1>4, <1>6, <2>11, ReceiverLeaves, Zenon DEF ReceiverLost
  <2>12. CASE ReceiverReset(p)
    <3>1. ReceiverTyped' /\ Linked(snd, rcv, wire)' /\ wire' = wire /\ snd' = snd
      BY <1>1, <2>12, ReceiverResets, Zenon DEF ReceiverReset
    <3>2. WireTyped'
      BY <1>1, <3>1, Zenon DEF WireTyped
    <3> QED BY <1>4, <3>1, <3>2, Zenon
  <2>13. CASE AcceptFails(p)
    BY <1>1, <1>4, <1>6, <2>13, ReceiverGivesUp, Zenon DEF AcceptFails
  <2> QED BY <1>8, <2>1, <2>2, <2>3, <2>4, <2>5, <2>6, <2>7, <2>8, <2>9, <2>10, <2>11, <2>12, <2>13,
             Zenon DEF PathNext
<1>9. CASE Submit
  <2>1. rcv' = rcv /\ wire' = wire /\ snd'.sess = snd.sess
    BY <1>2, <1>9, Zenon DEF Submit, SenderOK, Senders
  <2> QED BY <1>1, <1>2, <1>3, <1>5, <1>9, <2>1, SenderCounters, Zenon
<1>10. CASE Flush
  <2>1. rcv' = rcv /\ snd'.sess = snd.sess
    BY <1>2, <1>10, Zenon DEF Flush, SenderOK, Senders
  <2>2. PICK M : WireGrown(wire, wire', M, {})
    BY <1>1, <1>10, WireWritten, Zenon
  <2> QED BY <1>1, <1>2, <1>3, <1>10, <2>1, <2>2, SenderCounters, Zenon
<1>11. CASE CloseBegin \/ CloseFin \/ CloseEnd \/ Restart
  <2>1. rcv' = rcv
    BY <1>11, Zenon DEF CloseBegin, CloseFin, CloseEnd, Restart
  <2>2. \E M : WireGrown(wire, wire', M, {})
    BY <1>1, <1>5, <1>11, WireCut, WireWritten, Zenon DEF CloseBegin, CloseEnd
  <2>3. /\ SenderTyped' /\ Sockets(snd') \subseteq Sockets(snd)
        /\ (Sockets(snd') # {} => snd'.sess = snd.sess)
    BY <1>1, <1>2, <1>11, SenderCloses, Zenon
  <2> QED BY <1>3, <2>1, <2>2, <2>3, Zenon
<1> QED BY <1>7, <1>8, <1>9, <1>10, <1>11, Zenon DEF Next

\* Types, path counts and the session of every connection hold in each state.
THEOREM PathsSafe == Spec => []PathInv
<1>1. Init => PathInv
  BY InitPath, Zenon
<1>2. PathInv /\ [Next]_vars => PathInv'
  BY PathStep, Zenon
<1> QED BY <1>1, <1>2, PTL DEF Spec

\* Both ends and the connections keep their types, on any number of paths.
THEOREM TypeCorrect == Spec => []TypeOK
<1>1. PathInv => TypeOK
  BY Zenon DEF PathInv, TypeOK, SenderTyped, SenderOK, ReceiverTyped, ReceiverOK, WireTyped
<1> QED BY <1>1, PathsSafe, PTL

\* When every accept thread waits, nothing of the last session is left: the
\* count of paths is right and the last thread out has reset the session.
THEOREM QuietReceiverIsReset == Spec => []QuietMeansReset
<1>1. PathInv => QuietMeansReset
  <2> SUFFICES ASSUME PathInv, \A p \in Paths : rcv.at[p] = "down"
               PROVE  rcv.active = 0 /\ ~rcv.alive /\ rcv.accepted = None /\ ~rcv.known
    BY Zenon DEF QuietMeansReset
  <2>1. Counted(rcv) = {}
    BY Zenon DEF Counted, Live
  <2>2. rcv \in Receivers /\ rcv.active = Cardinality(Counted(rcv))
    BY Zenon DEF PathInv, ReceiverTyped, ReceiverOK
  <2>3. rcv.active = 0
    BY <2>1, <2>2, CountedNotZero, Zenon
  <2> QED BY <2>3, Zenon DEF PathInv, ReceiverTyped, Deserted
<1> QED BY <1>1, PathsSafe, PTL

\* A path that is read belongs to the accepted session: TCP_SESSION_NEW shut
\* all the others.
THEOREM OnlyAcceptedIsRead == Spec => []OldSessionShutOut
<1>1. PathInv => OldSessionShutOut
  BY Zenon DEF PathInv, Linked, OldSessionShutOut, Sockets
<1> QED BY <1>1, PathsSafe, PTL

\* While a path is counted in, only a later session takes over.
THEOREM AcceptedSessionHolds == Spec => SessionHolds
<1> DEFINE Holds == rcv.accepted # None /\ rcv'.accepted # rcv.accepted =>
                       rcv'.accepted > rcv.accepted \/ rcv.active = 0
<1>1. ASSUME PathInv, [Next]_vars
      PROVE  Holds
  <2>1. /\ SenderTyped /\ ReceiverTyped /\ WireTyped /\ Linked(snd, rcv, wire)
        /\ ReceiverOK(rcv)
    BY <1>1, Zenon DEF PathInv, ReceiverTyped
  <2>2. CASE rcv' = rcv
    BY <2>2, Zenon
  <2>3. ASSUME NEW p \in Paths, Accept(p) PROVE Holds
    <3> DEFINE s == Head(wire[p]).sess
    <3>1. rcv'.accepted = Joining(p).accepted
      BY <2>1, <2>3, ReceiverAccepts, Zenon DEF Session
    <3>2. CASE Joining(p) = rcv
      BY <3>1, <3>2, Zenon
    <3>3. CASE Compare(rcv, s) = "NEW"
      <4>1. Joining(p) = NewSession(rcv, p, s)
        BY <3>3, Zenon DEF Joining
      <4>2. s \in Sessions /\ rcv.at[p] = "down"
        BY <2>1, <2>3, ReceiverAccepts, ZenonT(30) DEF Accept
      <4>3. Joining(p).accepted = s
        <5>1. ReceiverOK(rcv) /\ p \in Paths /\ rcv.at[p] = "down" /\ s \in Sessions
          BY <2>1, <4>2, Zenon
        <5> HIDE DEF s
        <5>2. NewSession(rcv, p, s).accepted = s
          BY <5>1, NewSessionOK, Zenon
        <5> QED BY <4>1, <5>2, Zenon
      <4>4. rcv.accepted = None \/ s > rcv.accepted
        <5>1. rcv.accepted \in Nat /\ s \in Nat
          <6>1. rcv.accepted \in Sessions \cup {None}
            BY <2>1, Zenon DEF ReceiverOK, Receivers
          <6>2. rcv.accepted \in Nat
            BY <6>1, SessionNumbers, Zenon
          <6>3. s \in Nat
            BY <4>2, SessionNumbers, Zenon
          <6> QED BY <6>2, <6>3, Zenon
        <5> HIDE DEF s
        <5> QED BY <3>3, <5>1 DEF Compare
      <4> QED BY <3>1, <4>3, <4>4, Zenon
    <3> QED BY <2>1, <2>3, <3>2, <3>3, ReceiverAccepts, ZenonT(30)
  <2>4. ASSUME NEW p \in Paths,
               ReceiverRead(p) \/ ReceiverTimeout(p) \/ ReceiverLost(p) \/ AcceptFails(p)
        PROVE  Holds
    BY <2>1, <2>4, ReceiverReads, ReceiverWaits, ReceiverLeaves, ReceiverGivesUp, Zenon DEF Session
  <2>5. ASSUME NEW p \in Paths, ReceiverReset(p) PROVE Holds
    <3>1. \/ Session(rcv') = Session(rcv) \/ rcv.active = 0
      BY <2>1, <2>5, ReceiverResets, Zenon
    <3> QED BY <3>1, Zenon DEF Session
  <2> HIDE DEF Holds
  <2>6. CASE Next
    BY <2>2, <2>3, <2>4, <2>5, <2>6, Zenon
    DEF Next, PathNext, Break, Connect, ConnectFails, StartFails, SenderPing, SenderPinged, SenderAcked,
        SenderTimeout, SenderLost, SenderReset, Refuse, Submit, Flush, CloseBegin, CloseFin,
        CloseEnd, Restart
  <2>7. CASE UNCHANGED vars
    BY <2>2, <2>7, Zenon DEF vars
  <2> QED BY <1>1, <2>6, <2>7, Zenon
<1>2. PathInv /\ [Next]_vars => [Holds]_vars
  BY <1>1, Zenon
<1> QED BY <1>2, PathsSafe, PTL DEF Spec, SessionHolds
=============================================================================

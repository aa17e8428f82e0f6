--------------------------- MODULE LifecycleProof ---------------------------
(***************************************************************************)
(* Proofs about Lifecycle, for any number of paths and every definition of *)
(* a service.                                                              *)
(***************************************************************************)
EXTENDS Lifecycle, TLAPS

\* The names of resources and threads, and the steps of a call.
Labels ==
    {"ctx", "callback_mutex", "peers", "sock", "tcp_listen_sock", "send_window", "recv_window",
     "frag_buf", "compress_buf", "recv_buf", "send_wire_buf", "crypto_buf", "recv_compress_buf",
     "recv_crypto_buf", "tcp_recv_buf", "send_queue", "send_window_mutex", "health_mutex",
     "health_wakeup", "tcp_recv_mutex", "tcp_state_mutex", "tcp_state_cv", "tcp_close_mutex",
     "tcp_close_cv", "tcp_send_mutex", "recv_window_mutex", "session_establish_mutex",
     "tcp_first_pkt_buf", "none", "send", "health", "recv", "connect"}

Names == Labels \X Nat

Steps ==
    [do : {"get", "run", "check", "refuse", "stop", "try", "halt", "hangup", "free"}, what : Names]
    \cup [do : {"put"}, what : SUBSET Names]

\* The threads a service can have.
ThreadsOf(c) ==
    IF Tcp(c) THEN {SendThread} \cup ({"recv", "health", "connect"} \X (1 .. NPath(c)))
    ELSE {SendThread, HealthThread, RecvThread}

\* What a thread uses, and what the threads need that it may start.
Needs(c, t) ==
    Requires(c, t) \cup
    (IF t[1] = "connect"
     THEN Requires(c, <<"recv", t[2]>>) \cup Requires(c, <<"health", t[2]>>)
          \cup (IF Sends(c) THEN Requires(c, SendThread) \ {SendLock} ELSE {})
     ELSE {})

\* What is given back whatever threads there are.
Owned(c) ==
    ContextOwns(c) \cup {SendQueue}
    \cup (IF Tcp(c) THEN SetOf(TcpSync) \cup SetOf(ConnectResources(c)) ELSE {})

\* What a step of an ending call gives back.
Gives(c, step) ==
    CASE step.do = "put" -> step.what
      [] step.do \in {"stop", "try"} -> LocksOf(c, step.what)
      [] OTHER -> {}

-----------------------------------------------------------------------------
\* Sequences of steps

LEMMA Concatenated ==
    ASSUME NEW S, NEW s \in Seq(S), NEW t \in Seq(S)
    PROVE  /\ s \o t \in Seq(S) /\ Len(s \o t) = Len(s) + Len(t)
           /\ Len(s) \in Nat /\ Len(t) \in Nat
           /\ DOMAIN (s \o t) = 1 .. Len(s) + Len(t)
           /\ \A i \in 1 .. Len(s) : (s \o t)[i] = s[i]
           /\ \A i \in 1 .. Len(t) : (s \o t)[Len(s) + i] = t[i]
           /\ \A k \in 1 .. Len(s) + Len(t) :
                 k \in 1 .. Len(s) \/ \E i \in 1 .. Len(t) : k = Len(s) + i
           /\ SetOf(s \o t) = SetOf(s) \cup SetOf(t)
<1> DEFINE u == s \o t
<1>1. /\ u \in Seq(S) /\ Len(u) = Len(s) + Len(t) /\ Len(s) \in Nat /\ Len(t) \in Nat
      /\ \A i \in 1 .. Len(s) + Len(t) : u[i] = IF i <= Len(s) THEN s[i] ELSE t[i - Len(s)]
  OBVIOUS
<1>2. DOMAIN u = 1 .. Len(s) + Len(t) /\ DOMAIN s = 1 .. Len(s) /\ DOMAIN t = 1 .. Len(t)
  BY <1>1
<1> HIDE DEF u
<1>3. \A i \in 1 .. Len(s) : u[i] = s[i] /\ i \in DOMAIN u
  BY <1>1, <1>2
<1>4. ASSUME NEW i \in 1 .. Len(t)
      PROVE  u[Len(s) + i] = t[i] /\ Len(s) + i \in DOMAIN u
  <2>1. Len(s) + i \in 1 .. Len(s) + Len(t) /\ ~(Len(s) + i <= Len(s)) /\ Len(s) + i - Len(s) = i
    BY <1>1
  <2> QED BY <1>1, <1>2, <2>1
<1>5. ASSUME NEW k \in 1 .. Len(s) + Len(t)
      PROVE  k \in 1 .. Len(s) \/ \E i \in 1 .. Len(t) : k = Len(s) + i
  <2>1. CASE k > Len(s)
    <3>1. k - Len(s) \in 1 .. Len(t) /\ k = Len(s) + (k - Len(s))
      BY <1>1, <2>1
    <3> QED BY <3>1, Zenon
  <2> QED BY <1>1, <2>1
<1>6. SetOf(u) = SetOf(s) \cup SetOf(t)
  <2>1. ASSUME NEW x \in SetOf(u) PROVE x \in SetOf(s) \cup SetOf(t)
    <3>1. PICK k \in 1 .. Len(s) + Len(t) : x = u[k]
      BY <1>2, Zenon DEF SetOf
    <3> QED BY <1>2, <1>3, <1>4, <1>5, <3>1, Zenon DEF SetOf
  <2>2. ASSUME NEW x \in SetOf(s) \cup SetOf(t) PROVE x \in SetOf(u)
    BY <1>2, <1>3, <1>4, Zenon DEF SetOf
  <2> QED BY <2>1, <2>2, Zenon
<1> QED BY <1>1, <1>2, <1>3, <1>4, <1>5, <1>6, Zenon DEF u

LEMMA Tabled ==
    ASSUME NEW S, NEW n \in Nat, NEW f, f = [i \in 1 .. n |-> f[i]], \A i \in 1 .. n : f[i] \in S
    PROVE  f \in Seq(S) /\ Len(f) = n /\ DOMAIN f = 1 .. n
  OBVIOUS

LEMMA Tailed ==
    ASSUME NEW S, NEW s \in Seq(S), s # << >>
    PROVE  /\ Tail(s) \in Seq(S) /\ Len(Tail(s)) = Len(s) - 1 /\ Len(s) \in Nat /\ Len(s) > 0
           /\ DOMAIN s = 1 .. Len(s) /\ DOMAIN Tail(s) = 1 .. Len(s) - 1
           /\ Head(s) = s[1] /\ s[1] \in S /\ 1 \in DOMAIN s
           /\ \A i \in 1 .. Len(s) - 1 : Tail(s)[i] = s[i + 1] /\ i + 1 \in DOMAIN s
<1>1. /\ Tail(s) \in Seq(S) /\ Len(Tail(s)) = Len(s) - 1 /\ Len(s) \in Nat /\ Len(s) > 0
      /\ \A i \in 1 .. Len(Tail(s)) : Tail(s)[i] = s[i + 1]
  OBVIOUS
<1>2. DOMAIN s = 1 .. Len(s) /\ DOMAIN Tail(s) = 1 .. Len(s) - 1 /\ Head(s) = s[1]
  BY <1>1
<1> QED BY <1>1, <1>2

LEMMA GetAllSteps ==
    ASSUME NEW rs \in Seq(Names)
    PROVE  /\ GetAll(rs) \in Seq(Steps) /\ Len(GetAll(rs)) = Len(rs)
           /\ \A x : x \in SetOf(GetAll(rs)) <=> \E r \in SetOf(rs) : x = Get(r)
           /\ SetOf(rs) \subseteq Names
<1>1. DOMAIN rs = 1 .. Len(rs) /\ Len(rs) \in Nat /\ \A i \in 1 .. Len(rs) : rs[i] \in Names
  OBVIOUS
<1>2. \A i \in 1 .. Len(rs) : Get(rs[i]) \in Steps
  BY <1>1, Zenon DEF Get, Steps
<1>3. GetAll(rs) = [i \in 1 .. Len(rs) |-> Get(rs[i])]
  BY <1>1, Zenon DEF GetAll
<1>4. GetAll(rs) \in Seq(Steps) /\ Len(GetAll(rs)) = Len(rs)
  BY <1>1, <1>2, <1>3
<1>5. \A x : x \in SetOf(GetAll(rs)) <=> \E r \in SetOf(rs) : x = Get(r)
  BY <1>1, <1>3, Zenon DEF SetOf
<1> QED BY <1>1, <1>4, <1>5, Zenon DEF SetOf

LEMMA EachNames ==
    ASSUME NEW n \in Nat, NEW name \in Labels
    PROVE  /\ Each(name, n) \in Seq(Names) /\ Len(Each(name, n)) = n
           /\ \A x : x \in SetOf(Each(name, n)) <=> \E i \in 1 .. n : x = <<name, i>>
<1>1. \A i \in 1 .. n : <<name, i>> \in Names
  BY DEF Names
<1>2. Each(name, n) = [i \in 1 .. n |-> <<name, i>>]
  BY Zenon DEF Each
<1>3. Each(name, n) \in Seq(Names) /\ Len(Each(name, n)) = n /\ DOMAIN Each(name, n) = 1 .. n
  BY <1>1, <1>2
<1>4. \A x : x \in SetOf(Each(name, n)) <=> \E i \in 1 .. n : x = <<name, i>>
  BY <1>2, <1>3, Zenon DEF SetOf
<1> QED BY <1>3, <1>4, Zenon

LEMMA PathCount ==
    ASSUME NEW c \in Confs
    PROVE  /\ NPath(c) \in Nat /\ NPath(c) <= MaxPath /\ 1 .. NPath(c) \subseteq Paths
           /\ MaxPath \in Nat /\ MaxPath >= 1
<1>1. MaxPath \in Nat /\ MaxPath >= 1 /\ 1 \in Paths
  BY OpeningAssumption DEF Paths
<1>2. Sized(Paths) /\ Cardinality(Paths) = MaxPath
  BY OpeningAssumption, Zenon
<1>3. ASSUME NEW S \in SUBSET Paths PROVE Cardinality(S) \in Nat /\ Cardinality(S) <= MaxPath
  BY <1>1, <1>2 DEF Sized
<1>4. /\ UnicastPaths(c) \subseteq Paths /\ MulticastPaths(c) \subseteq Paths
      /\ BroadcastPaths(c) \subseteq Paths /\ BidirPaths(c) \subseteq Paths
      /\ N1Paths(c) \subseteq Paths /\ TcpPaths(c) \subseteq Paths
  BY <1>1, Zenon DEF UnicastPaths, MulticastPaths, BroadcastPaths, BidirPaths, N1Paths, TcpPaths, Prefix
<1>5. NPath(c) \in Nat /\ NPath(c) <= MaxPath
  BY <1>3, <1>4, Zenon DEF NPath
<1> QED BY <1>1, <1>5 DEF Paths

-----------------------------------------------------------------------------
\* The resources by name

LEMMA SyncNames ==
    /\ TcpSync \in Seq(Names)
    /\ \A x : x \in SetOf(TcpSync) <=>
          \/ x \in {One("tcp_recv_mutex"), One("tcp_state_mutex"), One("tcp_state_cv"),
                    One("tcp_close_mutex"), One("tcp_close_cv"), One("recv_window_mutex")}
          \/ \E i \in Paths : x \in {<<"tcp_send_mutex", i>>, <<"health_mutex", i>>, <<"health_wakeup", i>>}
<1> DEFINE a == <<One("tcp_recv_mutex"), One("tcp_state_mutex"), One("tcp_state_cv"),
                  One("tcp_close_mutex"), One("tcp_close_cv")>>
           name(k) == <<"tcp_send_mutex", "health_mutex", "health_wakeup">>[((k - 1) % 3) + 1]
           path(k) == ((k - 1) \div 3) + 1
           b == [k \in 1 .. 3 * MaxPath |-> <<name(k), path(k)>>]
           d == <<One("recv_window_mutex")>>
<1>1. MaxPath \in Nat /\ 3 * MaxPath \in Nat
  BY OpeningAssumption
<1>2. /\ a \in Seq(Names) /\ d \in Seq(Names)
      /\ SetOf(a) = {One("tcp_recv_mutex"), One("tcp_state_mutex"), One("tcp_state_cv"),
                     One("tcp_close_mutex"), One("tcp_close_cv")}
      /\ SetOf(d) = {One("recv_window_mutex")}
  BY DEF Names, Labels, One, SetOf
<1>3. ASSUME NEW k \in 1 .. 3 * MaxPath
      PROVE  path(k) \in Paths /\ name(k) \in {"tcp_send_mutex", "health_mutex", "health_wakeup"}
  <2>1. k \in Nat /\ k >= 1 /\ k <= 3 * MaxPath
    BY <1>1
  <2>2. path(k) \in Paths
    BY <1>1, <2>1 DEF Paths
  <2>3. (k - 1) % 3 \in 0 .. 2
    BY <2>1
  <2> QED BY <2>2, <2>3
<1>4. ASSUME NEW i \in Paths
      PROVE  \E j, k, l \in 1 .. 3 * MaxPath :
                /\ name(j) = "tcp_send_mutex" /\ path(j) = i
                /\ name(k) = "health_mutex" /\ path(k) = i
                /\ name(l) = "health_wakeup" /\ path(l) = i
  <2>1. i \in Nat /\ i >= 1 /\ i <= MaxPath
    BY <1>1 DEF Paths
  <2> DEFINE p == 3 * i - 2
             q == 3 * i - 1
             r == 3 * i
  <2>2. p \in 1 .. 3 * MaxPath /\ q \in 1 .. 3 * MaxPath /\ r \in 1 .. 3 * MaxPath
    BY <1>1, <2>1
  <2>3. /\ (p - 1) % 3 = 0 /\ (q - 1) % 3 = 1 /\ (r - 1) % 3 = 2
        /\ (p - 1) \div 3 = i - 1 /\ (q - 1) \div 3 = i - 1 /\ (r - 1) \div 3 = i - 1
    BY <2>1
  <2>4. path(p) = i /\ path(q) = i /\ path(r) = i
    BY <2>1, <2>3
  <2>5. name(p) = "tcp_send_mutex" /\ name(q) = "health_mutex" /\ name(r) = "health_wakeup"
    BY <2>3
  <2> HIDE DEF p, q, r
  <2> QED BY <2>2, <2>4, <2>5, Zenon
<1> HIDE DEF name, path
<1>5. \A k \in 1 .. 3 * MaxPath : b[k] = <<name(k), path(k)>>
  BY Zenon
<1>6. \A k \in 1 .. 3 * MaxPath : <<name(k), path(k)>> \in Names
  BY <1>1, <1>3 DEF Names, Labels, Paths
<1>7. b \in Seq(Names) /\ DOMAIN b = 1 .. 3 * MaxPath
  BY <1>1, <1>6
<1> HIDE DEF a, b, d
<1> DEFINE e == a \o b
<1>8. TcpSync = e \o d
  BY Zenon DEF TcpSync, a, b, d, name, path
<1>9. e \in Seq(Names) /\ SetOf(e) = SetOf(a) \cup SetOf(b)
  BY <1>2, <1>7, Concatenated
<1> HIDE DEF e
<1>10. TcpSync \in Seq(Names) /\ SetOf(TcpSync) = (SetOf(a) \cup SetOf(b)) \cup SetOf(d)
  BY <1>2, <1>8, <1>9, Concatenated
<1>11. \A x : x \in SetOf(b) <=>
          \E i \in Paths : x \in {<<"tcp_send_mutex", i>>, <<"health_mutex", i>>, <<"health_wakeup", i>>}
  <2>1. \A x : x \in SetOf(b) <=> \E k \in 1 .. 3 * MaxPath : x = <<name(k), path(k)>>
    BY <1>5, <1>7, Zenon DEF SetOf
  <2>2. ASSUME NEW k \in 1 .. 3 * MaxPath
        PROVE  \E i \in Paths : <<name(k), path(k)>> \in
                  {<<"tcp_send_mutex", i>>, <<"health_mutex", i>>, <<"health_wakeup", i>>}
    BY <1>3, Zenon
  <2>3. ASSUME NEW i \in Paths,
               NEW x \in {<<"tcp_send_mutex", i>>, <<"health_mutex", i>>, <<"health_wakeup", i>>}
        PROVE  \E k \in 1 .. 3 * MaxPath : x = <<name(k), path(k)>>
    BY <1>4
  <2> QED BY <2>1, <2>2, <2>3
<1> QED BY <1>2, <1>10, <1>11, Zenon

LEMMA BufferNames ==
    ASSUME NEW c \in Confs
    PROVE  /\ Buffers(c) \in Seq(Names)
           /\ \A x : x \in SetOf(Buffers(c)) <=>
                 \/ x \in {One("send_window"), One("recv_window"), One("frag_buf"), One("compress_buf"),
                           One("recv_buf"), One("send_wire_buf"), One("crypto_buf"),
                           One("recv_compress_buf"), One("recv_crypto_buf")}
                 \/ Tcp(c) /\ \E i \in 1 .. NPath(c) : x = <<"tcp_recv_buf", i>>
<1> DEFINE a == <<One("send_window"), One("recv_window"), One("frag_buf"), One("compress_buf"),
                  One("recv_buf"), One("send_wire_buf"), One("crypto_buf"),
                  One("recv_compress_buf"), One("recv_crypto_buf")>>
           b == IF Tcp(c) THEN Each("tcp_recv_buf", NPath(c)) ELSE << >>
<1>1. /\ a \in Seq(Names)
      /\ SetOf(a) = {One("send_window"), One("recv_window"), One("frag_buf"), One("compress_buf"),
                     One("recv_buf"), One("send_wire_buf"), One("crypto_buf"),
                     One("recv_compress_buf"), One("recv_crypto_buf")}
  BY DEF Names, Labels, One, SetOf
<1>2. "tcp_recv_buf" \in Labels /\ NPath(c) \in Nat
  BY PathCount, Zenon DEF Labels
<1>3. /\ b \in Seq(Names)
      /\ \A x : x \in SetOf(b) <=> Tcp(c) /\ \E i \in 1 .. NPath(c) : x = <<"tcp_recv_buf", i>>
  <2>1. CASE Tcp(c)
    <3>1. b = Each("tcp_recv_buf", NPath(c))
      BY <2>1, Zenon
    <3>2. /\ Each("tcp_recv_buf", NPath(c)) \in Seq(Names)
          /\ \A x : x \in SetOf(Each("tcp_recv_buf", NPath(c))) <=>
                    \E i \in 1 .. NPath(c) : x = <<"tcp_recv_buf", i>>
      BY <1>2, EachNames, Zenon
    <3> HIDE DEF b
    <3> QED BY <2>1, <3>1, <3>2, Zenon
  <2>2. CASE ~Tcp(c)
    <3>1. b = << >> /\ SetOf(<< >>) = {}
      BY <2>2 DEF SetOf
    <3> QED BY <2>2, <3>1
  <2> QED BY <2>1, <2>2, Zenon
<1> HIDE DEF a, b
<1>4. Buffers(c) = a \o b
  BY Zenon DEF Buffers, a, b
<1>5. Buffers(c) \in Seq(Names) /\ SetOf(Buffers(c)) = SetOf(a) \cup SetOf(b)
  BY <1>1, <1>3, <1>4, Concatenated
<1> QED BY <1>1, <1>3, <1>5, Zenon

LEMMA ConnectNames ==
    ASSUME NEW c \in Confs
    PROVE  /\ ConnectResources(c) \in Seq(Names)
           /\ \A x : x \in SetOf(ConnectResources(c)) <=>
                 /\ c.role = "receiver"
                 /\ x = One("session_establish_mutex") \/ \E i \in 1 .. NPath(c) : x = <<"tcp_first_pkt_buf", i>>
<1> DEFINE a == <<One("session_establish_mutex")>>
           b == Each("tcp_first_pkt_buf", NPath(c))
<1>1. a \in Seq(Names) /\ SetOf(a) = {One("session_establish_mutex")}
  BY DEF Names, Labels, One, SetOf
<1>2. "tcp_first_pkt_buf" \in Labels /\ NPath(c) \in Nat
  BY PathCount, Zenon DEF Labels
<1>3. /\ b \in Seq(Names)
      /\ \A x : x \in SetOf(b) <=> \E i \in 1 .. NPath(c) : x = <<"tcp_first_pkt_buf", i>>
  BY <1>2, EachNames, Zenon
<1> HIDE DEF a, b
<1>4. CASE c.role = "receiver"
  <2>1. ConnectResources(c) = a \o b
    BY <1>4, Zenon DEF ConnectResources, a, b
  <2>2. a \o b \in Seq(Names) /\ SetOf(a \o b) = SetOf(a) \cup SetOf(b)
    BY <1>1, <1>3, Concatenated
  <2> QED BY <1>1, <1>3, <1>4, <2>1, <2>2, Zenon
<1>5. CASE c.role # "receiver"
  <2>1. ConnectResources(c) = << >> /\ SetOf(<< >>) = {}
    BY <1>5 DEF ConnectResources, SetOf
  <2> QED BY <1>5, <2>1
<1> QED BY <1>4, <1>5, Zenon

LEMMA SocketNames ==
    ASSUME NEW c \in Confs
    PROVE  /\ Each("sock", NPath(c)) \in Seq(Names) /\ Each("tcp_listen_sock", NPath(c)) \in Seq(Names)
           /\ \A x : x \in SetOf(Each("sock", NPath(c))) <=> \E i \in 1 .. NPath(c) : x = <<"sock", i>>
           /\ \A x : x \in SetOf(Each("tcp_listen_sock", NPath(c))) <=>
                 \E i \in 1 .. NPath(c) : x = <<"tcp_listen_sock", i>>
<1>1. "sock" \in Labels /\ "tcp_listen_sock" \in Labels /\ NPath(c) \in Nat
  BY PathCount, Zenon DEF Labels
<1> QED BY <1>1, EachNames, Zenon

LEMMA HealthLockNames ==
    /\ HealthLocks \in Seq(Names)
    /\ SetOf(HealthLocks) = {<<"health_mutex", 1>>, <<"health_wakeup", 1>>}
    /\ HealthLocks[1] = <<"health_mutex", 1>> /\ HealthLocks[2] = <<"health_wakeup", 1>>
BY DEF HealthLocks, SetOf, Names, Labels

\* What an open service has acquired before it starts its threads.
Base(c) ==
    {One("ctx"), One("callback_mutex")} \cup SetOf(Buffers(c))
    \cup (IF Tcp(c) THEN {} ELSE SetOf(Each("sock", NPath(c))))
    \cup (IF c.type = "n1" THEN {One("peers")} ELSE {})

LEMMA UdpNeeds ==
    ASSUME NEW c \in Confs, ~Tcp(c)
    PROVE  /\ Needs(c, SendThread) \subseteq Base(c) \cup {SendQueue, SendLock}
           /\ Needs(c, HealthThread) \subseteq Base(c) \cup SetOf(HealthLocks) \cup {SendLock}
           /\ Needs(c, RecvThread) \subseteq Base(c) \cup (IF Sends(c) THEN {SendLock} ELSE {})
           /\ Base(c) \cap ({SendQueue, SendLock} \cup SetOf(HealthLocks)) = {}
           /\ Base(c) \cap ({"tcp_listen_sock"} \X Paths) = {}
<1> DEFINE B == Base(c)
<1>1. \A x : x \in B <=>
         \/ x \in {One("ctx"), One("callback_mutex")}
         \/ x \in {One("send_window"), One("recv_window"), One("frag_buf"), One("compress_buf"),
                   One("recv_buf"), One("send_wire_buf"), One("crypto_buf"),
                   One("recv_compress_buf"), One("recv_crypto_buf")}
         \/ \E i \in 1 .. NPath(c) : x = <<"sock", i>>
         \/ c.type = "n1" /\ x = One("peers")
  BY BufferNames, SocketNames DEF Base
<1>2. /\ Requires(c, SendThread) \subseteq B \cup {SendQueue, SendLock}
      /\ Needs(c, SendThread) = Requires(c, SendThread)
  BY <1>1 DEF Requires, Needs, SendThread, Base
<1>3. /\ Requires(c, HealthThread) \subseteq B \cup SetOf(HealthLocks) \cup {SendLock}
      /\ Needs(c, HealthThread) = Requires(c, HealthThread)
  BY <1>1, HealthLockNames, Zenon DEF Requires, Needs, SendThread, HealthThread, Base
<1>4. /\ Requires(c, RecvThread) \subseteq B \cup (IF Sends(c) THEN {SendLock} ELSE {})
      /\ Needs(c, RecvThread) = Requires(c, RecvThread)
  BY <1>1 DEF Requires, Needs, SendThread, RecvThread, Base
<1> HIDE DEF B
<1>5. \A x \in {SendQueue, SendLock} \cup SetOf(HealthLocks) \cup ({"tcp_listen_sock"} \X Paths) : x \notin B
  BY <1>1, HealthLockNames DEF SendQueue, SendLock, One
<1> QED BY <1>2, <1>3, <1>4, <1>5, Zenon DEF B

LEMMA TcpNeeds ==
    ASSUME NEW c \in Confs, Tcp(c), NEW t \in ThreadsOf(c)
    PROVE  /\ Needs(c, t) \cap ({"tcp_listen_sock"} \X Paths) = {}
           /\ t # SendThread => SendLock \notin Needs(c, t)
           /\ t[1] = "connect" =>
                 Needs(c, t) \subseteq Base(c) \cup SetOf(TcpSync) \cup SetOf(ConnectResources(c))
                                       \cup (IF Sends(c) THEN {SendQueue} ELSE {})
<1> DEFINE B == Base(c)
           S == SetOf(TcpSync)
           R == SetOf(ConnectResources(c))
           Q == IF Sends(c) THEN {SendQueue} ELSE {}
           All == B \cup S \cup R \cup Q
<1>1. \A x : x \in B <=>
         \/ x \in {One("ctx"), One("callback_mutex")}
         \/ x \in {One("send_window"), One("recv_window"), One("frag_buf"), One("compress_buf"),
                   One("recv_buf"), One("send_wire_buf"), One("crypto_buf"),
                   One("recv_compress_buf"), One("recv_crypto_buf")}
         \/ \E i \in 1 .. NPath(c) : x = <<"tcp_recv_buf", i>>
         \/ c.type = "n1" /\ x = One("peers")
  BY BufferNames, Zenon DEF Base
<1>2. 1 .. NPath(c) \subseteq Paths /\ c.type # "n1"
  BY PathCount, Zenon DEF Tcp
<1>3. \A x : x \in S <=>
          \/ x \in {One("tcp_recv_mutex"), One("tcp_state_mutex"), One("tcp_state_cv"),
                    One("tcp_close_mutex"), One("tcp_close_cv"), One("recv_window_mutex")}
          \/ \E i \in Paths : x \in {<<"tcp_send_mutex", i>>, <<"health_mutex", i>>, <<"health_wakeup", i>>}
  BY SyncNames, Zenon
<1>4. \A x : x \in R <=>
          /\ c.role = "receiver"
          /\ x = One("session_establish_mutex") \/ \E i \in 1 .. NPath(c) : x = <<"tcp_first_pkt_buf", i>>
  BY ConnectNames, Zenon
<1> HIDE DEF B, S, R
<1>5. Requires(c, SendThread) \subseteq B \cup S \cup {SendQueue, SendLock}
  BY <1>1, <1>2, <1>3, Zenon DEF Requires, SendThread, S
<1>6. \A i \in 1 .. NPath(c) : Requires(c, <<"recv", i>>) \subseteq B \cup S
  BY <1>1, <1>2, <1>3 DEF Requires, SendThread, S
<1>7. \A i \in 1 .. NPath(c) : Requires(c, <<"health", i>>) \subseteq B \cup S
  BY <1>1, <1>2, <1>3 DEF Requires, SendThread, S
<1>8. \A i \in 1 .. NPath(c) : Requires(c, <<"connect", i>>) \subseteq All
  BY <1>1, <1>2, <1>3, Zenon DEF Requires, SendThread, S, R
<1>9. \A x \in {"tcp_listen_sock"} \X Paths : x \notin All /\ x # SendQueue /\ x # SendLock
  BY <1>1, <1>3, <1>4 DEF One, SendQueue, SendLock
<1>10. SendLock \notin All
  BY <1>1, <1>3, <1>4 DEF One, SendQueue, SendLock
<1>11. CASE t = SendThread
  <2>1. Needs(c, t) = Requires(c, SendThread) /\ t[1] # "connect"
    BY <1>11, Zenon DEF Needs, SendThread
  <2> QED BY <1>5, <1>9, <1>11, <2>1, Zenon
<1>12. CASE t \in {"recv", "health"} \X (1 .. NPath(c))
  <2>1. PICK i \in 1 .. NPath(c) : t = <<"recv", i>> \/ t = <<"health", i>>
    BY <1>12
  <2>2. Needs(c, t) = Requires(c, t) /\ t[1] # "connect"
    BY <2>1 DEF Needs
  <2>3. Needs(c, t) \subseteq B \cup S
    BY <1>6, <1>7, <2>1, <2>2, Zenon
  <2> QED BY <1>9, <1>10, <2>2, <2>3, Zenon
<1>13. CASE t \in {"connect"} \X (1 .. NPath(c))
  <2>1. PICK i \in 1 .. NPath(c) : t = <<"connect", i>>
    BY <1>13
  <2>2. Needs(c, t) = Requires(c, <<"connect", i>>) \cup
                      (Requires(c, <<"recv", i>>) \cup Requires(c, <<"health", i>>)
                       \cup (IF Sends(c) THEN Requires(c, SendThread) \ {SendLock} ELSE {}))
    BY <2>1, Zenon DEF Needs
  <2>3. Needs(c, t) \subseteq All
    BY <1>5, <1>6, <1>7, <1>8, <2>2, Zenon
  <2> QED BY <1>9, <1>10, <2>3, Zenon DEF B, S, R
<1>14. t = SendThread \/ t \in {"recv", "health"} \X (1 .. NPath(c)) \/ t \in {"connect"} \X (1 .. NPath(c))
  BY Zenon DEF ThreadsOf
<1> QED BY <1>11, <1>12, <1>13, <1>14, Zenon

-----------------------------------------------------------------------------
\* The steps of an opening

\* The steps s of an opening that are left when R is held: a thread is started
\* when all it needs is there, and what was acquired for a thread is either
\* given back by the roll-back of the next step or goes with the thread.
OpenStep(c, s, R, j) ==
    /\ s[j].do \in {"get", "check", "refuse", "run"}
    /\ s[j].do = "get" =>
          \/ s[j].what \in Owned(c)
          \/ ~Tcp(c) /\ j + 1 \in DOMAIN s /\ s[j].what \in OwnLocks(s[j + 1])
    /\ ~Tcp(c) =>
          \A r \in OwnLocks(s[j]) :
             \/ s[j].do = "run" /\ r \in LocksOf(c, s[j].what)
             \/ j + 1 \in DOMAIN s /\ r \in OwnLocks(s[j + 1])
    /\ s[j].do = "run" =>
          /\ s[j].what \in ThreadsOf(c)
          /\ \A r \in Needs(c, s[j].what) : r \in R \/ \E k \in 1 .. j - 1 : s[k] = Get(r)
          /\ Tcp(c) => s[j].what[1] = "connect"
                       /\ \A k \in DOMAIN s : k > j => s[k].do = "run"
          /\ ~Tcp(c) => /\ s[j].what = RecvThread => j = Len(s)
                        /\ \A k \in DOMAIN s :
                             k > j => OwnLocks(s[k]) \cap Needs(c, s[j].what) = {}

OpenPlan(c, s, R) == \A j \in DOMAIN s : OpenStep(c, s, R, j)

\* A step that starts no thread and needs no roll-back of its own.
Quiet(c, x) ==
    /\ x.do \in {"get", "check", "refuse"}
    /\ x.do = "get" => x.what \in Owned(c)
    /\ ~Tcp(c) => OwnLocks(x) = {}

\* Steps that start no thread may come before a plan that is in order, and
\* may acquire what it needs.
LEMMA Prepended ==
    ASSUME NEW c, NEW F \in Seq(Steps), NEW T \in Seq(Steps), NEW G, NEW R,
           \A x \in SetOf(F) : Quiet(c, x),
           OpenPlan(c, T, G),
           \A r \in G : r \in R \/ Get(r) \in SetOf(F)
    PROVE  OpenPlan(c, F \o T, R)
<1> DEFINE s == F \o T
           n == Len(F)
<1>1. /\ s \in Seq(Steps) /\ Len(s) = n + Len(T) /\ n \in Nat /\ Len(T) \in Nat
      /\ DOMAIN s = 1 .. n + Len(T)
      /\ \A i \in 1 .. n : s[i] = F[i]
      /\ \A i \in 1 .. Len(T) : s[n + i] = T[i]
      /\ \A k \in 1 .. n + Len(T) : k \in 1 .. n \/ \E i \in 1 .. Len(T) : k = n + i
  BY Concatenated
<1>2. DOMAIN F = 1 .. n /\ DOMAIN T = 1 .. Len(T)
  BY <1>1
<1> HIDE DEF s, n
<1>3. ASSUME NEW j \in 1 .. n PROVE OpenStep(c, s, R, j)
  <2>1. s[j] = F[j] /\ F[j] \in SetOf(F)
    BY <1>1, <1>2, Zenon DEF SetOf
  <2>2. Quiet(c, s[j])
    BY <2>1, Zenon
  <2> QED BY <2>2, Zenon DEF Quiet, OpenStep
<1>4. ASSUME NEW j \in 1 .. Len(T) PROVE OpenStep(c, s, R, n + j)
  <2>1. OpenStep(c, T, G, j)
    BY <1>2, Zenon DEF OpenPlan
  <2>2. s[n + j] = T[j] /\ j \in DOMAIN T
    BY <1>1, <1>2, Zenon
  <2>3. j + 1 \in DOMAIN T => (n + j) + 1 \in DOMAIN s /\ s[(n + j) + 1] = T[j + 1]
    <3> SUFFICES ASSUME j + 1 \in 1 .. Len(T)
                 PROVE  (n + j) + 1 \in DOMAIN s /\ s[(n + j) + 1] = T[j + 1]
      BY <1>2, Zenon
    <3>1. n \in Nat /\ j \in Nat /\ Len(T) \in Nat /\ j + 1 <= Len(T)
      BY <1>1
    <3>2. n + (j + 1) = (n + j) + 1 /\ n + (j + 1) \in 1 .. n + Len(T)
      BY <3>1
    <3> QED BY <1>1, <3>2
  <2>4. ASSUME NEW r \in G
        PROVE  r \in R \/ \E k \in 1 .. (n + j) - 1 : s[k] = Get(r)
    <3>1. CASE Get(r) \in SetOf(F)
      <4>1. PICK k \in 1 .. n : F[k] = Get(r)
        BY <1>2, <3>1, Zenon DEF SetOf
      <4>2. k \in 1 .. (n + j) - 1 /\ s[k] = Get(r)
        BY <1>1, <4>1
      <4> QED BY <4>2, Zenon
    <3> QED BY <3>1, Zenon
  <2>5. ASSUME NEW k \in 1 .. j - 1
        PROVE  n + k \in 1 .. (n + j) - 1 /\ s[n + k] = T[k]
    BY <1>1
  <2>6. ASSUME NEW k \in DOMAIN s, k > n + j
        PROVE  \E i \in DOMAIN T : i > j /\ s[k] = T[i]
    <3>1. k \notin 1 .. n
      BY <1>1, <2>6
    <3>2. PICK i \in 1 .. Len(T) : k = n + i
      BY <1>1, <3>1, Zenon
    <3> QED BY <1>1, <1>2, <2>6, <3>2
  <2>7. j = Len(T) => n + j = Len(s)
    BY <1>1, Zenon
  <2>8. ASSUME T[j].do = "run"
        PROVE  \A r \in Needs(c, T[j].what) : r \in R \/ \E k \in 1 .. (n + j) - 1 : s[k] = Get(r)
    <3> SUFFICES ASSUME NEW r \in Needs(c, T[j].what)
                 PROVE  r \in R \/ \E k \in 1 .. (n + j) - 1 : s[k] = Get(r)
      BY Zenon
    <3>1. r \in G \/ \E k \in 1 .. j - 1 : T[k] = Get(r)
      BY <2>1, <2>8, Zenon DEF OpenStep
    <3> QED BY <2>4, <2>5, <3>1, Zenon
  <2>9. /\ s[n + j].do \in {"get", "check", "refuse", "run"}
        /\ s[n + j].do = "get" =>
              \/ s[n + j].what \in Owned(c)
              \/ ~Tcp(c) /\ (n + j) + 1 \in DOMAIN s /\ s[n + j].what \in OwnLocks(s[(n + j) + 1])
        /\ ~Tcp(c) =>
              \A r \in OwnLocks(s[n + j]) :
                 \/ s[n + j].do = "run" /\ r \in LocksOf(c, s[n + j].what)
                 \/ (n + j) + 1 \in DOMAIN s /\ r \in OwnLocks(s[(n + j) + 1])
    BY <2>1, <2>2, <2>3, Zenon DEF OpenStep
  <2>10. ASSUME s[n + j].do = "run"
         PROVE  /\ s[n + j].what \in ThreadsOf(c)
                /\ Tcp(c) => s[n + j].what[1] = "connect"
                             /\ \A k \in DOMAIN s : k > n + j => s[k].do = "run"
                /\ ~Tcp(c) => /\ s[n + j].what = RecvThread => n + j = Len(s)
                              /\ \A k \in DOMAIN s :
                                   k > n + j => OwnLocks(s[k]) \cap Needs(c, s[n + j].what) = {}
    BY <2>1, <2>2, <2>6, <2>7, <2>10 DEF OpenStep
  <2> QED BY <2>2, <2>8, <2>9, <2>10, Zenon DEF OpenStep
<1>5. \A j \in DOMAIN s : OpenStep(c, s, R, j)
  BY <1>1, <1>3, <1>4
<1> QED BY <1>5, Zenon DEF OpenPlan, s

\* What is left of a plan after its first step.
LEMMA OpenPlanTail ==
    ASSUME NEW c, NEW s \in Seq(Steps), s # << >>, NEW R, NEW P, OpenPlan(c, s, R),
           R \subseteq P, s[1].do = "get" => s[1].what \in P
    PROVE  OpenPlan(c, Tail(s), P)
<1> DEFINE u == Tail(s)
<1>1. /\ u \in Seq(Steps) /\ Len(u) = Len(s) - 1 /\ Len(s) \in Nat /\ Len(s) > 0
      /\ DOMAIN s = 1 .. Len(s) /\ DOMAIN u = 1 .. Len(s) - 1
      /\ \A i \in 1 .. Len(s) - 1 : u[i] = s[i + 1] /\ i + 1 \in DOMAIN s
  BY Tailed, Zenon
<1> HIDE DEF u
<1> SUFFICES ASSUME NEW j \in 1 .. Len(s) - 1 PROVE OpenStep(c, u, P, j)
  BY <1>1, Zenon DEF OpenPlan, u
<1>2. OpenStep(c, s, R, j + 1) /\ u[j] = s[j + 1]
  BY <1>1, Zenon DEF OpenPlan
<1>3. (j + 1) + 1 \in DOMAIN s => j + 1 \in DOMAIN u /\ u[j + 1] = s[(j + 1) + 1]
  BY <1>1
<1>4. ASSUME NEW k \in 1 .. (j + 1) - 1, NEW r, s[k] = Get(r)
      PROVE  r \in P \/ \E i \in 1 .. j - 1 : u[i] = Get(r)
  <2>1. CASE k = 1
    BY <1>4, <2>1 DEF Get
  <2>2. CASE k # 1
    <3>1. k - 1 \in 1 .. j - 1 /\ k - 1 \in 1 .. Len(s) - 1 /\ (k - 1) + 1 = k
      BY <1>1, <2>2
    <3>2. u[k - 1] = Get(r)
      BY <1>1, <1>4, <3>1, Zenon
    <3> QED BY <3>1, <3>2, Zenon
  <2> QED BY <2>1, <2>2, Zenon
<1>5. \A k \in DOMAIN u : k > j => k + 1 \in DOMAIN s /\ k + 1 > j + 1 /\ u[k] = s[k + 1]
  BY <1>1
<1>6. j + 1 = Len(s) => j = Len(u)
  BY <1>1
<1>7. ASSUME s[j + 1].do = "run"
      PROVE  \A r \in Needs(c, s[j + 1].what) : r \in P \/ \E i \in 1 .. j - 1 : u[i] = Get(r)
  <2> SUFFICES ASSUME NEW r \in Needs(c, s[j + 1].what)
               PROVE  r \in P \/ \E i \in 1 .. j - 1 : u[i] = Get(r)
    BY Zenon
  <2>1. r \in R \/ \E k \in 1 .. (j + 1) - 1 : s[k] = Get(r)
    BY <1>2, <1>7, Zenon DEF OpenStep
  <2> QED BY <1>4, <2>1, Zenon
<1>8. /\ u[j].do \in {"get", "check", "refuse", "run"}
      /\ u[j].do = "get" =>
            \/ u[j].what \in Owned(c)
            \/ ~Tcp(c) /\ j + 1 \in DOMAIN u /\ u[j].what \in OwnLocks(u[j + 1])
      /\ ~Tcp(c) =>
            \A r \in OwnLocks(u[j]) :
               \/ u[j].do = "run" /\ r \in LocksOf(c, u[j].what)
               \/ j + 1 \in DOMAIN u /\ r \in OwnLocks(u[j + 1])
  BY <1>2, <1>3, Zenon DEF OpenStep
<1>9. ASSUME u[j].do = "run"
      PROVE  /\ u[j].what \in ThreadsOf(c)
             /\ Tcp(c) => u[j].what[1] = "connect"
                          /\ \A k \in DOMAIN u : k > j => u[k].do = "run"
             /\ ~Tcp(c) => /\ u[j].what = RecvThread => j = Len(u)
                           /\ \A k \in DOMAIN u :
                                k > j => OwnLocks(u[k]) \cap Needs(c, u[j].what) = {}
  BY <1>2, <1>5, <1>6, <1>9, Zenon DEF OpenStep
<1> QED BY <1>2, <1>7, <1>8, <1>9, Zenon DEF OpenStep

\* The connect threads do not need the lock of the send thread.
LEMMA OpenPlanUnlocked ==
    ASSUME NEW c \in Confs, Tcp(c), NEW s, NEW R, NEW P, OpenPlan(c, s, R),
           R \ {SendLock} \subseteq P
    PROVE  OpenPlan(c, s, P)
<1> SUFFICES ASSUME NEW j \in DOMAIN s PROVE OpenStep(c, s, P, j)
  BY Zenon DEF OpenPlan
<1>1. OpenStep(c, s, R, j)
  BY Zenon DEF OpenPlan
<1>2. ASSUME s[j].do = "run" PROVE SendLock \notin Needs(c, s[j].what)
  <2>1. s[j].what \in ThreadsOf(c) /\ s[j].what # SendThread
    BY <1>1, <1>2 DEF OpenStep, SendThread
  <2> QED BY <2>1, TcpNeeds, Zenon
<1>3. ASSUME s[j].do = "run"
      PROVE  \A r \in Needs(c, s[j].what) : r \in P \/ \E k \in 1 .. j - 1 : s[k] = Get(r)
  <2>1. SendLock \notin Needs(c, s[j].what)
    BY <1>2, <1>3, Zenon
  <2>2. \A r \in Needs(c, s[j].what) : r \in R \/ \E k \in 1 .. j - 1 : s[k] = Get(r)
    BY <1>1, <1>3, Zenon DEF OpenStep
  <2> QED BY <2>1, <2>2, Zenon
<1> QED BY <1>1, <1>3, Zenon DEF OpenStep

\* Everything before the threads.
Front(c) ==
    <<Get(One("ctx")), Get(One("callback_mutex"))>> \o Validate
    \o OpenPathsByType(c) \o SetupDestAddr(c) \o GenerateSession \o GetAll(Buffers(c))

LEMMA QuietSteps ==
    ASSUME NEW c \in Confs
    PROVE  /\ Quiet(c, Check) /\ Quiet(c, Refuse) /\ Quiet(c, Get(SendQueue))
           /\ \A r \in ContextOwns(c) : Quiet(c, Get(r))
           /\ Tcp(c) => \A r \in Owned(c) : Quiet(c, Get(r))
           /\ Check \in Steps /\ Refuse \in Steps
<1>1. OwnLocks(Check) = {} /\ OwnLocks(Refuse) = {}
  BY Zenon DEF OwnLocks, Check, Refuse, Run, Get
<1>2. ASSUME NEW r, r # <<"health_wakeup", 1>> PROVE OwnLocks(Get(r)) = {}
  <2>1. Get(r).do = "get" /\ Get(r).what = r
    BY Zenon DEF Get
  <2>2. /\ Run(SendThread).do = "run" /\ Run(HealthThread).do = "run"
        /\ Get(HealthLocks[2]).what = <<"health_wakeup", 1>>
    BY HealthLockNames, Zenon DEF Run, Get
  <2>3. Get(r) # Run(SendThread) /\ Get(r) # Run(HealthThread) /\ Get(r) # Get(HealthLocks[2])
    BY <1>2, <2>1, <2>2, Zenon
  <2> QED BY <2>3, Zenon DEF OwnLocks
<1>3. \A r \in ContextOwns(c) : r # <<"health_wakeup", 1>>
  BY BufferNames, SocketNames DEF ContextOwns, One
<1>4. SendQueue # <<"health_wakeup", 1>>
  BY Zenon DEF SendQueue, One
<1>5. \A r \in Owned(c) : Get(r).do = "get" /\ Get(r).what = r
  BY Zenon DEF Get
<1>6. ContextOwns(c) \subseteq Owned(c) /\ SendQueue \in Owned(c)
  BY Zenon DEF Owned
<1>7. Check.do = "check" /\ Refuse.do = "refuse"
  BY Zenon DEF Check, Refuse
<1>8. Check \in Steps /\ Refuse \in Steps
  BY Zenon DEF Check, Refuse, Steps, Names, Labels
<1> QED BY <1>1, <1>2, <1>3, <1>4, <1>5, <1>6, <1>7, <1>8, Zenon DEF Quiet

\* Before the threads, an opening acquires what the context owns.
LEMMA FrontSteps ==
    ASSUME NEW c \in Confs
    PROVE  /\ Front(c) \in Seq(Steps) /\ Front(c) # << >>
           /\ \A x \in SetOf(Front(c)) : Quiet(c, x)
           /\ \A r \in Base(c) : Get(r) \in SetOf(Front(c))
<1> DEFINE a == <<Get(One("ctx")), Get(One("callback_mutex"))>>
           socks == IF Tcp(c) THEN OpenTcpSockets(c) ELSE OpenUdpSockets(c)
           none == IF NPath(c) = 0 THEN <<Refuse>> ELSE << >>
           peers == IF c.type = "n1" THEN <<Get(One("peers"))>> ELSE << >>
           group == SetupDestAddr(c)
           bufs == GetAll(Buffers(c))
           ok == <<Check>>
           Fine(s) == s \in Seq(Steps) /\ \A x \in SetOf(s) : Quiet(c, x)
<1>1. Check \in Steps /\ Refuse \in Steps /\ Get(One("ctx")) \in Steps /\ Get(One("callback_mutex")) \in Steps
      /\ Get(One("peers")) \in Steps
  BY DEF Check, Refuse, Get, Steps, Names, Labels, One
<1>2. /\ Quiet(c, Check) /\ Quiet(c, Refuse)
      /\ Quiet(c, Get(One("ctx"))) /\ Quiet(c, Get(One("callback_mutex"))) /\ Quiet(c, Get(One("peers")))
  BY QuietSteps, Zenon DEF ContextOwns
<1>3. /\ a \in Seq(Steps) /\ SetOf(a) = {Get(One("ctx")), Get(One("callback_mutex"))}
      /\ Len(a) = 2
  BY <1>1 DEF SetOf
<1>4. ok \in Seq(Steps) /\ SetOf(ok) = {Check}
  BY <1>1 DEF SetOf
<1>5. Fine(a) /\ Fine(ok)
  BY <1>2, <1>3, <1>4, Zenon
<1>6. Fine(none)
  <2>1. <<Refuse>> \in Seq(Steps) /\ SetOf(<<Refuse>>) = {Refuse} /\ << >> \in Seq(Steps) /\ SetOf(<< >>) = {}
    BY <1>1 DEF SetOf
  <2>2. none = <<Refuse>> \/ none = << >>
    BY Zenon
  <2> HIDE DEF none
  <2> QED BY <1>2, <2>1, <2>2, Zenon
<1>7. Fine(group)
  <2>1. <<Check>> \in Seq(Steps) /\ SetOf(<<Check>>) = {Check} /\ << >> \in Seq(Steps) /\ SetOf(<< >>) = {}
    BY <1>1 DEF SetOf
  <2>2. group = <<Check>> \/ group = << >>
    BY Zenon DEF SetupDestAddr
  <2> HIDE DEF group
  <2> QED BY <1>2, <2>1, <2>2, Zenon
<1>8. Fine(peers) /\ (c.type = "n1" => Get(One("peers")) \in SetOf(peers))
  <2>1. /\ <<Get(One("peers"))>> \in Seq(Steps) /\ SetOf(<<Get(One("peers"))>>) = {Get(One("peers"))}
        /\ << >> \in Seq(Steps) /\ SetOf(<< >>) = {}
    BY <1>1 DEF SetOf
  <2>2. (peers = <<Get(One("peers"))>> /\ c.type = "n1") \/ (peers = << >> /\ c.type # "n1")
    BY Zenon
  <2> HIDE DEF peers
  <2>3. CASE peers = <<Get(One("peers"))>> /\ c.type = "n1"
    BY <1>2, <2>1, <2>3, Zenon
  <2>4. CASE peers = << >> /\ c.type # "n1"
    BY <2>1, <2>4, Zenon
  <2> QED BY <2>2, <2>3, <2>4, Zenon
<1>9. Fine(bufs) /\ \A r \in SetOf(Buffers(c)) : Get(r) \in SetOf(bufs)
  <2>1. bufs \in Seq(Steps) /\ \A x : x \in SetOf(bufs) <=> \E r \in SetOf(Buffers(c)) : x = Get(r)
    BY BufferNames, GetAllSteps, Zenon
  <2>2. \A r \in SetOf(Buffers(c)) : Quiet(c, Get(r))
    BY QuietSteps, Zenon DEF ContextOwns
  <2> HIDE DEF bufs
  <2> QED BY <2>1, <2>2, Zenon
<1>10. Fine(socks) /\ (~Tcp(c) => \A r \in SetOf(Each("sock", NPath(c))) : Get(r) \in SetOf(socks))
  <2> DEFINE e == Each("sock", NPath(c))
             l == Each("tcp_listen_sock", NPath(c))
  <2>1. e \in Seq(Names) /\ l \in Seq(Names)
    BY SocketNames, Zenon
  <2>2. \A r \in SetOf(e) \cup SetOf(l) : Quiet(c, Get(r))
    BY QuietSteps, Zenon DEF ContextOwns
  <2>3. NPath(c) \in Nat
    BY PathCount, Zenon
  <2>4. CASE ~Tcp(c)
    <3>1. socks = GetAll(e)
      BY <2>4, Zenon DEF OpenUdpSockets
    <3> HIDE DEF e, socks
    <3>2. socks \in Seq(Steps) /\ \A x : x \in SetOf(socks) <=> \E r \in SetOf(e) : x = Get(r)
      BY <2>1, <3>1, GetAllSteps, Zenon
    <3> QED BY <2>2, <3>2, Zenon DEF e
  <2>5. CASE Tcp(c) /\ c.role = "receiver"
    <3>1. socks = GetAll(l)
      BY <2>5, Zenon DEF OpenTcpSockets
    <3> HIDE DEF l, socks
    <3>2. socks \in Seq(Steps) /\ \A x : x \in SetOf(socks) <=> \E r \in SetOf(l) : x = Get(r)
      BY <2>1, <3>1, GetAllSteps, Zenon
    <3> QED BY <2>2, <2>5, <3>2, Zenon
  <2>6. CASE Tcp(c) /\ c.role # "receiver"
    <3>1. socks = [i \in 1 .. NPath(c) |-> Check]
      BY <2>6, Zenon DEF OpenTcpSockets
    <3> HIDE DEF socks
    <3>2. socks \in Seq(Steps) /\ DOMAIN socks = 1 .. NPath(c) /\ \A i \in 1 .. NPath(c) : socks[i] = Check
      BY <1>1, <2>3, <3>1
    <3>3. \A x \in SetOf(socks) : x = Check
      BY <3>2, Zenon DEF SetOf
    <3> QED BY <1>2, <2>6, <3>2, <3>3, Zenon
  <2> QED BY <2>4, <2>5, <2>6, Zenon
<1>11. ASSUME NEW s, NEW t, Fine(s), Fine(t)
       PROVE  Fine(s \o t) /\ SetOf(s \o t) = SetOf(s) \cup SetOf(t)
  <2>1. s \o t \in Seq(Steps) /\ SetOf(s \o t) = SetOf(s) \cup SetOf(t)
    BY <1>11, Concatenated
  <2> DEFINE u == s \o t
  <2> HIDE DEF u
  <2>2. u \in Seq(Steps) /\ SetOf(u) = SetOf(s) \cup SetOf(t)
    BY <2>1, Zenon DEF u
  <2>3. Fine(u)
    BY <1>11, <2>2, Zenon
  <2> QED BY <2>2, <2>3, Zenon DEF u
<1>12. Front(c) = ((((a \o ok) \o (((ok \o socks) \o none) \o peers)) \o group) \o ok) \o bufs
  BY Zenon DEF Front, Validate, OpenPathsByType, GenerateSession
<1> HIDE DEF a, socks, none, peers, group, bufs, ok, Fine
<1> DEFINE p1 == ok \o socks
           p2 == p1 \o none
           p3 == p2 \o peers
           f1 == a \o ok
           f2 == f1 \o p3
           f3 == f2 \o group
           f4 == f3 \o ok
           f5 == f4 \o bufs
<1>13. Fine(p1) /\ SetOf(p1) = SetOf(ok) \cup SetOf(socks)
  BY <1>5, <1>10, <1>11, Zenon
<1> HIDE DEF p1
<1>14. Fine(p2) /\ SetOf(p2) = SetOf(p1) \cup SetOf(none)
  BY <1>6, <1>13, <1>11, Zenon
<1> HIDE DEF p2
<1>15. Fine(p3) /\ SetOf(p3) = SetOf(p2) \cup SetOf(peers)
  BY <1>8, <1>14, <1>11, Zenon
<1> HIDE DEF p3
<1>16. Fine(f1) /\ SetOf(f1) = SetOf(a) \cup SetOf(ok)
  BY <1>5, <1>11, Zenon
<1> HIDE DEF f1
<1>17. Fine(f2) /\ SetOf(f2) = SetOf(f1) \cup SetOf(p3)
  BY <1>15, <1>16, <1>11, Zenon
<1> HIDE DEF f2
<1>18. Fine(f3) /\ SetOf(f3) = SetOf(f2) \cup SetOf(group)
  BY <1>7, <1>17, <1>11, Zenon
<1> HIDE DEF f3
<1>19. Fine(f4) /\ SetOf(f4) = SetOf(f3) \cup SetOf(ok)
  BY <1>5, <1>18, <1>11, Zenon
<1> HIDE DEF f4
<1>20. Fine(f5) /\ SetOf(f5) = SetOf(f4) \cup SetOf(bufs)
  BY <1>9, <1>19, <1>11, Zenon
<1> HIDE DEF f5
<1>21. Front(c) = f5
  BY <1>12, Zenon DEF p1, p2, p3, f1, f2, f3, f4, f5
<1>22. SetOf(a) \cup SetOf(socks) \cup SetOf(peers) \cup SetOf(bufs) \subseteq SetOf(f5)
  BY <1>13, <1>14, <1>15, <1>16, <1>17, <1>18, <1>19, <1>20, Zenon
<1>23. \A r \in Base(c) : Get(r) \in SetOf(f5)
  BY <1>3, <1>8, <1>9, <1>10, <1>22, Zenon DEF Base
<1>24. f5 # << >>
  <2>1. Get(One("ctx")) \in SetOf(f5)
    BY <1>3, <1>22, Zenon
  <2>2. SetOf(<< >>) = {}
    BY DEF SetOf
  <2> QED BY <2>1, <2>2, Zenon
<1> QED BY <1>20, <1>21, <1>23, <1>24, Zenon DEF Fine

LEMMA UdpLocks ==
    ASSUME NEW c, ~Tcp(c)
    PROVE  /\ OwnLocks(Get(SendQueue)) = {} /\ OwnLocks(Get(SendLock)) = {}
           /\ OwnLocks(Run(SendThread)) = {SendLock}
           /\ OwnLocks(Get(HealthLocks[1])) = {} /\ OwnLocks(Get(HealthLocks[2])) = {HealthLocks[1]}
           /\ OwnLocks(Run(HealthThread)) = SetOf(HealthLocks)
           /\ OwnLocks(Run(RecvThread)) = {}
           /\ LocksOf(c, SendThread) = {SendLock} /\ LocksOf(c, HealthThread) = SetOf(HealthLocks)
           /\ LocksOf(c, RecvThread) = {}
<1>1. HealthLocks[1] = <<"health_mutex", 1>> /\ HealthLocks[2] = <<"health_wakeup", 1>>
  BY HealthLockNames, Zenon
<1>2. ASSUME NEW r, r # HealthLocks[2] PROVE OwnLocks(Get(r)) = {}
  <2>1. /\ Get(r).do = "get" /\ Get(r).what = r /\ Get(HealthLocks[2]).what = HealthLocks[2]
        /\ Run(SendThread).do = "run" /\ Run(HealthThread).do = "run"
    BY Zenon DEF Get, Run
  <2>2. Get(r) # Run(SendThread) /\ Get(r) # Run(HealthThread) /\ Get(r) # Get(HealthLocks[2])
    BY <1>2, <2>1, Zenon
  <2> QED BY <2>2, Zenon DEF OwnLocks
<1>3. SendQueue # HealthLocks[2] /\ SendLock # HealthLocks[2] /\ HealthLocks[1] # HealthLocks[2]
  BY <1>1 DEF SendQueue, SendLock, One
<1>4. /\ Run(SendThread).do = "run" /\ Run(HealthThread).do = "run" /\ Run(RecvThread).do = "run"
      /\ Run(SendThread).what = SendThread /\ Run(HealthThread).what = HealthThread
      /\ Run(RecvThread).what = RecvThread /\ Get(HealthLocks[2]).do = "get"
  BY Zenon DEF Run, Get
<1>5. SendThread # HealthThread /\ SendThread # RecvThread /\ HealthThread # RecvThread
  BY Zenon DEF SendThread, HealthThread, RecvThread
<1>6. /\ Run(SendThread) # Run(HealthThread) /\ Run(SendThread) # Get(HealthLocks[2])
      /\ Run(HealthThread) # Get(HealthLocks[2]) /\ Run(RecvThread) # Run(HealthThread)
      /\ Run(RecvThread) # Run(SendThread) /\ Run(RecvThread) # Get(HealthLocks[2])
      /\ Get(HealthLocks[2]) # Run(SendThread)
  BY <1>4, <1>5, Zenon
<1>7. OwnLocks(Run(SendThread)) = {SendLock}
  BY <1>6, Zenon DEF OwnLocks
<1>8. OwnLocks(Get(HealthLocks[2])) = {HealthLocks[1]}
  BY <1>6, Zenon DEF OwnLocks
<1>9. OwnLocks(Run(HealthThread)) = SetOf(HealthLocks)
  BY <1>6, Zenon DEF OwnLocks
<1>10. OwnLocks(Run(RecvThread)) = {}
  BY <1>6, Zenon DEF OwnLocks
<1>11. /\ LocksOf(c, SendThread) = {SendLock} /\ LocksOf(c, HealthThread) = SetOf(HealthLocks)
       /\ LocksOf(c, RecvThread) = {}
  BY <1>5, Zenon DEF LocksOf
<1> QED BY <1>2, <1>3, <1>7, <1>8, <1>9, <1>10, <1>11, Zenon

\* A resource a service owns, or the first of two locks, is taken.
LEMMA GetStep ==
    ASSUME NEW c, NEW s, NEW R, NEW j, s[j].do = "get", OwnLocks(s[j]) = {},
           \/ s[j].what \in Owned(c)
           \/ ~Tcp(c) /\ j + 1 \in DOMAIN s /\ s[j].what \in OwnLocks(s[j + 1])
    PROVE  OpenStep(c, s, R, j)
<1>1. s[j].do \in {"get", "check", "refuse", "run"} /\ s[j].do # "run"
  BY Zenon
<1> QED BY <1>1, Zenon DEF OpenStep

\* The threads of a UDP service are started in order.
LEMMA UdpStarts ==
    ASSUME NEW c \in Confs, ~Tcp(c)
    PROVE  StartThreadsUdp(c) \in Seq(Steps) /\ OpenPlan(c, StartThreadsUdp(c), Base(c))
<1> DEFINE T == StartThreadsUdp(c)
           Q == Get(SendQueue)
           L == Get(SendLock)
           S == Run(SendThread)
           H1 == Get(HealthLocks[1])
           H2 == Get(HealthLocks[2])
           H == Run(HealthThread)
           R == Run(RecvThread)
           a == <<Q>>
           b == StartSend
           d == StartHealth(c)
           r == <<R>>
           ab == a \o b
           abd == ab \o d
<1>1. /\ Q \in Steps /\ L \in Steps /\ S \in Steps /\ H1 \in Steps /\ H2 \in Steps
      /\ H \in Steps /\ R \in Steps
  BY HealthLockNames
     DEF Get, Run, Steps, Names, Labels, SendQueue, SendLock, One, SendThread, HealthThread, RecvThread
<1>2. /\ Q.do = "get" /\ Q.what = SendQueue /\ L.do = "get" /\ L.what = SendLock
      /\ S.do = "run" /\ S.what = SendThread /\ H1.do = "get" /\ H1.what = HealthLocks[1]
      /\ H2.do = "get" /\ H2.what = HealthLocks[2] /\ H.do = "run" /\ H.what = HealthThread
      /\ R.do = "run" /\ R.what = RecvThread
  BY Zenon DEF Get, Run
<1>3. /\ OwnLocks(Q) = {} /\ OwnLocks(L) = {} /\ OwnLocks(S) = {SendLock}
      /\ OwnLocks(H1) = {} /\ OwnLocks(H2) = {HealthLocks[1]} /\ OwnLocks(H) = SetOf(HealthLocks)
      /\ OwnLocks(R) = {}
      /\ LocksOf(c, SendThread) = {SendLock} /\ LocksOf(c, HealthThread) = SetOf(HealthLocks)
  BY UdpLocks, Zenon
<1>4. /\ SetOf(HealthLocks) = {HealthLocks[1], HealthLocks[2]}
      /\ SendLock \notin SetOf(HealthLocks) /\ SendQueue \notin SetOf(HealthLocks)
  BY HealthLockNames, Zenon DEF SendLock, SendQueue, One
<1>5. /\ Needs(c, SendThread) \subseteq Base(c) \cup {SendQueue, SendLock}
      /\ Needs(c, HealthThread) \subseteq Base(c) \cup SetOf(HealthLocks) \cup {SendLock}
      /\ Needs(c, RecvThread) \subseteq Base(c) \cup (IF Sends(c) THEN {SendLock} ELSE {})
      /\ Base(c) \cap ({SendQueue, SendLock} \cup SetOf(HealthLocks)) = {}
  BY UdpNeeds, Zenon
<1>6. /\ SendThread \in ThreadsOf(c) /\ HealthThread \in ThreadsOf(c) /\ RecvThread \in ThreadsOf(c)
      /\ SendThread # RecvThread /\ HealthThread # RecvThread
  BY Zenon DEF ThreadsOf, SendThread, HealthThread, RecvThread
<1>7. SendQueue \in Owned(c)
  BY Zenon DEF Owned
<1>8. /\ a \in Seq(Steps) /\ Len(a) = 1 /\ a[1] = Q
      /\ r \in Seq(Steps) /\ Len(r) = 1 /\ r[1] = R
      /\ b \in Seq(Steps) /\ Len(b) = 2 /\ b[1] = L /\ b[2] = S
  BY <1>1 DEF StartSend
<1> HIDE DEF Q, L, S, H1, H2, H, R
<1>0. a \in Seq(Steps) /\ b \in Seq(Steps) /\ r \in Seq(Steps)
  BY <1>8, Zenon
<1>9. CASE Sends(c)
  <2>1. T = abd \o r
    BY <1>9, Zenon DEF StartThreadsUdp, Q, R
  <2> HIDE DEF a, b, d, r, T
  <2>2. /\ ab \in Seq(Steps) /\ Len(ab) = Len(a) + Len(b)
        /\ \A i \in 1 .. Len(a) : ab[i] = a[i]
        /\ \A i \in 1 .. Len(b) : ab[Len(a) + i] = b[i]
    BY <1>0, Concatenated
  <2>3. ab[1] = Q /\ ab[2] = L /\ ab[3] = S /\ Len(ab) = 3
    BY <1>8, <2>2
  <2> HIDE DEF ab
  <2>4. CASE c.health
    <3> DEFINE g == GetAll(HealthLocks)
               h == <<H>>
    <3>1. d = g \o h
      BY <2>4, Zenon DEF StartHealth, d, H
    <3>2. g \in Seq(Steps) /\ Len(g) = 2 /\ g[1] = H1 /\ g[2] = H2
      <4>1. Len(HealthLocks) = 2 /\ DOMAIN HealthLocks = 1 .. 2
        BY DEF HealthLocks
      <4>2. g \in Seq(Steps) /\ Len(g) = Len(HealthLocks)
        BY HealthLockNames, GetAllSteps, Zenon
      <4>3. g[1] = H1 /\ g[2] = H2
        BY <4>1 DEF GetAll, H1, H2
      <4> QED BY <4>1, <4>2, <4>3, Zenon
    <3>3. h \in Seq(Steps) /\ Len(h) = 1 /\ h[1] = H
      BY <1>1
    <3> HIDE DEF g, h
    <3>4. /\ d \in Seq(Steps) /\ Len(d) = Len(g) + Len(h)
          /\ \A i \in 1 .. Len(g) : d[i] = g[i]
          /\ \A i \in 1 .. Len(h) : d[Len(g) + i] = h[i]
      <4>1. g \in Seq(Steps) /\ h \in Seq(Steps)
        BY <3>2, <3>3, Zenon
      <4> QED BY <3>1, <4>1, Concatenated
    <3>5. d[1] = H1 /\ d[2] = H2 /\ d[3] = H /\ Len(d) = 3
      BY <3>2, <3>3, <3>4
    <3>6. /\ abd \in Seq(Steps) /\ Len(abd) = Len(ab) + Len(d)
          /\ \A i \in 1 .. Len(ab) : abd[i] = ab[i]
          /\ \A i \in 1 .. Len(d) : abd[Len(ab) + i] = d[i]
      <4>1. ab \in Seq(Steps) /\ d \in Seq(Steps)
        BY <2>2, <3>4, Zenon
      <4> QED BY <4>1, Concatenated
    <3>7. /\ abd[1] = Q /\ abd[2] = L /\ abd[3] = S /\ abd[4] = H1 /\ abd[5] = H2 /\ abd[6] = H
          /\ Len(abd) = 6
      BY <2>3, <3>5, <3>6
    <3> HIDE DEF abd
    <3>8. /\ T \in Seq(Steps) /\ Len(T) = Len(abd) + Len(r)
          /\ \A i \in 1 .. Len(abd) : T[i] = abd[i]
          /\ \A i \in 1 .. Len(r) : T[Len(abd) + i] = r[i]
      <4>1. abd \in Seq(Steps)
        BY <3>6, Zenon
      <4> QED BY <1>0, <2>1, <4>1, Concatenated
    <3>9. /\ T[1] = Q /\ T[2] = L /\ T[3] = S /\ T[4] = H1 /\ T[5] = H2 /\ T[6] = H /\ T[7] = R
          /\ DOMAIN T = 1 .. 7 /\ Len(T) = 7
      BY <1>8, <3>7, <3>8, SMTT(20)
    <3>10. OpenStep(c, T, Base(c), 1) /\ OpenStep(c, T, Base(c), 2)
      <4>1. T[1].do = "get" /\ OwnLocks(T[1]) = {} /\ T[1].what \in Owned(c)
        BY <1>2, <1>3, <1>7, <3>9, Zenon
      <4>2. /\ T[2].do = "get" /\ OwnLocks(T[2]) = {} /\ 2 + 1 \in DOMAIN T
            /\ T[2].what \in OwnLocks(T[2 + 1])
        BY <1>2, <1>3, <3>9
      <4> QED BY <4>1, <4>2, GetStep, Zenon
    <3>11. OpenStep(c, T, Base(c), 3)
      <4>1. \A k \in 1 .. 7 : k > 3 => OwnLocks(T[k]) \cap Needs(c, SendThread) = {}
        <5>1. Needs(c, SendThread) \cap SetOf(HealthLocks) = {}
          BY <1>4, <1>5, Zenon
        <5>2. /\ OwnLocks(T[4]) = {} /\ OwnLocks(T[5]) \subseteq SetOf(HealthLocks)
              /\ OwnLocks(T[6]) \subseteq SetOf(HealthLocks) /\ OwnLocks(T[7]) = {}
          BY <1>3, <1>4, <3>9
        <5> QED BY <5>1, <5>2
      <4>2. \A x \in Needs(c, SendThread) : x \in Base(c) \/ \E k \in 1 .. 2 : T[k] = Get(x)
        BY <1>5, <3>9, SMTT(20) DEF Q, L
      <4> QED BY <1>2, <1>3, <1>6, <3>9, <4>1, <4>2 DEF OpenStep
    <3>12. OpenStep(c, T, Base(c), 4) /\ OpenStep(c, T, Base(c), 5)
      BY <1>2, <1>3, <1>4, <3>9, SMTT(20) DEF OpenStep
    <3>13. OpenStep(c, T, Base(c), 6)
      <4>1. \A k \in 1 .. 7 : k > 6 => OwnLocks(T[k]) \cap Needs(c, HealthThread) = {}
        BY <1>3, <3>9
      <4>2. \A x \in Needs(c, HealthThread) : x \in Base(c) \/ \E k \in 1 .. 5 : T[k] = Get(x)
        <5>1. T[2] = Get(SendLock) /\ T[4] = Get(HealthLocks[1]) /\ T[5] = Get(HealthLocks[2])
          BY <3>9, Zenon DEF L, H1, H2
        <5>2. 2 \in 1 .. 5 /\ 4 \in 1 .. 5 /\ 5 \in 1 .. 5
          OBVIOUS
        <5> QED BY <1>4, <1>5, <5>1, <5>2, Zenon
      <4> QED BY <1>2, <1>3, <1>6, <3>9, <4>1, <4>2 DEF OpenStep
    <3>14. OpenStep(c, T, Base(c), 7)
      <4>1. \A x \in Needs(c, RecvThread) : x \in Base(c) \/ \E k \in 1 .. 6 : T[k] = Get(x)
        BY <1>5, <3>9 DEF L
      <4> QED BY <1>2, <1>3, <1>6, <3>9, <4>1 DEF OpenStep
    <3>15. \A j \in 1 .. 7 : OpenStep(c, T, Base(c), j)
      BY <3>10, <3>11, <3>12, <3>13, <3>14
    <3> QED BY <3>8, <3>9, <3>15, Zenon DEF OpenPlan, T
  <2>5. CASE ~c.health
    <3>1. d \in Seq(Steps) /\ Len(d) = 0
      BY <2>5 DEF StartHealth, d
    <3>2. /\ abd \in Seq(Steps) /\ Len(abd) = Len(ab) + Len(d)
          /\ \A i \in 1 .. Len(ab) : abd[i] = ab[i]
      <4>1. ab \in Seq(Steps) /\ d \in Seq(Steps)
        BY <2>2, <3>1, Zenon
      <4> QED BY <4>1, Concatenated
    <3> HIDE DEF abd
    <3>3. abd[1] = Q /\ abd[2] = L /\ abd[3] = S /\ Len(abd) = 3
      BY <2>3, <3>1, <3>2
    <3>4. /\ T \in Seq(Steps) /\ Len(T) = Len(abd) + Len(r)
          /\ \A i \in 1 .. Len(abd) : T[i] = abd[i]
          /\ \A i \in 1 .. Len(r) : T[Len(abd) + i] = r[i]
      <4>1. abd \in Seq(Steps)
        BY <3>2, Zenon
      <4> QED BY <1>0, <2>1, <4>1, Concatenated
    <3>5. T[1] = Q /\ T[2] = L /\ T[3] = S /\ T[4] = R /\ DOMAIN T = 1 .. 4 /\ Len(T) = 4
      BY <1>8, <3>3, <3>4, SMTT(20)
    <3>6. OpenStep(c, T, Base(c), 1) /\ OpenStep(c, T, Base(c), 2)
      <4>1. T[1].do = "get" /\ OwnLocks(T[1]) = {} /\ T[1].what \in Owned(c)
        BY <1>2, <1>3, <1>7, <3>5, Zenon
      <4>2. /\ T[2].do = "get" /\ OwnLocks(T[2]) = {} /\ 2 + 1 \in DOMAIN T
            /\ T[2].what \in OwnLocks(T[2 + 1])
        BY <1>2, <1>3, <3>5
      <4> QED BY <4>1, <4>2, GetStep, Zenon
    <3>7. OpenStep(c, T, Base(c), 3)
      <4>1. \A k \in 1 .. 4 : k > 3 => OwnLocks(T[k]) \cap Needs(c, SendThread) = {}
        BY <1>3, <3>5
      <4>2. \A x \in Needs(c, SendThread) : x \in Base(c) \/ \E k \in 1 .. 2 : T[k] = Get(x)
        BY <1>5, <3>5, SMTT(20) DEF Q, L
      <4> QED BY <1>2, <1>3, <1>6, <3>5, <4>1, <4>2 DEF OpenStep
    <3>8. OpenStep(c, T, Base(c), 4)
      <4>1. \A x \in Needs(c, RecvThread) : x \in Base(c) \/ \E k \in 1 .. 3 : T[k] = Get(x)
        BY <1>5, <3>5 DEF L
      <4> QED BY <1>2, <1>3, <1>6, <3>5, <4>1 DEF OpenStep
    <3>9. \A j \in 1 .. 4 : OpenStep(c, T, Base(c), j)
      BY <3>6, <3>7, <3>8
    <3> QED BY <3>4, <3>5, <3>9, Zenon DEF OpenPlan, T
  <2> QED BY <2>4, <2>5, Zenon
<1>10. CASE ~Sends(c)
  <2> DEFINE e == << >>
  <2>1. T = e \o r
    BY <1>10, Zenon DEF StartThreadsUdp, R
  <2>2. e \in Seq(Steps) /\ Len(e) = 0
    OBVIOUS
  <2> HIDE DEF r, e, T
  <2>3. /\ T \in Seq(Steps) /\ Len(T) = Len(e) + Len(r)
        /\ \A i \in 1 .. Len(r) : T[Len(e) + i] = r[i]
    <3>1. e \in Seq(Steps)
      BY <2>2
    <3> QED BY <1>0, <2>1, <3>1, Concatenated
  <2>4. T[1] = R /\ DOMAIN T = 1 .. 1 /\ Len(T) = 1
    BY <1>8, <2>2, <2>3, SMTT(20)
  <2>5. OpenStep(c, T, Base(c), 1)
    BY <1>2, <1>3, <1>5, <1>6, <1>10, <2>4 DEF OpenStep
  <2> QED BY <2>3, <2>4, <2>5 DEF OpenPlan, T
<1> QED BY <1>9, <1>10, Zenon

\* The connect threads are started last.
LEMMA TcpStarts ==
    ASSUME NEW c \in Confs, Tcp(c)
    PROVE  StartThreadsTcp(c) \in Seq(Steps) /\ OpenPlan(c, StartThreadsTcp(c), Base(c))
<1> DEFINE sync == GetAll(TcpSync)
           q == IF Sends(c) THEN <<Get(SendQueue)>> ELSE << >>
           own == GetAll(ConnectResources(c))
           runs == [i \in 1 .. NPath(c) |-> Run(<<"connect", i>>)]
           G1 == Base(c) \cup SetOf(TcpSync) \cup (IF Sends(c) THEN {SendQueue} ELSE {})
           G0 == G1 \cup SetOf(ConnectResources(c))
<1>1. NPath(c) \in Nat /\ 1 .. NPath(c) \subseteq Nat
  BY PathCount
<1>2. ASSUME NEW i \in 1 .. NPath(c)
      PROVE  /\ Run(<<"connect", i>>) \in Steps /\ Run(<<"connect", i>>).do = "run"
             /\ Run(<<"connect", i>>).what = <<"connect", i>>
             /\ <<"connect", i>> \in ThreadsOf(c)
             /\ Needs(c, <<"connect", i>>) \subseteq G0
  <2>1. i \in Nat
    BY <1>1, Zenon
  <2>2. <<"connect", i>> \in Names
    BY <2>1, Zenon DEF Names, Labels
  <2>3. Run(<<"connect", i>>) \in Steps
    BY <2>2, Zenon DEF Run, Steps
  <2>4. <<"connect", i>> \in ThreadsOf(c)
    BY Zenon DEF ThreadsOf
  <2>5. Needs(c, <<"connect", i>>) \subseteq G0
    BY <2>4, TcpNeeds, Zenon
  <2> QED BY <2>3, <2>4, <2>5, Zenon DEF Run
<1>3. runs \in Seq(Steps) /\ DOMAIN runs = 1 .. NPath(c) /\ \A i \in 1 .. NPath(c) : runs[i] = Run(<<"connect", i>>)
  <2>1. \A i \in 1 .. NPath(c) : Run(<<"connect", i>>) \in Steps
    BY <1>2, Zenon
  <2>2. NPath(c) \in Nat
    BY <1>1, Zenon
  <2>3. /\ runs = [i \in 1 .. NPath(c) |-> runs[i]]
        /\ \A i \in 1 .. NPath(c) : runs[i] = Run(<<"connect", i>>)
    BY Zenon
  <2> HIDE DEF runs
  <2>4. \A i \in 1 .. NPath(c) : runs[i] \in Steps
    BY <2>1, <2>3, Zenon
  <2>5. runs = [i \in 1 .. NPath(c) |-> runs[i]]
    BY <2>3, Zenon
  <2>6. runs \in Seq(Steps) /\ DOMAIN runs = 1 .. NPath(c)
    BY <2>2, <2>4, <2>5, Tabled, Zenon
  <2> QED BY <2>3, <2>6, Zenon
<1> HIDE DEF runs, G0, G1
<1>4. OpenPlan(c, runs, G0)
  <2> SUFFICES ASSUME NEW j \in 1 .. NPath(c) PROVE OpenStep(c, runs, G0, j)
    BY <1>3 DEF OpenPlan
  <2>1. runs[j].do = "run" /\ runs[j].what = <<"connect", j>>
    BY <1>2, <1>3, Zenon
  <2>2. \A k \in DOMAIN runs : runs[k].do = "run"
    BY <1>2, <1>3, Zenon
  <2>3. Needs(c, runs[j].what) \subseteq G0 /\ runs[j].what \in ThreadsOf(c) /\ runs[j].what[1] = "connect"
    BY <1>2, <2>1
  <2> QED BY <2>1, <2>2, <2>3, Zenon DEF OpenStep
<1>5. /\ own \in Seq(Steps) /\ \A x : x \in SetOf(own) <=> \E r \in SetOf(ConnectResources(c)) : x = Get(r)
  BY ConnectNames, GetAllSteps, Zenon
<1>6. /\ sync \in Seq(Steps) /\ \A x : x \in SetOf(sync) <=> \E r \in SetOf(TcpSync) : x = Get(r)
  BY SyncNames, GetAllSteps, Zenon
<1>7. /\ q \in Seq(Steps) /\ \A x \in SetOf(q) : x = Get(SendQueue)
      /\ Sends(c) => Get(SendQueue) \in SetOf(q)
  <2>1. Get(SendQueue) \in Steps
    BY DEF Get, Steps, Names, Labels, SendQueue, One
  <2>2. /\ <<Get(SendQueue)>> \in Seq(Steps) /\ SetOf(<<Get(SendQueue)>>) = {Get(SendQueue)}
        /\ << >> \in Seq(Steps) /\ SetOf(<< >>) = {}
    BY <2>1 DEF SetOf
  <2>3. (Sends(c) /\ q = <<Get(SendQueue)>>) \/ (~Sends(c) /\ q = << >>)
    BY Zenon
  <2> HIDE DEF q
  <2>4. CASE Sends(c) /\ q = <<Get(SendQueue)>>
    BY <2>2, <2>4, Zenon
  <2>5. CASE ~Sends(c) /\ q = << >>
    BY <2>2, <2>5, Zenon
  <2> QED BY <2>3, <2>4, <2>5, Zenon
<1>8. \A r \in SetOf(TcpSync) \cup SetOf(ConnectResources(c)) \cup {SendQueue} : Quiet(c, Get(r))
  BY QuietSteps DEF Owned
<1> HIDE DEF own, sync, q
<1> DEFINE con == own \o runs
           pre == sync \o q
<1>9. con \in Seq(Steps) /\ OpenPlan(c, con, G1)
  <2>1. \A x \in SetOf(own) : Quiet(c, x)
    BY <1>5, <1>8, Zenon
  <2>2. \A r \in G0 : r \in G1 \/ Get(r) \in SetOf(own)
    BY <1>5, Zenon DEF G0
  <2>3. con \in Seq(Steps)
    BY <1>3, <1>5, Concatenated, Zenon
  <2>4. OpenPlan(c, con, G1)
    BY <1>3, <1>4, <1>5, <2>1, <2>2, Prepended, Zenon
  <2> QED BY <2>3, <2>4, Zenon
<1>10. pre \in Seq(Steps) /\ SetOf(pre) = SetOf(sync) \cup SetOf(q)
  BY <1>6, <1>7, Concatenated
<1> HIDE DEF con, pre
<1>11. pre \o con \in Seq(Steps) /\ OpenPlan(c, pre \o con, Base(c))
  <2>1. \A x \in SetOf(pre) : Quiet(c, x)
    BY <1>6, <1>7, <1>8, <1>10
  <2>2. \A r \in G1 : r \in Base(c) \/ Get(r) \in SetOf(pre)
    BY <1>6, <1>7, <1>10, Zenon DEF G1
  <2>3. pre \o con \in Seq(Steps)
    BY <1>9, <1>10, Concatenated, Zenon
  <2>4. OpenPlan(c, pre \o con, Base(c))
    BY <1>9, <1>10, <2>1, <2>2, Prepended, Zenon
  <2> QED BY <2>3, <2>4, Zenon
<1>12. StartThreadsTcp(c) = pre \o con
  BY Zenon DEF StartThreadsTcp, ConnectStart, pre, con, sync, q, own, runs
<1> QED BY <1>11, <1>12, Zenon

LEMMA OpenStarts ==
    ASSUME NEW c \in Confs
    PROVE  /\ OpenSteps(c) \in Seq(Steps) /\ OpenSteps(c) # << >>
           /\ OpenPlan(c, OpenSteps(c), {})
<1> DEFINE F == Front(c)
           T == IF Tcp(c) THEN StartThreadsTcp(c) ELSE StartThreadsUdp(c)
<1>1. T \in Seq(Steps) /\ OpenPlan(c, T, Base(c))
  <2>1. CASE Tcp(c)
    <3>1. T = StartThreadsTcp(c)
      BY <2>1, Zenon
    <3> HIDE DEF T
    <3> QED BY <2>1, <3>1, TcpStarts, Zenon
  <2>2. CASE ~Tcp(c)
    <3>1. T = StartThreadsUdp(c)
      BY <2>2, Zenon
    <3> HIDE DEF T
    <3> QED BY <2>2, <3>1, UdpStarts, Zenon
  <2> QED BY <2>1, <2>2, Zenon
<1>2. /\ F \in Seq(Steps) /\ F # << >> /\ \A x \in SetOf(F) : Quiet(c, x)
      /\ \A r \in Base(c) : Get(r) \in SetOf(F)
  BY FrontSteps, Zenon
<1> HIDE DEF F, T
<1>3. OpenSteps(c) = F \o T
  BY Zenon DEF OpenSteps, F, T, Front
<1>4. F \o T \in Seq(Steps) /\ Len(F \o T) = Len(F) + Len(T) /\ Len(F) \in Nat /\ Len(T) \in Nat
  BY <1>1, <1>2, Concatenated
<1>5. OpenPlan(c, F \o T, {})
  BY <1>1, <1>2, Prepended, Zenon
<1>6. Len(F) # 0
  BY <1>2
<1>7. F \o T # << >>
  BY <1>4, <1>6
<1> QED BY <1>3, <1>4, <1>5, <1>7, Zenon

-----------------------------------------------------------------------------
\* The steps of a roll-back and of a close

Connects(L) == {i \in Paths : <<"connect", i>> \in L}

\* A thread that may run when the threads in L do: the connect threads start
\* the others.
MayRun(t, L) == t \in L \/ (t[1] # "connect" /\ Connects(L) # {})

\* What a thread needs is given back after its stop, and the connect threads
\* are stopped first.
EndStep(c, s, L, j) ==
    /\ s[j].do = "free" <=> j = Len(s)
    /\ \A t \in ThreadsOf(c) :
         MayRun(t, L) /\ s[j] # Stop(t) /\ Gives(c, s[j]) \cap Needs(c, t) # {} =>
            \E k \in 1 .. j - 1 : s[k] = Stop(t)
    /\ s[j].do = "stop" /\ s[j].what[1] # "connect" =>
         \A i \in Connects(L) : \E k \in 1 .. j - 1 : s[k] = Stop(<<"connect", i>>)

EndPlan(c, s, L) == s # << >> /\ \A j \in DOMAIN s : EndStep(c, s, L, j)

\* What is held is given back with the context, with a thread or by a step of
\* its own, unless a thread could not be waited for.
Covered(c, s, R, L) ==
    \A r \in R : \/ r \in ContextOwns(c)
                 \/ \E t \in L : r \in LocksOf(c, t)
                 \/ \E j \in DOMAIN s : s[j].do = "put" /\ r \in s[j].what
                 \/ L # {} /\ \A j \in DOMAIN s : s[j].do \notin {"stop", "try"}

LEMMA StepFields ==
    ASSUME NEW c, NEW t
    PROVE  /\ Stop(t).do = "stop" /\ Stop(t).what = t /\ Try(t).do = "try" /\ Try(t).what = t
           /\ Put(t).do = "put" /\ Put(t).what = t
           /\ Free.do = "free" /\ Halt.do = "halt" /\ Hangup.do = "hangup"
           /\ Gives(c, Stop(t)) = LocksOf(c, t) /\ Gives(c, Try(t)) = LocksOf(c, t)
           /\ Gives(c, Put(t)) = t /\ Gives(c, Free) = {}
           /\ Gives(c, Halt) = {} /\ Gives(c, Hangup) = {}
<1>1. /\ Stop(t).do = "stop" /\ Stop(t).what = t /\ Try(t).do = "try" /\ Try(t).what = t
      /\ Put(t).do = "put" /\ Put(t).what = t
      /\ Free.do = "free" /\ Halt.do = "halt" /\ Hangup.do = "hangup"
  BY Zenon DEF Stop, Try, Put, Free, Halt, Hangup
<1>2. Gives(c, Stop(t)) = LocksOf(c, t) /\ Gives(c, Try(t)) = LocksOf(c, t)
  BY <1>1, Zenon DEF Gives
<1>3. Gives(c, Put(t)) = t
  BY <1>1, Zenon DEF Gives
<1>4. Gives(c, Free) = {} /\ Gives(c, Halt) = {} /\ Gives(c, Hangup) = {}
  BY <1>1, Zenon DEF Gives
<1> QED BY <1>1, <1>2, <1>3, <1>4, Zenon

LEMMA EndPlanLess ==
    ASSUME NEW c, NEW s, NEW L, NEW M, EndPlan(c, s, L),
           \A t \in ThreadsOf(c) : MayRun(t, M) => MayRun(t, L), Connects(M) \subseteq Connects(L)
    PROVE  EndPlan(c, s, M)
  BY Zenon DEF EndPlan, EndStep

LEMMA FewerRun ==
    ASSUME NEW L, NEW M, M \subseteq L
    PROVE  Connects(M) \subseteq Connects(L) /\ \A t : MayRun(t, M) => MayRun(t, L)
  BY DEF Connects, MayRun

\* What is left of an ending after its first step.
LEMMA EndPlanTail ==
    ASSUME NEW c, NEW s \in Seq(Steps), NEW L, NEW M, EndPlan(c, s, L), s[1].do # "free",
           M \subseteq L, \A t : s[1] = Stop(t) => t \notin M
    PROVE  EndPlan(c, Tail(s), M) /\ Tail(s) \in Seq(Steps)
<1> DEFINE u == Tail(s)
<1>1. /\ u \in Seq(Steps) /\ Len(u) = Len(s) - 1 /\ Len(s) \in Nat /\ Len(s) > 0
      /\ DOMAIN s = 1 .. Len(s) /\ DOMAIN u = 1 .. Len(s) - 1 /\ 1 \in DOMAIN s
      /\ \A i \in 1 .. Len(s) - 1 : u[i] = s[i + 1] /\ i + 1 \in DOMAIN s
  BY Tailed, Zenon DEF EndPlan
<1> HIDE DEF u
<1>2. EndStep(c, s, L, 1)
  BY <1>1, Zenon DEF EndPlan
<1>3. Len(s) # 1
  BY <1>2, Zenon DEF EndStep
<1>4. u # << >>
  BY <1>1, <1>3
<1>5. Connects(M) \subseteq Connects(L) /\ \A t : MayRun(t, M) => MayRun(t, L)
  BY FewerRun, Zenon
<1>6. ASSUME NEW t, MayRun(t, M) PROVE s[1] # Stop(t)
  <2> SUFFICES ASSUME s[1] = Stop(t) PROVE FALSE
    BY Zenon
  <2>1. t \notin M
    BY Zenon
  <2>2. t[1] # "connect" /\ Connects(M) # {}
    BY <1>6, <2>1, Zenon DEF MayRun
  <2>3. s[1].do = "stop" /\ s[1].what = t
    BY DEF Stop
  <2>4. \A i \in Connects(L) : \E k \in 1 .. 1 - 1 : s[k] = Stop(<<"connect", i>>)
    BY <1>2, <2>2, <2>3, Zenon DEF EndStep
  <2>5. Connects(L) = {}
    BY <2>4
  <2> QED BY <1>5, <2>2, <2>5, Zenon
<1>7. ASSUME NEW j \in 1 .. Len(s) - 1, NEW t, s[1] # Stop(t), \E k \in 1 .. (j + 1) - 1 : s[k] = Stop(t)
      PROVE  \E k \in 1 .. j - 1 : u[k] = Stop(t)
  <2>1. PICK k \in 1 .. (j + 1) - 1 : s[k] = Stop(t)
    BY <1>7, Zenon
  <2>2. k # 1
    BY <1>7, <2>1, Zenon
  <2>3. k - 1 \in 1 .. j - 1 /\ k - 1 \in 1 .. Len(s) - 1 /\ (k - 1) + 1 = k
    BY <1>1, <2>2
  <2>4. u[k - 1] = Stop(t)
    BY <1>1, <2>1, <2>3, Zenon
  <2> QED BY <2>3, <2>4, Zenon
<1>8. ASSUME NEW j \in 1 .. Len(s) - 1 PROVE EndStep(c, u, M, j)
  <2>1. EndStep(c, s, L, j + 1) /\ u[j] = s[j + 1]
    BY <1>1, Zenon DEF EndPlan
  <2>2. u[j].do = "free" <=> j = Len(u)
    <3>1. u[j].do = "free" <=> j + 1 = Len(s)
      BY <2>1, Zenon DEF EndStep
    <3>2. j + 1 = Len(s) <=> j = Len(u)
      BY <1>1
    <3> QED BY <3>1, <3>2, Zenon
  <2>3. ASSUME NEW t \in ThreadsOf(c), MayRun(t, M), u[j] # Stop(t), Gives(c, u[j]) \cap Needs(c, t) # {}
        PROVE  \E k \in 1 .. j - 1 : u[k] = Stop(t)
    <3>1. \E k \in 1 .. (j + 1) - 1 : s[k] = Stop(t)
      BY <1>5, <2>1, <2>3, Zenon DEF EndStep
    <3> QED BY <1>6, <1>7, <2>3, <3>1, Zenon
  <2>4. ASSUME u[j].do = "stop", u[j].what[1] # "connect", NEW i \in Connects(M)
        PROVE  \E k \in 1 .. j - 1 : u[k] = Stop(<<"connect", i>>)
    <3>1. \E k \in 1 .. (j + 1) - 1 : s[k] = Stop(<<"connect", i>>)
      BY <1>5, <2>1, <2>4, Zenon DEF EndStep
    <3>2. MayRun(<<"connect", i>>, M)
      BY Zenon DEF MayRun, Connects
    <3> QED BY <1>6, <1>7, <3>1, <3>2, Zenon
  <2> QED BY <2>2, <2>3, <2>4, Zenon DEF EndStep
<1> QED BY <1>1, <1>4, <1>8, Zenon DEF EndPlan, u

LEMMA UdpThreads ==
    ASSUME NEW c \in Confs, ~Tcp(c), NEW L, L \subseteq ThreadsOf(c)
    PROVE  /\ Connects(L) = {} /\ \A t : MayRun(t, L) => t \in L
           /\ \A t \in L : t = SendThread \/ t = HealthThread \/ t = RecvThread
           /\ SendThread # HealthThread /\ SendThread # RecvThread /\ HealthThread # RecvThread
<1>1. \A t \in L : t = SendThread \/ t = HealthThread \/ t = RecvThread
  BY Zenon DEF ThreadsOf
<1>2. \A i \in Paths : <<"connect", i>> \notin L
  BY <1>1, Zenon DEF SendThread, HealthThread, RecvThread
<1>3. SendThread # HealthThread /\ SendThread # RecvThread /\ HealthThread # RecvThread
  BY Zenon DEF SendThread, HealthThread, RecvThread
<1> QED BY <1>1, <1>2, <1>3, Zenon DEF Connects, MayRun

\* Undoing a UDP service stops the threads before it gives the queue back.
LEMMA UdpUndo ==
    ASSUME NEW c \in Confs, ~Tcp(c), NEW step, NEW L, L \subseteq ThreadsOf(c), RecvThread \notin L,
           OwnLocks(step) \subseteq Names, \A t \in L : OwnLocks(step) \cap Needs(c, t) = {}
    PROVE  LET s == UdpRollback(c, step)
           IN  /\ s \in Seq(Steps) /\ EndPlan(c, s, L)
               /\ \A r \in OwnLocks(step) \cup {SendQueue} :
                     \E j \in DOMAIN s : s[j].do = "put" /\ r \in s[j].what
<1> DEFINE s == UdpRollback(c, step)
           W == OwnLocks(step)
<1>1. /\ Connects(L) = {} /\ \A t : MayRun(t, L) => t \in L
      /\ \A t \in L : t = SendThread \/ t = HealthThread
      /\ SendThread # HealthThread
  BY UdpThreads, Zenon
<1>2. /\ Put(W) \in Steps /\ Stop(HealthThread) \in Steps /\ Stop(SendThread) \in Steps
      /\ Put({SendQueue}) \in Steps /\ Free \in Steps
  BY DEF Put, Stop, Free, Steps, Names, Labels, SendThread, HealthThread, SendQueue, One
<1>3. s = <<Put(W), Stop(HealthThread), Stop(SendThread), Put({SendQueue}), Free>>
  BY Zenon DEF UdpRollback
<1> HIDE DEF s, W
<1>4. /\ s \in Seq(Steps) /\ Len(s) = 5 /\ DOMAIN s = 1 .. 5
      /\ s[1] = Put(W) /\ s[2] = Stop(HealthThread) /\ s[3] = Stop(SendThread)
      /\ s[4] = Put({SendQueue}) /\ s[5] = Free
  BY <1>2, <1>3
<1>5. /\ s[1].do = "put" /\ s[2].do = "stop" /\ s[3].do = "stop" /\ s[4].do = "put" /\ s[5].do = "free"
      /\ s[1].what = W /\ s[4].what = {SendQueue}
      /\ Gives(c, s[1]) = W /\ Gives(c, s[2]) = SetOf(HealthLocks) /\ Gives(c, s[3]) = {SendLock}
      /\ Gives(c, s[4]) = {SendQueue} /\ Gives(c, s[5]) = {}
  <2>1. LocksOf(c, SendThread) = {SendLock} /\ LocksOf(c, HealthThread) = SetOf(HealthLocks)
    BY UdpLocks, Zenon
  <2>2. /\ Gives(c, Put(W)) = W /\ Gives(c, Stop(HealthThread)) = LocksOf(c, HealthThread)
        /\ Gives(c, Stop(SendThread)) = LocksOf(c, SendThread)
        /\ Gives(c, Put({SendQueue})) = {SendQueue} /\ Gives(c, Free) = {}
    BY StepFields
  <2>3. /\ s[1].do = "put" /\ s[2].do = "stop" /\ s[3].do = "stop" /\ s[4].do = "put" /\ s[5].do = "free"
        /\ s[1].what = W /\ s[4].what = {SendQueue}
    BY <1>4 DEF Put, Stop, Free
  <2> QED BY <1>4, <2>1, <2>2, <2>3, Zenon
<1>6. /\ Needs(c, SendThread) \cap SetOf(HealthLocks) = {}
      /\ SendQueue \notin Needs(c, HealthThread)
  <2>1. /\ SendLock \notin SetOf(HealthLocks) /\ SendQueue \notin SetOf(HealthLocks)
        /\ SendLock # SendQueue
    BY HealthLockNames, Zenon DEF SendLock, SendQueue, One
  <2> QED BY <2>1, UdpNeeds, Zenon
<1>7. ASSUME NEW j \in 1 .. 5, NEW t \in L, s[j] # Stop(t), Gives(c, s[j]) \cap Needs(c, t) # {}
      PROVE  \E k \in 1 .. j - 1 : s[k] = Stop(t)
  <2>1. j # 1
    BY <1>5, <1>7, Zenon DEF W
  <2>2. j # 2
    BY <1>1, <1>4, <1>5, <1>6, <1>7, Zenon
  <2>3. CASE j = 3
    <3>1. t = HealthThread
      BY <1>1, <1>4, <1>7, <2>3, Zenon
    <3>2. 2 \in 1 .. j - 1
      BY <2>3
    <3> QED BY <1>4, <3>1, <3>2, Zenon
  <2>4. j # 5
    BY <1>5, <1>7, Zenon
  <2>5. CASE j = 4
    <3>1. t = SendThread
      BY <1>1, <1>5, <1>6, <1>7, <2>5, Zenon
    <3> QED BY <1>4, <2>5, <3>1
  <2> QED BY <2>1, <2>2, <2>3, <2>4, <2>5
<1>8. \A j \in 1 .. 5 : EndStep(c, s, L, j)
  <2> SUFFICES ASSUME NEW j \in 1 .. 5 PROVE EndStep(c, s, L, j)
    BY Zenon
  <2>1. s[j].do = "free" <=> j = Len(s)
    BY <1>4, <1>5
  <2> QED BY <1>1, <1>7, <2>1, Zenon DEF EndStep
<1>9. s # << >>
  BY <1>4
<1>10. \A r \in W \cup {SendQueue} : \E j \in DOMAIN s : s[j].do = "put" /\ r \in s[j].what
  <2>1. 1 \in DOMAIN s /\ 4 \in DOMAIN s
    BY <1>4
  <2> QED BY <1>5, <2>1, Zenon
<1> QED BY <1>4, <1>8, <1>9, <1>10, Zenon DEF EndPlan, s, W

\* Closing a UDP service stops its threads before it gives back what they use.
LEMMA UdpClose ==
    ASSUME NEW c \in Confs, ~Tcp(c), NEW L, L \subseteq ThreadsOf(c)
    PROVE  LET s == CloseUdp(c)
           IN  /\ s \in Seq(Steps) /\ EndPlan(c, s, L)
               /\ \E j \in DOMAIN s : s[j].do = "put" /\ SendQueue \in s[j].what
<1> DEFINE s == CloseUdp(c)
           W == SetOf(Each("sock", NPath(c)))
<1>1. /\ Connects(L) = {} /\ \A t : MayRun(t, L) => t \in L
      /\ \A t \in L : t = SendThread \/ t = HealthThread \/ t = RecvThread
      /\ SendThread # HealthThread /\ SendThread # RecvThread /\ HealthThread # RecvThread
  BY UdpThreads, Zenon
<1>2. W \subseteq Names
  BY SocketNames DEF SetOf
<1> HIDE DEF W
<1>3. /\ Put(W) \in Steps /\ Stop(HealthThread) \in Steps /\ Stop(SendThread) \in Steps
      /\ Stop(RecvThread) \in Steps /\ Put({SendQueue}) \in Steps /\ Free \in Steps
  BY <1>2 DEF Put, Stop, Free, Steps, Names, Labels, SendThread, HealthThread, RecvThread, SendQueue, One
<1>4. s = <<Stop(HealthThread), Stop(RecvThread), Stop(SendThread), Put({SendQueue}), Put(W), Free>>
  BY Zenon DEF CloseUdp, W
<1> HIDE DEF s
<1>5. /\ s \in Seq(Steps) /\ Len(s) = 6 /\ DOMAIN s = 1 .. 6
      /\ s[1] = Stop(HealthThread) /\ s[2] = Stop(RecvThread) /\ s[3] = Stop(SendThread)
      /\ s[4] = Put({SendQueue}) /\ s[5] = Put(W) /\ s[6] = Free
  BY <1>3, <1>4
<1>6. /\ s[1].do = "stop" /\ s[2].do = "stop" /\ s[3].do = "stop" /\ s[4].do = "put"
      /\ s[5].do = "put" /\ s[6].do = "free" /\ s[4].what = {SendQueue}
      /\ Gives(c, s[1]) = SetOf(HealthLocks) /\ Gives(c, s[2]) = {} /\ Gives(c, s[3]) = {SendLock}
      /\ Gives(c, s[6]) = {}
  <2>1. /\ LocksOf(c, SendThread) = {SendLock} /\ LocksOf(c, HealthThread) = SetOf(HealthLocks)
        /\ LocksOf(c, RecvThread) = {}
    BY UdpLocks, Zenon
  <2>2. /\ Gives(c, Stop(HealthThread)) = LocksOf(c, HealthThread)
        /\ Gives(c, Stop(RecvThread)) = LocksOf(c, RecvThread)
        /\ Gives(c, Stop(SendThread)) = LocksOf(c, SendThread) /\ Gives(c, Free) = {}
    BY StepFields
  <2>3. /\ s[1].do = "stop" /\ s[2].do = "stop" /\ s[3].do = "stop" /\ s[4].do = "put"
        /\ s[5].do = "put" /\ s[6].do = "free" /\ s[4].what = {SendQueue}
    BY <1>5 DEF Put, Stop, Free
  <2> QED BY <1>5, <2>1, <2>2, <2>3, Zenon
<1>7. /\ Needs(c, SendThread) \cap SetOf(HealthLocks) = {} /\ Needs(c, RecvThread) \cap SetOf(HealthLocks) = {}
  <2>1. SendLock \notin SetOf(HealthLocks) /\ SendQueue \notin SetOf(HealthLocks)
    BY HealthLockNames, Zenon DEF SendLock, SendQueue, One
  <2> QED BY <2>1, UdpNeeds
<1>8. ASSUME NEW j \in 1 .. 6, NEW t \in L, s[j] # Stop(t), Gives(c, s[j]) \cap Needs(c, t) # {}
      PROVE  \E k \in 1 .. j - 1 : s[k] = Stop(t)
  <2>1. CASE j \in {4, 5}
    BY <1>1, <1>5, <2>1
  <2>2. j # 1
    BY <1>1, <1>5, <1>6, <1>7, <1>8, Zenon
  <2>3. j # 2 /\ j # 6
    BY <1>6, <1>8, ZenonT(30)
  <2>4. CASE j = 3
    <3>1. t = RecvThread \/ t = HealthThread
      BY <1>1, <1>5, <1>8, <2>4, Zenon
    <3>2. 1 \in 1 .. j - 1 /\ 2 \in 1 .. j - 1
      BY <2>4
    <3> QED BY <1>5, <3>1, <3>2, Zenon
  <2> QED BY <2>1, <2>2, <2>3, <2>4
<1>9. \A j \in 1 .. 6 : EndStep(c, s, L, j)
  <2> SUFFICES ASSUME NEW j \in 1 .. 6 PROVE EndStep(c, s, L, j)
    BY Zenon
  <2>1. s[j].do = "free" <=> j = Len(s)
    BY <1>5, <1>6
  <2> QED BY <1>1, <1>8, <2>1, Zenon DEF EndStep
<1>10. s # << >>
  BY <1>5, SMTT(20)
<1>11. \E j \in DOMAIN s : s[j].do = "put" /\ SendQueue \in s[j].what
  <2>1. 4 \in DOMAIN s
    BY <1>5
  <2> QED BY <1>6, <2>1, Zenon
<1> QED BY <1>5, <1>9, <1>10, <1>11, Zenon DEF EndPlan, s

Before(s, j, x) == \E k \in 1 .. j - 1 : s[k] = x

\* In u \o v the steps of u are in their places and come before those of v.
LEMMA Appended ==
    ASSUME NEW u \in Seq(Steps), NEW v \in Seq(Steps)
    PROVE  LET s == u \o v
           IN  /\ s \in Seq(Steps) /\ Len(s) = Len(u) + Len(v) /\ Len(u) \in Nat /\ Len(v) \in Nat
               /\ SetOf(s) = SetOf(u) \cup SetOf(v)
               /\ \A j \in DOMAIN s :
                    \/ /\ j \in DOMAIN u /\ s[j] = u[j] /\ j <= Len(u)
                       /\ \A x : Before(u, j, x) => Before(s, j, x)
                    \/ \E i \in DOMAIN v :
                         /\ j = Len(u) + i /\ s[j] = v[i]
                         /\ \A x : x \in SetOf(u) \/ Before(v, i, x) => Before(s, j, x)
<1> DEFINE s == u \o v
<1>1. /\ s \in Seq(Steps) /\ Len(s) = Len(u) + Len(v) /\ Len(u) \in Nat /\ Len(v) \in Nat
      /\ DOMAIN s = 1 .. Len(u) + Len(v)
      /\ \A i \in 1 .. Len(u) : s[i] = u[i]
      /\ \A i \in 1 .. Len(v) : s[Len(u) + i] = v[i]
      /\ \A k \in 1 .. Len(u) + Len(v) : k \in 1 .. Len(u) \/ \E i \in 1 .. Len(v) : k = Len(u) + i
      /\ SetOf(s) = SetOf(u) \cup SetOf(v)
  BY Concatenated
<1>2. DOMAIN u = 1 .. Len(u) /\ DOMAIN v = 1 .. Len(v)
  BY <1>1
<1> HIDE DEF s
<1>3. ASSUME NEW j \in 1 .. Len(u), NEW x, Before(u, j, x) PROVE Before(s, j, x)
  <2>1. PICK k \in 1 .. j - 1 : u[k] = x
    BY <1>3, Zenon DEF Before
  <2>2. k \in 1 .. Len(u)
    BY <1>1
  <2> QED BY <1>1, <2>1, <2>2, Zenon DEF Before
<1>4. ASSUME NEW i \in 1 .. Len(v), NEW x \in SetOf(u) PROVE Before(s, Len(u) + i, x)
  <2>1. PICK k \in 1 .. Len(u) : u[k] = x
    BY <1>2, Zenon DEF SetOf
  <2>2. k \in 1 .. (Len(u) + i) - 1 /\ s[k] = x
    BY <1>1, <2>1
  <2> QED BY <2>2, Zenon DEF Before
<1>5. ASSUME NEW i \in 1 .. Len(v), NEW x, Before(v, i, x) PROVE Before(s, Len(u) + i, x)
  <2>1. PICK k \in 1 .. i - 1 : v[k] = x
    BY <1>5, Zenon DEF Before
  <2>2. k \in 1 .. Len(v) /\ Len(u) + k \in 1 .. (Len(u) + i) - 1
    BY <1>1
  <2>3. s[Len(u) + k] = x
    BY <1>1, <2>1, <2>2, Zenon
  <2> QED BY <2>2, <2>3, Zenon DEF Before
<1>6. ASSUME NEW j \in DOMAIN s
      PROVE  \/ /\ j \in DOMAIN u /\ s[j] = u[j] /\ j <= Len(u)
                /\ \A x : Before(u, j, x) => Before(s, j, x)
             \/ \E i \in DOMAIN v :
                  /\ j = Len(u) + i /\ s[j] = v[i]
                  /\ \A x : x \in SetOf(u) \/ Before(v, i, x) => Before(s, j, x)
  <2>1. CASE j \in 1 .. Len(u)
    BY <1>1, <1>2, <1>3, <2>1
  <2>2. CASE \E i \in 1 .. Len(v) : j = Len(u) + i
    <3>1. PICK i \in 1 .. Len(v) : j = Len(u) + i
      BY <2>2, Zenon
    <3>2. s[j] = v[i] /\ i \in DOMAIN v
      BY <1>1, <1>2, <3>1, Zenon
    <3>3. \A x : x \in SetOf(u) \/ Before(v, i, x) => Before(s, j, x)
      BY <1>4, <1>5, <3>1, Zenon
    <3> QED BY <3>1, <3>2, <3>3, Zenon
  <2> QED BY <1>1, <2>1, <2>2, Zenon
<1> QED BY <1>1, <1>6, Zenon DEF s

\* The part of an ending of a TCP service that stops the threads: nothing is
\* given back before every thread has been stopped, and the connect threads,
\* which start the others, are stopped first.
StopStep(c, s, P, j) ==
    /\ s[j].do \in {"halt", "hangup", "stop", "try", "put"}
    /\ s[j].do = "try" => s[j].what # SendThread
    /\ s[j].do = "put" => \A t \in ThreadsOf(c) : Stop(t) \in P \/ Before(s, j, Stop(t))
    /\ s[j].do = "stop" /\ s[j].what[1] # "connect" =>
          \A i \in 1 .. NPath(c) : Stop(<<"connect", i>>) \in P \/ Before(s, j, Stop(<<"connect", i>>))

StopPart(c, s, P) == \A j \in DOMAIN s : StopStep(c, s, P, j)

LEMMA StopParts ==
    ASSUME NEW c, NEW u \in Seq(Steps), NEW v \in Seq(Steps), StopPart(c, u, {}), StopPart(c, v, SetOf(u))
    PROVE  StopPart(c, u \o v, {})
<1> DEFINE s == u \o v
<1>1. \A j \in DOMAIN s :
         \/ /\ j \in DOMAIN u /\ s[j] = u[j]
            /\ \A x : Before(u, j, x) => Before(s, j, x)
         \/ \E i \in DOMAIN v :
              /\ s[j] = v[i]
              /\ \A x : x \in SetOf(u) \/ Before(v, i, x) => Before(s, j, x)
  BY Appended, Zenon
<1> HIDE DEF s
<1> SUFFICES ASSUME NEW j \in DOMAIN s PROVE StopStep(c, s, {}, j)
  BY Zenon DEF StopPart, s
<1>2. CASE j \in DOMAIN u /\ s[j] = u[j] /\ \A x : Before(u, j, x) => Before(s, j, x)
  <2>1. StopStep(c, u, {}, j)
    BY <1>2, Zenon DEF StopPart
  <2> QED BY <1>2, <2>1, Zenon DEF StopStep
<1>3. ASSUME NEW i \in DOMAIN v, s[j] = v[i], \A x : x \in SetOf(u) \/ Before(v, i, x) => Before(s, j, x)
      PROVE  StopStep(c, s, {}, j)
  <2>1. StopStep(c, v, SetOf(u), i)
    BY Zenon DEF StopPart
  <2> QED BY <1>3, <2>1, Zenon DEF StopStep
<1> QED BY <1>1, <1>2, <1>3, Zenon

LEMMA StopPartFrom ==
    ASSUME NEW c, NEW s, StopPart(c, s, {}), NEW P
    PROVE  StopPart(c, s, P)
  BY Zenon DEF StopPart, StopStep

LEMMA TcpLocks ==
    ASSUME NEW c, Tcp(c), NEW t
    PROVE  LocksOf(c, t) = IF t = SendThread THEN {SendLock} ELSE {}
  BY Zenon DEF LocksOf

\* potr_internal_connect_thread_stop stops every thread of the service.
LEMMA ConnectStopSteps ==
    ASSUME NEW c \in Confs, Tcp(c)
    PROVE  LET s == ConnectStop(c)
           IN  /\ s \in Seq(Steps) /\ StopPart(c, s, {})
               /\ \A t \in ThreadsOf(c) : Stop(t) \in SetOf(s)
               /\ Put(SetOf(ConnectResources(c))) \in SetOf(s)
<1> DEFINE n == NPath(c)
           W == SetOf(ConnectResources(c))
           kind(k) == IF k % 2 = 1 THEN "recv" ELSE "health"
           path(k) == (k + 1) \div 2
           a == <<Halt, Hangup>>
           con == [i \in 1 .. n |-> Stop(<<"connect", i>>)]
           oth == [k \in 1 .. 2 * n |-> Stop(<<kind(k), path(k)>>)]
           b == <<Stop(SendThread), Put(W)>>
<1>1. n \in Nat /\ 2 * n \in Nat
  BY PathCount
<1>2. W \subseteq Names
  BY ConnectNames, GetAllSteps
<1>3. ConnectStop(c) = ((a \o con) \o oth) \o b
  BY Zenon DEF ConnectStop
<1> HIDE DEF W, n
<1>4. /\ Halt \in Steps /\ Hangup \in Steps /\ Stop(SendThread) \in Steps /\ Put(W) \in Steps
      /\ Halt.do = "halt" /\ Hangup.do = "hangup" /\ Stop(SendThread).do = "stop" /\ Put(W).do = "put"
  BY <1>2, Zenon DEF Halt, Hangup, Stop, Put, Steps, Names, Labels, SendThread
<1>5. /\ a \in Seq(Steps) /\ DOMAIN a = 1 .. 2 /\ a[1] = Halt /\ a[2] = Hangup
      /\ b \in Seq(Steps) /\ DOMAIN b = 1 .. 2 /\ b[1] = Stop(SendThread) /\ b[2] = Put(W)
  BY <1>4
<1>6. ASSUME NEW k \in 1 .. 2 * n
      PROVE  kind(k) \in {"recv", "health"} /\ path(k) \in 1 .. n
  <2>1. k \in Nat /\ k >= 1 /\ k <= 2 * n
    BY <1>1
  <2>2. path(k) \in 1 .. n
    BY <1>1, <2>1
  <2> QED BY <2>2, Zenon
<1>7. ASSUME NEW i \in 1 .. n
      PROVE  \E j, k \in 1 .. 2 * n : kind(j) = "recv" /\ path(j) = i /\ kind(k) = "health" /\ path(k) = i
  <2>1. i \in Nat /\ i >= 1 /\ i <= n
    BY <1>1
  <2> DEFINE p == 2 * i - 1
             q == 2 * i
  <2>2. p \in 1 .. 2 * n /\ q \in 1 .. 2 * n
    BY <1>1, <2>1
  <2>3. p % 2 = 1 /\ q % 2 = 0 /\ path(p) = i /\ path(q) = i
    BY <2>1
  <2>4. kind(p) = "recv" /\ kind(q) = "health"
    BY <2>3
  <2> HIDE DEF p, q
  <2> QED BY <2>2, <2>3, <2>4, Zenon
<1> HIDE DEF kind, path
<1>8. ASSUME NEW name \in {"recv", "health", "connect"}, NEW i \in 1 .. n
      PROVE  /\ Stop(<<name, i>>) \in Steps /\ Stop(<<name, i>>).do = "stop"
             /\ Stop(<<name, i>>).what = <<name, i>>
  <2>1. i \in Nat
    BY <1>1
  <2>2. <<name, i>> \in Names
    BY <2>1, Zenon DEF Names, Labels
  <2> QED BY <2>2, Zenon DEF Stop, Steps
<1>9. /\ con = [i \in 1 .. n |-> con[i]]
      /\ \A i \in 1 .. n : con[i] = Stop(<<"connect", i>>)
  BY Zenon
<1>10. /\ oth = [k \in 1 .. 2 * n |-> oth[k]]
       /\ \A k \in 1 .. 2 * n : oth[k] = Stop(<<kind(k), path(k)>>)
  BY Zenon
<1> HIDE DEF a, b, con, oth
<1>11. con \in Seq(Steps) /\ DOMAIN con = 1 .. n
  <2>1. \A i \in 1 .. n : con[i] \in Steps
    BY <1>8, <1>9, Zenon
  <2>2. con = [i \in 1 .. n |-> con[i]] /\ n \in Nat
    BY <1>1, <1>9, Zenon
  <2> QED BY <2>1, <2>2, Tabled, Zenon
<1>12. oth \in Seq(Steps) /\ DOMAIN oth = 1 .. 2 * n
  <2>1. \A i \in 1 .. 2 * n : oth[i] \in Steps
    BY <1>6, <1>8, <1>10, Zenon
  <2> DEFINE m == 2 * n
  <2>2. oth = [i \in 1 .. m |-> oth[i]] /\ m \in Nat /\ \A i \in 1 .. m : oth[i] \in Steps
    BY <1>1, <1>10, <2>1, Zenon
  <2> HIDE DEF m
  <2>3. oth \in Seq(Steps) /\ DOMAIN oth = 1 .. m
    BY <2>2, Tabled, Zenon
  <2> QED BY <2>3, Zenon DEF m
<1>13. \A i \in 1 .. n : Stop(<<"connect", i>>) \in SetOf(con)
  BY <1>9, <1>11, Zenon DEF SetOf
<1>14. \A i \in 1 .. n : Stop(<<"recv", i>>) \in SetOf(oth) /\ Stop(<<"health", i>>) \in SetOf(oth)
  <2> SUFFICES ASSUME NEW i \in 1 .. n
               PROVE  Stop(<<"recv", i>>) \in SetOf(oth) /\ Stop(<<"health", i>>) \in SetOf(oth)
    BY Zenon
  <2>1. PICK j, k \in 1 .. 2 * n : kind(j) = "recv" /\ path(j) = i /\ kind(k) = "health" /\ path(k) = i
    BY <1>7
  <2>2. oth[j] = Stop(<<"recv", i>>) /\ oth[k] = Stop(<<"health", i>>)
    BY <1>10, <2>1, Zenon
  <2> QED BY <1>12, <2>2, Zenon DEF SetOf
<1>15. Stop(SendThread) \in SetOf(b) /\ Put(W) \in SetOf(b)
  BY <1>5 DEF SetOf
<1> DEFINE p1 == a \o con
           p2 == p1 \o oth
           p3 == p2 \o b
<1>16. p1 \in Seq(Steps) /\ SetOf(p1) = SetOf(a) \cup SetOf(con) /\ StopPart(c, p1, {})
  <2>1. StopPart(c, a, {})
    BY <1>4, <1>5 DEF StopPart, StopStep
  <2>2. StopPart(c, con, SetOf(a))
    <3>1. \A i \in DOMAIN con : con[i].do = "stop" /\ con[i].what[1] = "connect"
      <4>1. \A i \in 1 .. n : con[i].do = "stop" /\ con[i].what = <<"connect", i>>
        BY <1>9 DEF Stop
      <4> QED BY <1>11, <4>1
    <3> QED BY <3>1, Zenon DEF StopPart, StopStep
  <2>3. StopPart(c, p1, {})
    BY <1>5, <1>11, <2>1, <2>2, StopParts, Zenon
  <2> QED BY <1>5, <1>11, <2>3, Appended, Zenon
<1> HIDE DEF p1
<1>17. p2 \in Seq(Steps) /\ SetOf(p2) = SetOf(p1) \cup SetOf(oth) /\ StopPart(c, p2, {})
  <2>1. StopPart(c, oth, SetOf(p1))
    <3>1. \A i \in DOMAIN oth : oth[i].do = "stop"
      BY <1>6, <1>8, <1>10, <1>12, ZenonT(30)
    <3>2. \A i \in 1 .. NPath(c) : Stop(<<"connect", i>>) \in SetOf(p1)
      BY <1>13, <1>16, Zenon DEF n
    <3> QED BY <3>1, <3>2, Zenon DEF StopPart, StopStep
  <2>2. StopPart(c, p2, {})
    BY <1>12, <1>16, <2>1, StopParts, Zenon
  <2> QED BY <1>12, <1>16, <2>2, Appended, Zenon
<1> HIDE DEF p2
<1>18. p3 \in Seq(Steps) /\ SetOf(p3) = SetOf(p2) \cup SetOf(b) /\ StopPart(c, p3, {})
  <2>1. StopPart(c, b, SetOf(p2))
    <3>1. \A i \in 1 .. NPath(c) : Stop(<<"connect", i>>) \in SetOf(p2)
      BY <1>13, <1>16, <1>17, Zenon DEF n
    <3>2. ASSUME NEW t \in ThreadsOf(c) PROVE Stop(t) \in SetOf(p2) \/ Before(b, 2, Stop(t))
      <4>1. CASE t = SendThread
        BY <1>5, <4>1 DEF Before
      <4>2. CASE t \in {"recv", "health", "connect"} \X (1 .. NPath(c))
        <5>1. PICK i \in 1 .. n : t = <<"recv", i>> \/ t = <<"health", i>> \/ t = <<"connect", i>>
          BY <4>2 DEF n
        <5> QED BY <1>13, <1>14, <1>16, <1>17, <5>1, Zenon
      <4> QED BY <4>1, <4>2, Zenon DEF ThreadsOf
    <3>3. StopStep(c, b, SetOf(p2), 1)
      BY <1>4, <1>5, <3>1, Zenon DEF StopStep
    <3>4. StopStep(c, b, SetOf(p2), 2)
      BY <1>4, <1>5, <3>2, Zenon DEF StopStep
    <3> QED BY <1>5, <3>3, <3>4 DEF StopPart
  <2>2. StopPart(c, p3, {})
    BY <1>5, <1>17, <2>1, StopParts, Zenon
  <2> QED BY <1>5, <1>17, <2>2, Appended, Zenon
<1> HIDE DEF p3
<1>19. \A t \in ThreadsOf(c) : Stop(t) \in SetOf(p3)
  <2> SUFFICES ASSUME NEW t \in ThreadsOf(c) PROVE Stop(t) \in SetOf(p3)
    BY Zenon
  <2>1. CASE t = SendThread
    BY <1>15, <1>18, <2>1, Zenon
  <2>2. CASE t \in {"recv", "health", "connect"} \X (1 .. NPath(c))
    <3>1. PICK i \in 1 .. n : t = <<"recv", i>> \/ t = <<"health", i>> \/ t = <<"connect", i>>
      BY <2>2 DEF n
    <3> QED BY <1>13, <1>14, <1>16, <1>17, <1>18, <3>1, Zenon
  <2> QED BY <2>1, <2>2, Zenon DEF ThreadsOf
<1>20. ConnectStop(c) = p3 /\ Put(W) \in SetOf(p3)
  BY <1>3, <1>15, <1>18, Zenon DEF p1, p2, p3
<1> QED BY <1>18, <1>19, <1>20, Zenon DEF W

\* Once the threads are stopped, the rest may be given back.
LEMMA TcpEnds ==
    ASSUME NEW c \in Confs, Tcp(c), NEW u \in Seq(Steps), \A j \in DOMAIN u : u[j].do # "free",
           NEW L, L \subseteq ThreadsOf(c),
           L # {} => StopPart(c, u, {}) /\ \A t \in ThreadsOf(c) : Stop(t) \in SetOf(u)
    PROVE  LET s == u \o <<Put({SendQueue}), Put(SetOf(TcpSync)), Free>>
           IN  /\ s \in Seq(Steps) /\ EndPlan(c, s, L) /\ SetOf(u) \subseteq SetOf(s)
               /\ Put({SendQueue}) \in SetOf(s) /\ Put(SetOf(TcpSync)) \in SetOf(s)
<1> DEFINE W == SetOf(TcpSync)
           v == <<Put({SendQueue}), Put(W), Free>>
           s == u \o v
<1>1. W \subseteq Names
  BY SyncNames, GetAllSteps, Zenon
<1> HIDE DEF W
<1>2. /\ Put({SendQueue}) \in Steps /\ Put(W) \in Steps /\ Free \in Steps
      /\ Put({SendQueue}).do = "put" /\ Put(W).do = "put" /\ Free.do = "free"
  BY <1>1 DEF Put, Free, Steps, Names, Labels, SendQueue, One
<1>3. /\ v \in Seq(Steps) /\ DOMAIN v = 1 .. 3 /\ Len(v) = 3
      /\ v[1] = Put({SendQueue}) /\ v[2] = Put(W) /\ v[3] = Free
  BY <1>2
<1> HIDE DEF v
<1>4. Put({SendQueue}) \in SetOf(v) /\ Put(W) \in SetOf(v)
  BY <1>3 DEF SetOf
<1>5. v \in Seq(Steps)
  BY <1>3, Zenon
<1>6. /\ s \in Seq(Steps) /\ Len(s) = Len(u) + Len(v) /\ Len(u) \in Nat /\ Len(v) \in Nat
      /\ SetOf(s) = SetOf(u) \cup SetOf(v)
      /\ \A j \in DOMAIN s :
           \/ /\ j \in DOMAIN u /\ s[j] = u[j] /\ j <= Len(u)
              /\ \A x : Before(u, j, x) => Before(s, j, x)
           \/ \E i \in DOMAIN v :
                /\ j = Len(u) + i /\ s[j] = v[i]
                /\ \A x : x \in SetOf(u) \/ Before(v, i, x) => Before(s, j, x)
  BY <1>5, Appended, Zenon
<1> HIDE DEF s
<1>7. Connects(L) \subseteq 1 .. NPath(c)
  BY Zenon DEF Connects, ThreadsOf, SendThread
<1>8. \A t \in ThreadsOf(c) : MayRun(t, L) => L # {}
  BY Zenon DEF MayRun, Connects
<1>9. ASSUME NEW j \in DOMAIN s, j \in DOMAIN u, s[j] = u[j], j <= Len(u),
             \A x : Before(u, j, x) => Before(s, j, x)
      PROVE  EndStep(c, s, L, j)
  <2>1. L # {} => StopStep(c, u, {}, j)
    BY <1>9, Zenon DEF StopPart
  <2>2. s[j].do # "free" /\ j # Len(s)
    BY <1>3, <1>6, <1>9
  <2>3. ASSUME NEW t \in ThreadsOf(c), MayRun(t, L), s[j] # Stop(t), Gives(c, s[j]) \cap Needs(c, t) # {}
        PROVE  Before(s, j, Stop(t))
    <3>1. StopStep(c, u, {}, j)
      BY <1>8, <2>1, <2>3, Zenon
    <3>2. CASE s[j].do = "put"
      BY <1>9, <3>1, <3>2, Zenon DEF StopStep
    <3>3. s[j].do \notin {"halt", "hangup"}
      BY <2>3, Zenon DEF Gives
    <3>4. CASE s[j].do \in {"stop", "try"}
      <4>1. Gives(c, s[j]) = LocksOf(c, s[j].what)
        BY <3>4, Zenon DEF Gives
      <4>2. s[j].what = SendThread /\ SendLock \in Needs(c, t)
        BY <2>3, <4>1, TcpLocks
      <4>3. t = SendThread
        BY <4>2, TcpNeeds, Zenon
      <4>4. s[j].do = "stop"
        BY <1>9, <3>1, <3>4, <4>2, Zenon DEF StopStep
      <4>5. s[j] \in Steps
        <5>1. s \in Seq(Steps)
          BY <1>6, Zenon
        <5> QED BY <5>1
      <4>6. s[j] = Stop(SendThread)
        BY <4>2, <4>4, <4>5, Zenon DEF Steps, Stop
      <4> QED BY <2>3, <4>3, <4>6, Zenon
    <3> QED BY <1>9, <3>1, <3>2, <3>3, <3>4, Zenon DEF StopStep
  <2>4. ASSUME s[j].do = "stop", s[j].what[1] # "connect", NEW i \in Connects(L)
        PROVE  Before(s, j, Stop(<<"connect", i>>))
    <3>1. StopStep(c, u, {}, j)
      BY <2>1, <2>4, Zenon DEF Connects
    <3> QED BY <1>7, <1>9, <2>4, <3>1, Zenon DEF StopStep
  <2> QED BY <2>2, <2>3, <2>4, Zenon DEF EndStep, Before
<1>10. ASSUME NEW j \in DOMAIN s, NEW i \in DOMAIN v, j = Len(u) + i, s[j] = v[i],
              \A x : x \in SetOf(u) \/ Before(v, i, x) => Before(s, j, x)
       PROVE  EndStep(c, s, L, j)
  <2>1. s[j].do # "stop" /\ (s[j].do = "free" <=> i = 3)
    BY <1>2, <1>3, <1>10, SMTT(20)
  <2>2. i = 3 <=> j = Len(s)
    <3>1. j = Len(u) + i /\ Len(s) = Len(u) + 3 /\ Len(u) \in Nat /\ i \in 1 .. 3
      BY <1>3, <1>6, <1>10, Zenon
    <3> QED BY <3>1
  <2>3. ASSUME NEW t \in ThreadsOf(c), MayRun(t, L)
        PROVE  Before(s, j, Stop(t))
    BY <1>8, <1>10, <2>3, Zenon
  <2> QED BY <2>1, <2>2, <2>3, Zenon DEF EndStep, Before
<1>11. \A j \in DOMAIN s : EndStep(c, s, L, j)
  BY <1>6, <1>9, <1>10, Zenon
<1>12. s # << >>
  BY <1>3, <1>6
<1> QED BY <1>4, <1>6, <1>11, <1>12, Zenon DEF EndPlan, s, v, W

\* What a step of the sequence gives back.
LEMMA PutInPlan ==
    ASSUME NEW s, NEW X, Put(X) \in SetOf(s)
    PROVE  \A r \in X : \E j \in DOMAIN s : s[j].do = "put" /\ r \in s[j].what
  BY DEF SetOf, Put

LEMMA TcpUndo ==
    ASSUME NEW c \in Confs, Tcp(c), NEW step, NEW L, L \subseteq ThreadsOf(c), step.do = "run" \/ L = {}
    PROVE  LET s == TcpRollback(c, step)
           IN  /\ s \in Seq(Steps) /\ EndPlan(c, s, L)
               /\ \A r \in {SendQueue} \cup SetOf(TcpSync) \cup SetOf(ConnectResources(c)) :
                     \E j \in DOMAIN s : s[j].do = "put" /\ r \in s[j].what
<1> DEFINE W == SetOf(ConnectResources(c))
           u == IF step.do = "run" THEN ConnectStop(c) ELSE <<Put(W)>>
           s == u \o <<Put({SendQueue}), Put(SetOf(TcpSync)), Free>>
<1>1. TcpRollback(c, step) = s
  BY Zenon DEF TcpRollback
<1>2. /\ u \in Seq(Steps) /\ Put(W) \in SetOf(u) /\ \A j \in DOMAIN u : u[j].do # "free"
      /\ L # {} => StopPart(c, u, {}) /\ \A t \in ThreadsOf(c) : Stop(t) \in SetOf(u)
  <2>1. CASE step.do = "run"
    <3>1. u = ConnectStop(c)
      BY <2>1, Zenon
    <3> HIDE DEF u
    <3>2. /\ u \in Seq(Steps) /\ StopPart(c, u, {}) /\ Put(W) \in SetOf(u)
          /\ \A t \in ThreadsOf(c) : Stop(t) \in SetOf(u)
      BY <3>1, ConnectStopSteps, Zenon
    <3>3. \A j \in DOMAIN u : u[j].do # "free"
      BY <3>2, Zenon DEF StopPart, StopStep
    <3> QED BY <3>2, <3>3, Zenon
  <2>2. CASE step.do # "run"
    <3>1. u = <<Put(W)>> /\ L = {}
      BY <2>2, Zenon
    <3>2. W \subseteq Names
      BY ConnectNames, GetAllSteps, Zenon
    <3> HIDE DEF W, u
    <3>3. Put(W) \in Steps /\ Put(W).do = "put"
      BY <3>2, Zenon DEF Put, Steps
    <3>4. u \in Seq(Steps) /\ DOMAIN u = {1} /\ u[1] = Put(W)
      BY <3>1, <3>3
    <3>5. Put(W) \in SetOf(u)
      BY <3>4, Zenon DEF SetOf
    <3> QED BY <3>1, <3>3, <3>4, <3>5, Zenon
  <2> QED BY <2>1, <2>2, Zenon
<1> HIDE DEF u
<1>3. /\ s \in Seq(Steps) /\ EndPlan(c, s, L) /\ SetOf(u) \subseteq SetOf(s)
      /\ Put({SendQueue}) \in SetOf(s) /\ Put(SetOf(TcpSync)) \in SetOf(s)
  BY <1>2, TcpEnds, Zenon
<1> HIDE DEF s
<1>4. Put(W) \in SetOf(s)
  BY <1>2, <1>3, Zenon
<1>5. \A r \in {SendQueue} \cup SetOf(TcpSync) \cup W :
         \E j \in DOMAIN s : s[j].do = "put" /\ r \in s[j].what
  BY <1>3, <1>4, PutInPlan, Zenon
<1> QED BY <1>1, <1>3, <1>5, Zenon

LEMMA TcpClose ==
    ASSUME NEW c \in Confs, Tcp(c), NEW sending \in BOOLEAN, NEW L, L \subseteq ThreadsOf(c)
    PROVE  LET s == CloseTcp(c, sending)
           IN  /\ s \in Seq(Steps) /\ EndPlan(c, s, L)
               /\ \A r \in {SendQueue} \cup SetOf(TcpSync) \cup SetOf(ConnectResources(c)) :
                     \E j \in DOMAIN s : s[j].do = "put" /\ r \in s[j].what
<1> DEFINE W == SetOf(ConnectResources(c))
           a == IF sending THEN [i \in 1 .. NPath(c) |-> Try(<<"health", i>>)] ELSE << >>
           b == ConnectStop(c)
           u == a \o b
           s == u \o <<Put({SendQueue}), Put(SetOf(TcpSync)), Free>>
<1>1. CloseTcp(c, sending) = s
  BY Zenon DEF CloseTcp
<1>2. a \in Seq(Steps) /\ StopPart(c, a, {})
  <2>1. CASE sending
    <3>1. /\ a = [i \in 1 .. NPath(c) |-> a[i]]
          /\ \A i \in 1 .. NPath(c) : a[i] = Try(<<"health", i>>)
      BY <2>1, Zenon
    <3> HIDE DEF a
    <3>2. NPath(c) \in Nat
      BY PathCount, Zenon
    <3>3. ASSUME NEW i \in 1 .. NPath(c)
          PROVE  a[i] \in Steps /\ a[i].do = "try" /\ a[i].what = <<"health", i>>
      <4>1. i \in Nat
        BY <3>2
      <4>2. <<"health", i>> \in Names
        BY <4>1, Zenon DEF Names, Labels
      <4> QED BY <3>1, <4>2 DEF Try, Steps
    <3>4. a = [i \in 1 .. NPath(c) |-> a[i]] /\ \A i \in 1 .. NPath(c) : a[i] \in Steps
      BY <3>1, <3>3, Zenon
    <3>5. a \in Seq(Steps) /\ DOMAIN a = 1 .. NPath(c)
      BY <3>2, <3>4, Tabled, Zenon
    <3>6. \A i \in DOMAIN a : a[i].do = "try" /\ a[i].what # SendThread
      BY <3>3, <3>5 DEF SendThread
    <3> QED BY <3>5, <3>6, Zenon DEF StopPart, StopStep
  <2>2. CASE ~sending
    <3>1. a = << >>
      BY <2>2, Zenon
    <3> HIDE DEF a
    <3> QED BY <3>1 DEF StopPart
  <2> QED BY <2>1, <2>2, Zenon
<1>3. /\ b \in Seq(Steps) /\ StopPart(c, b, {}) /\ Put(W) \in SetOf(b)
      /\ \A t \in ThreadsOf(c) : Stop(t) \in SetOf(b)
  BY ConnectStopSteps, Zenon
<1> HIDE DEF a, b
<1>4. StopPart(c, b, SetOf(a))
  BY <1>3, StopPartFrom, Zenon
<1>5. u \in Seq(Steps) /\ SetOf(u) = SetOf(a) \cup SetOf(b)
  BY <1>2, <1>3, Appended, Zenon
<1>6. StopPart(c, u, {})
  BY <1>2, <1>3, <1>4, StopParts, Zenon
<1> HIDE DEF u
<1>7. \A j \in DOMAIN u : u[j].do # "free"
  BY <1>6, Zenon DEF StopPart, StopStep
<1>8. \A t \in ThreadsOf(c) : Stop(t) \in SetOf(u)
  BY <1>3, <1>5, Zenon
<1>9. /\ s \in Seq(Steps) /\ EndPlan(c, s, L) /\ SetOf(u) \subseteq SetOf(s)
      /\ Put({SendQueue}) \in SetOf(s) /\ Put(SetOf(TcpSync)) \in SetOf(s)
  BY <1>5, <1>6, <1>7, <1>8, TcpEnds, Zenon
<1> HIDE DEF s
<1>10. Put(W) \in SetOf(s)
  BY <1>3, <1>5, <1>9, Zenon
<1>11. \A r \in {SendQueue} \cup SetOf(TcpSync) \cup W :
         \E j \in DOMAIN s : s[j].do = "put" /\ r \in s[j].what
  BY <1>9, <1>10, PutInPlan, Zenon
<1> QED BY <1>1, <1>9, <1>11, Zenon

-----------------------------------------------------------------------------
\* The invariant

Typed ==
    /\ conf \in Confs /\ at \in Places /\ closing \in BOOLEAN /\ halted \in BOOLEAN
    /\ plan \in Seq(Steps) /\ res \subseteq Resources
    /\ link \in [Paths -> LinkPoints] /\ started \in BOOLEAN
    /\ conn \subseteq Paths /\ rx \subseteq Paths

\* A thread has what it needs, and the threads that a connect thread starts
\* do not outlive the handle of that connect thread unnoticed.
ThreadInv ==
    /\ live \subseteq ThreadsOf(conf)
    /\ \A t \in live : Needs(conf, t) \subseteq res
    /\ \A i \in Paths : link[i] \notin {"none", "exited"} => <<"connect", i>> \in live
    /\ \A i \in rx : Tcp(conf) /\ <<"recv", i>> \in live

\* While a service is opened, a failed step can be undone.
OpenInv ==
    at = "opening" =>
    /\ plan # << >> /\ OpenPlan(conf, plan, res)
    /\ Tcp(conf) => plan[1].do = "run" \/ live = {}
    /\ ~Tcp(conf) => /\ RecvThread \notin live
                     /\ \A t \in live : \A j \in DOMAIN plan : OwnLocks(plan[j]) \cap Needs(conf, t) = {}

EndInv ==
    Ending => EndPlan(conf, plan, live) /\ Covered(conf, plan, res, live)

\* What is held can be given back.
Held ==
    at \in {"opening", "open", "closing", "kept"} =>
    \A r \in res : \/ r \in Owned(conf)
                   \/ \E t \in live : r \in LocksOf(conf, t)
                   \/ at = "opening" /\ ~Tcp(conf) /\ r \in OwnLocks(plan[1])

FinalInv == at \in {"failed", "closed", "kept"} => live # {} \/ (res = {} /\ conn = {})

LifeInv == Typed /\ ThreadInv /\ OpenInv /\ EndInv /\ Held /\ FinalInv

LEMMA ResourceNames ==
    ASSUME NEW c \in Confs
    PROVE  /\ Owned(c) \subseteq Resources /\ \A step : OwnLocks(step) \subseteq Resources \cap Names
           /\ SendLock \in Resources
<1>1. SetOf(HealthLocks) \subseteq SetOf(TcpSync) /\ HealthLocks[1] \in SetOf(HealthLocks)
  <2>1. 1 \in Paths
    BY OpeningAssumption DEF Paths
  <2> QED BY <2>1, HealthLockNames, SyncNames, Zenon
<1>2. Owned(c) \subseteq Resources
  BY DEF Owned, Resources
<1>3. SetOf(HealthLocks) \cup {SendLock} \subseteq Resources
  BY <1>1, Zenon DEF Resources
<1>4. SetOf(HealthLocks) \cup {SendLock} \subseteq Names
  BY HealthLockNames DEF SendLock, One, Names, Labels
<1>5. \A step : OwnLocks(step) \subseteq SetOf(HealthLocks) \cup {SendLock}
  BY <1>1, Zenon DEF OwnLocks
<1> QED BY <1>2, <1>3, <1>4, <1>5, Zenon

LEMMA InitLife ==
    ASSUME Init
    PROVE  LifeInv
<1>1. conf \in Confs /\ plan = OpenSteps(conf) /\ at = "opening" /\ res = {} /\ live = {}
      /\ conn = {} /\ rx = {}
  BY Zenon DEF Init
<1>2. plan \in Seq(Steps) /\ plan # << >> /\ OpenPlan(conf, plan, res)
  BY <1>1, OpenStarts, Zenon
<1>3. Typed
  BY <1>2, Zenon DEF Init, Typed, Places, Calls, LinkPoints, Starting
<1>4. ThreadInv
  BY Zenon DEF Init, ThreadInv
<1>5. OpenInv
  BY <1>1, <1>2, Zenon DEF OpenInv
<1>6. EndInv /\ Held /\ FinalInv
  BY <1>1, Zenon DEF EndInv, Ending, Held, FinalInv
<1> QED BY <1>3, <1>4, <1>5, <1>6, Zenon DEF LifeInv

\* The first step of an opening.
LEMMA OpenHead ==
    ASSUME LifeInv, at = "opening"
    PROVE  /\ conf \in Confs /\ plan \in Seq(Steps) /\ plan # << >> /\ Head(plan) = plan[1]
           /\ OpenStep(conf, plan, res, 1) /\ OpenPlan(conf, plan, res)
           /\ Tail(plan) \in Seq(Steps) /\ Len(plan) \in Nat /\ Len(plan) >= 1
           /\ DOMAIN plan = 1 .. Len(plan)
           /\ (Len(plan) > 1 <=> 2 \in DOMAIN plan) /\ (Len(plan) > 1 <=> Tail(plan) # << >>)
           /\ Len(plan) > 1 => Tail(plan)[1] = plan[2]
           /\ \A j \in DOMAIN Tail(plan) : j + 1 \in DOMAIN plan /\ j + 1 > 1 /\ Tail(plan)[j] = plan[j + 1]
<1>1. conf \in Confs /\ plan \in Seq(Steps) /\ plan # << >> /\ OpenPlan(conf, plan, res)
  BY Zenon DEF LifeInv, Typed, OpenInv
<1>2. /\ Tail(plan) \in Seq(Steps) /\ Len(Tail(plan)) = Len(plan) - 1 /\ Len(plan) \in Nat /\ Len(plan) > 0
      /\ DOMAIN plan = 1 .. Len(plan) /\ DOMAIN Tail(plan) = 1 .. Len(plan) - 1
      /\ Head(plan) = plan[1] /\ 1 \in DOMAIN plan
      /\ \A i \in 1 .. Len(plan) - 1 : Tail(plan)[i] = plan[i + 1] /\ i + 1 \in DOMAIN plan
  BY <1>1, Tailed, Zenon
<1>3. OpenStep(conf, plan, res, 1)
  BY <1>1, <1>2, Zenon DEF OpenPlan
<1> DEFINE u == Tail(plan)
<1> HIDE DEF u
<1>4. /\ u \in Seq(Steps) /\ Len(u) = Len(plan) - 1 /\ DOMAIN u = 1 .. Len(plan) - 1
      /\ \A i \in 1 .. Len(plan) - 1 : u[i] = plan[i + 1] /\ i + 1 \in DOMAIN plan
  BY <1>2 DEF u
<1>5. (Len(plan) > 1 <=> 2 \in DOMAIN plan) /\ (Len(plan) > 1 <=> u # << >>)
  BY <1>2, <1>4
<1>6. Len(plan) > 1 => u[1] = plan[2]
  <2> SUFFICES ASSUME Len(plan) > 1 PROVE u[1] = plan[2]
    BY Zenon
  <2>1. 1 \in 1 .. Len(plan) - 1 /\ 1 + 1 = 2
    BY <1>2
  <2> QED BY <1>4, <2>1, Zenon
<1>7. \A j \in DOMAIN u : j + 1 \in DOMAIN plan /\ j + 1 > 1 /\ u[j] = plan[j + 1]
  BY <1>2, <1>4
<1>8. Len(plan) >= 1
  BY <1>2
<1> QED BY <1>1, <1>2, <1>3, <1>5, <1>6, <1>7, <1>8, Zenon DEF u

LEMMA AcquireLife ==
    ASSUME LifeInv, Acquire
    PROVE  LifeInv'
<1>1. /\ at = "opening" /\ Head(plan).do \in {"get", "check"}
      /\ res' = IF Head(plan).do = "get" THEN res \cup {Head(plan).what} ELSE res
      /\ plan' = Tail(plan) /\ at' = (IF Len(plan) > 1 THEN at ELSE "open")
      /\ conf' = conf /\ live' = live /\ closing' = closing /\ halted' = halted
      /\ link' = link /\ started' = started /\ conn' = conn /\ rx' = rx
  BY Zenon DEF Acquire, Proceed, paths
<1>2. /\ conf \in Confs /\ plan \in Seq(Steps) /\ plan # << >> /\ Head(plan) = plan[1]
      /\ OpenStep(conf, plan, res, 1) /\ OpenPlan(conf, plan, res)
      /\ Tail(plan) \in Seq(Steps) /\ Len(plan) \in Nat /\ Len(plan) >= 1
      /\ (Len(plan) > 1 <=> 2 \in DOMAIN plan) /\ (Len(plan) > 1 <=> Tail(plan) # << >>)
      /\ Len(plan) > 1 => Tail(plan)[1] = plan[2]
      /\ \A j \in DOMAIN Tail(plan) : j + 1 \in DOMAIN plan /\ j + 1 > 1 /\ Tail(plan)[j] = plan[j + 1]
  BY <1>1, OpenHead, Zenon
<1>3. res \subseteq res' /\ (plan[1].do = "get" => plan[1].what \in res') /\ plan[1].do # "run"
      /\ \A r \in res' : r \in res \/ (plan[1].do = "get" /\ r = plan[1].what)
  BY <1>1, <1>2, Zenon
<1>4. plan[1].do = "get" =>
         \/ plan[1].what \in Owned(conf)
         \/ ~Tcp(conf) /\ 1 + 1 \in DOMAIN plan /\ plan[1].what \in OwnLocks(plan[1 + 1])
  BY <1>2, Zenon DEF OpenStep
<1>5. ~Tcp(conf) => \A r \in OwnLocks(plan[1]) : 1 + 1 \in DOMAIN plan /\ r \in OwnLocks(plan[1 + 1])
  BY <1>2, <1>3, Zenon DEF OpenStep
<1>6. Typed'
  <2>1. res' \subseteq Resources
    BY <1>2, <1>3, <1>4, ResourceNames, SMTT(20) DEF LifeInv, Typed
  <2> QED BY <1>1, <1>2, <2>1, Zenon DEF LifeInv, Typed, Places, Calls
<1>7. ThreadInv'
  BY <1>1, <1>3, Zenon DEF LifeInv, ThreadInv
<1>8. OpenInv'
  <2> SUFFICES ASSUME at' = "opening"
               PROVE  /\ plan' # << >> /\ OpenPlan(conf', plan', res')
                      /\ Tcp(conf') => plan'[1].do = "run" \/ live' = {}
                      /\ ~Tcp(conf') => /\ RecvThread \notin live'
                                        /\ \A t \in live' : \A j \in DOMAIN plan' :
                                              OwnLocks(plan'[j]) \cap Needs(conf', t) = {}
    BY Zenon DEF OpenInv
  <2>1. Len(plan) > 1
    BY <1>1, Zenon
  <2>2. OpenPlan(conf, Tail(plan), res')
    BY <1>2, <1>3, OpenPlanTail, Zenon
  <2>3. Tcp(conf) => live = {}
    BY <1>1, <1>3, Zenon DEF LifeInv, OpenInv
  <2>4. ~Tcp(conf) => /\ RecvThread \notin live
                      /\ \A t \in live : \A j \in DOMAIN Tail(plan) :
                            OwnLocks(Tail(plan)[j]) \cap Needs(conf, t) = {}
    BY <1>1, <1>2, Zenon DEF LifeInv, OpenInv
  <2> QED BY <1>1, <1>2, <2>1, <2>2, <2>3, <2>4, Zenon
<1>9. EndInv' /\ FinalInv'
  BY <1>1, Zenon DEF EndInv, Ending, FinalInv
<1>10. Held'
  <2> SUFFICES ASSUME NEW r \in res'
               PROVE  \/ r \in Owned(conf)
                      \/ \E t \in live : r \in LocksOf(conf, t)
                      \/ at' = "opening" /\ ~Tcp(conf) /\ r \in OwnLocks(plan'[1])
    BY <1>1, Zenon DEF Held
  <2>1. 1 + 1 = 2
    OBVIOUS
  <2>2. \/ r \in Owned(conf) \/ \E t \in live : r \in LocksOf(conf, t)
        \/ ~Tcp(conf) /\ 2 \in DOMAIN plan /\ r \in OwnLocks(plan[2])
    BY <1>1, <1>3, <1>4, <1>5, <2>1, Zenon DEF LifeInv, Held
  <2>3. 2 \in DOMAIN plan => at' = "opening" /\ plan'[1] = plan[2]
    BY <1>1, <1>2, Zenon
  <2> QED BY <2>2, <2>3, Zenon
<1> QED BY <1>6, <1>7, <1>8, <1>9, <1>10, Zenon DEF LifeInv

LEMMA StartThreadLife ==
    ASSUME LifeInv, StartThread
    PROVE  LifeInv'
<1> DEFINE t == plan[1].what
<1>1. /\ conf \in Confs /\ plan \in Seq(Steps) /\ plan # << >> /\ Head(plan) = plan[1]
      /\ OpenStep(conf, plan, res, 1) /\ OpenPlan(conf, plan, res)
      /\ Tail(plan) \in Seq(Steps) /\ Len(plan) \in Nat /\ Len(plan) >= 1
      /\ (Len(plan) > 1 <=> 2 \in DOMAIN plan) /\ (Len(plan) > 1 <=> Tail(plan) # << >>)
      /\ Len(plan) > 1 => Tail(plan)[1] = plan[2]
      /\ \A j \in DOMAIN Tail(plan) : j + 1 \in DOMAIN plan /\ j + 1 > 1 /\ Tail(plan)[j] = plan[j + 1]
  BY OpenHead, Zenon DEF StartThread
<1>2. /\ at = "opening" /\ plan[1].do = "run"
      /\ live' = live \cup {t}
      /\ link' = [i \in Paths |-> IF link[i] = "none" /\ <<"connect", i>> \in live' THEN "loop"
                                  ELSE link[i]]
      /\ plan' = Tail(plan) /\ at' = (IF Len(plan) > 1 THEN at ELSE "open")
      /\ conf' = conf /\ res' = res /\ closing' = closing /\ halted' = halted
      /\ started' = started /\ conn' = conn /\ rx' = rx
  BY <1>1, Zenon DEF StartThread, Proceed
<1>3. /\ t \in ThreadsOf(conf)
      /\ \A r \in Needs(conf, t) : r \in res
      /\ Tcp(conf) => \A k \in DOMAIN plan : k > 1 => plan[k].do = "run"
      /\ ~Tcp(conf) => /\ t = RecvThread => 1 = Len(plan)
                       /\ \A k \in DOMAIN plan : k > 1 => OwnLocks(plan[k]) \cap Needs(conf, t) = {}
  <2>1. \A r \in Needs(conf, t) : r \in res \/ \E k \in 1 .. 1 - 1 : plan[k] = Get(r)
    BY <1>1, <1>2, Zenon DEF OpenStep
  <2>2. \A r \in Needs(conf, t) : r \in res
    BY <2>1, SMTT(20)
  <2> QED BY <1>1, <1>2, <2>2, Zenon DEF OpenStep
<1>4. ~Tcp(conf) => \A r \in OwnLocks(plan[1]) :
                       r \in LocksOf(conf, t) \/ (1 + 1 \in DOMAIN plan /\ r \in OwnLocks(plan[1 + 1]))
  BY <1>1, <1>2, Zenon DEF OpenStep
<1> HIDE DEF t
<1>5. Typed'
  <2>1. link' \in [Paths -> LinkPoints]
    BY <1>2, Zenon DEF LifeInv, Typed, LinkPoints
  <2> QED BY <1>1, <1>2, <2>1, Zenon DEF LifeInv, Typed, Places, Calls
<1>6. ThreadInv'
  <2>1. \A i \in Paths : link'[i] \notin {"none", "exited"} => <<"connect", i>> \in live'
    BY <1>2, Zenon DEF LifeInv, ThreadInv
  <2>2. live' \subseteq ThreadsOf(conf) /\ \A x \in live' : Needs(conf, x) \subseteq res
    BY <1>2, <1>3, Zenon DEF LifeInv, ThreadInv
  <2>3. \A i \in rx : Tcp(conf) /\ <<"recv", i>> \in live'
    BY <1>2, Zenon DEF LifeInv, ThreadInv
  <2> QED BY <1>2, <2>1, <2>2, <2>3, Zenon DEF ThreadInv
<1>7. OpenInv'
  <2> SUFFICES ASSUME at' = "opening"
               PROVE  /\ plan' # << >> /\ OpenPlan(conf', plan', res')
                      /\ Tcp(conf') => plan'[1].do = "run" \/ live' = {}
                      /\ ~Tcp(conf') => /\ RecvThread \notin live'
                                        /\ \A x \in live' : \A j \in DOMAIN plan' :
                                              OwnLocks(plan'[j]) \cap Needs(conf', x) = {}
    BY Zenon DEF OpenInv
  <2>1. Len(plan) > 1
    BY <1>2, Zenon
  <2>2. OpenPlan(conf, Tail(plan), res)
    BY <1>1, <1>2, OpenPlanTail, Zenon
  <2>3. Tcp(conf) => Tail(plan)[1].do = "run"
    <3>1. 2 \in DOMAIN plan /\ Tail(plan)[1] = plan[2]
      BY <1>1, <2>1, Zenon
    <3>2. 2 > 1
      OBVIOUS
    <3> QED BY <1>3, <3>1, <3>2, Zenon
  <2>4. ~Tcp(conf) => RecvThread \notin live' /\ t # RecvThread
    <3>1. 1 # Len(plan)
      BY <1>1, <2>1
    <3>2. ~Tcp(conf) => RecvThread \notin live
      BY <1>2, Zenon DEF LifeInv, OpenInv
    <3> QED BY <1>2, <1>3, <3>1, <3>2, Zenon
  <2>5. ~Tcp(conf) => \A x \in live' : \A j \in DOMAIN Tail(plan) :
                            OwnLocks(Tail(plan)[j]) \cap Needs(conf, x) = {}
    BY <1>1, <1>2, <1>3, Zenon DEF LifeInv, OpenInv
  <2> QED BY <1>1, <1>2, <2>1, <2>2, <2>3, <2>4, <2>5, Zenon
<1>8. EndInv' /\ FinalInv'
  BY <1>2, Zenon DEF EndInv, Ending, FinalInv
<1>9. Held'
  <2> SUFFICES ASSUME NEW r \in res
               PROVE  \/ r \in Owned(conf)
                      \/ \E x \in live' : r \in LocksOf(conf, x)
                      \/ at' = "opening" /\ ~Tcp(conf) /\ r \in OwnLocks(plan'[1])
    BY <1>2, Zenon DEF Held
  <2>1. 1 + 1 = 2
    BY SMTT(20)
  <2>2. \/ r \in Owned(conf) \/ \E x \in live' : r \in LocksOf(conf, x)
        \/ ~Tcp(conf) /\ 2 \in DOMAIN plan /\ r \in OwnLocks(plan[2])
    BY <1>2, <1>4, <2>1, Zenon DEF LifeInv, Held
  <2>3. 2 \in DOMAIN plan => at' = "opening" /\ plan'[1] = plan[2]
    BY <1>1, <1>2, Zenon
  <2> QED BY <2>2, <2>3, Zenon
<1> QED BY <1>5, <1>6, <1>7, <1>8, <1>9, Zenon DEF LifeInv

LEMMA OpenFailsLife ==
    ASSUME LifeInv, OpenFails
    PROVE  LifeInv'
<1>1. /\ conf \in Confs /\ Head(plan) = plan[1] /\ live \subseteq ThreadsOf(conf)
      /\ at = "opening"
  BY OpenHead, Zenon DEF OpenFails, LifeInv, ThreadInv
<1>2. /\ at' = "undoing"
      /\ plan' = IF Tcp(conf) THEN TcpRollback(conf, plan[1]) ELSE UdpRollback(conf, plan[1])
      /\ conf' = conf /\ res' = res /\ live' = live /\ closing' = closing /\ halted' = halted
      /\ link' = link /\ started' = started /\ conn' = conn /\ rx' = rx
  BY <1>1, Zenon DEF OpenFails, paths
<1>3. /\ plan' \in Seq(Steps) /\ EndPlan(conf, plan', live)
      /\ \A r \in {SendQueue} \cup (IF Tcp(conf) THEN SetOf(TcpSync) \cup SetOf(ConnectResources(conf))
                                    ELSE OwnLocks(plan[1])) :
            \E j \in DOMAIN plan' : plan'[j].do = "put" /\ r \in plan'[j].what
  <2>1. CASE Tcp(conf)
    <3>1. plan' = TcpRollback(conf, plan[1]) /\ (plan[1].do = "run" \/ live = {})
      BY <1>1, <1>2, <2>1, Zenon DEF LifeInv, OpenInv
    <3> QED BY <1>1, <2>1, <3>1, TcpUndo, Zenon
  <2>2. CASE ~Tcp(conf)
    <3>1. 1 \in DOMAIN plan
      BY <1>1, OpenHead
    <3>2. /\ plan' = UdpRollback(conf, plan[1]) /\ RecvThread \notin live
          /\ \A t \in live : OwnLocks(plan[1]) \cap Needs(conf, t) = {}
      BY <1>1, <1>2, <2>2, <3>1, Zenon DEF LifeInv, OpenInv
    <3>3. OwnLocks(plan[1]) \subseteq Names
      BY <1>1, ResourceNames, Zenon
    <3> QED BY <1>1, <2>2, <3>2, <3>3, UdpUndo, Zenon
  <2> QED BY <2>1, <2>2, Zenon
<1>4. Typed'
  BY <1>2, <1>3, Zenon DEF LifeInv, Typed, Places, Calls
<1>5. ThreadInv'
  BY <1>2, Zenon DEF LifeInv, ThreadInv
<1>6. OpenInv' /\ Held' /\ FinalInv'
  BY <1>2, Zenon DEF OpenInv, Held, FinalInv
<1>7. Covered(conf, plan', res, live)
  <2> SUFFICES ASSUME NEW r \in res
               PROVE  \/ r \in ContextOwns(conf)
                      \/ \E t \in live : r \in LocksOf(conf, t)
                      \/ \E j \in DOMAIN plan' : plan'[j].do = "put" /\ r \in plan'[j].what
    BY Zenon DEF Covered
  <2>1. \/ r \in Owned(conf)
        \/ \E t \in live : r \in LocksOf(conf, t)
        \/ ~Tcp(conf) /\ r \in OwnLocks(plan[1])
    BY <1>1, Zenon DEF LifeInv, Held
  <2> QED BY <1>3, <2>1, Zenon DEF Owned
<1>8. EndInv'
  BY <1>2, <1>3, <1>7, Zenon DEF EndInv
<1> QED BY <1>4, <1>5, <1>6, <1>8, Zenon DEF LifeInv

LEMMA CloseLife ==
    ASSUME LifeInv, Close
    PROVE  LifeInv'
<1>1. /\ conf \in Confs /\ live \subseteq ThreadsOf(conf) /\ at \in {"open", "kept"}
      /\ at' = "closing" /\ closing' = TRUE
      /\ plan' = IF Tcp(conf) THEN CloseTcp(conf, SendThread \in live) ELSE CloseUdp(conf)
      /\ conf' = conf /\ res' = res /\ live' = live /\ halted' = halted
      /\ link' = link /\ started' = started /\ conn' = conn /\ rx' = rx
  BY Zenon DEF Close, paths, LifeInv, Typed, ThreadInv
<1>2. /\ plan' \in Seq(Steps) /\ EndPlan(conf, plan', live)
      /\ \A r \in {SendQueue} \cup (IF Tcp(conf) THEN SetOf(TcpSync) \cup SetOf(ConnectResources(conf)) ELSE {}) :
            \E j \in DOMAIN plan' : plan'[j].do = "put" /\ r \in plan'[j].what
  <2>1. CASE Tcp(conf)
    <3> DEFINE sending == SendThread \in live
    <3>1. plan' = CloseTcp(conf, sending) /\ sending \in BOOLEAN
      BY <1>1, <2>1
    <3> HIDE DEF sending
    <3> QED BY <1>1, <2>1, <3>1, TcpClose, ZenonT(30)
  <2>2. CASE ~Tcp(conf)
    <3>1. plan' = CloseUdp(conf)
      BY <1>1, <2>2, Zenon
    <3> QED BY <1>1, <2>2, <3>1, UdpClose, Zenon
  <2> QED BY <2>1, <2>2, Zenon
<1>3. Typed'
  BY <1>1, <1>2, Zenon DEF LifeInv, Typed, Places, Calls
<1>4. ThreadInv'
  BY <1>1, Zenon DEF LifeInv, ThreadInv
<1>5. OpenInv' /\ Held' /\ FinalInv'
  BY <1>1, Zenon DEF OpenInv, LifeInv, Held, FinalInv
<1>6. Covered(conf, plan', res, live)
  <2> SUFFICES ASSUME NEW r \in res
               PROVE  \/ r \in ContextOwns(conf)
                      \/ \E t \in live : r \in LocksOf(conf, t)
                      \/ \E j \in DOMAIN plan' : plan'[j].do = "put" /\ r \in plan'[j].what
    BY Zenon DEF Covered
  <2>1. r \in Owned(conf) \/ \E t \in live : r \in LocksOf(conf, t)
    BY <1>1, Zenon DEF LifeInv, Held
  <2> QED BY <1>2, <2>1, Zenon DEF Owned
<1>7. EndInv'
  BY <1>1, <1>2, <1>6, Zenon DEF EndInv
<1> QED BY <1>3, <1>4, <1>5, <1>7, Zenon DEF LifeInv

\* The first step of a roll-back or of a close.
LEMMA EndHead ==
    ASSUME LifeInv, Ending
    PROVE  /\ conf \in Confs /\ plan \in Seq(Steps) /\ plan # << >> /\ Head(plan) = plan[1]
           /\ EndPlan(conf, plan, live) /\ Covered(conf, plan, res, live)
           /\ plan[1].do = "free" <=> Len(plan) = 1
           /\ DOMAIN plan = 1 .. Len(plan) /\ Len(plan) \in Nat /\ 1 \in DOMAIN plan
           /\ Tail(plan) \in Seq(Steps)
           /\ \A t \in live : plan[1] # Stop(t) => Gives(conf, plan[1]) \cap Needs(conf, t) = {}
           /\ \A j \in DOMAIN plan : j # 1 => j - 1 \in DOMAIN Tail(plan) /\ Tail(plan)[j - 1] = plan[j]
           /\ \A j \in DOMAIN Tail(plan) : j + 1 \in DOMAIN plan /\ Tail(plan)[j] = plan[j + 1]
<1>1. /\ conf \in Confs /\ plan \in Seq(Steps) /\ plan # << >> /\ live \subseteq ThreadsOf(conf)
      /\ EndPlan(conf, plan, live) /\ Covered(conf, plan, res, live)
  BY Zenon DEF LifeInv, Typed, ThreadInv, EndInv, EndPlan
<1>2. /\ Tail(plan) \in Seq(Steps) /\ Len(plan) \in Nat /\ Len(plan) > 0
      /\ DOMAIN plan = 1 .. Len(plan) /\ DOMAIN Tail(plan) = 1 .. Len(plan) - 1
      /\ Head(plan) = plan[1] /\ 1 \in DOMAIN plan
      /\ \A i \in 1 .. Len(plan) - 1 : Tail(plan)[i] = plan[i + 1] /\ i + 1 \in DOMAIN plan
  BY <1>1, Tailed, Zenon
<1>3. EndStep(conf, plan, live, 1)
  BY <1>1, <1>2, Zenon DEF EndPlan
<1>4. plan[1].do = "free" <=> Len(plan) = 1
  BY <1>3, Zenon DEF EndStep
<1>5. ASSUME NEW t \in live, plan[1] # Stop(t) PROVE Gives(conf, plan[1]) \cap Needs(conf, t) = {}
  <2>1. t \in ThreadsOf(conf) /\ MayRun(t, live)
    BY <1>1, Zenon DEF MayRun
  <2>2. Gives(conf, plan[1]) \cap Needs(conf, t) # {} => \E k \in 1 .. 1 - 1 : plan[k] = Stop(t)
    BY <1>3, <1>5, <2>1, Zenon DEF EndStep
  <2> QED BY <2>2
<1> DEFINE u == Tail(plan)
<1> HIDE DEF u
<1>6. DOMAIN u = 1 .. Len(plan) - 1 /\ \A i \in 1 .. Len(plan) - 1 : u[i] = plan[i + 1] /\ i + 1 \in DOMAIN plan
  BY <1>2, Zenon DEF u
<1>7. ASSUME NEW j \in DOMAIN plan, j # 1 PROVE j - 1 \in DOMAIN u /\ u[j - 1] = plan[j]
  <2>1. j - 1 \in 1 .. Len(plan) - 1 /\ (j - 1) + 1 = j
    BY <1>2, <1>7
  <2> QED BY <1>6, <2>1, Zenon
<1>8. \A j \in DOMAIN u : j + 1 \in DOMAIN plan /\ u[j] = plan[j + 1]
  BY <1>6, Zenon
<1> QED BY <1>1, <1>2, <1>4, <1>5, <1>7, <1>8, Zenon DEF u

\* A step that gives back what it promises, and stops the threads it promises
\* to stop, leaves an ending that can be finished.
LEMMA EndGoesOn ==
    ASSUME LifeInv, Ending, plan[1].do # "free", plan' = Tail(plan), at' = at, conf' = conf,
           live' \subseteq live, res' \subseteq res,
           \A t : plan[1] = Stop(t) => t \notin live',
           \A t \in live : t \notin live' => res' \cap LocksOf(conf, t) = {},
           plan[1].do = "put" => res' \cap plan[1].what = {},
           live' = live \/ plan[1].do \in {"stop", "try"}
    PROVE  OpenInv' /\ EndInv' /\ Held' /\ FinalInv' /\ plan' \in Seq(Steps)
<1>1. /\ conf \in Confs /\ plan \in Seq(Steps) /\ plan # << >>
      /\ EndPlan(conf, plan, live) /\ Covered(conf, plan, res, live) /\ 1 \in DOMAIN plan
      /\ \A j \in DOMAIN plan : j # 1 => j - 1 \in DOMAIN Tail(plan) /\ Tail(plan)[j - 1] = plan[j]
      /\ \A j \in DOMAIN Tail(plan) : j + 1 \in DOMAIN plan /\ Tail(plan)[j] = plan[j + 1]
  BY EndHead, Zenon
<1>2. EndPlan(conf, plan', live') /\ plan' \in Seq(Steps)
  BY <1>1, EndPlanTail, Zenon
<1>3. Covered(conf, plan', res', live')
  <2> SUFFICES ASSUME NEW r \in res'
               PROVE  \/ r \in ContextOwns(conf)
                      \/ \E t \in live' : r \in LocksOf(conf, t)
                      \/ \E j \in DOMAIN plan' : plan'[j].do = "put" /\ r \in plan'[j].what
                      \/ live' # {} /\ \A j \in DOMAIN plan' : plan'[j].do \notin {"stop", "try"}
    BY ZenonT(30) DEF Covered
  <2>1. \/ r \in ContextOwns(conf)
        \/ \E t \in live : r \in LocksOf(conf, t)
        \/ \E j \in DOMAIN plan : plan[j].do = "put" /\ r \in plan[j].what
        \/ live # {} /\ \A j \in DOMAIN plan : plan[j].do \notin {"stop", "try"}
    BY <1>1, Zenon DEF Covered
  <2>2. CASE \E t \in live : r \in LocksOf(conf, t)
    BY <2>2, Zenon
  <2>3. CASE \E j \in DOMAIN plan : plan[j].do = "put" /\ r \in plan[j].what
    <3>1. PICK j \in DOMAIN plan : plan[j].do = "put" /\ r \in plan[j].what
      BY <2>3, Zenon
    <3>2. j # 1
      BY <3>1, Zenon
    <3>3. j - 1 \in DOMAIN plan' /\ plan'[j - 1] = plan[j]
      BY <1>1, <3>2, Zenon
    <3> QED BY <3>1, <3>3, Zenon
  <2>4. CASE live # {} /\ \A j \in DOMAIN plan : plan[j].do \notin {"stop", "try"}
    <3>1. live' = live
      BY <1>1, <2>4, Zenon
    <3>2. \A j \in DOMAIN plan' : plan'[j].do \notin {"stop", "try"}
      BY <1>1, <2>4, Zenon
    <3> QED BY <2>4, <3>1, <3>2, Zenon
  <2> QED BY <2>1, <2>2, <2>3, <2>4, Zenon
<1>4. OpenInv' /\ FinalInv'
  BY Zenon DEF Ending, OpenInv, FinalInv
<1>5. Held'
  <2> SUFFICES ASSUME at = "closing", NEW r \in res'
               PROVE  r \in Owned(conf) \/ \E t \in live' : r \in LocksOf(conf, t)
    BY Zenon DEF Held, Ending
  <2>1. r \in Owned(conf) \/ \E t \in live : r \in LocksOf(conf, t)
    BY Zenon DEF LifeInv, Held
  <2> QED BY <2>1, Zenon
<1> QED BY <1>2, <1>3, <1>4, <1>5, Zenon DEF EndInv

LEMMA StopThreadLife ==
    ASSUME LifeInv, StopThread
    PROVE  LifeInv'
<1> DEFINE t == plan[1].what
<1>1. /\ Ending /\ Head(plan) = plan[1]
      /\ \A x \in live : plan[1] # Stop(x) => Gives(conf, plan[1]) \cap Needs(conf, x) = {}
  BY EndHead, Zenon DEF StopThread
<1>2. /\ plan[1].do \in {"stop", "try"} /\ (t \in live => Exited(t))
      /\ live' = live \ {t} /\ res' = IF t \in live THEN res \ LocksOf(conf, t) ELSE res
      /\ plan' = Tail(plan) /\ conf' = conf /\ at' = at /\ closing' = closing /\ halted' = halted
      /\ link' = link /\ started' = started /\ conn' = conn /\ rx' = rx
  BY <1>1, Zenon DEF StopThread, paths
<1>3. Gives(conf, plan[1]) = LocksOf(conf, t)
  BY <1>2, Zenon DEF Gives
<1>4. \A x : plan[1] = Stop(x) => x = t
  BY SMTT(20) DEF Stop
<1> HIDE DEF t
<1>5. \A x : plan[1] = Stop(x) => x \notin live'
  BY <1>2, <1>4, Zenon
<1>6. live' \subseteq live /\ res' \subseteq res /\ \A x \in live : x \notin live' => res' \cap LocksOf(conf, x) = {}
  BY <1>2, Zenon
<1>7. OpenInv' /\ EndInv' /\ Held' /\ FinalInv' /\ plan' \in Seq(Steps)
  <2>1. plan[1].do # "free" /\ plan[1].do # "put"
    BY <1>2, Zenon
  <2> QED BY <1>1, <1>2, <1>5, <1>6, <2>1, EndGoesOn, Zenon
<1>8. Typed'
  BY <1>2, <1>7, Zenon DEF LifeInv, Typed
<1>9. ThreadInv'
  <2>1. ASSUME NEW x \in live' PROVE Needs(conf, x) \subseteq res'
    <3>1. x \in live /\ plan[1] # Stop(x)
      BY <1>2, <1>5, <2>1, Zenon
    <3>2. LocksOf(conf, t) \cap Needs(conf, x) = {} /\ Needs(conf, x) \subseteq res
      BY <1>1, <1>3, <3>1, Zenon DEF LifeInv, ThreadInv
    <3> QED BY <1>2, <3>2, Zenon
  <2>2. ASSUME NEW i \in Paths, link[i] \notin {"none", "exited"} PROVE <<"connect", i>> \in live'
    <3>1. <<"connect", i>> \in live
      BY <2>2, Zenon DEF LifeInv, ThreadInv
    <3>2. t # <<"connect", i>>
      BY <1>2, <2>2, <3>1, SMTT(20) DEF Exited
    <3> QED BY <1>2, <3>1, <3>2, Zenon
  <2>3. ASSUME NEW i \in rx PROVE Tcp(conf) /\ <<"recv", i>> \in live'
    <3>1. <<"recv", i>> \in live /\ Tcp(conf)
      BY <2>3, Zenon DEF LifeInv, ThreadInv
    <3>2. t # <<"recv", i>>
      <4> SUFFICES ASSUME t = <<"recv", i>> PROVE FALSE
        BY Zenon
      <4>1. t[1] = "recv" /\ t[2] = i /\ t[1] # "connect" /\ Exited(t)
        BY <1>2, <3>1, Zenon
      <4>2. t[2] \notin rx
        BY <3>1, <4>1, Zenon DEF Exited
      <4> QED BY <4>1, <4>2, Zenon
    <3> QED BY <1>2, <3>1, <3>2, Zenon
  <2>4. live' \subseteq ThreadsOf(conf)
    BY <1>6, Zenon DEF LifeInv, ThreadInv
  <2> QED BY <1>2, <2>1, <2>2, <2>3, <2>4, Zenon DEF ThreadInv
<1> QED BY <1>7, <1>8, <1>9, Zenon DEF LifeInv

LEMMA JoinFailsLife ==
    ASSUME LifeInv, JoinFails
    PROVE  LifeInv'
<1>1. /\ Ending /\ Head(plan) = plan[1]
  BY EndHead, Zenon DEF JoinFails
<1>2. /\ plan[1].do \in {"stop", "try"} /\ plan[1].what \in live
      /\ conf' = conf /\ closing' = closing /\ halted' = halted /\ res' = res /\ live' = live
      /\ link' = link /\ started' = started /\ conn' = conn /\ rx' = rx
      /\ \/ plan[1].do = "stop" /\ at = "closing" /\ at' = "kept" /\ plan' = << >>
         \/ plan[1].do = "stop" /\ at = "undoing" /\ at' = at /\ plan' = <<Free>>
         \/ plan[1].do = "try" /\ at' = at /\ plan' = Tail(plan)
  BY <1>1, Zenon DEF JoinFails, paths
<1>3. ThreadInv'
  BY <1>2, Zenon DEF LifeInv, ThreadInv
<1>4. CASE at = "closing" /\ at' = "kept" /\ plan' = << >>
  <2>1. Typed'
    BY <1>2, <1>4 DEF LifeInv, Typed, Places, Calls
  <2>2. OpenInv' /\ EndInv' /\ FinalInv'
    BY <1>2, <1>4, ZenonT(30) DEF OpenInv, EndInv, Ending, FinalInv
  <2>3. Held'
    BY <1>2, <1>4, Zenon DEF LifeInv, Held
  <2> QED BY <1>3, <2>1, <2>2, <2>3, Zenon DEF LifeInv
<1>5. CASE at = "undoing" /\ at' = at /\ plan' = <<Free>>
  <2>1. Free \in Steps /\ Free.do = "free" /\ Gives(conf, Free) = {}
    BY Zenon DEF Free, Steps, Names, Labels, Gives
  <2> DEFINE s == <<Free>>
  <2>2. s \in Seq(Steps) /\ Len(s) = 1 /\ DOMAIN s = {1} /\ s[1] = Free /\ s # << >>
    BY <2>1, SMTT(20)
  <2> HIDE DEF s
  <2>3. EndPlan(conf, s, live)
    BY <2>1, <2>2, Zenon DEF EndPlan, EndStep
  <2>4. Covered(conf, s, res, live)
    BY <1>2, <2>1, <2>2, Zenon DEF Covered
  <2>5. plan' = s
    BY <1>5, Zenon DEF s
  <2>6. Typed'
    BY <1>2, <1>5, <2>2, <2>5, Zenon DEF LifeInv, Typed
  <2>7. OpenInv' /\ Held' /\ FinalInv'
    BY <1>5, Zenon DEF OpenInv, Held, FinalInv
  <2>8. EndInv'
    BY <1>2, <2>3, <2>4, <2>5, Zenon DEF EndInv
  <2> QED BY <1>3, <2>6, <2>7, <2>8, Zenon DEF LifeInv
<1>6. CASE plan[1].do = "try" /\ at' = at /\ plan' = Tail(plan)
  <2>1. \A x : plan[1] # Stop(x)
    BY <1>6, SMTT(20) DEF Stop
  <2>2. OpenInv' /\ EndInv' /\ Held' /\ FinalInv' /\ plan' \in Seq(Steps)
    BY <1>1, <1>2, <1>6, <2>1, EndGoesOn, ZenonT(30)
  <2>3. Typed'
    BY <1>2, <1>6, <2>2, Zenon DEF LifeInv, Typed
  <2> QED BY <1>3, <2>2, <2>3, Zenon DEF LifeInv
<1> QED BY <1>2, <1>4, <1>5, <1>6, Zenon

LEMMA GiveBackLife ==
    ASSUME LifeInv, GiveBack
    PROVE  LifeInv'
<1>1. /\ Ending /\ Head(plan) = plan[1]
      /\ \A x \in live : plan[1] # Stop(x) => Gives(conf, plan[1]) \cap Needs(conf, x) = {}
  BY EndHead, Zenon DEF GiveBack
<1>2. /\ plan[1].do = "put" /\ res' = res \ plan[1].what
      /\ plan' = Tail(plan) /\ conf' = conf /\ at' = at /\ closing' = closing /\ halted' = halted
      /\ live' = live /\ link' = link /\ started' = started /\ conn' = conn /\ rx' = rx
  BY <1>1, Zenon DEF GiveBack, paths
<1>3. Gives(conf, plan[1]) = plan[1].what /\ \A x : plan[1] # Stop(x)
  BY <1>2, SMTT(20) DEF Gives, Stop
<1>4. OpenInv' /\ EndInv' /\ Held' /\ FinalInv' /\ plan' \in Seq(Steps)
  BY <1>1, <1>2, <1>3, EndGoesOn, Zenon
<1>5. Typed'
  <2>1. res' \subseteq Resources
    BY <1>2, Zenon DEF LifeInv, Typed
  <2> QED BY <1>2, <1>4, <2>1, Zenon DEF LifeInv, Typed
<1>6. ThreadInv'
  BY <1>1, <1>2, <1>3, Zenon DEF LifeInv, ThreadInv
<1> QED BY <1>4, <1>5, <1>6, Zenon DEF LifeInv

LEMMA HaltConnectsLife ==
    ASSUME LifeInv, HaltConnects
    PROVE  LifeInv'
<1>1. Ending /\ Head(plan) = plan[1]
  BY EndHead, Zenon DEF HaltConnects
<1>2. /\ plan[1].do = "halt" /\ halted' = TRUE
      /\ plan' = Tail(plan) /\ conf' = conf /\ at' = at /\ closing' = closing /\ res' = res
      /\ live' = live /\ link' = link /\ started' = started /\ conn' = conn /\ rx' = rx
  BY <1>1, Zenon DEF HaltConnects, paths
<1>3. \A x : plan[1] # Stop(x)
  BY <1>2, SMTT(20) DEF Stop
<1>4. OpenInv' /\ EndInv' /\ Held' /\ FinalInv' /\ plan' \in Seq(Steps)
  BY <1>1, <1>2, <1>3, EndGoesOn, Zenon
<1>5. Typed'
  BY <1>2, <1>4, Zenon DEF LifeInv, Typed
<1>6. ThreadInv'
  BY <1>2, Zenon DEF LifeInv, ThreadInv
<1> QED BY <1>4, <1>5, <1>6, Zenon DEF LifeInv

\* No thread uses a listening socket but through a connection it accepted.
LEMMA NoListening ==
    ASSUME NEW c \in Confs, NEW t \in ThreadsOf(c)
    PROVE  Needs(c, t) \cap ({"tcp_listen_sock"} \X Paths) = {}
<1>1. CASE Tcp(c)
  BY <1>1, TcpNeeds, Zenon
<1>2. CASE ~Tcp(c)
  <2>1. \A r \in {SendQueue, SendLock} \cup SetOf(HealthLocks) : r \notin {"tcp_listen_sock"} \X Paths
    BY HealthLockNames, SMTT(20) DEF SendQueue, SendLock, One
  <2>2. Base(c) \cap ({"tcp_listen_sock"} \X Paths) = {}
    BY <1>2, UdpNeeds, Zenon
  <2>3. Needs(c, t) \subseteq Base(c) \cup {SendQueue, SendLock} \cup SetOf(HealthLocks)
    BY <1>2, UdpNeeds, Zenon DEF ThreadsOf
  <2> QED BY <2>1, <2>2, <2>3, Zenon
<1> QED BY <1>1, <1>2, Zenon

LEMMA HangUpLife ==
    ASSUME LifeInv, HangUp
    PROVE  LifeInv'
<1> DEFINE Listen == {"tcp_listen_sock"} \X Paths
<1>1. Ending /\ Head(plan) = plan[1]
  BY EndHead, Zenon DEF HangUp
<1>2. /\ plan[1].do = "hangup" /\ res' \subseteq res /\ res \ Listen \subseteq res' /\ conn' \in {conn, {}}
      /\ plan' = Tail(plan) /\ conf' = conf /\ at' = at /\ closing' = closing /\ halted' = halted
      /\ live' = live /\ link' = link /\ started' = started /\ rx' = rx
  BY <1>1, Zenon DEF HangUp
<1>3. \A x : plan[1] # Stop(x)
  BY <1>2, SMTT(20) DEF Stop
<1>4. OpenInv' /\ EndInv' /\ Held' /\ FinalInv' /\ plan' \in Seq(Steps)
  BY <1>1, <1>2, <1>3, EndGoesOn, Zenon
<1>5. Typed'
  BY <1>2, <1>4, Zenon DEF LifeInv, Typed
<1>6. \A t \in live : Needs(conf, t) \subseteq res'
  <2> SUFFICES ASSUME NEW t \in live PROVE Needs(conf, t) \subseteq res'
    BY Zenon
  <2>1. conf \in Confs /\ t \in ThreadsOf(conf) /\ Needs(conf, t) \subseteq res
    BY Zenon DEF LifeInv, Typed, ThreadInv
  <2>2. Needs(conf, t) \cap Listen = {}
    BY <2>1, NoListening, Zenon
  <2> HIDE DEF Listen
  <2> QED BY <1>2, <2>1, <2>2, Zenon
<1>7. ThreadInv'
  BY <1>2, <1>6, Zenon DEF LifeInv, ThreadInv
<1> QED BY <1>4, <1>5, <1>7, Zenon DEF LifeInv

LEMMA FreeContextLife ==
    ASSUME LifeInv, FreeContext
    PROVE  LifeInv'
<1>1. /\ Ending /\ Head(plan) = plan[1] /\ (plan[1].do = "free" <=> Len(plan) = 1)
      /\ DOMAIN plan = 1 .. Len(plan) /\ Tail(plan) \in Seq(Steps)
      /\ Covered(conf, plan, res, live)
  BY EndHead, Zenon DEF FreeContext
<1>2. /\ plan[1].do = "free" /\ at' \in {"failed", "closed"}
      /\ IF live # {} THEN res' = res /\ conn' = conn ELSE res' = res \ ContextOwns(conf) /\ conn' = {}
      /\ plan' = Tail(plan) /\ conf' = conf /\ closing' = closing /\ halted' = halted
      /\ live' = live /\ link' = link /\ started' = started /\ rx' = rx
  BY <1>1 DEF FreeContext, Proceed
<1>3. ASSUME live = {} PROVE res' = {}
  <2>1. \A j \in DOMAIN plan : plan[j].do = "free"
    BY <1>1, <1>2, SMTT(20)
  <2>2. \A r \in res : r \in ContextOwns(conf)
    BY <1>1, <1>3, <2>1, ZenonT(30) DEF Covered
  <2> QED BY <1>2, <1>3, <2>2, Zenon
<1>4. Typed'
  BY <1>1, <1>2, Zenon DEF LifeInv, Typed, Places, Calls
<1>5. ThreadInv'
  BY <1>2, Zenon DEF LifeInv, ThreadInv
<1>6. OpenInv' /\ EndInv' /\ Held'
  BY <1>2, Zenon DEF OpenInv, EndInv, Ending, Held
<1>7. FinalInv'
  BY <1>2, <1>3, Zenon DEF FinalInv
<1> QED BY <1>4, <1>5, <1>6, <1>7, Zenon DEF LifeInv

-----------------------------------------------------------------------------
\* The connect threads

\* What a step of the connect thread of path i may change: it starts and joins
\* the send thread and the threads of its path, and the lock of the send
\* thread is there as long as the send thread is.
Moved(i) ==
    /\ conf' = conf /\ at' = at /\ plan' = plan /\ closing' = closing /\ halted' = halted
    /\ <<"connect", i>> \in live
    /\ link' \in [Paths -> LinkPoints] /\ \A j \in Paths : j # i => link'[j] = link[j]
    /\ started' \in BOOLEAN /\ conn' \subseteq Paths /\ rx' \subseteq Paths
    /\ \A j \in rx' : <<"recv", j>> \in live'
    /\ live' \subseteq live \cup {SendThread, <<"recv", i>>, <<"health", i>>}
    /\ \A t \in live : t[1] = "connect" => t \in live'
    /\ res \ {SendLock} \subseteq res' /\ res' \subseteq res \cup {SendLock}
    /\ SendThread \in live' => (SendThread \in live /\ res \subseteq res') \/ (Sends(conf) /\ SendLock \in res')
    /\ SendThread \notin live' => SendLock \notin res' \/ (SendThread \notin live /\ res' = res)
    /\ SendLock \in res' => SendLock \in res \/ SendThread \in live'

LEMMA ConnectMoves ==
    ASSUME LifeInv, NEW i \in Paths, ConnectThread(i)
    PROVE  Moved(i)
<1>1. /\ link \in [Paths -> LinkPoints] /\ started \in BOOLEAN /\ conn \subseteq Paths /\ rx \subseteq Paths
      /\ \A j \in rx : <<"recv", j>> \in live
  BY Zenon DEF LifeInv, Typed, ThreadInv
<1>2. link[i] \notin {"none", "exited"} => <<"connect", i>> \in live
  BY Zenon DEF LifeInv, ThreadInv
<1>3. /\ SendThread[1] # "connect" /\ \A j : <<"recv", j>> # SendThread /\ <<"health", j>> # SendThread
      /\ \A j, k : <<"health", j>> # <<"recv", k>> /\ (j # k => <<"recv", j>> # <<"recv", k>>)
  BY Zenon DEF SendThread
<1>4. ASSUME NEW p \in LinkPoints, link' = [link EXCEPT ![i] = p]
      PROVE  link' \in [Paths -> LinkPoints] /\ \A j \in Paths : j # i => link'[j] = link[j]
  BY <1>1, <1>4, Zenon
<1>5. ASSUME caller' = caller, link[i] \notin {"none", "exited"}, NEW p \in LinkPoints, Goto(i, p),
             started' \in BOOLEAN, conn' \subseteq Paths, rx' = rx, res' = res, live' = live
      PROVE  Moved(i)
  BY <1>1, <1>2, <1>4, <1>5, Zenon DEF Moved, caller, Goto
<1>6. ASSUME caller' = caller, link[i] \notin {"none", "exited"}, NEW p \in LinkPoints, Goto(i, p),
             started' \in BOOLEAN, conn' \subseteq Paths, rx' = rx, res' = res,
             NEW t \in {<<"recv", i>>, <<"health", i>>}, live' = live \ {t}, t = <<"recv", i>> => i \notin rx
      PROVE  Moved(i)
  <2>1. \A j \in rx' : <<"recv", j>> \in live'
    BY <1>1, <1>3, <1>6, Zenon
  <2>2. t # SendThread /\ t[1] # "connect"
    BY <1>3, <1>6
  <2>3. link' \in [Paths -> LinkPoints] /\ \A j \in Paths : j # i => link'[j] = link[j]
    BY <1>4, <1>6, Zenon DEF Goto
  <2> QED BY <1>1, <1>2, <1>6, <2>1, <2>2, <2>3, Zenon DEF Moved, caller
<1>7. CASE Loop(i)
  BY <1>1, <1>5, <1>7, Zenon DEF Loop, LinkPoints
<1>8. CASE DialFails(i)
  BY <1>1, <1>5, <1>8, Zenon DEF DialFails, LinkPoints
<1>9. CASE Dial(i)
  BY <1>1, <1>5, <1>9, Zenon DEF Dial, LinkPoints, Starting
<1>10. CASE ConnectSend(i)
  <2>1. CASE live' = live /\ res' = res /\ started' = started
    BY <1>1, <1>5, <1>10, <2>1, Zenon DEF ConnectSend, LinkPoints, Starting
  <2>2. CASE ~(live' = live /\ res' = res /\ started' = started)
    <3>1. /\ Sends(conf) /\ live' = live \cup {SendThread} /\ res' = res \cup {SendLock}
          /\ started' = TRUE /\ Goto(i, "recv") /\ caller' = caller /\ conn' = conn /\ rx' = rx
          /\ link[i] = "send"
      BY <1>10, <2>2, Zenon DEF ConnectSend
    <3>2. link' \in [Paths -> LinkPoints] /\ \A j \in Paths : j # i => link'[j] = link[j]
      BY <1>4, <3>1, Zenon DEF Goto, LinkPoints, Starting
    <3> QED BY <1>1, <1>2, <3>1, <3>2, Zenon DEF Moved, caller
  <2> QED BY <2>1, <2>2, Zenon
<1>11. CASE ConnectRecv(i)
  <2>1. CASE conn' = conn \ {i} /\ Goto(i, "unsend") /\ live' = live /\ rx' = rx
    BY <1>1, <1>5, <1>11, <2>1, Zenon DEF ConnectRecv, LinkPoints, Starting
  <2>2. CASE live' = live \cup {<<"recv", i>>} /\ rx' = rx \cup {i} /\ Goto(i, "ping") /\ conn' = conn
    <3>1. link[i] = "recv" /\ caller' = caller /\ res' = res /\ started' = started
      BY <1>11, Zenon DEF ConnectRecv
    <3>2. link' \in [Paths -> LinkPoints] /\ \A j \in Paths : j # i => link'[j] = link[j]
      BY <1>4, <2>2, Zenon DEF Goto, LinkPoints, Starting
    <3> QED BY <1>1, <1>2, <1>3, <2>2, <3>1, <3>2, Zenon DEF Moved, caller
  <2> QED BY <1>11, <2>1, <2>2, Zenon DEF ConnectRecv
<1>12. CASE ConnectPing(i)
  BY <1>1, <1>5, <1>12, Zenon DEF ConnectPing, LinkPoints, Starting
<1>13. CASE ConnectHealth(i)
  <2>1. CASE live' = live
    <3>1. started' \in BOOLEAN
      BY <1>1, <1>13, Zenon DEF ConnectHealth
    <3> QED BY <1>1, <1>5, <1>13, <2>1, <3>1, Zenon DEF ConnectHealth, LinkPoints, Starting
  <2>2. CASE live' # live
    <3>1. /\ live' = live \cup {<<"health", i>>} /\ conn' = conn /\ rx' = rx /\ res' = res /\ caller' = caller
          /\ link[i] = "health" /\ Goto(i, "up")
      BY <1>13, <2>2, Zenon DEF ConnectHealth
    <3>2. started' \in BOOLEAN
      BY <1>1, <1>13, Zenon DEF ConnectHealth
    <3>3. link' \in [Paths -> LinkPoints] /\ \A j \in Paths : j # i => link'[j] = link[j]
      BY <1>4, <3>1, Zenon DEF Goto, LinkPoints, Starting
    <3> QED BY <1>1, <1>2, <1>3, <3>1, <3>2, <3>3, Zenon DEF Moved, caller
  <2> QED BY <2>1, <2>2, Zenon
<1>14. CASE ConnectUnrecv(i)
  BY <1>1, <1>6, <1>14, Zenon DEF ConnectUnrecv, LinkPoints, Starting
<1>15. CASE ConnectUnsend(i)
  <2>1. CASE live' = live /\ res' = res /\ started' = started
    BY <1>1, <1>5, <1>15, <2>1, Zenon DEF ConnectUnsend, LinkPoints, Starting
  <2>2. CASE ~(live' = live /\ res' = res /\ started' = started)
    <3>1. /\ live' = live \ {SendThread} /\ res' = res \ {SendLock} /\ started' = FALSE
          /\ Goto(i, "back") /\ caller' = caller /\ conn' = conn /\ rx' = rx /\ link[i] = "unsend"
      BY <1>15, <2>2, Zenon DEF ConnectUnsend
    <3>2. link' \in [Paths -> LinkPoints] /\ \A j \in Paths : j # i => link'[j] = link[j]
      BY <1>4, <3>1, Zenon DEF Goto, LinkPoints, Starting
    <3> QED BY <1>1, <1>2, <1>3, <3>1, <3>2, Zenon DEF Moved, caller
  <2> QED BY <2>1, <2>2, Zenon
<1>16. CASE ConnectBack(i)
  BY <1>1, <1>5, <1>16, Zenon DEF ConnectBack, LinkPoints, Starting
<1>17. CASE Disconnected(i)
  BY <1>1, <1>6, <1>17, Zenon DEF Disconnected, LinkPoints, Starting
<1>18. CASE StopConnected(i)
  <2>1. <<"health", i>> # <<"recv", i>>
    BY <1>3, Zenon
  <2> QED BY <1>1, <1>6, <1>18, <2>1, Zenon DEF StopConnected, LinkPoints, Starting
<1> QED BY <1>7, <1>8, <1>9, <1>10, <1>11, <1>12, <1>13, <1>14, <1>15, <1>16, <1>17, <1>18, Zenon DEF ConnectThread

LEMMA ConnectLife ==
    ASSUME LifeInv, NEW i \in Paths, ConnectThread(i)
    PROVE  LifeInv'
<1> DEFINE me == <<"connect", i>>
           recv == <<"recv", i>>
           health == <<"health", i>>
<1>1. Moved(i)
  BY ConnectMoves, Zenon
<1>2. /\ conf' = conf /\ at' = at /\ plan' = plan /\ me \in live /\ me \in live'
      /\ live' \subseteq live \cup {SendThread, recv, health}
      /\ \A t \in live : t[1] = "connect" => t \in live'
      /\ res \ {SendLock} \subseteq res' /\ res' \subseteq res \cup {SendLock}
  BY <1>1, Zenon DEF Moved
<1>3. /\ SendThread \in live' => (SendThread \in live /\ res \subseteq res') \/ (Sends(conf) /\ SendLock \in res')
      /\ SendThread \notin live' => SendLock \notin res' \/ (SendThread \notin live /\ res' = res)
      /\ SendLock \in res' => SendLock \in res \/ SendThread \in live'
  BY <1>1, Zenon DEF Moved
<1>4. conf \in Confs /\ live \subseteq ThreadsOf(conf) /\ res \subseteq Resources
      /\ \A t \in live : Needs(conf, t) \subseteq res
  BY Zenon DEF LifeInv, Typed, ThreadInv
<1>5. Tcp(conf) /\ i \in 1 .. NPath(conf)
  <2>1. me \in ThreadsOf(conf)
    BY <1>2, <1>4, Zenon
  <2>2. Tcp(conf)
    BY <2>1, Zenon DEF ThreadsOf, SendThread, HealthThread, RecvThread
  <2> QED BY <2>1, <2>2, Zenon DEF ThreadsOf, SendThread
<1>6. /\ recv \in ThreadsOf(conf) /\ health \in ThreadsOf(conf) /\ SendThread \in ThreadsOf(conf)
      /\ recv # SendThread /\ health # SendThread /\ me # SendThread
      /\ recv[1] # "connect" /\ health[1] # "connect" /\ SendThread[1] # "connect"
  BY <1>5, Zenon DEF ThreadsOf, SendThread
<1>7. /\ Needs(conf, recv) \subseteq Needs(conf, me) /\ Needs(conf, health) \subseteq Needs(conf, me)
      /\ Sends(conf) => Needs(conf, SendThread) \subseteq Needs(conf, me) \cup {SendLock}
  <2>1. Needs(conf, recv) = Requires(conf, recv) /\ Needs(conf, health) = Requires(conf, health)
        /\ Needs(conf, SendThread) = Requires(conf, SendThread)
    BY <1>6, Zenon DEF Needs
  <2>2. Needs(conf, me) = Requires(conf, me) \cup Requires(conf, recv) \cup Requires(conf, health)
                          \cup (IF Sends(conf) THEN Requires(conf, SendThread) \ {SendLock} ELSE {})
    BY Zenon DEF Needs
  <2> QED BY <2>1, <2>2, Zenon
<1>8. Typed'
  <2>1. res' \subseteq Resources
    BY <1>2, <1>4, ResourceNames, Zenon
  <2> QED BY <1>1, <2>1, Zenon DEF Moved, LifeInv, Typed
<1>9. ASSUME NEW t \in live' PROVE t \in ThreadsOf(conf) /\ Needs(conf, t) \subseteq res'
  <2>1. t \in ThreadsOf(conf)
    BY <1>2, <1>4, <1>6, <1>9, Zenon
  <2>2. CASE t = SendThread
    BY <1>2, <1>3, <1>4, <1>7, <1>9, <2>1, <2>2, Zenon
  <2>3. CASE t # SendThread
    <3>1. SendLock \notin Needs(conf, t)
      BY <1>4, <1>5, <2>1, <2>3, TcpNeeds, Zenon
    <3>2. Needs(conf, t) \subseteq res
      BY <1>2, <1>4, <1>7, <1>9, <2>3, Zenon
    <3> QED BY <1>2, <2>1, <3>1, <3>2, Zenon
  <2> QED BY <2>1, <2>2, <2>3, Zenon
<1>10. ThreadInv'
  <2>1. ASSUME NEW j \in Paths, link'[j] \notin {"none", "exited"} PROVE <<"connect", j>> \in live'
    <3>1. CASE j = i
      BY <1>2, <3>1, Zenon
    <3>2. CASE j # i
      <4>1. link[j] \notin {"none", "exited"}
        BY <1>1, <2>1, <3>2, Zenon DEF Moved
      <4>2. <<"connect", j>> \in live
        BY <4>1, Zenon DEF LifeInv, ThreadInv
      <4> QED BY <1>2, <4>2, Zenon
    <3> QED BY <3>1, <3>2, Zenon
  <2>2. \A j \in rx' : Tcp(conf) /\ <<"recv", j>> \in live'
    BY <1>1, <1>5, Zenon DEF Moved
  <2> QED BY <1>2, <1>9, <2>1, <2>2, Zenon DEF ThreadInv
<1>11. OpenInv'
  <2> SUFFICES ASSUME at = "opening"
               PROVE  plan # << >> /\ OpenPlan(conf, plan, res') /\ plan[1].do = "run"
    BY <1>2, <1>5, Zenon DEF OpenInv
  <2>1. plan # << >> /\ OpenPlan(conf, plan, res) /\ plan[1].do = "run"
    BY <1>2, <1>5, Zenon DEF LifeInv, OpenInv
  <2> QED BY <1>2, <1>4, <1>5, <2>1, OpenPlanUnlocked, Zenon
<1>12. ASSUME NEW r \in res', NEW t \in live, r \in LocksOf(conf, t)
       PROVE  \E x \in live' : r \in LocksOf(conf, x)
  <2>1. r = SendLock /\ t = SendThread
    BY <1>5, <1>12, TcpLocks
  <2>2. SendThread \in live'
    BY <1>3, <1>12, <2>1, Zenon
  <2> QED BY <1>12, <2>1, <2>2, Zenon
<1>13. ASSUME NEW r \in res', r \notin res PROVE \E x \in live' : r \in LocksOf(conf, x)
  <2>1. r = SendLock /\ SendThread \in live'
    BY <1>2, <1>3, <1>13, Zenon
  <2>2. SendLock \in LocksOf(conf, SendThread)
    BY <1>5, TcpLocks, Zenon
  <2> QED BY <2>1, <2>2, Zenon
<1>14. EndInv'
  <2> SUFFICES ASSUME Ending PROVE EndPlan(conf, plan, live') /\ Covered(conf, plan, res', live')
    BY <1>2, Zenon DEF EndInv, Ending
  <2>1. EndPlan(conf, plan, live) /\ Covered(conf, plan, res, live)
    BY Zenon DEF LifeInv, EndInv
  <2>2. Connects(live') \subseteq Connects(live) /\ i \in Connects(live)
    BY <1>2, <1>6 DEF Connects
  <2>3. \A t \in ThreadsOf(conf) : MayRun(t, live') => MayRun(t, live)
    BY <1>2, <1>6, <2>2, Zenon DEF MayRun
  <2>4. EndPlan(conf, plan, live')
    BY <2>1, <2>2, <2>3, EndPlanLess, Zenon
  <2>5. Covered(conf, plan, res', live')
    BY <1>2, <1>12, <1>13, <2>1, Zenon DEF Covered
  <2> QED BY <2>4, <2>5, Zenon
<1>15. Held'
  BY <1>2, <1>5, <1>12, <1>13, Zenon DEF LifeInv, Held
<1>16. FinalInv'
  BY <1>2, Zenon DEF FinalInv
<1> QED BY <1>8, <1>10, <1>11, <1>14, <1>15, <1>16, Zenon DEF LifeInv

LEMMA RecvLeavesLife ==
    ASSUME LifeInv, NEW i \in Paths, RecvLeaves(i)
    PROVE  LifeInv'
<1>1. /\ rx' = rx \ {i} /\ conf' = conf /\ at' = at /\ plan' = plan /\ closing' = closing /\ halted' = halted
      /\ res' = res /\ live' = live /\ link' = link /\ started' = started /\ conn' = conn
  BY Zenon DEF RecvLeaves, caller
<1>2. Typed'
  BY <1>1, Zenon DEF LifeInv, Typed
<1>3. ThreadInv'
  BY <1>1, Zenon DEF LifeInv, ThreadInv
<1>4. OpenInv'
  BY <1>1, Zenon DEF LifeInv, OpenInv
<1>5. EndInv'
  BY <1>1, Zenon DEF LifeInv, EndInv, Ending
<1>6. Held' /\ FinalInv'
  BY <1>1, Zenon DEF LifeInv, Held, FinalInv
<1> QED BY <1>2, <1>3, <1>4, <1>5, <1>6, Zenon DEF LifeInv

-----------------------------------------------------------------------------
\* The theorems

LEMMA LifeStep ==
    ASSUME LifeInv, [Next]_vars
    PROVE  LifeInv'
<1>1. CASE Next
  <2>1. CASE CallerSteps
    BY <2>1, AcquireLife, StartThreadLife, OpenFailsLife, StopThreadLife, GiveBackLife,
       HaltConnectsLife, HangUpLife, FreeContextLife, Zenon DEF CallerSteps
  <2>2. CASE JoinFails
    BY <2>2, JoinFailsLife, Zenon
  <2>3. CASE Close
    BY <2>3, CloseLife, Zenon
  <2>4. CASE \E i \in Paths : ConnectThread(i) \/ RecvLeaves(i)
    BY <2>4, ConnectLife, RecvLeavesLife, Zenon
  <2> QED BY <1>1, <2>1, <2>2, <2>3, <2>4, Zenon DEF Next
<1>2. CASE UNCHANGED vars
  <2>1. /\ conf' = conf /\ at' = at /\ plan' = plan /\ closing' = closing /\ halted' = halted
        /\ res' = res /\ live' = live /\ link' = link /\ started' = started /\ conn' = conn /\ rx' = rx
    BY <1>2, Zenon DEF vars, caller, paths
  <2> QED BY <2>1, Zenon DEF LifeInv, Typed, ThreadInv, OpenInv, EndInv, Ending, Held, FinalInv
<1> QED BY <1>1, <1>2, Zenon

\* The inductive invariant: what is left of a call can be done, and undone,
\* with the threads and the resources there are, whatever steps of
\* potr_service_open and potr_service_close fail and whatever the connect
\* threads do meanwhile.
THEOREM LifeSafe == Spec => []LifeInv
  BY InitLife, LifeStep, PTL DEF Spec

\* For any number of paths and any definition of a service: a thread that can
\* run has everything it reads, writes and locks, but for the locks it borrows
\* from a thread that does not run.
THEOREM NoThreadOutlivesItsResources == Spec => []ThreadsHaveResources
<1>1. ASSUME LifeInv PROVE ThreadsHaveResources
  <2> SUFFICES ASSUME NEW t \in live, NEW r \in Uses(conf, t) \ res
               PROVE  /\ r \in Borrows(conf, t)
                      /\ \E owner \in Threads \ live : r \in LocksOf(conf, owner)
    BY Zenon DEF ThreadsHaveResources
  <2>1. conf \in Confs /\ \A x \in live : Requires(conf, x) \subseteq res
    BY <1>1, Zenon DEF LifeInv, Typed, ThreadInv, Needs
  <2>2. r \in Borrows(conf, t)
    BY <2>1, Zenon DEF Uses
  <2>3. SendThread \in Threads /\ HealthThread \in Threads
    <3>1. 1 \in Paths
      BY OpeningAssumption DEF Paths
    <3> QED BY <3>1 DEF Threads, HealthThread
  <2>4. CASE Tcp(conf)
    <3>1. r = SendLock /\ SendLock \in LocksOf(conf, SendThread)
      BY <2>1, <2>2, <2>4, Zenon DEF Borrows, LocksOf
    <3>2. SendLock \in Requires(conf, SendThread)
      BY Zenon DEF Requires, SendThread
    <3> QED BY <2>1, <2>2, <2>3, <3>1, <3>2, Zenon
  <2>5. CASE ~Tcp(conf)
    <3>1. r \in SetOf(HealthLocks) /\ LocksOf(conf, HealthThread) = SetOf(HealthLocks)
      BY <2>1, <2>2, <2>5, UdpLocks, Zenon DEF Borrows
    <3>2. SetOf(HealthLocks) \subseteq Requires(conf, HealthThread)
      BY HealthLockNames, Zenon DEF Requires, HealthThread, SendThread
    <3> QED BY <2>1, <2>2, <2>3, <3>1, <3>2, Zenon
  <2> QED BY <2>4, <2>5, Zenon
<1> QED BY <1>1, LifeSafe, PTL

\* A descriptor that a connect thread forgets is that of path 1 of a sender:
\* potr_internal_start_connected_threads leaves it open when it could not
\* start the send thread.
StaleInv ==
    /\ \A i \in conn : link[i] \notin {"none", "unrecv", "unsend"}
    /\ \A i \in conn : link[i] = "back" => i = 1
    /\ \A i \in conn : link[i] \in {"loop", "dial", "exited"} =>
          i = 1 /\ conf.role = "sender" /\ (link[i] = "exited" \/ conf.retry)
    /\ leaked \subseteq {1} /\ (leaked # {} => conf.role = "sender" /\ conf.retry)

LEMMA StaleStep ==
    ASSUME LifeInv, StaleInv, [Next]_vars
    PROVE  StaleInv'
<1>1. /\ conf \in Confs /\ conf' = conf /\ link \in [Paths -> LinkPoints] /\ conn \subseteq Paths
  <2>1. conf' = conf
    BY ZenonT(30) DEF Next, CallerSteps, ConnectThread, Acquire, StartThread, OpenFails, StopThread,
       GiveBack, HaltConnects, HangUp, FreeContext, JoinFails, Close, Loop, DialFails, Dial,
       ConnectSend, ConnectRecv, ConnectPing, ConnectHealth, ConnectUnrecv, ConnectUnsend,
       ConnectBack, Disconnected, StopConnected, RecvLeaves, caller, vars
  <2> QED BY <2>1, Zenon DEF LifeInv, Typed
<1>2. conf.role = "sender" \/ conf.role = "receiver"
  BY <1>1, OpeningAssumption
<1>3. CASE link' = link /\ conn' \subseteq conn /\ leaked' = leaked
  BY <1>1, <1>3, Zenon DEF StaleInv
<1>4. CASE StartThread
  <2>1. /\ conn' = conn /\ leaked' = leaked
        /\ \A i \in Paths : link[i] # "none" => link'[i] = link[i]
    BY <1>1, <1>4, Zenon DEF StartThread
  <2> QED BY <1>1, <2>1, Zenon DEF StaleInv
<1>5. ASSUME NEW i \in Paths, ConnectThread(i)
      PROVE  StaleInv'
  <2> DEFINE Moves(x) == link' = [link EXCEPT ![i] = x]
  <2>1. ASSUME NEW x, Moves(x), x \notin {"none", "unrecv", "unsend", "back", "loop", "dial", "exited"},
               conn' \subseteq conn, leaked' = leaked
        PROVE  StaleInv'
    BY <1>1, <2>1, Zenon DEF StaleInv
  <2>2. ASSUME NEW x, Moves(x), conn' \subseteq conn, i \notin conn', leaked' = leaked
        PROVE  StaleInv'
    BY <1>1, <2>2, Zenon DEF StaleInv
  <2>3. CASE Loop(i)
    BY <1>1, <2>3, Zenon DEF Loop, Goto, StaleInv
  <2>4. CASE DialFails(i)
    BY <1>1, <2>4, Zenon DEF DialFails, Goto, StaleInv
  <2>5. CASE Dial(i)
    <3>1. /\ link[i] = "dial" /\ Moves("send") /\ conn' \subseteq conn \cup {i}
          /\ leaked' = leaked \/ (i \in conn /\ leaked' = leaked \cup {i})
      BY <2>5, Zenon DEF Dial, Goto
    <3> QED BY <1>1, <3>1, Zenon DEF StaleInv
  <2>6. CASE ConnectSend(i)
    <3>1. conn' = conn /\ leaked' = leaked /\ (Moves("recv") \/ (i = 1 /\ Moves("back")))
      BY <2>6, Zenon DEF ConnectSend, Goto
    <3> QED BY <1>1, <3>1, Zenon DEF StaleInv
  <2>7. CASE ConnectRecv(i) \/ ConnectPing(i) \/ ConnectHealth(i)
    BY <2>1, <2>2, <2>7, Zenon DEF ConnectRecv, ConnectPing, ConnectHealth, Goto
  <2>8. CASE ConnectUnrecv(i) \/ ConnectUnsend(i)
    <3>1. i \notin conn /\ conn' = conn /\ leaked' = leaked /\ \E x : Moves(x)
      BY <2>8, Zenon DEF ConnectUnrecv, ConnectUnsend, Goto, StaleInv
    <3> QED BY <2>2, <3>1, Zenon
  <2>9. CASE ConnectBack(i)
    BY <1>1, <1>2, <2>9, Zenon DEF ConnectBack, Goto, StaleInv
  <2>10. CASE Disconnected(i)
    BY <2>1, <2>10, Zenon DEF Disconnected, Goto
  <2>11. CASE StopConnected(i)
    BY <2>2, <2>11, Zenon DEF StopConnected, Goto
  <2> QED BY <1>5, <2>3, <2>4, <2>5, <2>6, <2>7, <2>8, <2>9, <2>10, <2>11, Zenon DEF ConnectThread
<1>6. CASE UNCHANGED vars \/ (CallerSteps /\ ~StartThread) \/ JoinFails \/ Close
           \/ \E i \in Paths : RecvLeaves(i)
  <2>1. link' = link /\ conn' \subseteq conn /\ leaked' = leaked
    BY <1>6, ZenonT(30) DEF CallerSteps, Acquire, OpenFails, StopThread, GiveBack, HaltConnects,
       HangUp, FreeContext, JoinFails, Close, RecvLeaves, paths, vars
  <2> QED BY <1>3, <2>1, Zenon
<1> QED BY <1>4, <1>5, <1>6, Zenon DEF Next, CallerSteps

\* Only path 1 of a sender that dials again can forget a connection.
THEOREM StaleSafe == Spec => []StaleInv
<1>1. Init => StaleInv
  BY Zenon DEF Init, StaleInv
<1> QED BY <1>1, LifeSafe, StaleStep, PTL DEF Spec

\* For any number of paths and any definition of a service: an open that
\* fails and a close leave nothing behind unless a join failed, but for
\* connections of path 1 of a sender that dials again.
THEOREM EverythingIsGivenBack == Spec => []NothingLeft
<1>1. LifeInv /\ StaleInv => NothingLeft
  BY Zenon DEF LifeInv, FinalInv, StaleInv, NothingLeft
<1> QED BY <1>1, LifeSafe, StaleSafe, PTL

\* No resource is that of a path beyond POTR_MAX_PATH.
LEMMA PathsInRange ==
    ASSUME NEW r \in Resources
    PROVE  r[2] \in 0 .. MaxPath
<1>1. \A name : One(name)[2] = 0
  BY Zenon DEF One
<1>2. MaxPath \in Nat /\ Paths \subseteq 0 .. MaxPath /\ 0 \in 0 .. MaxPath
  BY OpeningAssumption, SMTT(20) DEF Paths
<1>3. CASE r \in SetOf(TcpSync)
  BY <1>1, <1>2, <1>3, SyncNames
<1>4. CASE r \in {SendQueue, SendLock}
  BY <1>1, <1>2, <1>4, Zenon DEF SendQueue, SendLock
<1>5. CASE \E c \in Confs : r \in ContextOwns(c) \cup SetOf(ConnectResources(c))
  <2>1. PICK c \in Confs : r \in ContextOwns(c) \cup SetOf(ConnectResources(c))
    BY <1>5, Zenon
  <2>2. 1 .. NPath(c) \subseteq Paths
    BY PathCount, Zenon
  <2>3. CASE r \in SetOf(ConnectResources(c))
    <3>1. r = One("session_establish_mutex") \/ \E i \in 1 .. NPath(c) : r = <<"tcp_first_pkt_buf", i>>
      BY <2>3, ConnectNames, Zenon
    <3> QED BY <1>1, <1>2, <2>2, <3>1
  <2>4. CASE r \in SetOf(Buffers(c))
    <3>1. \/ r \in {One("send_window"), One("recv_window"), One("frag_buf"), One("compress_buf"),
                    One("recv_buf"), One("send_wire_buf"), One("crypto_buf"),
                    One("recv_compress_buf"), One("recv_crypto_buf")}
          \/ \E i \in 1 .. NPath(c) : r = <<"tcp_recv_buf", i>>
      BY <2>4, BufferNames, Zenon
    <3> QED BY <1>1, <1>2, <2>2, <3>1, SMTT(20)
  <2>5. CASE r \in SetOf(Each("sock", NPath(c))) \cup SetOf(Each("tcp_listen_sock", NPath(c)))
    <3>1. \E i \in 1 .. NPath(c) : r = <<"sock", i>> \/ r = <<"tcp_listen_sock", i>>
      BY <2>5, SocketNames
    <3> QED BY <1>2, <2>2, <3>1, SMTT(20)
  <2>6. CASE r \in {One("ctx"), One("callback_mutex"), One("peers")}
    BY <1>1, <1>2, <2>6, Zenon
  <2> QED BY <2>1, <2>3, <2>4, <2>5, <2>6, Zenon DEF ContextOwns
<1> QED BY <1>3, <1>4, <1>5, Zenon DEF Resources

\* The life of a service stays in its types for any number of paths; in
\* particular no resource and no thread belongs to a path that does not exist.
THEOREM TypeCorrect == Spec => []TypeOK
<1>1. ASSUME LifeInv, StaleInv PROVE TypeOK
  <2>1. live \subseteq Threads
    <3>1. conf \in Confs /\ live \subseteq ThreadsOf(conf)
      BY <1>1, Zenon DEF LifeInv, Typed, ThreadInv
    <3>2. 1 .. NPath(conf) \subseteq Paths /\ 1 \in Paths
      BY <3>1, PathCount, OpeningAssumption DEF Paths
    <3>3. ThreadsOf(conf) \subseteq Threads
      BY <3>2 DEF ThreadsOf, Threads, HealthThread, RecvThread
    <3> QED BY <3>1, <3>3, Zenon
  <2>2. ASSUME NEW k \in DOMAIN plan
        PROVE  plan[k].do \in {"get", "run", "check", "refuse", "stop", "try", "put", "halt", "hangup", "free"}
    <3>1. plan[k] \in Steps
      BY <1>1 DEF LifeInv, Typed
    <3> QED BY <3>1, Zenon DEF Steps
  <2>3. res \subseteq Resources /\ \A r \in res : r[2] \in 0 .. MaxPath
    BY <1>1, PathsInRange, Zenon DEF LifeInv, Typed
  <2>4. rx \subseteq conn \cup {i \in Paths : <<"recv", i>> \in live}
    BY <1>1, Zenon DEF LifeInv, Typed, ThreadInv
  <2>5. leaked \subseteq Paths
    <3>1. 1 \in Paths
      BY OpeningAssumption DEF Paths
    <3> QED BY <1>1, <3>1, Zenon DEF StaleInv
  <2> QED BY <1>1, <2>1, <2>2, <2>3, <2>4, <2>5, Zenon DEF LifeInv, Typed, TypeOK
<1> QED BY <1>1, LifeSafe, StaleSafe, PTL

=============================================================================

------------------------------- MODULE Opening -------------------------------
(***************************************************************************)
(* What potr_service_open acquires and potr_service_close gives back, as   *)
(* sequences of steps: which paths a definition of a service opens, which  *)
(* sockets, buffers, locks and threads the service needs, in which order   *)
(* they are acquired, and what is undone when one of them cannot be had.   *)
(* Lifecycle executes the steps.                                           *)
(*                                                                         *)
(* Paths are counted from 1 where the code counts from 0.  A resource is a *)
(* pair of the field of potr_context and the path, 0 for one that the      *)
(* service has only once; a thread is named in the same way.               *)
(***************************************************************************)
EXTENDS Naturals, Sequences, Sizes

CONSTANTS
    MaxPath,     \* POTR_MAX_PATH
    Confs        \* the definitions of services that are opened

Paths == 1 .. MaxPath

\* A definition: its type without the RAW variants, which open the same
\* paths and threads; the role; the paths with a src_addr and with a
\* dst_addr; health_interval_ms > 0; reconnect_interval_ms > 0.
ASSUME OpeningAssumption ==
    /\ MaxPath \in Nat \ {0} /\ Sized(Paths) /\ Cardinality(Paths) = MaxPath
    /\ Confs \subseteq [type : {"unicast", "multicast", "broadcast", "bidir", "n1", "tcp", "tcp_bidir"},
                        role : {"sender", "receiver"}, src : SUBSET Paths, dst : SUBSET Paths,
                        health : BOOLEAN, retry : BOOLEAN]

Tcp(c) == c.type \in {"tcp", "tcp_bidir"}

\* The services that have a send queue and a send thread.
Sends(c) == c.role = "sender" \/ c.type \in {"bidir", "n1", "tcp_bidir"}

-----------------------------------------------------------------------------
\* Steps: to acquire a resource, to start a thread, to check something that
\* can be wrong, to fail, to stop a thread, to give resources back.

Get(r) == [do |-> "get", what |-> r]
Run(t) == [do |-> "run", what |-> t]
Check  == [do |-> "check", what |-> <<"none", 0>>]
Refuse == [do |-> "refuse", what |-> <<"none", 0>>]
Stop(t) == [do |-> "stop", what |-> t]
Try(t) == [do |-> "try", what |-> t]
Put(R) == [do |-> "put", what |-> R]
Halt   == [do |-> "halt", what |-> <<"none", 0>>]
Hangup == [do |-> "hangup", what |-> <<"none", 0>>]
Free   == [do |-> "free", what |-> <<"none", 0>>]

One(name) == <<name, 0>>
Each(name, n) == [i \in 1 .. n |-> <<name, i>>]
GetAll(rs) == [i \in DOMAIN rs |-> Get(rs[i])]
SetOf(rs) == {rs[i] : i \in DOMAIN rs}

-----------------------------------------------------------------------------
\* The loops over the paths end at the first path without its addresses.
\* The slip does not stop at POTR_MAX_PATH.
PrefixPast(S) == {i \in 1 .. MaxPath + 1 : 1 .. i - 1 \subseteq S}

Prefix(S) == {i \in Paths : 1 .. i \subseteq S}

UnicastPaths(c) == Prefix(c.src \cap c.dst)

MulticastPaths(c) == Prefix(c.src)

BroadcastPaths(c) == Prefix(c.src)

\* A receiver without src_addr[0] learns its sender from the first packet.
BidirPaths(c) ==
    IF c.role = "sender" THEN Prefix(c.dst)
    ELSE IF 1 \in c.src THEN Prefix(c.src \cap c.dst)
    ELSE {1}

N1Paths(c) == IF 1 \in c.dst THEN Prefix(c.dst) ELSE {1}

TcpPaths(c) == Prefix(c.dst)

NPath(c) ==
    Cardinality(CASE c.type = "unicast"   -> UnicastPaths(c)
                  [] c.type = "multicast" -> MulticastPaths(c)
                  [] c.type = "broadcast" -> BroadcastPaths(c)
                  [] c.type = "bidir"     -> BidirPaths(c)
                  [] c.type = "n1"        -> N1Paths(c)
                  [] OTHER                -> TcpPaths(c))

\* open_socket_unicast, _multicast and _broadcast leave either a bound socket
\* or nothing.
OpenUdpSockets(c) == GetAll(Each("sock", NPath(c)))

\* A TCP sender only resolves its addresses, the connect threads open its
\* sockets.
OpenTcpSockets(c) ==
    IF c.role = "receiver"
    THEN GetAll(Each("tcp_listen_sock", NPath(c)))
    ELSE [i \in 1 .. NPath(c) |-> Check]

\* The leading check is that of dst_port and of multicast_group.
OpenPathsByType(c) ==
    <<Check>>
    \o (IF Tcp(c) THEN OpenTcpSockets(c) ELSE OpenUdpSockets(c))
    \o (IF NPath(c) = 0 THEN <<Refuse>> ELSE <<>>)
    \o (IF c.type = "n1" THEN <<Get(One("peers"))>> ELSE <<>>)

\* Only the address of a group can be malformed here.
SetupDestAddr(c) ==
    IF c.role = "sender" /\ c.type \in {"multicast", "broadcast"} THEN <<Check>> ELSE <<>>

Buffers(c) ==
    <<One("send_window"), One("recv_window"), One("frag_buf"), One("compress_buf"),
      One("recv_buf"), One("send_wire_buf"), One("crypto_buf"),
      One("recv_compress_buf"), One("recv_crypto_buf")>>
    \o (IF Tcp(c) THEN Each("tcp_recv_buf", NPath(c)) ELSE <<>>)

-----------------------------------------------------------------------------
\* Threads

SendQueue == One("send_queue")
SendLock == One("send_window_mutex")
HealthLocks == <<<<"health_mutex", 1>>, <<"health_wakeup", 1>>>>
SendThread == <<"send", 0>>
HealthThread == <<"health", 1>>
RecvThread == <<"recv", 1>>

StartSend == <<Get(SendLock), Run(SendThread)>>

StartHealth(c) ==
    IF c.health THEN GetAll(HealthLocks) \o <<Run(HealthThread)>> ELSE <<>>

StartThreadsUdp(c) ==
    (IF Sends(c) THEN <<Get(SendQueue)>> \o StartSend \o StartHealth(c) ELSE <<>>)
    \o <<Run(RecvThread)>>

TcpSync ==
    <<One("tcp_recv_mutex"), One("tcp_state_mutex"), One("tcp_state_cv"),
      One("tcp_close_mutex"), One("tcp_close_cv")>>
    \o [k \in 1 .. 3 * MaxPath |->
           <<<<"tcp_send_mutex", "health_mutex", "health_wakeup">>[((k - 1) % 3) + 1],
             ((k - 1) \div 3) + 1>>]
    \o <<One("recv_window_mutex")>>

\* What the accept loops need.
ConnectResources(c) ==
    IF c.role = "receiver"
    THEN <<One("session_establish_mutex")>> \o Each("tcp_first_pkt_buf", NPath(c))
    ELSE <<>>

ConnectStart(c) ==
    GetAll(ConnectResources(c)) \o [i \in 1 .. NPath(c) |-> Run(<<"connect", i>>)]

\* Every join must succeed before the next step.
ConnectStop(c) ==
    <<Halt, Hangup>>
    \o [i \in 1 .. NPath(c) |-> Stop(<<"connect", i>>)]
    \o [k \in 1 .. 2 * NPath(c) |->
           Stop(<<IF k % 2 = 1 THEN "recv" ELSE "health", (k + 1) \div 2>>)]
    \o <<Stop(SendThread), Put(SetOf(ConnectResources(c)))>>

StartThreadsTcp(c) ==
    GetAll(TcpSync) \o (IF Sends(c) THEN <<Get(SendQueue)>> ELSE <<>>) \o ConnectStart(c)

-----------------------------------------------------------------------------
\* open_validate_callback and open_validate_config: a definition that they
\* refuse is a check that fails.
Validate == <<Check>>

\* generate_session, which fails without random bytes.
GenerateSession == <<Check>>

OpenSteps(c) ==
    <<Get(One("ctx")), Get(One("callback_mutex"))>> \o Validate
    \o OpenPathsByType(c) \o SetupDestAddr(c) \o GenerateSession \o GetAll(Buffers(c))
    \o (IF Tcp(c) THEN StartThreadsTcp(c) ELSE StartThreadsUdp(c))

\* What a failed start of a thread gives back by itself.
OwnLocks(step) ==
    CASE step = Run(SendThread)   -> {SendLock}
      [] step = Get(HealthLocks[2]) -> {HealthLocks[1]}
      [] step = Run(HealthThread) -> SetOf(HealthLocks)
      [] OTHER                    -> {}

\* What follows a failed step of the opening.  A thread that was not started
\* needs no stop, and what was not acquired is not given back.
UdpRollback(c, step) ==
    <<Put(OwnLocks(step)), Stop(HealthThread), Stop(SendThread), Put({SendQueue}), Free>>

\* The slip keeps the locks and condition variables.
TcpRollbackKeepsSync(c, step) ==
    (IF step.do = "run" THEN ConnectStop(c) ELSE <<Put(SetOf(ConnectResources(c)))>>)
    \o <<Put({SendQueue}), Free>>

TcpRollback(c, step) ==
    (IF step.do = "run" THEN ConnectStop(c) ELSE <<Put(SetOf(ConnectResources(c)))>>)
    \o <<Put({SendQueue}), Put(SetOf(TcpSync)), Free>>

\* The slip stops the send thread before the receive thread.
CloseUdpSendFirst(c) ==
    <<Stop(HealthThread), Stop(SendThread), Put({SendQueue}), Stop(RecvThread),
      Put(SetOf(Each("sock", NPath(c)))), Free>>

\* potr_service_close; the FIN and the wait for the queue are in SendQueue
\* and UdpLink.
CloseUdp(c) ==
    <<Stop(HealthThread), Stop(RecvThread), Stop(SendThread), Put({SendQueue}),
      Put(SetOf(Each("sock", NPath(c)))), Free>>

\* sending is send_thread_running; the FIN and its answer are in TcpLink.
CloseTcp(c, sending) ==
    (IF sending THEN [i \in 1 .. NPath(c) |-> Try(<<"health", i>>)] ELSE <<>>)
    \o ConnectStop(c) \o <<Put({SendQueue}), Put(SetOf(TcpSync)), Free>>

\* api_context_dispose_resources and the context itself
ContextOwns(c) ==
    {One("ctx"), One("callback_mutex"), One("peers")} \cup SetOf(Buffers(c))
    \cup SetOf(Each("sock", NPath(c))) \cup SetOf(Each("tcp_listen_sock", NPath(c)))

\* The locks that the stop of a thread disposes after the join.
LocksOf(c, t) ==
    CASE t = SendThread -> {SendLock}
      [] t = HealthThread /\ ~Tcp(c) -> SetOf(HealthLocks)
      [] OTHER -> {}
==============================================================================

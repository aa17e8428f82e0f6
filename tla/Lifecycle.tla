------------------------------ MODULE Lifecycle ------------------------------
(***************************************************************************)
(* The life of one service handle: potr_service_open and                   *)
(* potr_service_close, which execute the steps of Opening and may fail at  *)
(* each of them, and the TCP connect threads, which run beside them and    *)
(* start and stop the send thread and the receive and health threads of    *)
(* their paths.                                                            *)
(*                                                                         *)
(* A thread is in live as long as its handle is not NULL: from the         *)
(* successful creation to the successful join.  Joins of the connect       *)
(* threads are taken to succeed, those of open and close may fail.         *)
(***************************************************************************)
EXTENDS Opening

VARIABLES
    conf,        \* the definition of the service
    at,          \* where the caller is
    plan,        \* the steps of the current call that are left
    res,         \* what the service holds
    live,        \* its threads
    closing,     \* close_requested
    halted,      \* connect_thread_running is 0
    link,        \* where each connect thread is
    started,     \* started_send_thread of the connect thread of path 1
    conn,        \* the paths with a tcp_conn_fd
    leaked,      \* the paths where an open tcp_conn_fd was overwritten
    rx           \* the paths whose receive thread has not left its loop

caller == <<conf, at, plan, closing, halted>>
paths == <<link, started, conn, leaked, rx>>
vars == <<caller, res, live, paths>>

Calls == {"opening", "undoing", "closing"}

\* "kept" is a close that failed: the caller still has the handle.
Places == Calls \cup {"open", "failed", "closed", "kept"}

\* Where a connect thread is while it holds session_establish_mutex: it runs
\* start_connected_threads.
Starting == {"send", "recv", "ping", "health", "unrecv", "unsend", "back"}

LinkPoints == Starting \cup {"none", "loop", "dial", "up", "down", "exited"}

Resources == (SetOf(TcpSync) \cup UNION {ContextOwns(c) \cup SetOf(ConnectResources(c)) : c \in Confs})
             \cup {SendQueue, SendLock}
Threads == {SendThread} \cup ({"recv", "health", "connect"} \X Paths)

TypeOK ==
    /\ conf \in Confs /\ at \in Places /\ closing \in BOOLEAN /\ halted \in BOOLEAN
    /\ \A k \in DOMAIN plan :
          plan[k].do \in {"get", "run", "check", "refuse", "stop", "try", "put", "halt", "hangup", "free"}
    /\ res \subseteq Resources /\ \A r \in res : r[2] \in 0 .. MaxPath
    /\ live \subseteq Threads
    /\ link \in [Paths -> LinkPoints] /\ started \in BOOLEAN
    /\ conn \subseteq Paths /\ leaked \subseteq Paths
    /\ rx \subseteq conn \cup {i \in Paths : <<"recv", i>> \in live}

Init ==
    /\ conf \in Confs
    /\ at = "opening" /\ plan = OpenSteps(conf)
    /\ res = {} /\ live = {} /\ closing = FALSE /\ halted = FALSE
    /\ link = [i \in Paths |-> "none"] /\ started = FALSE
    /\ conn = {} /\ leaked = {} /\ rx = {}

-----------------------------------------------------------------------------
\* The caller

\* The call goes on with the next step, or returns after the last one.
Proceed(after) ==
    /\ plan' = Tail(plan)
    /\ at' = IF Len(plan) > 1 THEN at ELSE after

Acquire ==
    /\ at = "opening" /\ Head(plan).do \in {"get", "check"}
    /\ res' = IF Head(plan).do = "get" THEN res \cup {Head(plan).what} ELSE res
    /\ Proceed("open")
    /\ UNCHANGED <<conf, live, closing, halted, paths>>

StartThread ==
    /\ at = "opening" /\ Head(plan).do = "run"
    /\ live' = live \cup {Head(plan).what}
    /\ link' = [i \in Paths |-> IF link[i] = "none" /\ <<"connect", i>> \in live' THEN "loop" ELSE link[i]]
    /\ Proceed("open")
    /\ UNCHANGED <<conf, res, closing, halted, started, conn, leaked, rx>>

\* Any step of the opening may fail, and is then undone.
OpenFails ==
    /\ at = "opening"
    /\ at' = "undoing"
    /\ plan' = IF Tcp(conf) THEN TcpRollback(conf, Head(plan)) ELSE UdpRollback(conf, Head(plan))
    /\ UNCHANGED <<conf, res, live, closing, halted, paths>>

Ending == at \in {"undoing", "closing"}

Exited(t) ==
    CASE t[1] = "connect" -> link[t[2]] = "exited"
      [] t[1] = "recv" /\ Tcp(conf) -> t[2] \notin rx
      [] OTHER -> TRUE

StopThread ==
    /\ Ending /\ Head(plan).do \in {"stop", "try"}
    /\ LET t == Head(plan).what
       IN  /\ t \in live => Exited(t)
           /\ live' = live \ {t}
           /\ res' = IF t \in live THEN res \ LocksOf(conf, t) ELSE res
    /\ plan' = Tail(plan)
    /\ UNCHANGED <<conf, at, closing, halted, paths>>

\* A failed join: close returns, a failed open goes on to ctx_cleanup.  Close
\* does not look at the joins of stop_tcp_health_threads.
JoinFails ==
    /\ Ending /\ Head(plan).do \in {"stop", "try"} /\ Head(plan).what \in live
    /\ \/ Head(plan).do = "stop" /\ at = "closing" /\ at' = "kept" /\ plan' = <<>>
       \/ Head(plan).do = "stop" /\ at = "undoing" /\ at' = at /\ plan' = <<Free>>
       \/ Head(plan).do = "try" /\ at' = at /\ plan' = Tail(plan)
    /\ UNCHANGED <<conf, res, live, closing, halted, paths>>

GiveBack ==
    /\ Ending /\ Head(plan).do = "put"
    /\ res' = res \ Head(plan).what
    /\ plan' = Tail(plan)
    /\ UNCHANGED <<conf, at, live, closing, halted, paths>>

\* potr_internal_connect_thread_stop first tells the connect threads to
\* leave their loops, then closes what they may wait for.
HaltConnects ==
    /\ Ending /\ Head(plan).do = "halt"
    /\ halted' = TRUE
    /\ plan' = Tail(plan)
    /\ UNCHANGED <<conf, at, closing, res, live, paths>>

HangUp ==
    /\ Ending /\ Head(plan).do = "hangup"
    /\ IF live \cap ({"connect"} \X Paths) = {}
       THEN UNCHANGED <<res, conn>>
       ELSE res' = res \ ({"tcp_listen_sock"} \X Paths) /\ conn' = {}
    /\ plan' = Tail(plan)
    /\ UNCHANGED <<conf, at, closing, halted, live, link, started, leaked, rx>>

\* ctx_cleanup, which retains the context as long as a thread has a handle,
\* and the end of potr_service_close.
FreeContext ==
    /\ Ending /\ Head(plan).do = "free"
    /\ IF live # {}
       THEN UNCHANGED <<res, conn>>
       ELSE res' = res \ ContextOwns(conf) /\ conn' = {}
    /\ Proceed(IF at = "undoing" THEN "failed" ELSE "closed")
    /\ UNCHANGED <<conf, closing, halted, live, link, started, leaked, rx>>

Close ==
    /\ at \in {"open", "kept"}
    /\ at' = "closing" /\ closing' = TRUE
    /\ plan' = IF Tcp(conf) THEN CloseTcp(conf, SendThread \in live) ELSE CloseUdp(conf)
    /\ UNCHANGED <<conf, halted, res, live, paths>>

-----------------------------------------------------------------------------
\* The connect thread of path i: sender_connect_loop, receiver_accept_loop

Goto(i, point) == link' = [link EXCEPT ![i] = point]

Loop(i) ==
    /\ link[i] = "loop"
    /\ Goto(i, IF halted THEN "exited" ELSE "dial")
    /\ UNCHANGED <<caller, res, live, started, conn, leaked, rx>>

\* An attempt fails, or accept refuses the connection; without
\* reconnect_interval_ms a sender does not try again.
DialFails(i) ==
    /\ link[i] = "dial"
    /\ Goto(i, IF conf.role = "sender" /\ ~conf.retry THEN "exited" ELSE "loop")
    /\ UNCHANGED <<caller, res, live, started, conn, leaked, rx>>

\* The connection is published; a sender overwrites the descriptor that it
\* finds.  A receiver that accepts a new session closes the connections of the
\* other paths.
Dial(i) ==
    /\ link[i] = "dial"
    /\ \/ conf.role = "sender" /\ conn' = conn \cup {i}
       \/ /\ conf.role = "receiver" /\ <<"tcp_listen_sock", i>> \in res
          /\ \A j \in Paths : link[j] \notin Starting
          /\ conn' \in {{i}, conn \cup {i}}
    /\ leaked' = IF conf.role = "sender" /\ i \in conn THEN leaked \cup {i} ELSE leaked
    /\ Goto(i, "send")
    /\ UNCHANGED <<caller, res, live, started, rx>>

\* potr_internal_start_connected_threads, step by step.
ConnectSend(i) ==
    /\ link[i] = "send"
    /\ IF Sends(conf) /\ i = 1 /\ SendThread \notin live
       THEN \/ /\ live' = live \cup {SendThread} /\ res' = res \cup {SendLock}
               /\ started' = TRUE /\ Goto(i, "recv")
            \/ /\ UNCHANGED <<live, res, started>> /\ Goto(i, "back")
       ELSE UNCHANGED <<live, res, started>> /\ Goto(i, "recv")
    /\ UNCHANGED <<caller, conn, leaked, rx>>

ConnectRecv(i) ==
    /\ link[i] = "recv"
    /\ \/ live' = live \cup {<<"recv", i>>} /\ rx' = rx \cup {i} /\ Goto(i, "ping") /\ UNCHANGED conn
       \/ conn' = conn \ {i} /\ Goto(i, "unsend") /\ UNCHANGED <<live, rx>>
    /\ UNCHANGED <<caller, res, started, leaked>>

\* The slip sends the PING although close was called.
PingWhileClosing(i) ==
    /\ link[i] = "ping"
    /\ \/ i \in conn /\ Goto(i, "health") /\ UNCHANGED conn
       \/ conn' = conn \ {i} /\ Goto(i, "unrecv")
    /\ UNCHANGED <<caller, res, live, started, leaked, rx>>

\* The bootstrap PING fails when close was called, when the connection is
\* gone, and when it cannot be written.
ConnectPing(i) ==
    /\ link[i] = "ping"
    /\ \/ ~closing /\ i \in conn /\ Goto(i, "health") /\ UNCHANGED conn
       \/ conn' = conn \ {i} /\ Goto(i, "unrecv")
    /\ UNCHANGED <<caller, res, live, started, leaked, rx>>

ConnectHealth(i) ==
    /\ link[i] = "health"
    /\ \/ /\ live' = IF conf.health THEN live \cup {<<"health", i>>} ELSE live
          /\ started' = (started /\ i # 1) /\ Goto(i, "up") /\ UNCHANGED conn
       \/ conf.health /\ conn' = conn \ {i} /\ Goto(i, "unrecv") /\ UNCHANGED <<live, started>>
    /\ UNCHANGED <<caller, res, leaked, rx>>

\* join_recv_thread
ConnectUnrecv(i) ==
    /\ link[i] = "unrecv" /\ i \notin rx
    /\ live' = live \ {<<"recv", i>>}
    /\ Goto(i, "unsend")
    /\ UNCHANGED <<caller, res, started, conn, leaked, rx>>

ConnectUnsend(i) ==
    /\ link[i] = "unsend"
    /\ IF started /\ i = 1
       THEN live' = live \ {SendThread} /\ res' = res \ {SendLock} /\ started' = FALSE
       ELSE UNCHANGED <<live, res, started>>
    /\ Goto(i, "back")
    /\ UNCHANGED <<caller, conn, leaked, rx>>

\* A receiver closes the connection, a sender leaves it to the steps before.
ConnectBack(i) ==
    /\ link[i] = "back"
    /\ conn' = IF conf.role = "receiver" THEN conn \ {i} ELSE conn
    /\ Goto(i, IF conf.role = "sender" /\ ~conf.retry THEN "exited" ELSE "loop")
    /\ UNCHANGED <<caller, res, live, started, leaked, rx>>

\* The wait for the receive thread of the connection.
Disconnected(i) ==
    /\ link[i] = "up" /\ i \notin rx
    /\ live' = live \ {<<"recv", i>>}
    /\ Goto(i, "down")
    /\ UNCHANGED <<caller, res, started, conn, leaked, rx>>

\* stop_connected_threads
StopConnected(i) ==
    /\ link[i] = "down"
    /\ conn' = conn \ {i} /\ live' = live \ {<<"health", i>>}
    /\ Goto(i, IF conf.role = "sender" /\ ~conf.retry THEN "exited" ELSE "loop")
    /\ UNCHANGED <<caller, res, started, leaked, rx>>

ConnectThread(i) ==
    \/ Loop(i) \/ DialFails(i) \/ Dial(i)
    \/ ConnectSend(i) \/ ConnectRecv(i) \/ ConnectPing(i) \/ ConnectHealth(i)
    \/ ConnectUnrecv(i) \/ ConnectUnsend(i) \/ ConnectBack(i)
    \/ Disconnected(i) \/ StopConnected(i)

\* tcp_recv_thread_func leaves its loop when the connection was closed here,
\* and may leave it when the peer closes it, or falls silent.
RecvLeaves(i) ==
    /\ i \in rx
    /\ rx' = rx \ {i}
    /\ UNCHANGED <<caller, res, live, link, started, conn, leaked>>

-----------------------------------------------------------------------------
CallerSteps ==
    Acquire \/ StartThread \/ OpenFails \/ StopThread \/ GiveBack \/ HaltConnects \/ HangUp \/ FreeContext

Next == \/ CallerSteps \/ JoinFails \/ Close
        \/ \E i \in Paths : ConnectThread(i) \/ RecvLeaves(i)

Spec == Init /\ [][Next]_vars

RecvNotices(i) == i \notin conn /\ RecvLeaves(i)

\* Every thread that can go on does so, and a receive thread notices that its
\* socket was closed.  Calls of close, failed joins and the peer's part of a
\* connection are not fair.
FairSpec ==
    /\ Spec /\ WF_vars(CallerSteps)
    /\ \A i \in Paths : WF_vars(ConnectThread(i)) /\ WF_vars(RecvNotices(i))

-----------------------------------------------------------------------------
\* What a thread reads, writes or locks and what must be there as long as it
\* can run.  The receive and health threads of a UDP service also lock
\* send_window_mutex; those of an N:1 service the one of the peer instead.
Requires(c, t) ==
    {One("ctx"), One("callback_mutex")}
    \cup (IF Tcp(c) THEN SetOf(TcpSync) ELSE SetOf(Each("sock", NPath(c))))
    \cup (IF c.type = "n1" THEN {One("peers")} ELSE {})
    \cup (CASE t = SendThread -> {SendQueue, SendLock, One("send_window"), One("send_wire_buf"), One("crypto_buf")}
            [] t[1] = "health" -> {<<"health_mutex", t[2]>>, <<"health_wakeup", t[2]>>, One("send_window")}
                                  \cup (IF Tcp(c) \/ c.type = "n1" THEN {} ELSE {SendLock})
            [] t[1] = "connect" -> SetOf(ConnectResources(c)) \cup (IF Sends(c) THEN {SendQueue} ELSE {})
            [] OTHER -> {One("recv_window"), One("frag_buf"), One("recv_compress_buf"), One("recv_crypto_buf")}
                        \cup (IF Tcp(c) THEN {<<"tcp_recv_buf", t[2]>>}
                              ELSE {One("recv_buf")} \cup (IF Sends(c) THEN {SendLock} ELSE {})))

\* The locks that a thread takes and that come and go with another thread.
\* In a TCP service the PINGs of the health threads, the bootstrap PING and
\* reset_all_paths_disconnected lock send_window_mutex; in a UDP service
\* signal_health_thread locks health_mutex after it read health_running.
Borrows(c, t) ==
    IF Tcp(c) THEN (IF t[1] \in {"health", "connect"} THEN {SendLock} ELSE {})
    ELSE IF c.health /\ \/ t = SendThread /\ c.type # "n1"
                        \/ t = RecvThread /\ c.type \in {"bidir", "n1"}
    THEN SetOf(HealthLocks) ELSE {}

Uses(c, t) == Requires(c, t) \cup Borrows(c, t)

\* architecture.md:806, sequence-lifecycle.md:229: what a thread uses is
\* released after the thread has been waited for, whatever step of opening or
\* closing fails and whatever the connect threads do meanwhile.  The exception
\* is a lock that the thread borrows from one that does not run:
\* send_window_mutex of a TCP service is not there before the send thread is
\* started, and goes when path 1 stops it again; health_mutex goes when a UDP
\* service stops its health thread.  Threads that may take them live on.
ThreadsHaveResources ==
    \A t \in live : \A r \in Uses(conf, t) \ res :
        r \in Borrows(conf, t) /\ \E owner \in Threads \ live : r \in LocksOf(conf, owner)

\* POTR-SERVICE-QUAL-001: an open that fails, and a close, have given back
\* everything when they return, unless a thread could not be waited for.  The
\* exception is a TCP sender that dials again: start_connected_threads does
\* not close the connection of path 1 when the send thread cannot be started,
\* and the next connection overwrites its descriptor.
NothingLeft ==
    at \in {"failed", "closed", "kept"} /\ live = {} =>
    /\ res = {} /\ conn = {}
    /\ leaked # {} => leaked = {1} /\ conf.role = "sender" /\ conf.retry

\* Open and close return, also when a path gets its connection after
\* potr_internal_connect_thread_stop closed the connections.  The exception:
\* a failed open does not set close_requested, and waits for a connect thread
\* as long as that one is connected.
CallsEnd ==
    []<>(at \in Calls => at = "undoing" /\ \E i \in Paths : link[i] = "up")
==============================================================================

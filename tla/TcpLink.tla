------------------------------- MODULE TcpLink -------------------------------
(***************************************************************************)
(* A one-way TCP service over several paths: the connect threads of the    *)
(* sender (sender_connect_loop), the accept threads of the receiver        *)
(* (receiver_accept_loop), the receive and health threads of both, the     *)
(* PING exchange that makes a path CONNECTED, and close with FIN and       *)
(* FIN_ACK.  Data goes out on every path; the receiver puts the copies     *)
(* together in one window.                                                 *)
(*                                                                         *)
(* wire[p] holds the connections of path p, oldest first: the first is the *)
(* one the receiver accepts or reads, the last the one the sender writes.  *)
(* A connection may be cut at any time; each end finds out on its own and  *)
(* may still read a part of what is under way.                             *)
(*                                                                         *)
(* The fields snd and rcv share:                                           *)
(*   at       where the connect or accept thread of each path is           *)
(*   active   tcp_active_paths                                             *)
(*   ping     path_ping_state                                              *)
(*   remote   remote_path_ping_state                                       *)
(*   alive    health_alive                                                 *)
(* A path is "up" from connection to count-out: "ended" if a PING timeout  *)
(* ended its receive thread, "shut" if a new session closed its socket.    *)
(* The last path counted out is "left" until it has reset the state.  Then *)
(* the path is "down" again, or "exited".                                  *)
(*                                                                         *)
(* What the receiver sends back is not queued: its PINGs reach the sender  *)
(* at once or later, and FIN_ACK is a mark on the connection.              *)
(***************************************************************************)
EXTENDS Window, Sequences, Functions

CONSTANTS
    Paths,       \* the configured paths
    Path0,       \* the first of them: its connect thread starts the send thread
    Sessions,    \* sessions of the sender, in order
    Elements,    \* positions of the packets of a session
    Confs,       \* the configurations looked at
    MaxCuts,     \* bound on the connections cut in use or while they start
    MaxConns     \* bound on the connections of a path at one time

ASSUME TcpAssumption ==
    /\ Sized(Paths) /\ Path0 \in Paths
    /\ Sessions \subseteq Nat \ {0} /\ Sessions # {} /\ Elements \subseteq Nat
    /\ Packets = Sessions \X Elements
    /\ \A c \in Confs : /\ c.timeouts \in BOOLEAN /\ c.reconnects \in BOOLEAN
                        /\ c.closes \in BOOLEAN /\ c.lossy \subseteq Paths
                        /\ c.sessions \subseteq Sessions /\ c.elements \subseteq Elements
                        /\ c.wire \in Nat
    /\ MaxConns \in Nat /\ MaxCuts \in Nat

\* rcv.conf is the configuration of both ends and never changes.  timeouts is
\* health_interval_ms > 0 and health_timeout_ms > 0, reconnects is
\* reconnect_interval_ms > 0, and closes says that the application closes the
\* sender.  lossy are the paths the network may cut, wire is the number of
\* packets a connection holds on the way to the receiver, and sessions and
\* elements bound the run.
VARIABLES snd, rcv, wire

vars == <<snd, rcv, wire>>

Conf == rcv.conf

\* No accepted session, and no pending FIN.
None == 0

NoFin == -1

\* The last element: of the connections of a path, the one the sender uses.
Last(s) == s[Len(s)]

PingStates == [Paths -> {"UNDEFINED", "NORMAL", "ABNORMAL"}]

AllUndefined == [p \in Paths |-> "UNDEFINED"]

Messages ==
    [kind : {"PING"}, states : PingStates]
    \cup [kind : {"DATA"}, seq : Seqs, elem : Packets]
    \cup [kind : {"FIN"}, target : Seqs]

\* toR: what is on the way to the receiver; said: what the last PING in it
\* told; ack: the FIN_ACK on the way back.
Connections == [sess : Sessions, cut : BOOLEAN, toR : Seq(Messages), said : PingStates,
                ack : Seqs \cup {NoFin}]

Points == {"down", "up", "ended", "shut", "left", "exited"}

\* queued: a packet the send thread has not taken yet; sending: the send
\* thread runs; phase and ret: how far potr_service_close is and what it
\* returned; renumbered: a sender began again at 0 in the middle of a session.
Senders ==
    [at : [Paths -> Points], active : 0 .. Cardinality(Paths), ping : PingStates,
     remote : PingStates, alive : BOOLEAN, sess : Sessions, seq : Seqs, sent : Nat,
     queued : BOOLEAN, sending : BOOLEAN, phase : {"open", "drain", "wait", "closed"},
     target : Seqs \cup {NoFin}, acked : BOOLEAN, renumbered : BOOLEAN,
     cuts : 0 .. MaxCuts, ret : {"none", "OK", "TIMEOUT", "DISCONNECTED", "IO"}]

\* accepted: tcp_accepted_session; trace, old and past: what the application
\* got since CONNECTED, what it got before and what it got before FIN or the
\* loss of all paths ended a session; dropped: what was taken out of the window
\* without being delivered.
Receivers ==
    [conf : Confs, at : [Paths -> Points], active : 0 .. Cardinality(Paths), ping : PingStates,
     remote : PingStates, alive : BOOLEAN, accepted : Sessions \cup {None},
     known : BOOLEAN, sess : Sessions \cup {None}, win : Windows,
     fin : Seqs \cup {NoFin}, trace : Seq(Packets), old : SUBSET Packets,
     past : SUBSET Packets, dropped : SUBSET Packets]

NewSender(s) ==
    [at |-> [p \in Paths |-> "down"], active |-> 0, ping |-> AllUndefined,
     remote |-> AllUndefined, alive |-> FALSE, sess |-> s, seq |-> 0, sent |-> 0,
     queued |-> FALSE, sending |-> FALSE, phase |-> "open", target |-> NoFin,
     acked |-> FALSE, renumbered |-> FALSE, cuts |-> 0, ret |-> "none"]

Init ==
    /\ \E s \in Sessions : snd = NewSender(s) /\ \A x \in Sessions : s <= x
    /\ \E c \in Confs :
       rcv = [conf |-> c, at |-> [p \in Paths |-> "down"], active |-> 0, ping |-> AllUndefined,
              remote |-> AllUndefined, alive |-> FALSE, accepted |-> None,
              known |-> FALSE, sess |-> None, win |-> EmptyWindow(0), fin |-> NoFin,
              trace |-> << >>, old |-> {}, past |-> {}, dropped |-> {}]
    /\ wire = [p \in Paths |-> << >>]

-----------------------------------------------------------------------------
\* What both ends do

\* The paths with a socket in tcp_conn_fd.
Sockets(e) == {p \in Paths : e.at[p] \in {"up", "ended"}}

\* potr_internal_copy_tcp_path_states: the paths CONNECTED both ways.
Logical(e) == {p \in Sockets(e) : e.ping[p] = "NORMAL" /\ e.remote[p] = "NORMAL"}

\* potr_internal_sync_service_path_state_locked
Sync(e) == [e EXCEPT !.alive = Logical(e) # {}]

\* thread_recv_apply_remote_path_ping_state: UNDEFINED overwrites nothing.
Apply(remote, states) ==
    [p \in Paths |-> IF states[p] = "UNDEFINED" THEN remote[p] ELSE states[p]]

\* tcp_handle_packet, PING
OnPing(e, p, m) ==
    Sync([e EXCEPT !.ping[p] = "NORMAL", !.remote = Apply(@, m.states)])

\* tcp_recv_thread_func when no PING came for health_timeout_ms
TimedOut(e, p) == [Sync([e EXCEPT !.ping[p] = "ABNORMAL"]) EXCEPT !.at[p] = "ended"]

\* Slip: the last path out does not notice that it is the last.
CountedOutLate(e, p, idle) ==
    [e EXCEPT !.active = @ - 1, !.at[p] = IF e.active = 0 THEN "left" ELSE idle]

\* The receive thread is gone: stop_connected_threads, the path state goes,
\* and the path is counted out.  The last one out has the rest to reset.
CountedOut(e, p, idle) ==
    [e EXCEPT !.active = @ - 1, !.at[p] = IF e.active = 1 THEN "left" ELSE idle]

Lost(e, p, idle) == Sync([CountedOut(e, p, idle) EXCEPT !.ping[p] = "UNDEFINED"])

\* Slip: the path is not counted in.
JoinedUncounted(e, p) == [e EXCEPT !.at[p] = "up", !.ping[p] = "UNDEFINED"]

\* A connection is made: the path is counted in and its PING state undone.
Joined(e, p) == [e EXCEPT !.active = @ + 1, !.at[p] = "up", !.ping[p] = "UNDEFINED"]

Ping(e) == [kind |-> "PING", states |-> e.ping]

-----------------------------------------------------------------------------
\* Connections

\* Nothing more is written to a connection that is cut.
CutOff(c) == [c EXCEPT !.cut = TRUE, !.said = AllUndefined]

\* The sender closes its sockets, and reads no more either.
Cut(conns) == [i \in DOMAIN conns |-> [CutOff(conns[i]) EXCEPT !.ack = NoFin]]

\* Paths on which what the sender, or the receiver, writes gets through.
SenderWrites == {p \in Sockets(snd) : wire[p] # << >> /\ ~Last(wire[p]).cut}

ReceiverWrites == {p \in Sockets(rcv) : wire[p] # << >> /\ ~Head(wire[p]).cut}

ToReceiver(p) == Last(wire[p]).toR

\* m is written on the paths ps.
Sent(ps, m) ==
    [p \in Paths |-> IF p \in ps
                     THEN [wire[p] EXCEPT ![Len(wire[p])].toR = Append(@, m)]
                     ELSE wire[p]]

Acknowledged(w, ps, target) ==
    [p \in Paths |-> IF p \in ps THEN [w[p] EXCEPT ![1].ack = target] ELSE w[p]]

\* The network, or a machine in it, cuts the newest connection of a path.
Break(p) ==
    /\ p \in Conf.lossy /\ snd.cuts < MaxCuts /\ wire[p] # << >> /\ ~Last(wire[p]).cut
    /\ snd' = [snd EXCEPT !.cuts = @ + 1]
    /\ wire' = [wire EXCEPT ![p][Len(wire[p])] = CutOff(@)]
    /\ UNCHANGED rcv

-----------------------------------------------------------------------------
\* The sender

\* Where a connect thread goes from a connection that failed or ended.
SenderIdle == IF Conf.reconnects THEN "down" ELSE "exited"

\* sender_connect_loop, up to the start of the threads and the first PING.
\* The connection may still wait in the backlog of the receiver.
Connect(p) ==
    /\ snd.phase = "open" /\ snd.at[p] = "down" /\ Len(wire[p]) < MaxConns
    /\ snd' = [Joined(snd, p) EXCEPT !.sending = @ \/ p = Path0]
    /\ wire' = [wire EXCEPT ![p] =
                   Append(@, [sess |-> snd.sess, cut |-> FALSE,
                              said |-> Joined(snd, p).ping,
                              toR |-> <<Ping(Joined(snd, p))>>, ack |-> NoFin])]
    /\ UNCHANGED rcv

\* The connection is refused, or the threads do not start on it because the
\* first PING fails: it is cut, or PINGs are canceled since close began.
ConnectFails(p) ==
    /\ snd.phase # "closed" /\ snd.at[p] = "down"
    /\ \/ p \in Conf.lossy /\ snd' = [snd EXCEPT !.at[p] = SenderIdle]
       \/ /\ p \in Conf.lossy \/ snd.phase # "open"
          /\ snd' = CountedOut(Joined(snd, p), p, SenderIdle)
    /\ UNCHANGED <<rcv, wire>>

\* start_connected_threads fails when the receive thread already runs, which
\* may be as late as the scheduler likes: the path is counted out, but unlike
\* in SenderLost its PING state stays and nothing is synchronized.
StartFails(p) ==
    /\ p \in Conf.lossy /\ snd.cuts < MaxCuts /\ snd.at[p] = "up"
    /\ snd' = [CountedOut(snd, p, SenderIdle) EXCEPT !.cuts = @ + 1]
    /\ wire' = [wire EXCEPT ![p] = Cut(@)]
    /\ UNCHANGED rcv

\* tcp_health_thread_func of the sender.  A PING that repeats the last one on
\* its connection is left out.
SenderPing(p) ==
    /\ snd.phase = "open" /\ p \in SenderWrites /\ Len(ToReceiver(p)) < Conf.wire
    /\ Last(wire[p]).said # snd.ping
    /\ wire' = [Sent({p}, Ping(snd)) EXCEPT ![p][Len(wire[p])].said = snd.ping]
    /\ UNCHANGED <<snd, rcv>>

\* potr_service_send while the service is CONNECTED
Submit ==
    /\ snd.phase = "open" /\ snd.active > 0 /\ snd.alive
    /\ ~snd.queued /\ snd.sent + 1 \in Conf.elements
    /\ snd' = [snd EXCEPT !.queued = TRUE]
    /\ UNCHANGED <<rcv, wire>>

\* The paths whose socket buffer has room for a packet.
Writable == {p \in SenderWrites : Len(ToReceiver(p)) < Conf.wire}

\* flush_packed for TCP: the packet gets its number, and goes out on every
\* path that has room; it is gone if there is none.
Flush ==
    /\ snd.queued /\ snd.sending /\ snd.phase \in {"open", "drain"}
    /\ snd' = [snd EXCEPT !.queued = FALSE, !.seq = SeqAdd(@, 1), !.sent = @ + 1]
    /\ wire' = Sent(Writable, [kind |-> "DATA", seq |-> snd.seq,
                               elem |-> <<snd.sess, snd.sent + 1>>])
    /\ UNCHANGED rcv

\* tcp_handle_packet at the sender: a PING of the receiver, or its FIN_ACK
SenderPinged(p) ==
    /\ snd.at[p] = "up" /\ rcv.at[p] = "up" /\ Len(wire[p]) = 1 /\ ~Head(wire[p]).cut
    /\ snd' = OnPing(snd, p, Ping(rcv))
    /\ UNCHANGED <<rcv, wire>>

SenderAcked(p) ==
    /\ snd.at[p] = "up" /\ wire[p] # << >> /\ Last(wire[p]).ack = snd.target
    /\ snd.phase = "wait" /\ snd' = [snd EXCEPT !.acked = TRUE]
    /\ UNCHANGED <<rcv, wire>>

\* The receive thread of the sender ends with its connection, or
\* SenderTimeout ended it: the rest of sender_connect_loop.
SenderLost(p) ==
    /\ \/ snd.at[p] = "ended"
       \/ snd.at[p] = "up" /\ (wire[p] # << >> => Last(wire[p]).cut)
    /\ snd' = Lost(snd, p, SenderIdle)
    /\ wire' = [wire EXCEPT ![p] = Cut(@)]
    /\ UNCHANGED rcv

\* tcp_recv_thread_func of the sender, PING timeout
SenderTimeout(p) ==
    /\ Conf.timeouts /\ snd.at[p] = "up" /\ (wire[p] # << >> => Last(wire[p]).cut)
    /\ snd' = TimedOut(snd, p)
    /\ UNCHANGED <<rcv, wire>>

\* reset_all_paths_disconnected at the sender
SenderReset(p) ==
    /\ snd.at[p] = "left"
    /\ snd' = IF snd.active # 0 THEN [snd EXCEPT !.at[p] = SenderIdle]
              ELSE [snd EXCEPT !.at[p] = SenderIdle, !.seq = 0, !.remote = AllUndefined,
                               !.alive = FALSE, !.renumbered = @ \/ snd.sent > 0]
    /\ UNCHANGED <<rcv, wire>>

-----------------------------------------------------------------------------
\* potr_service_close at the sender, and the next sender

\* The threads are stopped and the handle is freed; the rest is history.
Closed(ret) ==
    /\ snd' = [NewSender(snd.sess) EXCEPT !.phase = "closed", !.ret = ret, !.sent = snd.sent,
                    !.target = snd.target, !.acked = snd.acked, !.cuts = snd.cuts,
                    !.renumbered = snd.renumbered, !.at = [p \in Paths |-> "exited"]]
    /\ wire' = [p \in Paths |-> Cut(wire[p])]

\* Without a send thread there is nothing to wait for.
CloseBegin ==
    /\ Conf.closes /\ snd.phase = "open"
    /\ IF snd.sending THEN snd' = [snd EXCEPT !.phase = "drain"] /\ UNCHANGED wire
       ELSE Closed("OK")
    /\ UNCHANGED rcv

\* send_tcp_fin after potr_internal_send_queue_wait_drained.  FIN waits for
\* room in the socket buffer.  On cut connections writing it succeeds, or
\* fails, or there is no socket any more.
CloseFin ==
    /\ snd.phase = "drain" /\ ~snd.queued
    /\ \/ snd.active = 0 /\ Closed(IF snd.seq # 0 THEN "DISCONNECTED" ELSE "OK")
       \/ snd.active # 0 /\ SenderWrites = {} /\ \E ret \in {"IO", "DISCONNECTED"} : Closed(ret)
       \/ /\ snd.active # 0
          /\ snd' = [snd EXCEPT !.phase = "wait", !.target = snd.seq]
          /\ wire' = Sent(SenderWrites, [kind |-> "FIN", target |-> snd.seq])
    /\ UNCHANGED rcv

\* wait_for_tcp_close_ack
CloseEnd ==
    /\ snd.phase = "wait"
    /\ Closed(IF snd.acked THEN "OK" ELSE "TIMEOUT")
    /\ UNCHANGED rcv

\* The sender ends, by close or by a crash, and is opened anew.
Restart ==
    /\ snd.sess + 1 \in Conf.sessions
    /\ snd' = [NewSender(snd.sess + 1) EXCEPT !.cuts = snd.cuts, !.renumbered = snd.renumbered]
    /\ wire' = [p \in Paths |-> Cut(wire[p])]
    /\ UNCHANGED rcv

-----------------------------------------------------------------------------
\* The receiver

\* DISCONNECTED closes the trace.
Told(r) ==
    IF r.alive THEN r ELSE [r EXCEPT !.old = @ \cup Range(r.trace), !.trace = << >>]

\* The session is over: what comes later is not compared with it.
Parted(r) == [r EXCEPT !.past = @ \cup r.old, !.old = {}]

\* Slip: every packet starts the window anew.
AdoptAlways(r, s, seq) ==
    [r EXCEPT !.known = TRUE, !.sess = s, !.fin = NoFin, !.win = EmptyWindow(seq)]

\* thread_recv_session_adopt
Adopt(r, s, seq) ==
    IF r.known /\ r.sess = s THEN r
    ELSE [r EXCEPT !.known = TRUE, !.sess = s, !.fin = NoFin, !.win = EmptyWindow(seq)]

\* thread_recv_slot_deliver_payload_elem, for the packets of got in order
Deliver(r, got) ==
    IF r.alive THEN [r EXCEPT !.trace = @ \o got]
    ELSE [r EXCEPT !.dropped = @ \cup Range(got)]

\* What recv_pop returns is handed over.
Drain(r) ==
    LET got == Poppable(r.win)
    IN  Deliver([r EXCEPT !.win = Popped(@, Len(got))], got)

\* Slip: the receiver acknowledges FIN whatever it still waits for.
FinReachedAlways(r) == r.fin # NoFin

\* thread_recv_fin_pending_reached
FinReached(r) == r.fin # NoFin /\ r.fin = r.win.next

\* thread_recv_fin_fire
FinFire(r) ==
    Parted(Told([r EXCEPT !.ping = AllUndefined, !.remote = AllUndefined, !.alive = FALSE,
                          !.fin = NoFin, !.known = FALSE, !.win = EmptyWindow(0)]))

\* Slip: a packet ahead of the next one is taken at once.
OnDataAhead(r, s, m) ==
    LET a == Adopt(r, s, m.seq)
    IN  IF RecvAccepts(a.win, m.seq)
        THEN Drain([a EXCEPT !.win = RecvPush(EmptyWindow(m.seq), m.seq, m.elem)]) ELSE a

\* tcp_handle_packet, DATA and FIN, up to thread_recv_fin_fire
OnData(r, s, m) ==
    LET a == Adopt(r, s, m.seq)
    IN  IF RecvAccepts(a.win, m.seq)
        THEN Drain([a EXCEPT !.win = RecvPush(@, m.seq, m.elem)]) ELSE a

OnFin(r, s, m) == [Adopt(r, s, 0) EXCEPT !.fin = m.target]

\* The accepted-session test of tcp_handle_packet
Accepted(r, s) == r.accepted = None \/ r.accepted = s

\* tcp_handle_packet at the receiver
ReceiverRead(p) ==
    /\ rcv.at[p] = "up" /\ Head(wire[p]).toR # << >>
    /\ LET s == Head(wire[p]).sess
           m == Head(Head(wire[p]).toR)
           w == [wire EXCEPT ![p][1].toR = Tail(@)]
           r == CASE m.kind = "PING" -> Told(OnPing(rcv, p, m))
                  [] m.kind = "DATA" -> OnData(rcv, s, m)
                  [] m.kind = "FIN"  -> OnFin(rcv, s, m)
       IN  CASE ~Accepted(rcv, s) -> rcv' = rcv /\ wire' = w
             [] Accepted(rcv, s) /\ ~FinReached(r) -> rcv' = r /\ wire' = w
             [] Accepted(rcv, s) /\ FinReached(r) ->
                   /\ rcv' = FinFire(r)
                   /\ wire' = Acknowledged(w, ReceiverWrites, r.fin)
    /\ UNCHANGED snd

\* Slip: the paths of the old session stay.
NewSessionKeepsPaths(r, p, s) ==
    [r EXCEPT !.known = FALSE, !.fin = NoFin, !.accepted = s]

\* TCP_SESSION_NEW: the other paths lose their sockets.
NewSession(r, p, s) ==
    [r EXCEPT !.known = FALSE, !.fin = NoFin, !.accepted = s,
              !.at = [k \in Paths |-> IF k # p /\ k \in Sockets(r) THEN "shut" ELSE @[k]]]

\* Slip: any other session counts as new.
CompareAny(r, s) == IF r.accepted = s THEN "SAME" ELSE "NEW"

\* thread_connect_session_compare
Compare(r, s) ==
    CASE r.accepted = None \/ s > r.accepted -> "NEW"
      [] r.accepted = s -> "SAME"
      [] r.accepted # None /\ s < r.accepted -> "OLD"

\* receiver_accept_loop once the first packet is read, which stays for the
\* receive thread.  The threads do not start if the first PING fails.
Accept(p) ==
    /\ rcv.at[p] = "down" /\ wire[p] # << >> /\ Head(wire[p]).toR # << >>
    /\ LET s == Head(wire[p]).sess
           j == IF Compare(rcv, s) = "NEW" THEN NewSession(rcv, p, s) ELSE rcv
           r == Joined(j, p)
           w == [k \in Paths |-> IF k # p /\ j.at[k] # rcv.at[k] THEN Tail(wire[k]) ELSE wire[k]]
       IN  /\ Compare(rcv, s) # "OLD"
           /\ \/ rcv' = r /\ wire' = w
              \/ /\ Head(wire[p]).cut
                 /\ rcv' = CountedOut(r, p, "down")
                 /\ wire' = [w EXCEPT ![p] = Tail(@)]
    /\ UNCHANGED snd

\* receiver_accept_loop closes a connection of an old session, or one it
\* reads nothing from.
Refuse(p) ==
    /\ rcv.at[p] = "down" /\ wire[p] # << >>
    /\ \/ Head(wire[p]).cut
       \/ Head(wire[p]).toR # << >> /\ Compare(rcv, Head(wire[p]).sess) = "OLD"
    /\ wire' = [wire EXCEPT ![p] = Tail(@)]
    /\ UNCHANGED <<snd, rcv>>

\* The same failure when the receive thread already runs; its PING state stays.
AcceptFails(p) ==
    /\ rcv.at[p] = "up" /\ Head(wire[p]).cut
    /\ rcv' = CountedOut(rcv, p, "down")
    /\ wire' = [wire EXCEPT ![p] = Tail(@)]
    /\ UNCHANGED snd

ReceiverTimeout(p) ==
    /\ Conf.timeouts /\ rcv.at[p] = "up" /\ Head(wire[p]).cut /\ Head(wire[p]).toR = << >>
    /\ rcv' = Told(TimedOut(rcv, p))
    /\ UNCHANGED <<snd, wire>>

\* The receive thread has ended: the rest of receiver_accept_loop
ReceiverLost(p) ==
    /\ rcv.at[p] \in {"ended", "shut"} \/ (rcv.at[p] = "up" /\ Head(wire[p]).cut)
    /\ rcv' = Told(Lost(rcv, p, "down"))
    /\ wire' = IF rcv.at[p] = "shut" THEN wire ELSE [wire EXCEPT ![p] = Tail(@)]
    /\ UNCHANGED snd

\* reset_all_paths_disconnected at the receiver; nothing is delivered before
\* the next CONNECTED.
ResetAll(r) ==
    IF r.active # 0 THEN r
    ELSE Parted(Told([r EXCEPT !.known = FALSE, !.fin = NoFin, !.remote = AllUndefined,
                               !.alive = FALSE, !.accepted = None]))

ReceiverReset(p) ==
    /\ rcv.at[p] = "left"
    /\ rcv' = [ResetAll(rcv) EXCEPT !.at[p] = "down"]
    /\ UNCHANGED <<snd, wire>>

-----------------------------------------------------------------------------
PathNext(p) ==
    \/ Break(p)
    \/ Connect(p) \/ ConnectFails(p) \/ StartFails(p) \/ SenderPing(p) \/ SenderPinged(p) \/ SenderAcked(p)
    \/ SenderTimeout(p) \/ SenderLost(p) \/ SenderReset(p)
    \/ Accept(p) \/ AcceptFails(p) \/ Refuse(p) \/ ReceiverRead(p)
    \/ ReceiverTimeout(p) \/ ReceiverLost(p) \/ ReceiverReset(p)

Next ==
    \/ \E p \in Paths : PathNext(p)
    \/ Submit \/ Flush \/ CloseBegin \/ CloseFin \/ CloseEnd \/ Restart

Spec == Init /\ [][Next]_vars

-----------------------------------------------------------------------------
\* Properties

\* snd, rcv and wire keep their types.
TypeOK == snd \in Senders /\ rcv \in Receivers /\ wire \in [Paths -> Seq(Connections)]

Before(a, b) == a[1] < b[1] \/ (a[1] = b[1] /\ a[2] < b[2])

\* Whatever paths the copies take, across a restart of the sender and across
\* DISCONNECTED and CONNECTED, the application gets packets in the order they
\* were sent and none twice (tcp_accepted_session, tcp_recv_mutex and the
\* window work together).  FIN and the loss of all paths end the session, and
\* what another path still holds of it is then new.  A sender that lost all
\* its paths begins again at 0 in the same session (potr_connect_thread.c:152),
\* and its packets are no longer told apart.
StrictOrder ==
    ~snd.renumbered =>
    /\ \A i \in DOMAIN rcv.trace : \A j \in 1 .. i - 1 : Before(rcv.trace[j], rcv.trace[i])
    /\ \A i \in DOMAIN rcv.trace : \A e \in rcv.old : Before(e, rcv.trace[i])

\* Between CONNECTED and DISCONNECTED the application misses no packet of a
\* session, whatever becomes of the paths (tcp_recv_mutex, the window), unless
\* the sender began again at 0 while the receiver kept its window.
NoSilentGap ==
    ~snd.renumbered =>
    \A i \in 2 .. Len(rcv.trace) :
        rcv.trace[i - 1][1] = rcv.trace[i][1] => rcv.trace[i][2] = rcv.trace[i - 1][2] + 1

\* As long as a path is counted in, only a later session takes over: the
\* accepted one is neither forgotten by the thread that resets the state of
\* the last path while another path joins, nor replaced by an older one
\* whose connection was still in a backlog.
SessionHolds ==
    [][rcv.accepted # None /\ rcv'.accepted # rcv.accepted =>
        rcv'.accepted > rcv.accepted \/ rcv.active = 0]_vars

\* When every accept thread waits for a connection, nothing of the last
\* session is left: the path count is back at 0 and any session is welcome
\* (receiver_accept_loop, reset_all_paths_disconnected).
QuietMeansReset ==
    (\A p \in Paths : rcv.at[p] = "down") =>
        rcv.active = 0 /\ ~rcv.alive /\ rcv.accepted = None /\ ~rcv.known

\* A connection of a session older than the accepted one is not read any more:
\* once a restarted sender is accepted, its predecessor is shut out.
OldSessionShutOut ==
    \A p \in Paths : rcv.at[p] = "up" => Head(wire[p]).sess = rcv.accepted

\* When close returns OK after a FIN_ACK, the receiver has taken the last
\* packet of the sender: FIN waits in pending_fin for it.  The FIN of a sender
\* that began again at 0 may find its number reached by older packets.
AckMeansTaken ==
    ~snd.renumbered /\ snd.ret = "OK" /\ snd.acked /\ snd.sent > 0 /\ snd.target # 0 =>
        <<snd.sess, snd.sent>> \in Range(rcv.trace) \cup rcv.old \cup rcv.past \cup rcv.dropped

\* When close returns OK after a FIN_ACK, the application got the last packet.
AckMeansDelivered ==
    snd.ret = "OK" /\ snd.acked /\ snd.target # 0 =>
        <<snd.sess, snd.sent>> \in Range(rcv.trace) \cup rcv.old \cup rcv.past
==============================================================================

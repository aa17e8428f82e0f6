------------------------------- MODULE Receiver -------------------------------
(***************************************************************************)
(* The receiving half of a one-way UDP service (UNICAST, MULTICAST,        *)
(* BROADCAST and their RAW forms): the handlers of thread/thread_recv_*.c  *)
(* as operators from a receiver to the receiver the handler leaves.  All   *)
(* of them run in the one receive thread of the handle, so each handler is *)
(* one step.                                                               *)
(*                                                                         *)
(* A receiver r is a record:                                               *)
(*   conf          the configuration: conf.raw is is_raw_type(service.type) *)
(*                 and conf.wait is reorder_timeout_ms > 0                 *)
(*   known, sess   peer_session_known, peer_session_ts and peer_session_id *)
(*   win           recv_window                                             *)
(*   reorder       reorder_nack_num while reorder_pending, else NoSeq      *)
(*   fin           fin_target_seq while pending_fin, else NoSeq            *)
(*   normal        the paths whose path_ping_state is NORMAL               *)
(*   heard         the paths with a path_last_recv_ts                      *)
(*   stamped       last_recv_ts is set                                     *)
(*   ports         the paths with a peer_port                              *)
(*   frag          frag_buf, as the elements collected in it               *)
(* and, not in the code,                                                   *)
(*   nacks         the numbers the handler sent a NACK for                 *)
(*   trace         the elements of the messages delivered since CONNECTED  *)
(*   old           the elements delivered before that                      *)
(*   dropped       the elements taken out of the window but not delivered  *)
(*                                                                         *)
(* In these services health_alive is "some path is NORMAL": every handler  *)
(* that changes a path state calls the function that recomputes it.        *)
(***************************************************************************)
EXTENDS Window, Sequences, Functions

CONSTANTS
    Paths,        \* the configured paths
    Confs,        \* the configurations looked at
    Sessions,     \* sessions, in the order of (session_ts, session_id)
    Elements,     \* positions of the elements of a session
    Fragments,    \* those that carry MORE_FRAG
    MaxMessage    \* max_message_size, counted in elements

ASSUME ReceiverAssumption ==
    /\ \A c \in Confs : c.raw \in BOOLEAN /\ c.wait \in BOOLEAN
    /\ Sessions \subseteq Nat /\ Elements \subseteq Nat
    /\ Packets = Sessions \X Elements
    /\ Fragments \subseteq Elements /\ MaxMessage \in Nat

NoSeq == -1

Alive(r) == r.normal # {}

NewReceiver(conf) ==
    [conf |-> conf, known |-> FALSE, sess |-> 0, win |-> EmptyWindow(0), reorder |-> NoSeq,
     fin |-> NoSeq, normal |-> {}, heard |-> {}, stamped |-> FALSE, ports |-> {},
     frag |-> << >>, nacks |-> {}, trace |-> << >>, old |-> {}, dropped |-> {}]

Receivers ==
    [conf : Confs, known : BOOLEAN, sess : Sessions \cup {0}, win : Windows,
     reorder : Seqs \cup {NoSeq}, fin : Seqs \cup {NoSeq},
     normal : SUBSET Paths, heard : SUBSET Paths, stamped : BOOLEAN,
     ports : SUBSET Paths, frag : Seq(Packets), nacks : SUBSET Seqs,
     trace : Seq(Packets), old : SUBSET Packets, dropped : SUBSET Packets]

-----------------------------------------------------------------------------
\* Session and health

\* thread_recv_disconnect_service_all_paths after all path states were reset.
Disconnect(r) ==
    [r EXCEPT !.normal = {}, !.old = @ \cup Range(r.trace), !.trace = << >>]

\* Slip: an older session is adopted too.
OutdatedNever(r, m) == FALSE

\* thread_recv_session_adopt returns 0.
Outdated(r, m) == r.known /\ m.sess < r.sess

\* thread_recv_session_adopt returns 1.  The window starts at the number of
\* the packet, which is 0 in FIN and REJECT.
Adopt(r, m) ==
    IF r.known /\ m.sess = r.sess THEN r
    ELSE [r EXCEPT !.known = TRUE, !.sess = m.sess, !.reorder = NoSeq,
                   !.fin = NoSeq, !.win = EmptyWindow(m.seq)]

\* thread_recv_learn_sender_path
LearnPath(r, p) == [r EXCEPT !.ports = @ \cup {p}]

\* thread_recv_update_path_health and thread_recv_sync_path_state
UpdateHealth(r, p) ==
    [r EXCEPT !.normal = @ \cup {p}, !.heard = @ \cup {p}, !.stamped = TRUE]

\* slot_send_nack: nothing is sent while no path has a port.
SendNacks(r, seqs) == IF r.ports = {} THEN r ELSE [r EXCEPT !.nacks = @ \cup seqs]

\* reorder_gap_ready: is the gap at seq old enough, and the wait it leaves.
\* late: the deadline of the running wait has passed.
GapReady(r, seq, late) == ~r.conf.wait \/ (r.reorder = seq /\ late)

GapWait(r, seq, late) ==
    IF ~r.conf.wait THEN r
    ELSE [r EXCEPT !.reorder = IF GapReady(r, seq, late) THEN NoSeq ELSE seq]

\* raw_session_disconnect
RawDisconnect(r) == [Disconnect(r) EXCEPT !.fin = NoSeq, !.frag = << >>]

-----------------------------------------------------------------------------
\* Delivery

\* thread_recv_slot_deliver_payload_elem
Deliver(r, e) ==
    LET joined == Append(r.frag, e)
        fits   == Len(joined) <= MaxMessage
    IN  CASE ~Alive(r) -> [r EXCEPT !.dropped = @ \cup {e}]
          [] Alive(r) /\ e[2] \in Fragments ->
                [r EXCEPT !.frag = IF fits THEN joined ELSE << >>]
          [] Alive(r) /\ e[2] \notin Fragments ->
                [r EXCEPT !.frag = << >>,
                          !.trace = IF fits \/ r.frag = << >> THEN @ \o joined ELSE @]

\* thread_recv_fin_fire
FinFire(r) ==
    [Disconnect(r) EXCEPT !.fin = NoSeq, !.known = FALSE, !.reorder = NoSeq,
                          !.stamped = FALSE, !.win = EmptyWindow(0)]

\* The loop of slot_drain_recv_window: run[i] is the receiver after i packets.
Drained(r) ==
    LET elems == Poppable(r.win)
        run[i \in 0 .. Len(elems)] ==
            IF i = 0 THEN r
            ELSE Deliver([run[i - 1] EXCEPT !.win = RecvAdvance(@)], elems[i])
    IN  run[Len(elems)]

\* slot_drain_recv_window
Drain(r) ==
    LET d == Drained(r)
    IN  IF d.fin # NoSeq /\ d.fin = d.win.next THEN FinFire(d) ELSE d

-----------------------------------------------------------------------------
\* The packets of the sender

\* The window starts anew with this packet, as RAW services do at a gap.
RawRestart(r, m) ==
    [RawDisconnect(r) EXCEPT !.win = RecvPush(EmptyWindow(m.seq), m.seq, m.elem)]

\* The gap tests of thread_recv_window_accept_outer, before and after the
\* window is drained.
GapBeforeDrain(r, m, late) ==
    LET n == r.win.next
        w == GapWait(r, n, late)
    IN  CASE ~NeedsNack(r.win) -> [r EXCEPT !.reorder = NoSeq]
          [] NeedsNack(r.win) /\ ~GapReady(r, n, late) -> w
          [] NeedsNack(r.win) /\ GapReady(r, n, late) ->
                IF r.conf.raw THEN RawRestart(w, m) ELSE SendNacks(w, {n})

GapAfterDrain(r, late) ==
    LET n == r.win.next
        w == GapWait(r, n, late)
    IN  CASE ~NeedsNack(r.win) -> [r EXCEPT !.reorder = NoSeq]
          [] NeedsNack(r.win) /\ r.conf.raw -> r
          [] NeedsNack(r.win) /\ ~r.conf.raw ->
                IF GapReady(r, n, late) THEN SendNacks(w, {n}) ELSE w

\* thread_recv_window_accept_outer
AcceptOuter(r, m, p, late, later) ==
    LET pushed == IF RecvAccepts(r.win, m.seq)
                  THEN [r EXCEPT !.win = RecvPush(@, m.seq, m.elem)]
                  ELSE RawRestart(r, m)
    IN  IF ~RecvAccepts(r.win, m.seq) /\ ~r.conf.raw THEN r
        ELSE GapAfterDrain(Drain(UpdateHealth(GapBeforeDrain(pushed, m, late), p)), later)

\* thread_recv_window_scan_ping_gap in a RAW service
RawScan(r, m, late) ==
    LET n == r.win.next
    IN  CASE m.seq = n \/ ~InWindow(m.seq, SeqAdd(n, 1), WindowSize) ->
                [r EXCEPT !.reorder = NoSeq]
          [] OTHER ->
                IF GapReady(r, n, late)
                THEN [RawDisconnect(GapWait(r, n, late)) EXCEPT !.win = EmptyWindow(m.seq)]
                ELSE GapWait(r, n, late)

\* Slip: the number in a PING is not looked at.
ScanNone(r, m, late) == r

\* thread_recv_window_scan_ping_gap otherwise: the numbers from next_seq up
\* to the number of the PING, but at most a window of them, are searched for
\* missing ones.  Without a reorder wait each is asked for; with one the
\* scan stops at the first whose wait is not over.
Scan(r, m, late) ==
    LET dist    == SeqSub(m.seq, r.win.next)
        missing == {d \in 0 .. WindowSize - 1 :
                        d < dist /\ Slot(r.win, SeqAdd(r.win.next, d)) = NoPkt}
        seqs    == {SeqAdd(r.win.next, d) : d \in missing}
        first   == SeqAdd(r.win.next, Least(missing))
        rest    == missing \ {Least(missing)}
        reached == dist <= WindowSize
        done(x) == IF reached THEN [x EXCEPT !.reorder = NoSeq] ELSE x
    IN  CASE missing = {} -> done(r)
          [] missing # {} /\ ~r.conf.wait -> done(SendNacks(r, seqs))
          [] missing # {} /\ r.conf.wait ->
                IF ~GapReady(r, first, late) THEN GapWait(r, first, late)
                ELSE LET asked == SendNacks(GapWait(r, first, late), {first})
                     IN  IF rest = {} THEN done(asked)
                         ELSE [asked EXCEPT !.reorder = SeqAdd(r.win.next, Least(rest))]

\* dispatch_ping.  A RAW service scans before it computes the connection
\* state, the others afterwards; the state is the same in both orders.
OnPing(r, m, p, late) ==
    LET h == UpdateHealth(r, p) IN IF r.conf.raw THEN RawScan(h, m, late) ELSE Scan(h, m, late)

\* Slip: REJECT moves the window on without a disconnection.
OnRejectSilent(r, m, p) ==
    Drain([LearnPath(Adopt(r, m), p) EXCEPT !.reorder = NoSeq, !.win = RecvSkip(@, m.ack)])

\* thread_recv_window_on_reject once the session is adopted
OnReject(r, m, p) ==
    Drain([Disconnect(LearnPath(Adopt(r, m), p)) EXCEPT !.reorder = NoSeq,
                                                        !.win = RecvSkip(@, m.ack)])

\* Slip: FIN ends the session although data is outstanding.
OnFinNow(r, m) == FinFire(Adopt(r, m))

\* dispatch_fin: thread_recv_fin_on_packet waits for the target, if FIN has
\* one.
OnFin(r, m) ==
    LET a == Adopt(r, m)
    IN  IF m.ack # NoSeq /\ m.ack # a.win.next THEN [a EXCEPT !.fin = m.ack] ELSE FinFire(a)

\* thread_recv_dispatch_packet
Dispatch(r, m, p, late, later) ==
    CASE m.kind = "FIN" -> IF Outdated(r, m) THEN r ELSE OnFin(r, m)
      [] m.kind = "REJECT" -> IF r.conf.raw \/ Outdated(r, m) THEN r ELSE OnReject(r, m, p)
      [] m.kind = "PING" ->
            IF Outdated(r, m) THEN r ELSE OnPing(LearnPath(Adopt(r, m), p), m, p, late)
      [] m.kind = "DATA" ->
            IF Outdated(r, m) THEN r
            ELSE AcceptOuter(LearnPath(Adopt(r, m), p), m, p, late, later)

-----------------------------------------------------------------------------
\* The quiet poll

\* thread_recv_health_check_service: the paths of expired were last heard of
\* longer than health_timeout_ms ago.  last_recv_ts is the latest of their
\* times, so it is expired when all of them are.
HealthCheck(r, expired) ==
    LET s == [r EXCEPT !.normal = @ \ expired, !.heard = @ \ expired,
                       !.ports = @ \ expired]
        synced == IF s.normal = {} THEN Disconnect(s) ELSE s
    IN  IF ~Alive(synced) \/ ~r.stamped \/ r.heard # expired THEN synced
        ELSE [Disconnect(synced) EXCEPT !.fin = NoSeq, !.known = FALSE, !.reorder = NoSeq,
                                        !.stamped = FALSE, !.win = EmptyWindow(0)]

\* thread_recv_window_check_reorder_timeout
ReorderCheck(r, late) ==
    CASE ~r.conf.wait \/ r.reorder = NoSeq \/ ~late -> r
      [] OTHER ->
            LET w == [r EXCEPT !.reorder = NoSeq]
            IN  IF r.conf.raw
                THEN [RawDisconnect(w) EXCEPT !.known = FALSE, !.stamped = FALSE,
                                              !.win = EmptyWindow(0)]
                ELSE SendNacks(w, {r.reorder})
==============================================================================

------------------------------- MODULE UdpLink -------------------------------
(***************************************************************************)
(* A one-way UDP service end to end: a sender handle, the network and a    *)
(* receiver handle.  The sender pushes packets into its window and sends   *)
(* them (flush_packed), sends PINGs that carry its next number             *)
(* (health_thread_func), answers NACKs by a retransmission or a REJECT,    *)
(* and sends FIN when it is closed.  It may crash and be started again     *)
(* with a later session.  The network loses, delays, reorders and          *)
(* duplicates packets.                                                     *)
(*                                                                         *)
(* The threads of the sender read the window under send_window_mutex and   *)
(* write to the socket after they release it.  A packet that is written    *)
(* late is a packet the network delays, so one step does both.             *)
(*                                                                         *)
(* Sending a PING changes nothing at the sender and the health thread may  *)
(* do it at any moment, so pings simply holds one PING for each number the *)
(* sender has been at: each may arrive any number of times, or never.      *)
(***************************************************************************)
EXTENDS Receiver

CONSTANTS
    Pings,       \* health_interval_ms > 0
    Keeps,       \* a packet stays in the network after it arrived
    DedupSlots   \* POTR_NACK_DEDUP_SLOTS; with 0 an answered NACK is forgotten at once

ASSUME LinkAssumption ==
    /\ Pings \in BOOLEAN /\ Keeps \in BOOLEAN
    /\ \A c \in Confs : /\ c.timeouts \in BOOLEAN /\ c.closes \in BOOLEAN
                        /\ c.paths \subseteq Paths /\ c.sessions \subseteq Sessions
                        /\ c.elements \subseteq Elements
                        /\ c.asks \subseteq Seqs
    /\ DedupSlots \in Nat

VARIABLES
    snd,   \* the sender handle
    net,   \* the packets under way to the receiver
    pings, \* the PINGs the health thread may have sent
    asks,  \* the numbers of the NACKs under way to the sender
    rcv    \* the receiver handle

vars == <<snd, net, pings, asks, rcv>>

\* Both ends have the same configuration.  Of the fields Receiver does not
\* look at, timeouts is health_timeout_ms > 0, closes says that the application
\* closes the sender, paths are the paths in use, and sessions, elements
\* and asks bound the run: NACKs for other numbers than asks never arrive.
Conf == rcv.conf

\* snd.recent stands for nack_dedup_buf: the numbers of the NACKs answered
\* less than POTR_NACK_DEDUP_MS ago, the oldest first.
NewSender(s) == [sess |-> s, win |-> EmptyWindow(0), hasData |-> FALSE, sent |-> 0,
                 phase |-> "open", recent |-> << >>]

Senders == [sess : Sessions, win : Windows, hasData : BOOLEAN, sent : Nat,
            phase : {"open", "closing"}, recent : {q \in Seq(Seqs) : Len(q) <= DedupSlots}]

Messages == [kind : {"DATA", "PING", "REJECT", "FIN"}, sess : Sessions, seq : Seqs,
             ack : Seqs \cup {NoSeq}, elem : Packets \cup {NoPkt}]

Data(s, seq, e) == [kind |-> "DATA", sess |-> s, seq |-> seq, ack |-> NoSeq, elem |-> e]
Ping(s, seq) == [kind |-> "PING", sess |-> s, seq |-> seq, ack |-> NoSeq, elem |-> NoPkt]
Reject(s, n) == [kind |-> "REJECT", sess |-> s, seq |-> 0, ack |-> n, elem |-> NoPkt]
Fin(s, n) == [kind |-> "FIN", sess |-> s, seq |-> 0, ack |-> n, elem |-> NoPkt]

TypeOK ==
    /\ snd \in Senders
    /\ net \subseteq Messages /\ pings \subseteq Messages /\ asks \subseteq Seqs
    /\ rcv \in Receivers

\* health_thread_func: the PINGs of a sender, which carry its next number.
\* The health thread starts with the handle.
Pinged(s) == IF Pings THEN {Ping(s.sess, s.win.next)} ELSE {}

Init ==
    /\ \E s \in Sessions : snd = NewSender(s) /\ \A x \in Sessions : s <= x
    /\ net = {} /\ asks = {}
    /\ pings = Pinged(snd)
    /\ \E c \in Confs : rcv = NewReceiver(c)

-----------------------------------------------------------------------------
\* The sender

\* The packet m is sent.  If packets leave the network when they arrive, m
\* may get lost; if they stay, a lost packet is one that never arrives.
Sent(m) == net' = net \cup {m} \/ (~Keeps /\ net' = net)

\* flush_packed
SendData ==
    /\ snd.phase = "open" /\ snd.sent + 1 \in Conf.elements
    /\ LET e == <<snd.sess, snd.sent + 1>>
       IN  /\ snd' = [snd EXCEPT !.win = SendPush(@, e), !.hasData = TRUE, !.sent = @ + 1]
           /\ Sent(Data(snd.sess, snd.win.next, e))
    /\ pings' = pings \cup Pinged(snd')
    /\ UNCHANGED <<asks, rcv>>

\* slot_retransmit_or_reject
Answer(n) ==
    LET e == SendGet(snd.win, n)
    IN  IF e = NoPkt THEN Reject(snd.sess, n) ELSE Data(snd.sess, n, e)

\* Slip: the ring of answered NACKs grows.
RememberAll(recent, n) == Append(recent, n)

\* nack_is_duplicate writes the number over the oldest entry.
Remember(recent, n) ==
    LET all == Append(recent, n)
    IN  IF Len(all) > DedupSlots THEN Tail(all) ELSE all

\* thread_recv_window_on_nack.  The session in a NACK is the receiver's own
\* and is not compared with anything.
RecvNack(n) ==
    /\ n \in asks
    /\ asks' = IF Keeps THEN asks ELSE asks \ {n}
    /\ IF n \in Range(snd.recent) \/ Conf.raw
       THEN UNCHANGED <<snd, net>>
       ELSE /\ snd' = [snd EXCEPT !.recent = Remember(@, n)]
            /\ Sent(Answer(n))
    /\ UNCHANGED <<pings, rcv>>

\* POTR_NACK_DEDUP_MS after it was written an entry counts no more.
ForgetNack ==
    /\ snd.recent # << >>
    /\ snd' = [snd EXCEPT !.recent = Tail(@)]
    /\ UNCHANGED <<net, pings, asks, rcv>>

\* potr_service_close: the health thread is stopped and the queue drained,
\* FIN is sent, and then the receive thread, which answers NACKs, is stopped:
\* from some moment on no NACK arrives any more.
CloseFin ==
    /\ Conf.closes /\ snd.phase = "open"
    /\ snd' = [snd EXCEPT !.phase = "closing"]
    /\ Sent(Fin(snd.sess, IF snd.hasData THEN snd.win.next ELSE NoSeq))
    /\ UNCHANGED <<pings, asks, rcv>>

\* The process ends, in the middle of anything, and opens the service again.
Restart ==
    /\ snd.sess + 1 \in Conf.sessions
    /\ snd' = NewSender(snd.sess + 1)
    /\ pings' = pings \cup Pinged(snd')
    /\ UNCHANGED <<net, asks, rcv>>

-----------------------------------------------------------------------------
\* The receiver

Late == IF Conf.wait THEN BOOLEAN ELSE {FALSE}

\* What the handler leaves, and the NACKs it sent.
Handled(r) ==
    /\ rcv' = [r EXCEPT !.nacks = {}]
    /\ asks' = asks \cup (r.nacks \cap Conf.asks)

\* recv_thread_func on a readable path
Receive(m, p) ==
    /\ m \in net \cup pings
    /\ \E late, later \in Late : Handled(Dispatch(rcv, m, p, late, later))
    /\ net' = IF Keeps THEN net ELSE net \ {m}
    /\ UNCHANGED <<snd, pings>>

\* recv_thread_func when no path became readable
Poll ==
    /\ \E late \in Late, expired \in IF Conf.timeouts THEN SUBSET rcv.heard ELSE {{}} :
          Handled(ReorderCheck(HealthCheck(rcv, expired), late))
    /\ UNCHANGED <<snd, net, pings>>

-----------------------------------------------------------------------------
\* The network

LoseNack ==
    /\ ~Keeps
    /\ \E n \in asks : asks' = asks \ {n}
    /\ UNCHANGED <<snd, net, pings, rcv>>

Next == \/ SendData \/ CloseFin \/ Restart
        \/ ForgetNack
        \/ \E n \in asks : RecvNack(n)
        \/ \E m \in net \cup pings, p \in Conf.paths : Receive(m, p)
        \/ Poll
        \/ LoseNack

Spec == Init /\ [][Next]_vars

Awaited(m) == \/ m.kind = "DATA" /\ m.seq = rcv.win.next
              \/ m.kind = "REJECT" /\ m.ack = rcv.win.next

\* What is repeated gets through in the end: the latest PING, the NACK for
\* the number the receiver waits for, at a time when nack_dedup_buf does not
\* suppress it, and the answer to it.  Only Receive takes packets out of
\* net, and it takes any of them.
PingArrives ==
    snd.phase = "open" /\ \E m \in Pinged(snd), p \in Conf.paths : Receive(m, p)

AnswerSent ==
    LET n == rcv.win.next
    IN  n \notin Range(snd.recent) /\ RecvNack(n) /\ Answer(n) \in net'

AnswerArrives == \E m \in net : Awaited(m) /\ net' = net \ {m}

\* The health thread sends PINGs as long as the handle is open, and the
\* entries of nack_dedup_buf expire.  Sending data, closing, restarting and
\* losing packets are not fair.
Fairness ==
    /\ WF_vars(ForgetNack)
    /\ SF_vars(PingArrives) /\ SF_vars(AnswerSent) /\ SF_net(AnswerArrives)

FairSpec == Spec /\ Fairness

-----------------------------------------------------------------------------
Before(a, b) == a[1] < b[1] \/ (a[1] = b[1] /\ a[2] < b[2])

\* POTR-DELIVERY-FUNC-001: as long as no FIN is sent, what a service that
\* retransmits delivers was sent after everything it delivered before, over
\* retransmissions, duplicates, skipped numbers, disconnections and restarts
\* of the sender.
StrictOrder ==
    ~Conf.raw /\ (\A m \in net : m.kind # "FIN") =>
        /\ \A i, j \in DOMAIN rcv.trace : i < j => Before(rcv.trace[i], rcv.trace[j])
        /\ \A i \in DOMAIN rcv.trace, e \in rcv.old : Before(e, rcv.trace[i])

\* POTR-DELIVERY-QUAL-001: a service that retransmits hands no message over
\* twice.
DeliveredOnce ==
    ~Conf.raw =>
        \A i \in DOMAIN rcv.trace :
            /\ rcv.trace[i] \notin rcv.old
            /\ \A j \in DOMAIN rcv.trace : rcv.trace[j] = rcv.trace[i] => j = i

\* Between CONNECTED and DISCONNECTED the application misses no element of
\* a session: whatever makes the window jump disconnects first.
NoSilentGap ==
    \A i \in 1 .. Len(rcv.trace) - 1 :
        rcv.trace[i][1] = rcv.trace[i + 1][1] => rcv.trace[i + 1][2] = rcv.trace[i][2] + 1

\* FIN ends the session only when the receiver is done with every number the
\* sender used: it passed it before, takes it out of the window now, or the
\* sender rejected it (fin-ordering.md:157-158).  Nothing the window holds is
\* thrown away, and nothing is given up without a REJECT.  The third way that
\* fin-ordering.md:159 and protocol.md:474 name, recv_skip when
\* reorder_timeout_ms has passed, is not in the code:
\* thread_recv_check_reorder_timeout only sends the NACK then
\* (thread_recv_window.c:605-609), as config.md:57 says.
FinAfterData ==
    [][~Conf.raw /\ rcv.known /\ ~rcv'.known /\ rcv.sess = snd.sess =>
        \A k \in 1 .. snd.sent :
            \/ k - 1 < rcv.win.next
            \/ <<snd.sess, k>> \in rcv'.old \cup rcv'.dropped
            \/ Reject(snd.sess, k - 1) \in net]_vars

\* Nothing stalls the receiver: again and again its window has passed every
\* number the sender used, because each missing one is in the end sent again
\* or rejected.
KeepsUp == []<>(snd.sent > 0 => rcv.known /\ rcv.win.next >= snd.sent)

\* POTR-MESSAGE-FUNC-006: a delivered message is made of the parts of one
\* message of the application, all of those from its first on.  A message ends
\* with the first element that does not carry MORE_FRAG.
NothingGlued ==
    \A i \in DOMAIN rcv.trace : rcv.trace[i][2] \in Fragments =>
        /\ i + 1 \in DOMAIN rcv.trace
        /\ rcv.trace[i + 1] = <<rcv.trace[i][1], rcv.trace[i][2] + 1>>
==============================================================================

------------------------------ MODULE SendQueue ------------------------------
(***************************************************************************)
(* The asynchronous send path of one porter handle: potr_service_send and  *)
(* potr_service_close run in the application thread, send_thread_func runs *)
(* in the send thread, and the two share the bounded ring of               *)
(* infra/potr_send_queue.c.  In TCP services a third thread, the connect   *)
(* thread of path 0, starts the send thread and stops it again when the    *)
(* start of the other connected threads fails.                             *)
(*                                                                         *)
(* One action is one critical section of the queue mutex, or one step      *)
(* between two of them.  A thread that waits on a condition variable is at *)
(* the control point named after it; a signal moves it back to the test of *)
(* its loop, and it may also be woken spuriously.                          *)
(***************************************************************************)
EXTENDS Integers, Sequences

CONSTANTS
    Depth,       \* send_queue_depth, the number of pool slots
    MaxPayload,  \* max_payload less the authentication tag
    HdrSize,     \* POTR_PAYLOAD_ELEM_HDR_SIZE
    MsgLens,     \* the message lengths the application sends
    MaxMsgs,     \* bound on the number of calls of potr_service_send
    Tcp,         \* is_tcp_type(service.type)
    PackWait     \* pack_wait_ms > 0

ASSUME DepthAssumption == Depth \in Nat /\ Depth >= 2
ASSUME PayloadAssumption ==
    MaxPayload \in Nat /\ HdrSize \in Nat \ {0} /\ MaxPayload > HdrSize
ASSUME MsgAssumption == MsgLens \subseteq Nat \ {0} /\ MaxMsgs \in Nat
ASSUME ModeAssumption == Tcp \in BOOLEAN /\ PackWait \in BOOLEAN

VARIABLES
    entries,     \* the pool: slot -> element
    head, tail, count, inflight,
    running,     \* send_thread_running
    sender,      \* control point of the send thread, "none" while there is none
    held,        \* the element send_queue_pop or try_pop copied out, and its slot
    packed,      \* the elements in send_wire_buf
    packedLen,   \* packed_len
    dequeued,    \* n_dequeued, counted down by the calls of complete
    app,         \* control point of the application thread
    cur,         \* the message potr_service_send is queueing
    nmsgs,       \* calls of potr_service_send so far
    ret,         \* result of the last call that returned
    conn,        \* control point of the connect thread of path 0
    linkUp,      \* tcp_active_paths > 0 and health_alive, over all paths
    pushed,      \* history: the elements accepted by the queue
    flushed      \* history: the elements handed to flush_packed

queueVars  == <<entries, head, tail, count, inflight>>
senderVars == <<sender, held, packed, packedLen, dequeued>>
appVars    == <<app, cur, nmsgs, ret>>
vars == <<queueVars, running, senderVars, appVars, conn, linkUp, pushed, flushed>>

Slots == 0 .. Depth - 1

MaxChunk == MaxPayload - HdrSize

\* A queue element: its flags and length, and its payload, named by the
\* message and by what was left of the message when it was cut.
Elems == [more : BOOLEAN, len : 0 .. MaxChunk, payload : Nat \X Nat]

\* An entry as potr_internal_send_queue_init leaves it.
NoElem == [more |-> FALSE, len |-> 0, payload |-> <<0, 0>>]

SenderPoints == {"none", "pop", "notEmpty", "append", "peek", "timed",
                 "woken", "tryPop", "flush", "complete", "exited"}
AppPoints == {"idle", "drainFirst", "push", "notFull", "drainLast",
              "drainClose", "fin", "stop", "shutdown", "join", "closed"}
ConnPoints == {"down", "connecting", "started", "stop", "shutdown", "join", "up", "exited"}

\* A waiter on the condition variable "drained" is parked beside the test
\* of the loop it will return to.
DrainTests == {"drainFirst", "drainLast", "drainClose"}
Parked == [drainFirst |-> "parkFirst", drainLast |-> "parkLast",
           drainClose |-> "parkClose"]
ParkedPoints == {"parkFirst", "parkLast", "parkClose"}
Unparked == [parkFirst |-> "drainFirst", parkLast |-> "drainLast",
             parkClose |-> "drainClose"]

TypeOK ==
    /\ entries \in [Slots -> Elems]
    /\ head \in Slots /\ tail \in Slots
    /\ count \in Nat /\ inflight \in Nat
    /\ running \in BOOLEAN
    /\ sender \in SenderPoints
    /\ held \in [slot : Slots, elem : Elems]
    /\ packed \in Seq(Elems) /\ packedLen \in Nat /\ dequeued \in Nat
    /\ app \in AppPoints \cup ParkedPoints
    /\ cur \in [id : Nat, rest : Nat, blocking : BOOLEAN]
    /\ nmsgs \in Nat
    /\ ret \in {"none", "OK", "CANCELED", "DISCONNECTED"}
    /\ conn \in ConnPoints
    /\ linkUp \in BOOLEAN
    /\ pushed \in Seq(Elems) /\ flushed \in Seq(Elems)

Init ==
    /\ entries = [i \in Slots |-> NoElem]
    /\ head = 0 /\ tail = 0 /\ count = 0 /\ inflight = 0
    /\ running = ~Tcp
    /\ sender = IF Tcp THEN "none" ELSE "pop"
    /\ held = [slot |-> 0, elem |-> NoElem] /\ packed = << >> /\ packedLen = 0 /\ dequeued = 0
    /\ app = "idle" /\ cur = [id |-> 0, rest |-> 0, blocking |-> FALSE]
    /\ nmsgs = 0 /\ ret = "none"
    /\ conn = IF Tcp THEN "down" ELSE "exited"
    /\ linkUp = ~Tcp
    /\ pushed = << >> /\ flushed = << >>

\* Slip: the index runs past the end of the pool.
SuccNoWrap(i) == i + 1

\* The slot after i.
Succ(i) == (i + 1) % Depth

-----------------------------------------------------------------------------
\* Condition variables.  One thread can wait on each of them: the send
\* thread on not_empty, the application thread on not_full and on drained.

SignalNotEmpty(s) == CASE s = "notEmpty" -> "pop"
                       [] s = "timed" -> "woken"
                       [] OTHER -> s

SignalNotFull(a) == IF a = "notFull" THEN "push" ELSE a

BroadcastDrained(a) == IF a \in ParkedPoints THEN Unparked[a] ELSE a

\* Slip: the slots of dequeued elements are taken for free.
FullCountOnly == count >= Depth

Full == count + inflight >= Depth

Drained == count = 0 /\ inflight = 0

-----------------------------------------------------------------------------
\* potr_service_send

\* The argument checks passed; a TCP service without a connection refuses.
SendRefused ==
    /\ app = "idle" /\ nmsgs < MaxMsgs
    /\ Tcp /\ ~linkUp
    /\ nmsgs' = nmsgs + 1 /\ ret' = "DISCONNECTED"
    /\ UNCHANGED <<queueVars, running, senderVars, app, cur, conn, linkUp, pushed, flushed>>

SendBegin(len, blocking) ==
    /\ app = "idle" /\ nmsgs < MaxMsgs
    /\ Tcp => linkUp
    /\ nmsgs' = nmsgs + 1 /\ ret' = "none"
    /\ cur' = [id |-> nmsgs + 1, rest |-> len, blocking |-> blocking]
    /\ app' = IF blocking THEN "drainFirst" ELSE "push"
    /\ UNCHANGED <<queueVars, running, senderVars, conn, linkUp, pushed, flushed>>

\* One turn of the fragment loop of send_to_peer: the chunk to queue next.
NextChunk(c) == IF c.rest > MaxChunk THEN MaxChunk ELSE c.rest

NextElem(c) == [more |-> c.rest > NextChunk(c), len |-> NextChunk(c),
                payload |-> <<c.id, c.rest>>]

\* Slip: a blocking call returns without waiting for its last element.
AfterPushNoDrain(c) == IF NextElem(c).more THEN "push" ELSE "idle"

\* What the application thread does once the element is queued.
AfterPush(c) == CASE NextElem(c).more -> "push"
                  [] ~NextElem(c).more /\ c.blocking -> "drainLast"
                  [] ~NextElem(c).more /\ ~c.blocking -> "idle"

\* Slip: nobody is woken when an element is queued.
PushNoSignal ==
    /\ app = "push" /\ ~Full
    /\ entries' = [entries EXCEPT ![tail] = NextElem(cur)]
    /\ tail' = Succ(tail)
    /\ count' = count + 1
    /\ sender' = sender
    /\ pushed' = Append(pushed, NextElem(cur))
    /\ cur' = [cur EXCEPT !.rest = @ - NextChunk(cur)]
    /\ app' = AfterPush(cur)
    /\ ret' = IF app' = "idle" THEN "OK" ELSE ret
    /\ UNCHANGED <<head, inflight, running, held, packed, packedLen, dequeued, nmsgs, conn, linkUp, flushed>>

\* potr_internal_send_queue_push_wait with a free slot.
Push ==
    /\ app = "push" /\ ~Full
    /\ entries' = [entries EXCEPT ![tail] = NextElem(cur)]
    /\ tail' = Succ(tail)
    /\ count' = count + 1
    /\ sender' = SignalNotEmpty(sender)
    /\ pushed' = Append(pushed, NextElem(cur))
    /\ cur' = [cur EXCEPT !.rest = @ - NextChunk(cur)]
    /\ app' = AfterPush(cur)
    /\ ret' = IF app' = "idle" THEN "OK" ELSE ret
    /\ UNCHANGED <<head, inflight, running, held, packed, packedLen, dequeued, nmsgs, conn, linkUp, flushed>>

\* The queue is full: give up when the send thread is stopping, else wait.
PushFull ==
    /\ app = "push" /\ Full
    /\ \/ running /\ app' = "notFull" /\ ret' = ret
       \/ ~running /\ app' = "idle" /\ ret' = "CANCELED"
    /\ UNCHANGED <<queueVars, running, senderVars, cur, nmsgs, conn, linkUp, pushed, flushed>>

\* What the application thread does once wait_drained returns.
AfterDrain(a) == CASE a = "drainFirst" -> "push"
                   [] a = "drainLast" -> "idle"
                   [] a = "drainClose" -> "fin"

\* potr_internal_send_queue_wait_drained: one evaluation of its loop test.
WaitDrained ==
    /\ app \in DrainTests
    /\ app' = IF Drained THEN AfterDrain(app) ELSE Parked[app]
    /\ ret' = IF app' = "idle" THEN "OK" ELSE ret
    /\ UNCHANGED <<queueVars, running, senderVars, cur, nmsgs, conn, linkUp, pushed, flushed>>

-----------------------------------------------------------------------------
\* The send thread

\* Slip: a popped element is not counted in flight.
PopHeadNoInflight ==
    /\ held' = [slot |-> head, elem |-> entries[head]]
    /\ head' = Succ(head)
    /\ count' = count - 1
    /\ inflight' = inflight

\* The part pop and try_pop share.
PopHead ==
    /\ held' = [slot |-> head, elem |-> entries[head]]
    /\ head' = Succ(head)
    /\ count' = count - 1
    /\ inflight' = inflight + 1

\* potr_internal_send_queue_pop: one evaluation of its loop test.
Pop ==
    /\ sender = "pop"
    /\ \/ count > 0 /\ PopHead /\ sender' = "append" /\ dequeued' = 1
       \/ /\ count = 0
          /\ sender' = IF running THEN "notEmpty" ELSE "exited"
          /\ UNCHANGED <<held, head, count, inflight, dequeued>>
    /\ UNCHANGED <<entries, tail, running, packed, packedLen, appVars, conn, linkUp, pushed, flushed>>

\* append_payload_elem: the flags and the length come from the copy, the
\* payload is read from the pool slot, outside the queue mutex.  An element
\* with MORE_FRAG, which only pop can return, is sent alone.
AppendElem ==
    /\ sender = "append"
    /\ packed' = Append(packed, [held.elem EXCEPT !.payload = entries[held.slot].payload])
    /\ packedLen' = packedLen + HdrSize + held.elem.len
    /\ sender' = IF held.elem.more THEN "flush" ELSE "peek"
    /\ UNCHANGED <<queueVars, running, held, dequeued, appVars, conn, linkUp, pushed, flushed>>

\* Slip: the header of the packed element is not counted.
PackableNoHdr(e) == ~e.more /\ packedLen + e.len <= MaxPayload

\* The element fits behind what is packed already.
Packable(e) == ~e.more /\ packedLen + HdrSize + e.len <= MaxPayload

\* peek, or peek_timed when a pack wait is configured: a non-empty queue
\* whose head can be packed is popped next; an empty one ends the packing,
\* after one wait if there is a pack wait.
Peek ==
    /\ sender \in {"peek", "woken"}
    /\ sender' = CASE count > 0 /\ Packable(entries[head]) -> "tryPop"
                   [] count = 0 /\ PackWait /\ sender = "peek" -> "timed"
                   [] OTHER -> "flush"
    /\ UNCHANGED <<queueVars, running, held, packed, packedLen, dequeued, appVars, conn, linkUp, pushed, flushed>>

\* The pack deadline passes, between two turns of the loop or in the wait.
PackDeadline ==
    /\ PackWait
    /\ \/ sender = "peek" /\ sender' = "flush"
       \/ sender = "timed" /\ sender' = "woken"
    /\ UNCHANGED <<queueVars, running, held, packed, packedLen, dequeued, appVars, conn, linkUp, pushed, flushed>>

\* potr_internal_send_queue_try_pop; nobody else takes elements out, so the
\* one that was peeked is still there.
TryPop ==
    /\ sender = "tryPop"
    /\ IF count > 0
       THEN PopHead /\ sender' = "append" /\ dequeued' = dequeued + 1
       ELSE sender' = "flush" /\ UNCHANGED <<held, head, count, inflight, dequeued>>
    /\ UNCHANGED <<entries, tail, running, packed, packedLen, appVars, conn, linkUp, pushed, flushed>>

\* flush_packed builds the outer packet and hands it to the sockets; it
\* reports nothing back to the queue.
Flush ==
    /\ sender = "flush"
    /\ flushed' = flushed \o packed
    /\ packed' = << >> /\ packedLen' = 0
    /\ sender' = "complete"
    /\ UNCHANGED <<queueVars, running, held, dequeued, appVars, conn, linkUp, pushed>>

\* Slip: complete does not wake the thread that waits for a free slot.
CompleteNoSignal ==
    /\ sender = "complete"
    /\ inflight' = IF inflight > 0 THEN inflight - 1 ELSE inflight
    /\ app' = IF count = 0 /\ inflight' = 0 THEN BroadcastDrained(app) ELSE app
    /\ dequeued' = dequeued - 1
    /\ sender' = IF dequeued = 1 THEN "pop" ELSE "complete"
    /\ UNCHANGED <<entries, head, tail, count, running, held, packed, packedLen, cur, nmsgs, ret, conn, linkUp, pushed, flushed>>

\* Slip: complete is called once per packet instead of once per element.
CompleteOnce ==
    /\ sender = "complete"
    /\ inflight' = IF inflight > 0 THEN inflight - 1 ELSE inflight
    /\ LET woken == IF count = 0 /\ inflight' = 0 THEN BroadcastDrained(app) ELSE app
       IN  app' = SignalNotFull(woken)
    /\ dequeued' = 0
    /\ sender' = "pop"
    /\ UNCHANGED <<entries, head, tail, count, running, held, packed, packedLen, cur, nmsgs, ret, conn, linkUp, pushed, flushed>>

\* potr_internal_send_queue_complete, called once per dequeued element.
Complete ==
    /\ sender = "complete"
    /\ inflight' = IF inflight > 0 THEN inflight - 1 ELSE inflight
    /\ LET woken == IF count = 0 /\ inflight' = 0 THEN BroadcastDrained(app) ELSE app
       IN  app' = SignalNotFull(woken)
    /\ dequeued' = dequeued - 1
    /\ sender' = IF dequeued = 1 THEN "pop" ELSE "complete"
    /\ UNCHANGED <<entries, head, tail, count, running, held, packed, packedLen, cur, nmsgs, ret, conn, linkUp, pushed, flushed>>

-----------------------------------------------------------------------------
\* Starting and stopping the send thread

\* Slip: only the waiters on not_full are woken.
ShutdownNotFullOnly(a) == sender' = sender /\ app' = a

\* potr_internal_send_queue_shutdown wakes not_empty and not_full, and
\* leaves the waiters on drained alone; a is the woken application thread.
ShutdownQueue(a) == sender' = SignalNotEmpty(sender) /\ app' = a

\* Slip: close does not wait for the queue to drain before FIN.
CloseBeginNoDrain ==
    /\ app = "idle"
    /\ app' = IF Tcp /\ ~running THEN "stop" ELSE "fin"
    /\ ret' = "none"
    /\ UNCHANGED <<queueVars, running, senderVars, cur, nmsgs, conn, linkUp, pushed, flushed>>

\* potr_service_close.  A TCP service drains and sends FIN only when the
\* send thread runs.
CloseBegin ==
    /\ app = "idle"
    /\ app' = IF Tcp /\ ~running THEN "stop" ELSE "drainClose"
    /\ ret' = "none"
    /\ UNCHANGED <<queueVars, running, senderVars, cur, nmsgs, conn, linkUp, pushed, flushed>>

CloseFin ==
    /\ app = "fin"
    /\ app' = "stop"
    /\ UNCHANGED <<queueVars, running, senderVars, cur, nmsgs, ret, conn, linkUp, pushed, flushed>>

\* potr_internal_send_thread_stop in the application thread, which has
\* joined the connect thread before it.  Nothing to do without a thread.
CloseStop ==
    /\ app = "stop" /\ conn = "exited"
    /\ \/ sender = "none" /\ app' = "closed" /\ ret' = "OK" /\ UNCHANGED running
       \/ sender # "none" /\ app' = "shutdown" /\ ret' = ret /\ running' = FALSE
    /\ UNCHANGED <<queueVars, senderVars, cur, nmsgs, conn, linkUp, pushed, flushed>>

CloseShutdown ==
    /\ app = "shutdown"
    /\ ShutdownQueue("join")
    /\ UNCHANGED <<queueVars, running, held, packed, packedLen, dequeued, cur, nmsgs, ret, conn, linkUp, pushed, flushed>>

\* Slip: the send thread is not joined.
CloseNoJoin ==
    /\ app = "join"
    /\ app' = "closed" /\ ret' = "OK"
    /\ UNCHANGED <<queueVars, running, senderVars, cur, nmsgs, conn, linkUp, pushed, flushed>>

CloseJoin ==
    /\ app = "join" /\ sender = "exited"
    /\ sender' = "none" /\ app' = "closed" /\ ret' = "OK"
    /\ UNCHANGED <<queueVars, running, held, packed, packedLen, dequeued, cur, nmsgs, conn, linkUp, pushed, flushed>>

\* The connect thread of path 0.  potr_internal_connect_thread_stop clears
\* connect_thread_running, which is tested before each attempt to connect.
ConnectThreadRunning == app \notin {"stop", "shutdown", "join", "closed"}

ConnAttempt ==
    /\ conn = "down" /\ ConnectThreadRunning
    /\ conn' = "connecting"
    /\ UNCHANGED <<queueVars, running, senderVars, appVars, linkUp, pushed, flushed>>

\* Without a reconnect interval the loop of a sender ends after a failure.
ConnFailed ==
    /\ conn = "connecting"
    /\ conn' \in {"down", "exited"}
    /\ UNCHANGED <<queueVars, running, senderVars, appVars, linkUp, pushed, flushed>>

\* potr_internal_start_connected_threads starts the send thread; if a later
\* start fails it stops it again.
ConnStart ==
    /\ conn = "connecting" /\ ~running
    /\ conn' = "started" /\ running' = TRUE /\ sender' = "pop"
    /\ UNCHANGED <<queueVars, held, packed, packedLen, dequeued, appVars, linkUp, pushed, flushed>>

ConnStarted ==
    /\ conn = "started"
    /\ conn' \in {"up", "stop"}
    /\ UNCHANGED <<queueVars, running, senderVars, appVars, linkUp, pushed, flushed>>

ConnStop ==
    /\ conn = "stop"
    /\ conn' = "shutdown" /\ running' = FALSE
    /\ UNCHANGED <<queueVars, senderVars, appVars, linkUp, pushed, flushed>>

ConnShutdown ==
    /\ conn = "shutdown"
    /\ conn' = "join"
    /\ ShutdownQueue(SignalNotFull(app))
    /\ UNCHANGED <<queueVars, running, held, packed, packedLen, dequeued, cur, nmsgs, ret, linkUp, pushed, flushed>>

ConnJoin ==
    /\ conn = "join" /\ sender = "exited"
    /\ conn' \in {"down", "exited"} /\ sender' = "none"
    /\ UNCHANGED <<queueVars, running, held, packed, packedLen, dequeued, appVars, linkUp, pushed, flushed>>

\* The loop ends when connect_thread_running is cleared.
ConnExit ==
    /\ conn \in {"down", "up"} /\ ~ConnectThreadRunning
    /\ conn' = "exited"
    /\ UNCHANGED <<queueVars, running, senderVars, appVars, linkUp, pushed, flushed>>

-----------------------------------------------------------------------------
\* The environment

\* The connection state of a TCP service over all its paths.
LinkChange ==
    /\ Tcp
    /\ linkUp' = ~linkUp
    /\ UNCHANGED <<queueVars, running, senderVars, appVars, conn, pushed, flushed>>

\* A condition variable may wake a waiter that nobody signalled.
SpuriousWake ==
    /\ \/ sender' = SignalNotEmpty(sender) /\ sender' # sender /\ app' = app
       \/ app' = SignalNotFull(BroadcastDrained(app)) /\ app' # app /\ sender' = sender
    /\ UNCHANGED <<queueVars, running, held, packed, packedLen, dequeued, cur, nmsgs, ret, conn, linkUp, pushed, flushed>>

\* The handle is freed: nothing is left to do.
Finished == app = "closed" /\ UNCHANGED vars

SendStep == \E len \in MsgLens, blocking \in BOOLEAN : SendBegin(len, blocking)

AppStep == \/ Push \/ PushFull \/ WaitDrained \/ CloseFin
           \/ CloseStop \/ CloseShutdown \/ CloseJoin

SenderStep == Pop \/ AppendElem \/ Peek \/ PackDeadline \/ TryPop \/ Flush \/ Complete

ConnStep == ConnFailed \/ ConnStart \/ ConnStarted \/ ConnStop \/ ConnShutdown \/ ConnJoin \/ ConnExit

Next == \/ SendRefused \/ SendStep \/ CloseBegin \/ AppStep
        \/ SenderStep
        \/ ConnAttempt \/ ConnStep
        \/ LinkChange \/ SpuriousWake \/ Finished

Spec == Init /\ [][Next]_vars

\* A thread that can take a step of the library takes one.  The calls of
\* the application, the connection attempts, the state of the links and
\* spurious wakeups are not fair.
Fairness == WF_vars(AppStep) /\ WF_vars(SenderStep) /\ WF_vars(ConnStep)

FairSpec == Spec /\ Fairness

-----------------------------------------------------------------------------
\* What is in the queue, and what the send thread has taken out of it but
\* not yet copied into the packet, read the way the code will read it.
Ring == [i \in 1 .. count |-> entries[(head + (i - 1)) % Depth]]

Holding == IF sender # "append" THEN << >>
           ELSE <<[held.elem EXCEPT !.payload = entries[held.slot].payload]>>

\* Every element the queue accepted is, in the order of acceptance and with
\* the payload it was accepted with, flushed, packed, held or still queued:
\* no slot is overwritten while the send thread reads it, nothing is sent
\* twice, skipped or reordered by the ring.
InOrder == pushed = flushed \o packed \o Holding \o Ring

\* potr_send_queue.h:62: count + inflight never exceeds the depth, and
\* inflight counts exactly the elements dequeued and not completed.
Capacity == count + inflight <= Depth /\ inflight = dequeued

\* The packet under construction fits send_wire_buf, and an element with
\* MORE_FRAG is never packed with another (send_thread_func's three tests).
PackingSound ==
    /\ packedLen <= MaxPayload
    /\ \A i \in DOMAIN packed : packed[i].more => Len(packed) = 1

\* POTR_SEND_BLOCKING: when the call returns OK, every element accepted so
\* far, its own included, has been handed to the sockets.
BlockingSendHandsOver ==
    [][cur.blocking /\ app # "idle" /\ app' = "idle" /\ ret' = "OK"
       => flushed' = pushed']_vars

\* potr_service_close sends FIN after everything it accepted.
FinFollowsData == app = "fin" => flushed = pushed

\* When potr_service_close returns, the send thread is gone and every
\* message a call of potr_service_send accepted has been handed to the
\* sockets (POTR-SERVICE-FUNC-004).
ClosedMeansSent == app = "closed" => sender = "none" /\ flushed = pushed

\* Once the handle is being closed the send thread and the waiters of the
\* queue come to an end: potr_internal_send_thread_stop never hangs.
StopTerminates == app = "stop" ~> app = "closed"

\* Every call of potr_service_send and potr_service_close returns, whatever
\* the queue's fill level when it was made.
CallsReturn == app # "idle" ~> app \in {"idle", "closed"}
==============================================================================

# porter in TLA+

porter (`libporter`) is a C library that carries messages between processes over
UDP and TCP. An application opens a *service* as sender or receiver, sends
messages with `potr_service_send`, and gets messages and connection events
through a callback. This directory models the parts of the library in which
threads, machines or retransmissions interact, checks them with TLC on small
instances, and proves the send queue, the windows, the peer table, the UDP and the TCP
link and the life of a handle correct for every instance with TLAPS.

Sources are named relative to `src/prod/libsrc/porter/`, documents relative to
`src/docs/`. `PROJECT.json` maps each definition to the lines it models.

## The system

| Part | Where | State | Who changes it |
|---|---|---|---|
| Send queue | `infra/potr_send_queue.c` | ring of elements, `count`, `inflight`, three condition variables | application thread, send thread, connect thread (shutdown) |
| Send thread | `thread/potr_send_thread.c` | packet under construction, send window | itself, under `send_window_mutex` |
| Windows | `protocol/window.c`, `protocol/seqnum.c` | ring of packets, `base_seq`, `next_seq`, `base_index` | send thread; receive thread |
| UDP receive path | `thread/thread_recv_*.c`, `thread/potr_recv_thread.c` | peer session, receive window, reorder wait, pending FIN, fragment buffer, path states | the receive thread alone |
| Health | `thread/potr_health_thread.c`, `thread/thread_recv_health.c` | time of the last packet, PING state of each path | health thread, receive thread |
| TCP connections | `thread/potr_connect_thread.c`, `thread/potr_connected_threads.c` | sockets, `tcp_active_paths`, accepted session | one connect or accept thread per path |
| TCP receive path | `thread/potr_recv_thread.c` | as over UDP, shared by all paths | one receive thread per path, under `tcp_recv_mutex` |
| Open and close | `api/potr_service_open.c`, `api/api_open_paths*.c`, `api/api_context_cleanup.c`, `api/potr_service_close.c` | sockets, buffers, locks and threads of the handle; `close_requested`, the wait for FIN_ACK | application thread |
| N:1 peers | `potr_peer_table.c`, `api/potr_peer_disconnect.c` | table of peers: id, session, addresses and health of each; `n_peers`, `next_peer_id` | receive, send and application threads, under `peers_mutex` |

How they interact. `potr_service_send` cuts a message into elements and puts
them into the queue. The send thread takes them out, packs them, gives the packet
a number, keeps it in the send window and writes it on every path. The receiver
puts packets into its window and hands them to the application in order. Over UDP
there are no acknowledgements. A receiver that misses a number sends a NACK; the
sender answers with the packet, or with REJECT if its window has evicted it. The
receiver then reports DISCONNECTED and skips the number. PINGs carry the sender's next
number, so a loss at the end is found too. Over TCP every path carries a copy of
every packet, and the receiver takes the first. A sender that closes sends FIN
with the number after its last packet; over TCP it waits for FIN_ACK. The server
of an N:1 service serves many clients over one socket. A client's first PING
creates its entry in the peer table; FIN, a timeout or `potr_peer_disconnect` frees it.

What is hard to test here: a slot that is read after the queue mutex was
released; lost wakeups; numbers that wrap; NACKs, PINGs and REJECTs that cross;
packets of a session that has ended; FIN that overtakes data; paths that break
and come back while the last one resets the shared state; two sessions of one
sender at the same time; entries of the peer table that are freed and reused; a
failure at any step of open or close while connect threads start and stop others.
`PROJECT.json` lists them under `hazards`, each at its line with the properties that
would catch it.

## Modules

| Module | Models | Abstract in it |
|---|---|---|
| `SendQueue` | queue, `send_to_peer`, `send_thread_func`, close, start and stop of the send thread | payload bytes: a payload is the name of the message and of the cut |
| `SendChannel` | what the queue promises: a bounded FIFO | |
| `Window` | `window.c` and `seqnum.c` as operators | the packet is a value |
| `WindowRing` | both windows beside unbounded stream positions | |
| `Receiver` | the handlers of the UDP receive thread as operators on a record | time: a deadline has passed or not, by choice |
| `UdpLink` | sender, network and `Receiver` together | one element per packet |
| `TcpLink` | both ends of a one-way TCP service over several paths | the receiver's PINGs are not queued, see below |
| `Peers` | the peer table, `n1_handle_packet`, `check_peers`, `potr_peer_disconnect` | the windows of an entry; time |
| `PeerSend` | `potr_service_send` to peers and `send_packed_peer_mode`, on top of `Peers` | the waits of the queue |
| `Opening` | what open acquires and close gives back, as sequences of steps | sizes, addresses, socket options |
| `Lifecycle` | open, close and the TCP connect threads, executing the steps of `Opening` | FIN and the drain, which are in the modules above |
| `MCSendQueue`, `MCUdpLink`, `MCTcpLink`, `MCPeers`, `MCPeerSend`, `MCLifecycle` | instances for TLC | |
| `Sizes` | what the proofs assume of numbers and finite sets | |
| `SendQueueProof`, `WindowProof`, `PeersProof`, `LifecycleProof` | the proofs | |
| `WindowLemmas` | what the operations of `window.c` do, for all proofs that need it | |
| `UdpLinkProof` | the proofs of the UDP link | |
| `TcpLinkProof`, `TcpDeliveryProof` | the proofs of the TCP link: its paths and sessions, what it delivers | |

**SendQueue.** One action is one critical section of the queue mutex, or one step
of a thread between two of them. A thread is at a control point (`sender`, `app`,
`conn`). `append_payload_elem` reads the pool slot outside the mutex; the model
reads the slot at that step, so a slot that is overwritten too early shows in
`packed`. Threads that wait on a condition variable may be woken spuriously. In a
TCP service the send thread does not exist until path 0 connects, and the connect
thread stops it again if a later start fails. `TryPop` has a branch for an empty
queue, as the code has; it is never taken, because one thread takes elements out.

**Window, WindowRing.** Numbers are taken modulo `SeqSpace`, which stands for
2^32, and the ring index is kept apart from the number, as in the code.
`WindowRing` gives each packet an unbounded position and says what the windows
hold in terms of positions.

**Receiver, UdpLink.** Each handler is a function from the receiver record to the
one it leaves, in the order of the code: adopt the session, learn the path,
accept into the window, test for a gap, drain, test again. `old`, `trace`,
`dropped` and `nacks` are history or output. `health_alive` is "some path is
NORMAL", which every handler that changes a path state recomputes. The network is
a set: with `Keeps` a packet stays and may arrive any number of times or never, without it
a packet is lost when it is sent or leaves when it arrives. PINGs are not in it:
`pings` is the set of next numbers the sender had so far, each of which may arrive in a PING
at any time. `Confs` is a set of configurations (RAW or not, reorder wait, paths, sessions, close,
health timeouts); a behaviour starts by choosing one. The window of a
sender starts at 0 in each session. The application of the receiver is assumed to configure
`src_port` 0, so that a NACK needs a learned port (`slot_send_nack`).

**TcpLink.** `wire[p]` is the list of connections of a path. Each end notices a
cut on its own and may read what is still under way. A path that is counted out
last is `left` until it has reset the shared state, because the code does the two
in two critical sections. Left out or simplified:

- the receiver's PINGs are taken from its present state whenever the sender reads one;
- FIN_ACK is a mark on the connection;
- PINGs that repeat the last one of a connection change nothing and are not sent;
- a PING timeout happens only on a connection that is cut;
- a connection with `wire` packets under way is a full socket buffer: data is
  skipped there, as `flush_packed` does, and FIN waits;
- a start that fails after its receive thread ran (`StartFails`, `AcceptFails`) may fail at any later time, because
  nothing bounds when that thread is scheduled; it counts as one of the `MaxCuts` cuts;
- the end of a receive thread, the clearing of its path state and the count-out are one step;
- the packets that a drain hands to the application are delivered in one step: `tcp_recv_mutex`
  is held, but another thread could change `health_alive` between two of them;
- a close timeout of 0, TCP_BIDIR, and fragments are not modelled.

**Peers, PeerSend.** Every handler holds `peers_mutex` from the lookup of the entry
to its last access, so it is one action. An entry records which paths have an
address, which were heard of, and which are NORMAL on either side; sessions stand for
clients. `view` is what the events have told the application. The clients are
arbitrary: any packet of any session may come at any time. An unknown client gets
an entry by PING only; its DATA is dropped. `PeerSend` splits a send at the points where
the code releases `peers_mutex`: the lookup in `potr_service_send`, and the lookup,
the packing and the flush of the send thread.

**Opening, Lifecycle.** A call is a list of steps: acquire, start, check, stop, give back.
Open may fail at each step and then executes the roll-back of that
step; joins may fail too. A thread is live while its handle is not NULL. The connect
threads follow `sender_connect_loop`, `receiver_accept_loop` and
`potr_internal_start_connected_threads` point by point, so close meets them anywhere.
`Requires` is what a thread uses and what must be there as long as it can run; `Borrows` are the locks it takes
that come and go with another thread: `send_window_mutex` in the PINGs of the TCP health and connect threads,
`health_mutex` in `signal_health_thread` of the UDP send and receive threads. `leaked` records a `tcp_conn_fd` that was
overwritten while it was open. Simplified: joins by the connect threads succeed; a lock is held for no time;
a second join of one thread has no effect.

## Runs

All passing runs check every reachable state of their instance.

| Run | Instance | Shows |
|---|---|---|
| `send_queue_udp` | depth 2, packets of 5 units with headers of 1, messages of 1, 2 and 9 units (9 makes three fragments), 4 calls, pack wait | `TypeOK`, `InOrder`, `Capacity`, `PackingSound`, `FinFollowsData`, `ClosedMeansSent`, `BlockingSendHandsOver`, `CallsReturn`, `ImplementsChannel` |
| `send_queue_tcp` | depth 2, messages of 1 and 5 units, 3 calls, a late and failing start | the same order, capacity and hand-over properties with a third thread; `StopTerminates` |
| `window_ring` | window 3, 8 numbers, positions 6 to 16 | `SenderHolds`, `ReceiverHolds`, `NackExact` over two wraps |
| `udp` | window 2, network that keeps everything; seven configurations: 4 packets; 3 packets with close, with and without a reorder wait; 2 sessions of 2 packets with close, or with a reorder wait; RAW with 2 paths, RAW with 2 sessions. Health timeouts in all | `StrictOrder`, `NoSilentGap`, `FinAfterData` |
| `udp_live` | 3 packets, lossy network, a duplicate table of one slot, fairness | `KeepsUp` |
| `tcp` | 2 paths, four configurations: 3 packets, one path cut for good (`OnePathCut`); 2 sessions of 1 packet with close, crash and reconnection (`Restarts`); 2 packets and close while the other path holds copies (`Closes`); 2 packets, all paths cut and made again (`Reconnects`) | `TypeOK`, `StrictOrder`, `NoSilentGap`, `SessionHolds`, `OldSessionShutOut`, `QuietMeansReset`, `AckMeansTaken` |
| `peers` | 2 entries, 3 clients, one of them with 2 paths, 6 ids of which 4 are usable | `CountMatches`, `IdsDistinct`, `AppViewExact`, `ConnectedCanExpire`, `SilenceDisconnects` |
| `lifecycle` | 14 definitions: every type, both roles, no path, one and two paths, a gap in the addresses, with and without health and reconnection | `ThreadsHaveResources`, `NothingLeft`, `CallsEnd` |
| `reject_glues` | 4 elements, the first a fragment | `NothingGlued` is violated |
| `fin_redelivers` | 2 elements, close | `DeliveredOnce` is violated |
| `tcp_ack_undelivered` | 1 path, 1 packet | `AckMeansDelivered` is violated |
| `peers_misrouted` | 1 entry, 2 clients | `SentToItsPeer` is violated |

**Bounds.** Depth 2 is the least the code allows; a pool of 2 fills, empties and
wraps, and packing needs two elements. A window of 2 with 4 elements evicts and wraps
the ring; 3 elements are the fewest with a gap and something behind it. The window
of 3 does not divide 8, so index and number disagree after the wrap.
`asks` ends the NACKs for numbers beyond those used. Without it a delayed PING
lets the receiver run ahead of the sender without end: the scan for a PING with an old
number asks for a whole window of numbers that were not yet sent, and the sender
rejects them. `MaxCuts`, `wire` and `MaxConns` bound cuts, packets and
connections of a path. PING timeouts of TCP are in `Reconnects`
only. `udp` has no duplicate table (`DedupSlots` 0, every NACK is answered, which
is the larger behaviour for safety); `udp_live` has one. Two entries for three clients
fill the table and free it again, and with 4 usable ids `next_peer_id` wraps while
a peer keeps its id. Two paths are enough for `lifecycle`: path 0 alone starts the send thread.

**Deadlock** is checked in the runs of the send queue, the windows and the UDP link. In the TCP runs every path may be lost for
good (no reconnection configured) or the sender closed, and the receiver waits. In the peer runs the service
is closed in the end or no client sends, and in `lifecycle` the handle is.

**Fairness.** In `SendQueue` a thread that can take a step takes it: the mutex is
released by every critical section and the threads are not suspended for ever.
Calls of the application, connection attempts, link changes and spurious wakeups are not fair.
In `UdpLink` the health thread sends PINGs as long as the handle is open, entries of
the duplicate table expire, and of the packets that are sent again and again
(the latest PING, the NACK for the number the receiver waits for, its answer)
one gets through in the end. These are strong fairness on the sending and on the arrival;
`udp_live` has no health timeouts, because a receiver that forgets the session again and again keeps up with nothing.
In `Peers` the check of an entry whose time is over is weakly fair. The receive thread runs it
only when no packet came for a while, so `SilenceDisconnects` is about behaviours in which the
packets stop. In `Lifecycle` the caller, the connect threads, and a receive thread whose socket was closed go
on; calls of close, failing joins and what the peer does with a connection are not fair.

## What the code does otherwise than the documents say

- `reject_glues`. `functional-spec/message.md:30` says a message of which a part
  does not arrive is not delivered. `thread_recv_window_on_reject` skips the
  number and keeps `frag_buf`. The run sends a fragment, loses the element that ends its
  message, and the receiver delivers the fragment joined to the next message.
- `tcp_ack_undelivered`. `fin-ordering.md:22` makes the return of the DATA callback at the
  receiver the condition for close to complete. The sender is CONNECTED with
  the receiver's first NORMAL PING; the receiver is CONNECTED one PING later. Data sent in between is
  dropped (`thread_recv_slot.c:127`) while the window moves on, FIN_ACK is sent,
  and close returns OK.
- `fin_redelivers`. `functional-spec/delivery.md:39` says that types that retransmit
  deliver no message twice. `thread_recv_fin_fire` forgets the session
  (`thread_recv_fin.c:136`), so a duplicate packet that the network delivers after
  FIN is adopted as a new session and delivered again.
- `peers_misrouted`. `architecture.md:172` says the send thread sends an element to
  the destination of its peer. The thread keeps a pointer to the entry after it released
  `peers_mutex` (`potr_send_thread.c:345`). In the run the peer's entry is freed at that
  moment, another client gets the entry, and the container goes to that client.

Where a property that passes has an exception, the exception is what the code does otherwise. These are the ones
that concern a promise of the documents:

- **Renumbering.** A sender that lost all its paths begins again at number 0 in the same session (`potr_connect_thread.c:152`).
  The receiver may not have noticed and keeps its window. New packets then fall behind the window and are lost, or are taken
  for missing ones and delivered out of order or over a gap, and a FIN_ACK for an old number makes close return OK for packets nobody
  took. `functional-spec/delivery.md:7` promises the order of sending without loss or repetition. `StrictOrder`, `NoSilentGap` and `AckMeansTaken` of `TcpLink` claim
  nothing once `renumbered` is set; without the exception TLC refutes the first two on `Reconnects`
  with a third packet and the last on `Reconnects` with a close.
- **Twice over TCP.** What `fin_redelivers` shows over UDP happens over TCP too. FIN on one path makes the receiver forget the session
  (`thread_recv_fin.c:136`) while another path still holds copies of its packets. They are adopted as a new session and delivered again, against
  `functional-spec/delivery.md:39`. The loss of all paths at the receiver has the same effect. `StrictOrder` of `TcpLink` therefore compares
  the packets of one stay in a session only (`past` holds the rest).
- **FIN and the reorder timeout.** `fin-ordering.md:159` and `protocol.md:474` say that a pending FIN is resolved by `recv_skip` when `reorder_timeout_ms`
  has passed. The code skips nothing there: `thread_recv_check_reorder_timeout` sends a NACK (`thread_recv_window.c:605-609`), which is what `config.md:57` says.
  So a pending FIN waits for the packet, for a REJECT or for the health timeout. `FinAfterData` states the behaviour of the code and would be false
  for that of the two documents.
- **Close without a send thread.** `functional-spec/service.md:26` (POTR-SERVICE-FUNC-004) says that close sends the messages that wait before it ends the
  communication. A TCP service whose send thread does not run (path 0 never connected, or its start was undone) discards them:
  `potr_service_close.c:252` skips the drain, although `potr_service_send` returned OK over another path. `ClosedMeansSent` is checked and proved for
  UDP services only.
- **Locks of another thread.** `architecture.md:806` and `sequence-lifecycle.md:229` dispose of a lock after the threads that use it were waited for.
  A UDP service stops its health thread first and disposes `health_mutex` (`potr_health_thread.c:586`) while the send and receive threads may call
  `signal_health_thread`. In a TCP service `send_window_mutex` belongs to the send thread, but the health threads and the
  bootstrap PING lock it without a test (`potr_health_thread.c:149`): before path 0 has started the send thread and in a receiver that has none,
  when it is NULL, and after the failed start of path 0 disposed of it (`potr_connected_threads.c:86`, `potr_send_thread.c:605`). `ThreadsHaveResources` excepts these borrowed locks and nothing else.
- **A forgotten connection.** `potr_internal_start_connected_threads` returns without closing the connection when the send thread cannot be started
  (`potr_connected_threads.c:47`). A sender that reconnects overwrites the descriptor, and close cannot give it back
  (POTR-SERVICE-QUAL-001). `NothingLeft` excepts the first path of such a sender (1 in the model,
  0 in the code) and nothing else.
- **A failed open** does not set `close_requested`, so it waits for a connect thread that published its connection too late as
  long as the peer stays connected. `CallsEnd` excepts this.

Read in the code while modelling, and not checked by a run:

- a start that fails after PINGs were exchanged, on the last path, ends the session in `reset_all_paths_disconnected`, which clears
  `health_alive` without a DISCONNECTED event (`potr_connect_thread.c:132`);
- the health check runs only when no packet came for a third of the timeout
  (`potr_recv_thread.c:196`), while `health-check.md:197` calls it periodic: as long as
  one client sends, a silent one stays connected;
- an entry of the peer table that is not `health_alive` is never timed out (`thread_recv_health.c:64`);
  the documents free every peer that times out (`health-check.md:212`);
- `protocol.md:274` and `architecture.md:173` let DATA create a peer; only PING does, as `health-check.md:137` says;
- the session reset in `thread_recv_health.c:201` is not reached, because the path
  timeouts before it clear `health_alive`;
- packets behind a rejected one are dropped (`thread_recv_window.c:492`), and a delayed PING makes the
  sender reject numbers it has not used yet (`thread_recv_window.c:558`);
- if the send thread of a TCP service was stopped with a queue that is not empty, a
  blocking send waits for ever (`potr_send_queue.c:271`);
- close and a connect thread may join the same TCP health thread (`potr_service_close.c:220`);
- a send that is cancelled in the middle of a fragmented message leaves its first fragments
  in the queue (`potr_send_queue.c:133`);
- when encryption fails the packed elements are dropped without an error (`potr_send_thread.c:126`).

## Proofs

### The send queue

`SendQueueProof` proves, for every depth of at least 2, every payload size, all
message lengths and any number of calls, over UDP and TCP:

| Theorem | Property |
|---|---|
| `TypeCorrect` | `TypeOK` |
| `CapacityHolds` | `Capacity` |
| `OrderHolds` | `InOrder` |
| `PackingHolds` | `PackingSound` |
| `FinHolds` | `FinFollowsData` |
| `ClosedHolds` | `ClosedMeansSent`, for UDP services |
| `BlockingHolds` | `BlockingSendHandsOver` |
| `QueueImplementsChannel` | the safety part of `ImplementsChannel` |

Assumptions: the four named `ASSUME`s of `SendQueue` (depth at least 2, as
`potr_service_open` enforces; a payload larger than an element header; positive
message lengths).

The argument. None of the properties is inductive alone, so `Inv` adds:

- `RingInv`: `tail` is `count` slots after `head`, and the slot the send thread
  reads from is the one just behind `head` and still holds the popped element.
  With `Capacity` this is why `Push` cannot overwrite it: something in flight means
  `count <= Depth - 2`, so `tail` is not behind `head` (lemma `BehindHead`);
- `FlightInv`: something is in flight exactly while the send thread is between pop
  and the last `complete`;
- `PackInv`: how the packet grows, and that the element about to be appended fits;
- `ThreadInv`: while there is a send thread, it is running or somebody is stopping it.
  So `ConnStart` never starts a second one;
- `DrainInv`: once close has drained the queue, it stays empty.

The lemmas on index arithmetic (`Wrap` to `NextPosition`) and on the ring as a
sequence (`RingSeq`, `RingPush`, `RingPop`) carry the queue operations; `ControlStep`
treats all steps that move no element. `DrainedMeansFlushed` turns the invariant into the
three hand-over theorems.

For the refinement `HandsInv` is added: what the send thread has packed or holds is exactly what it
dequeued, until it flushes. So what was accepted and is not sent is at most
`count + inflight`, `Push` is an `Accept`, `Flush` is a `Send`, and every other step
changes neither history.

### The windows

`WindowProof` proves `TypeOK`, `SenderHolds`, `ReceiverHolds` and `NackExact`
(`WindowsTyped`, `SenderCorrect`, `ReceiverCorrect`, `NackCorrect`) for every window size of at least 2,
every number space at least twice as large, whether or not the size divides it, and streams of any length.
Assumed are `WindowAssumption` and `PosAssumption`; a packet arrives less than one number
space late or early, as `Arrives` says. The inductive invariant describes each window by
positions and by the distance from its base: the sender's holds `Oldest .. sentTo - 1` in this
order, the receiver's holds `stored`, none of it beyond the window, and its other slots are empty. The last part is
needed because a slot is reused one turn of the ring later. Lemmas on remainders (`DivMod` to
`ModAdd`) reduce sequence numbers to positions (`Distance`, `IndexOf`); `Written`,
`Cleared` and `Advanced` say what the two primitives of `window.c` do, and `Pushed`, `Arrived` and
`MovedOn` what its operations do.

### The peer table

`PeersProof` proves `TypeOK`, `CountMatches`, `IdsDistinct`, `AppViewExact` and
`ConnectedCanExpire` (`PeersTyped`, `CountCorrect`, `IdsCorrect`, `ViewCorrect`, `ExpiryCorrect`)
for every size of the table, every number of ids that exceeds it by two at least (the reserved
ones), any clients and any finite set of paths. `Inv` adds `EntryOK`, which says of
each entry that a free one is cleared, that connected paths are NORMAL on this side, and that
those have an address and a time; and `UpOK` and `PathsOK`, which state the view of the
application one id at a time. `Updated` and `Freed` prove the two ways in which an entry changes once,
for all handlers.

### The UDP link

`UdpLinkProof` proves, for every window size of at least 2 and every number space at least twice as large, any sets of paths,
sessions and configurations, and any number of packets under way:

| Theorem | Property | Besides `WindowAssumption`, `ReceiverAssumption` and `LinkAssumption` it assumes |
|---|---|---|
| `TypeCorrect` | `TypeOK` | nothing |
| `DeliveredInOrder` | `StrictOrder` | `ShortSessions`, `Keeps` |
| `GapsAreAnnounced` | `NoSilentGap` | `ShortSessions`, no fragments |
| `FinComesLast` | `FinAfterData`, an action property | `ShortSessions`, no fragments |

`ShortSessions` says that no session has more than `SeqSpace - WindowSize` packets and that no NACK asks for a number beyond
them. Beyond that a late packet carries the number of a new one, and the properties are false; in the code this is
2^32 packets less a window. `Keeps` is needed because `StrictOrder` speaks of a FIN in `net`: without it a FIN
leaves `net` when it arrives, and what it did stays. Without fragments every packet is a message, as in the run. With them a rejected
element leaves the first part of its message in `frag_buf`, which is the finding `reject_glues`.

The invariant `Inv` (`LinkSafe`) has the types and that both ends of the receive window agree (`Typed`), and
under `ShortSessions` four facts (`Kept`):

- `SenderSound`: the send window holds the last packets of the present session, each under its own number, so a
  NACK is answered with the packet it asks for or with a REJECT for it;
- `Sane`: whatever is under way is of the present session or an earlier one and carries the packet of its number, and a FIN
  of the present session names the number after its last packet, because the sender sends nothing behind it;
- `Agrees`: the receiver is in no session its sender has not begun, and a pending FIN waits for the right number;
- `Sound`: the receive window holds packets of its session at their place and nothing was delivered
  since the last path was lost (`Fits`); the last element delivered is the one before the window, or of an earlier
  session (`Gapless`); and as long as no FIN came, all that was delivered is in order and behind the window (`Ordered`).

`Becomes` says what a handler may do to a receiver; it is transitive, so each handler of `Receiver` has one lemma, named in its
comment after the C function, and `Dispatched` and `Checked` put them together. `Turn` is one round of the loop in
`slot_drain_recv_window`; `Turns` carries it over all of them. `Ended` and `EndedBut` record, for
`FinComesLast`, that a receiver that leaves its session took every number up to the pending FIN out of its window, except one that was rejected.

### The TCP link

`TcpLinkProof` and `TcpDeliveryProof` prove, for any finite set of paths, any sessions and packets,
sockets and backlogs of any size and any number of cuts:

| Theorem | Property |
|---|---|
| `TypeCorrect` | `TypeOK` |
| `QuietReceiverIsReset` | `QuietMeansReset` |
| `OnlyAcceptedIsRead` | `OldSessionShutOut` |
| `AcceptedSessionHolds` | `SessionHolds`, an action property |
| `PacketsInOrder` | `StrictOrder` |
| `NoPacketMissed` | `NoSilentGap` |
| `AckedIsTaken` | `AckMeansTaken` |

Assumptions: `WindowAssumption` and `TcpAssumption` (sessions are numbered from 1, a path 0 exists). The last three
theorems also assume `ShortSessions`: no session sends more than `SeqSpace - WindowSize` packets. Without it a copy that
waited on a slow path while the number space went around is taken for a new packet, and the theorems are false. In the code this
is 2^32 packets less a window.

The first four rest on `PathInv` (`PathsSafe`). Beside the types it says:

- the path count of each end is the number of paths between count-in and count-out (lemma `Counting`), so it
  never leaves its range and is 0 only when every path is gone;
- at the count of 0 the session is forgotten, or some path is `left` and about to reset it
  (`Deserted`). This is why the count and the reset may be two critical sections: a path that joins in between
  raises the count, and the reset then does nothing;
- `Linked`: the connection the sender writes on is of its own session, and the one a receive thread reads is
  of the accepted one. A takeover keeps it because it shuts the old sockets before it changes the session.

The other three rest on `DeliveryInv` (`DeliverySafe`), which follows a packet from number to callback:

- on a connection packet n of a session has the number n - 1, and a FIN_ACK on its
  way back vouches for a packet that was taken (`WireInv`);
- the sender numbers by position, waits for the FIN_ACK of its last packet, and is acknowledged only for what was taken (`SenderInv`);
- the window is that of the accepted session and holds its packets at their place (`Waits`), the packet before the next
  one was taken (`Met`), and what the application got is in order, without gap and behind the window (`History`).

`DeliveryInv` has the exception of the properties: once the sender lost all its paths and began again at 0
in the same session (`renumbered`), nothing is claimed. `StrictOrder` compares the packets of one stay in a
session; FIN and the loss of all paths end it (`past`). In `WindowLemmas` are the facts about `window.c` that both need: what a
push does to the distance of each slot from the base, and that a drain hands out the run of packets at the base.

### The life of a handle

`LifecycleProof` proves `ThreadsHaveResources`, `NothingLeft` and `TypeOK` (`NoThreadOutlivesItsResources`,
`EverythingIsGivenBack`, `TypeCorrect`) for every number of paths and every definition of a service, under
`OpeningAssumption`. `Lifecycle` executes lists of steps, so the invariant `LifeInv` (`LifeSafe`) speaks of the rest of the list:

- `ThreadInv`: a live thread has what it needs, and a connect thread has also what the threads need that it may start. A thread
  without a handle does not run;
- `OpenInv`: each step still to come finds its resources, those held now or acquired by an earlier step of the list
  (`OpenPlan`); and of a UDP service no live thread uses the locks that a failing start of the next thread disposes;
- `EndInv`: in the list of an ending call (`EndPlan`) nothing is given back before the steps that stop the threads
  that need it, and everything held is given back by a step still to come (`Covered`);
- `Held`: between these lists, what is held belongs to the handle or is the lock of a live thread, so every
  list that close or a roll-back chooses covers it;
- `FinalInv`: when the handle is gone nothing is left, unless a join failed.

Two facts are added for the exceptions. A lock that is borrowed is required by its owner, so it is there while the owner lives. `StaleInv`
(`StaleSafe`) says where a connect thread may be while its path has a descriptor: only path 1 of a sender comes back to its loop with one,
so only there a descriptor is overwritten.

The first half of the proof shows that the lists of `Opening` have these shapes (`OpenPlan` and `EndPlan` are built up
by lemmas on concatenation: `Prepended`, `StopParts`, `TcpEnds`), the second half has one lemma per action.

### Only model-checked

Liveness (`CallsReturn`, `StopTerminates`, `KeepsUp`, `SilenceDisconnects`, `CallsEnd`) and with it
the fairness of `SendChannel`, which the prover does not cover. Of the properties that passing runs check no other is
left: every invariant and every action property is proved, `NoSilentGap` and `FinAfterData` of `UdpLink` for messages of
one packet. The runs that show a violation
state nothing to prove.

## Not modelled

The two directions of UNICAST_BIDIR and TCP_BIDIR together, reading configuration files, packet bytes, encryption,
compression, validation of incoming packets (a refused packet is a lost one), the
commands. `PROJECT.json` gives the reason for each under `components`.

## Plan

1. `Bidir`: PING exchange of UNICAST_BIDIR and TCP_BIDIR, and when the two ends
   agree on being CONNECTED.
2. `Lifecycle` with the time for which a lock is held, so that a disposal under a thread that holds the lock
   shows apart from one before a thread takes it.
3. Proofs: `NoSilentGap` and `FinAfterData` of `UdpLink` for fragmented messages that lose no part.

-------------------------------- MODULE Peers --------------------------------
(***************************************************************************)
(* The peer table of an N:1 service (unicast_bidir_n1, the server side):   *)
(* one entry for each client session, with the client's addresses and the  *)
(* health of its paths.  The receive thread creates, updates and times out *)
(* entries, potr_peer_disconnect frees them in the application's thread,   *)
(* and each of them holds peers_mutex from its first to its last access,   *)
(* so each handler is one step.  The events go to the application from     *)
(* inside these steps, under callback_mutex.                               *)
(*                                                                         *)
(* An entry e holds                                                        *)
(*   active, id    active and peer_id                                      *)
(*   sess          peer_session_id and peer_session_ts: the client         *)
(*   dest          the paths with a dest_addr                              *)
(*   heard         the paths with a path_last_recv_ts                      *)
(*   own, remote   the paths whose path_ping_state, or                     *)
(*                 remote_path_ping_state, is NORMAL                       *)
(*   logical       path_logical_alive                                      *)
(*   alive         health_alive                                            *)
(*   fin           pending_fin                                             *)
(*                                                                         *)
(* Clients send anything at any time: a packet of any session may arrive   *)
(* on any path the client reaches, once, again, late or never.  The two    *)
(* windows of an entry are left out (Receiver has them), so whether a      *)
(* pending FIN has reached its target is open at each packet that moves    *)
(* the window.  A NACK, and the PINGs of the health thread, read an entry  *)
(* and change nothing in it.  n_paths is written and never read.           *)
(***************************************************************************)
EXTENDS Integers, FiniteSets

CONSTANTS
    MaxPeers,  \* max_peers
    IdSpace,   \* the number of values of potr_peer_id
    Sessions,  \* the sessions of the clients
    NoClient,  \* none of them
    Paths,     \* the configured paths
    Reach      \* session -> the paths its client sends on

ASSUME PeersAssumption ==
    /\ MaxPeers \in Nat \ {0} /\ IdSpace \in Nat /\ IdSpace >= MaxPeers + 2
    /\ NoClient \notin Sessions
    /\ IsFiniteSet(Paths) /\ Reach \in [Sessions -> SUBSET Paths]

VARIABLES
    peers,   \* the entries
    nPeers,  \* n_peers
    nextId,  \* next_peer_id
    view,    \* what the events told the application: the connected peers and paths
    closed   \* potr_service_close has freed the table

vars == <<peers, nPeers, nextId, view, closed>>

Slots == 1 .. MaxPeers

Ids == 0 .. IdSpace - 1

\* POTR_PEER_NA and POTR_PEER_ALL
PeerNA == 0

PeerAll == IdSpace - 1

\* An entry after memset, and one that is free.
NoEntry ==
    [active |-> FALSE, id |-> PeerNA, sess |-> NoClient, dest |-> {},
     heard |-> {}, own |-> {}, remote |-> {}, logical |-> {}, alive |-> FALSE, fin |-> FALSE]

Entries ==
    [active : BOOLEAN, id : Ids, sess : Sessions \cup {NoClient}, dest : SUBSET Paths,
     heard : SUBSET Paths, own : SUBSET Paths, remote : SUBSET Paths,
     logical : SUBSET Paths, alive : BOOLEAN, fin : BOOLEAN]

\* peers, the counters and the view of the application keep their types.
TypeOK ==
    /\ peers \in [Slots -> Entries]
    /\ nPeers \in Int /\ nextId \in Ids
    /\ view \in [up : SUBSET Ids, paths : SUBSET (Ids \X Paths)]
    /\ closed \in BOOLEAN

\* potr_internal_peer_table_init
Init ==
    /\ peers = [i \in Slots |-> NoEntry]
    /\ nPeers = 0 /\ nextId = 1
    /\ view = [up |-> {}, paths |-> {}]
    /\ closed = FALSE

Active == {i \in Slots : peers[i].active}

-----------------------------------------------------------------------------
\* Finding and creating an entry

\* potr_internal_peer_find_by_session and potr_internal_peer_find_by_id
OfSession(s) == {i \in Active : peers[i].sess = s}

OfId(k) == {i \in Active : peers[i].id = k}

\* Slip: an id in use is not skipped.
FreshIdsAll == Ids \ {PeerNA, PeerAll}

\* The ids allocate_peer_id stops at.
FreshIds == {k \in Ids \ {PeerNA, PeerAll} : OfId(k) = {}}

\* allocate_peer_id: the first of them from next_peer_id on, which wraps.
AllocateId ==
    {k \in FreshIds : \A c \in FreshIds : (k - nextId) % IdSpace <= (c - nextId) % IdSpace}

\* Slip: next_peer_id goes on by two, and does not wrap.
NextIdTwice(k) == k + 2

\* next_peer_id when k was allocated.
NextId(k) == (k + 1) % IdSpace

\* The first free entry.
FreeSlot == {i \in Slots \ Active : \A j \in Slots \ Active : i <= j}

\* potr_internal_peer_create up to its return, and the session n1_handle_packet
\* writes into the entry.
Created(k, s, p) ==
    [NoEntry EXCEPT !.active = TRUE, !.id = k, !.sess = s, !.dest = {p}]

-----------------------------------------------------------------------------
\* What the handlers do to an entry

\* thread_recv_learn_sender_path.  A known path only changes its port.
LearnPath(e, p) == [e EXCEPT !.dest = @ \cup {p}]

\* thread_recv_update_path_health
UpdateHealth(e, p) == [e EXCEPT !.heard = @ \cup {p}, !.own = @ \cup {p}]

\* potr_internal_sync_peer_path_state_locked
Synced(e, states) == [e EXCEPT !.logical = states, !.alive = states # {}]

\* potr_internal_copy_bidir_n1_path_states
Logical(e) == e.own \cap e.remote

\* potr_internal_emit_peer_path_events_locked, for an entry that was e and is
\* f now: PATH_CONNECTED and PATH_DISCONNECTED for the paths that changed, then
\* CONNECTED or DISCONNECTED if health_alive did.
Told(e, f) ==
    [up    |-> IF e.alive = f.alive THEN view.up
               ELSE IF f.alive THEN view.up \cup {f.id} ELSE view.up \ {f.id},
     paths |-> (view.paths \cup {<<f.id, p>> : p \in f.logical \ e.logical})
                   \ {<<f.id, p>> : p \in e.logical \ f.logical}]

\* The entry at i becomes e, and the events of the change are emitted.
Update(i, e) ==
    /\ peers' = [peers EXCEPT ![i] = e]
    /\ view' = Told(peers[i], e)

\* Slip: the count goes down only for a peer that is connected.
FreeCountsAlive(i) ==
    /\ peers' = [peers EXCEPT ![i] = NoEntry]
    /\ nPeers' = IF peers[i].alive THEN nPeers - 1 ELSE nPeers
    /\ view' = Told(peers[i], Synced(peers[i], {}))

\* Slip: the entry is freed before the paths are disconnected.
FreeUntold(i) ==
    /\ peers' = [peers EXCEPT ![i] = NoEntry]
    /\ nPeers' = nPeers - 1
    /\ view' = view

\* thread_recv_disconnect_peer_all_paths and potr_internal_peer_free
DisconnectAndFree(i) ==
    /\ peers' = [peers EXCEPT ![i] = NoEntry]
    /\ nPeers' = nPeers - 1
    /\ view' = Told(peers[i], Synced(peers[i], {}))

-----------------------------------------------------------------------------
\* n1_handle_packet

\* dispatch_ping: the PING carries the path states of the client, of which
\* UNDEFINED overwrites nothing; remote is what is NORMAL afterwards.
OnPing(e, p, remote) ==
    LET h == [UpdateHealth(LearnPath(e, p), p) EXCEPT !.remote = remote]
    IN  Synced(h, Logical(h))

\* A PING of a client that has an entry.
PingKnown(s, p) ==
    /\ p \in Reach[s] /\ ~closed
    /\ \E i \in OfSession(s), remote \in SUBSET Reach[s] :
          Update(i, OnPing(peers[i], p, remote))
    /\ UNCHANGED <<nPeers, nextId, closed>>

\* The first PING of a client, while there is room.
PingNew(s, p) ==
    /\ p \in Reach[s] /\ ~closed
    /\ OfSession(s) = {} /\ nPeers < MaxPeers
    /\ \E i \in FreeSlot, k \in AllocateId, remote \in SUBSET Reach[s] :
          /\ Update(i, OnPing(Created(k, s, p), p, remote))
          /\ nextId' = NextId(k)
    /\ nPeers' = nPeers + 1
    /\ UNCHANGED closed

\* potr_internal_peer_create runs out of memory, or of randomness: what it got
\* is given back, but the id is spent.
PingNewFails(s) ==
    /\ OfSession(s) = {} /\ nPeers < MaxPeers /\ ~closed
    /\ \E k \in AllocateId : nextId' = NextId(k)
    /\ UNCHANGED <<peers, nPeers, view, closed>>

\* thread_recv_fin_fire at the end of slot_drain_recv_window, if the window
\* has reached the target of a pending FIN.  f is the entry until then.
Drained(i, f) ==
    \/ Update(i, f) /\ UNCHANGED nPeers
    \/ f.fin /\ DisconnectAndFree(i)

\* thread_recv_window_accept_outer for a peer: DATA does not count as a sign
\* of life.  Without an entry DATA is dropped.
Data(s, p) ==
    /\ p \in Reach[s] /\ ~closed
    /\ \E i \in OfSession(s) : Drained(i, LearnPath(peers[i], p))
    /\ UNCHANGED <<nextId, closed>>

\* thread_recv_window_on_reject for a peer: a REJECT disconnects it.
Reject(s, p) ==
    /\ p \in Reach[s] /\ ~closed
    /\ \E i \in OfSession(s) :
          Drained(i, [Synced(LearnPath(peers[i], p), {}) EXCEPT !.own = {}, !.remote = {}])
    /\ UNCHANGED <<nextId, closed>>

\* dispatch_fin for a peer: FIN waits for its target, or ends the session.
Fin(s) ==
    /\ ~closed
    /\ \E i \in OfSession(s) :
          \/ Update(i, [peers[i] EXCEPT !.fin = TRUE]) /\ UNCHANGED nPeers
          \/ DisconnectAndFree(i)
    /\ UNCHANGED <<nextId, closed>>

-----------------------------------------------------------------------------
\* Timeouts, and the application

\* Slip: the state of the path is left NORMAL.
ExpiredStillOwn(e, late) == [e EXCEPT !.dest = @ \ late, !.heard = @ \ late]

\* The paths of late were last heard of longer than health_timeout_ms ago:
\* ABNORMAL, potr_internal_peer_path_clear and thread_recv_sync_path_state.
Expired(e, late) ==
    LET c == [e EXCEPT !.own = @ \ late, !.dest = @ \ late, !.heard = @ \ late]
    IN  Synced(c, Logical(c))

\* Slip: the last path of a peer never expires.
PollKeepsLast(i) ==
    /\ ~closed /\ peers[i].active /\ peers[i].alive
    /\ \E late \in SUBSET peers[i].heard :
          late # peers[i].heard /\ Update(i, Expired(peers[i], late))
    /\ UNCHANGED <<nPeers, nextId, closed>>

\* thread_recv_health_check_peers, one entry of its loop: only an entry that
\* is alive is looked at.  last_recv_ts is the latest of the times of its
\* paths, so it is late when all of them are.
Poll(i) ==
    /\ ~closed /\ peers[i].active /\ peers[i].alive
    /\ \E late \in SUBSET peers[i].heard :
          IF late = peers[i].heard THEN DisconnectAndFree(i)
          ELSE Update(i, Expired(peers[i], late)) /\ UNCHANGED nPeers
    /\ UNCHANGED <<nextId, closed>>

\* potr_peer_disconnect
PeerDisconnect(k) ==
    /\ ~closed
    /\ \E i \in OfId(k) : DisconnectAndFree(i)
    /\ UNCHANGED <<nextId, closed>>

\* potr_internal_peer_table_dispose, when the threads are stopped.  No event
\* is emitted.
Dispose ==
    /\ ~closed /\ closed' = TRUE
    /\ peers' = [i \in Slots |-> NoEntry] /\ nPeers' = 0
    /\ UNCHANGED <<nextId, view>>

Next ==
    \/ \E s \in Sessions, p \in Paths :
          PingKnown(s, p) \/ PingNew(s, p) \/ Data(s, p) \/ Reject(s, p)
    \/ \E s \in Sessions : PingNewFails(s) \/ Fin(s)
    \/ \E i \in Slots : Poll(i)
    \/ \E k \in Ids : PeerDisconnect(k)
    \/ Dispose

Spec == Init /\ [][Next]_vars

-----------------------------------------------------------------------------
\* Fairness: the receive thread checks the entries when health_timeout_ms / 3
\* has passed without a packet, and only then.  So that the check finds an
\* entry whose time is over is certain when the packets stop.
TimesOut == \E i \in Slots : Poll(i) /\ ~peers'[i].active

FairSpec == Spec /\ WF_vars(TimesOut)

\* What happens without packets.
NoPacket == (\E i \in Slots : Poll(i)) \/ (\E k \in Ids : PeerDisconnect(k)) \/ Dispose

-----------------------------------------------------------------------------
\* Properties

\* n_peers counts the entries in use, through timeouts, FIN, disconnection and
\* failed creation.  So a client is refused only when the table is full, and
\* the CPLAT_ABORT of potr_internal_peer_create is out of reach.
CountMatches == nPeers = Cardinality(Active)

\* Two peers never share an id, although next_peer_id wraps; no id is one of
\* the reserved ones, and no client has two entries.
IdsDistinct ==
    \A i \in Active :
        /\ peers[i].id \notin {PeerNA, PeerAll} /\ peers[i].sess \in Sessions
        /\ \A j \in Active \ {i} : peers[i].id # peers[j].id /\ peers[i].sess # peers[j].sess

\* The application can rely on its events: the peers and paths that they left
\* connected are those the table has connected.  No peer goes without
\* DISCONNECTED, and no id comes back as still connected.
AppViewExact ==
    ~closed =>
        /\ view.up = {peers[i].id : i \in {j \in Active : peers[j].alive}}
        /\ view.paths = UNION {{<<peers[i].id, p>> : p \in peers[i].logical} : i \in Active}

\* A path that is connected has an address to send to and a time from which
\* it expires, so the timeout can end every connection.
ConnectedCanExpire ==
    \A i \in Active : /\ peers[i].alive = (peers[i].logical # {})
                      /\ peers[i].logical \subseteq peers[i].dest \cap peers[i].heard

\* When the packets stop, the timeout disconnects every peer in the end, tells
\* the application so, and it stays so.
SilenceDisconnects == <>[][NoPacket]_vars => <>[](closed \/ view.up = {})
==============================================================================

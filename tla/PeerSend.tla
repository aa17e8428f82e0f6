------------------------------ MODULE PeerSend ------------------------------
(***************************************************************************)
(* Sending in an N:1 service: potr_service_send looks the peer up in the   *)
(* table of Peers and queues elements that carry its id, and the send      *)
(* thread looks each id up again, packs what follows for the same peer and *)
(* sends the container to the addresses in the entry.  Both hold           *)
(* peers_mutex for the lookup only, so the handlers of Peers run between   *)
(* any two steps here.                                                     *)
(*                                                                         *)
(* The queue's own waiting and waking is that of SendQueue and is one step *)
(* here.  An element holds its peer_id, whether MORE_FRAG is set, and, as  *)
(* history, the client whose entry the application's id stood for.         *)
(***************************************************************************)
EXTENDS Peers, Sequences, SequencesExt

CONSTANTS
    Depth,      \* send_queue_depth
    MaxPacked,  \* elements of one container
    Chunks      \* the numbers of elements messages are cut into

VARIABLES
    todo,    \* what potr_service_send has still to queue
    queue,   \* the send queue
    sender,  \* the send thread: its control point, its batch and the entry it found
    wire     \* the last container sent: its elements, and the client of the entry

sendVars == <<todo, queue, sender, wire>>

Idle == [at |-> "pop", batch |-> <<>>, slot |-> 0]

SendInit ==
    /\ Init
    /\ todo = <<>> /\ queue = <<>> /\ sender = Idle
    /\ wire = [batch |-> <<>>, to |-> NoClient]

-----------------------------------------------------------------------------
\* potr_service_send

\* The elements send_to_peer cuts a message for the peer at i into.
Elements(i, n) ==
    [c \in 1 .. n |-> [id |-> peers[i].id, for |-> peers[i].sess, more |-> c < n]]

\* The call with one peer_id, if the peer is there and connected.
SendOne(k, n) ==
    /\ ~closed /\ todo = <<>>
    /\ \E i \in OfId(k) : peers[i].alive /\ todo' = Elements(i, n)
    /\ UNCHANGED <<vars, queue, sender, wire>>

\* The call with POTR_PEER_ALL: the ids of the connected peers are collected,
\* and the message is queued for one after the other.
SendAll(n) ==
    LET up == SetToSortSeq({i \in Active : peers[i].alive}, <)
    IN  /\ ~closed /\ todo = <<>> /\ up # <<>>
        /\ todo' = FlattenSeq([j \in 1 .. Len(up) |-> Elements(up[j], n)])
        /\ UNCHANGED <<vars, queue, sender, wire>>

\* potr_internal_send_queue_push_wait
Push ==
    /\ todo # <<>> /\ Len(queue) < Depth
    /\ queue' = Append(queue, Head(todo)) /\ todo' = Tail(todo)
    /\ UNCHANGED <<vars, sender, wire>>

-----------------------------------------------------------------------------
\* The send thread: send_packed_peer_mode

Pop ==
    /\ sender.at = "pop" /\ queue # <<>>
    /\ sender' = [Idle EXCEPT !.at = "lookup", !.batch = <<Head(queue)>>]
    /\ queue' = Tail(queue)
    /\ UNCHANGED <<vars, todo, wire>>

\* The element of a peer that is gone is dropped.
Lookup ==
    /\ sender.at = "lookup"
    /\ LET found == OfId(sender.batch[1].id)
       IN  sender' = IF found = {} THEN Idle
                     ELSE [sender EXCEPT !.at = "pack", !.slot = CHOOSE i \in found : TRUE]
    /\ UNCHANGED <<vars, todo, queue, wire>>

\* The next element of the queue goes into the same container.
Packs ==
    /\ queue # <<>> /\ Len(sender.batch) < MaxPacked
    /\ ~sender.batch[1].more /\ ~Head(queue).more
    /\ Head(queue).id = sender.batch[1].id

Pack ==
    /\ sender.at = "pack" /\ Packs
    /\ sender' = [sender EXCEPT !.batch = Append(@, Head(queue))]
    /\ queue' = Tail(queue)
    /\ UNCHANGED <<vars, todo, wire>>

\* flush_packed_peer, with the entry as it is now.  If it was freed and is not
\* in use again, locking its disposed lock is undefined behaviour; whatever
\* comes of it is not counted as sent.
Flush ==
    /\ sender.at = "pack" /\ ~Packs
    /\ wire' = IF peers[sender.slot].active
               THEN [batch |-> sender.batch, to |-> peers[sender.slot].sess] ELSE wire
    /\ sender' = Idle
    /\ UNCHANGED <<vars, todo, queue>>

SendNext ==
    \/ \E k \in Ids, n \in Chunks : SendOne(k, n)
    \/ \E n \in Chunks : SendAll(n)
    \/ Push \/ Pop \/ Lookup \/ Pack \/ Flush
    \/ Next /\ ~closed' /\ UNCHANGED sendVars

SendSpec == SendInit /\ [][SendNext]_<<vars, sendVars>>

-----------------------------------------------------------------------------
\* What is sent for a peer_id goes to the client that had this id when
\* potr_service_send accepted the message.
SentToItsPeer == \A j \in DOMAIN wire.batch : wire.batch[j].for = wire.to
==============================================================================

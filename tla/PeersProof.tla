----------------------------- MODULE PeersProof -----------------------------
(***************************************************************************)
(* Proofs about Peers, for every size of the table, every number of ids,   *)
(* any set of clients and any finite set of paths.                         *)
(***************************************************************************)
EXTENDS Peers, Sizes, FiniteSetTheorems, TLAPS

\* What holds of each entry by itself.  A free entry is cleared.  A path that
\* is connected is NORMAL on this side, and one that is NORMAL has an address
\* and a time.
EntryOK(e) ==
    /\ ~e.active => e = NoEntry
    /\ e.active => e.id \notin {PeerNA, PeerAll} /\ e.sess \in Sessions
    /\ e.alive <=> e.logical # {}
    /\ e.logical \subseteq e.own
    /\ e.own \subseteq e.dest /\ e.own \subseteq e.heard

EntriesOK == \A i \in Slots : EntryOK(peers[i])

\* No two entries share an id or a client.
Distinct ==
    \A i, j \in Active : i # j => peers[i].id # peers[j].id /\ peers[i].sess # peers[j].sess

\* The view of the application, one peer and one path at a time.
UpOK == \A k \in Ids : k \in view.up <=> \E i \in Active : peers[i].id = k /\ peers[i].alive

PathsOK ==
    \A k \in Ids, p \in Paths :
        <<k, p>> \in view.paths <=> \E i \in Active : peers[i].id = k /\ p \in peers[i].logical

\* The inductive invariant.
Inv ==
    /\ TypeOK /\ EntriesOK /\ Distinct /\ CountMatches
    /\ ~closed => UpOK /\ PathsOK

-----------------------------------------------------------------------------
\* The invariant gives the properties

\* The table is finite, so its entries can be counted.
LEMMA ActiveFinite == IsFiniteSet(Slots) /\ IsFiniteSet(Active)
<1>1. IsFiniteSet(Slots)
  BY PeersAssumption, FS_Interval DEF Slots
<1> QED
  BY <1>1, FS_Subset DEF Active

\* Two peers have two ids.
LEMMA InvIds == Inv => IdsDistinct
  BY DEF Inv, EntriesOK, EntryOK, Distinct, IdsDistinct, Active

\* A connected path can expire.
LEMMA InvExpire == Inv => ConnectedCanExpire
<1> SUFFICES ASSUME Inv, NEW i \in Active
             PROVE  /\ peers[i].alive = (peers[i].logical # {})
                    /\ peers[i].logical \subseteq peers[i].dest \cap peers[i].heard
  BY DEF ConnectedCanExpire
<1>1. EntryOK(peers[i]) /\ peers[i].alive \in BOOLEAN
  BY DEF Inv, TypeOK, Entries, EntriesOK, Active
<1> QED
  BY <1>1 DEF EntryOK

\* The view of the application is that of the table.
LEMMA InvView == Inv => AppViewExact
<1> SUFFICES ASSUME Inv, ~closed
             PROVE  /\ view.up = {peers[i].id : i \in {j \in Active : peers[j].alive}}
                    /\ view.paths = UNION {{<<peers[i].id, p>> : p \in peers[i].logical} : i \in Active}
  BY DEF AppViewExact
<1>1. /\ view.up \subseteq Ids /\ view.paths \subseteq Ids \X Paths
      /\ \A i \in Active : peers[i].id \in Ids /\ peers[i].logical \subseteq Paths
  BY DEF Inv, TypeOK, Entries, Active
<1>2. UpOK /\ PathsOK
  BY DEF Inv
<1>3. view.up = {peers[i].id : i \in {j \in Active : peers[j].alive}}
  BY <1>1, <1>2 DEF UpOK
<1>4. ASSUME NEW x
      PROVE  x \in view.paths
                <=> x \in UNION {{<<peers[i].id, p>> : p \in peers[i].logical} : i \in Active}
  <2>1. ASSUME x \in view.paths
        PROVE  x \in UNION {{<<peers[i].id, p>> : p \in peers[i].logical} : i \in Active}
    <3>1. PICK k \in Ids, p \in Paths : x = <<k, p>>
      BY <1>1, <2>1
    <3>2. PICK i \in Active : peers[i].id = k /\ p \in peers[i].logical
      BY <1>2, <2>1, <3>1 DEF PathsOK
    <3> QED
      BY <3>1, <3>2
  <2>2. ASSUME x \in UNION {{<<peers[i].id, p>> : p \in peers[i].logical} : i \in Active}
        PROVE  x \in view.paths
    <3>1. PICK i \in Active : x \in {<<peers[i].id, p>> : p \in peers[i].logical}
      BY <2>2
    <3>2. PICK p \in peers[i].logical : x = <<peers[i].id, p>>
      BY <3>1
    <3> QED
      BY <1>1, <1>2, <3>2 DEF PathsOK
  <2> QED
    BY <2>1, <2>2
<1> QED
  BY <1>3, <1>4

-----------------------------------------------------------------------------
\* The two ways a step changes the table

\* An entry is updated, or a free one is taken for a client that has none, with
\* an id that is not in use.
LEMMA Updated ==
    ASSUME Inv, ~closed, UNCHANGED closed, nextId' \in Ids,
           NEW i \in Slots, NEW e \in Entries, e.active, EntryOK(e), Update(i, e),
           \/ /\ i \in Active /\ e.id = peers[i].id /\ e.sess = peers[i].sess
              /\ nPeers' = nPeers
           \/ /\ i \notin Active /\ OfId(e.id) = {} /\ OfSession(e.sess) = {}
              /\ nPeers' = nPeers + 1
    PROVE  Inv'
<1>1. /\ peers \in [Slots -> Entries] /\ EntriesOK /\ Distinct /\ CountMatches /\ UpOK /\ PathsOK
      /\ nPeers \in Int /\ view \in [up : SUBSET Ids, paths : SUBSET (Ids \X Paths)]
      /\ e.id \in Ids /\ e.logical \subseteq Paths /\ e.alive \in BOOLEAN
      /\ peers[i].logical \subseteq Paths /\ peers[i].alive \in BOOLEAN
  BY DEF Inv, TypeOK, Entries
<1>2. /\ peers' = [peers EXCEPT ![i] = e]
      /\ peers'[i] = e
      /\ \A j \in Slots \ {i} : peers'[j] = peers[j]
      /\ view' = Told(peers[i], e)
  BY <1>1 DEF Update
<1>3. /\ Active' = Active \cup {i}
      /\ Active \subseteq Slots
  BY <1>2 DEF Active
<1>4. \A j \in Active \ {i} : peers[j].id # e.id /\ peers[j].sess # e.sess
  BY <1>1, <1>3 DEF Distinct, OfId, OfSession
<1>5. i \notin Active => peers[i] = NoEntry
  BY <1>1 DEF EntriesOK, EntryOK, Active
<1>6. TypeOK'
  <2>1. peers' \in [Slots -> Entries]
    BY <1>1, <1>2
  <2>2. view'.up \subseteq Ids /\ view'.paths \subseteq Ids \X Paths
    BY <1>1, <1>2 DEF Told
  <2>3. view' = [up |-> view'.up, paths |-> view'.paths]
    BY <1>2 DEF Told
  <2>4. view' \in [up : SUBSET Ids, paths : SUBSET (Ids \X Paths)]
    BY <2>2, <2>3
  <2>5. closed' \in BOOLEAN
    BY Zenon DEF Inv, TypeOK
  <2> QED
    BY <1>1, <2>1, <2>4, <2>5 DEF TypeOK
<1>7. EntriesOK'
  BY <1>1, <1>2 DEF EntriesOK
<1>8. Distinct'
  BY <1>1, <1>2, <1>3, <1>4 DEF Distinct
<1>9. CountMatches'
  <2>1. CASE i \in Active
    BY <1>1, <1>3, <2>1 DEF CountMatches
  <2>2. CASE i \notin Active
    BY <1>1, <1>3, <2>2, ActiveFinite, FS_AddElement DEF CountMatches
  <2> QED
    BY <2>1, <2>2
<1>10. UpOK'
  <2> SUFFICES ASSUME NEW k \in Ids
               PROVE  k \in view'.up <=> \E j \in Active' : peers'[j].id = k /\ peers'[j].alive
    BY DEF UpOK
  <2>1. CASE k = e.id
    <3>1. k \in view.up <=> peers[i].alive
      <4>1. CASE i \in Active
        BY <1>1, <1>4, <2>1, <4>1 DEF UpOK
      <4>2. CASE i \notin Active
        BY <1>1, <1>4, <1>5, <2>1, <4>2 DEF UpOK, NoEntry
      <4> QED
        BY <4>1, <4>2
    <3>2. k \in view'.up <=> e.alive
      BY <1>1, <1>2, <2>1, <3>1 DEF Told
    <3> QED
      BY <1>2, <1>3, <1>4, <2>1, <3>2
  <2>2. CASE k # e.id
    <3>1. k \in view'.up <=> k \in view.up
      BY <1>2, <2>2 DEF Told
    <3> QED
      BY <1>1, <1>2, <1>3, <2>2, <3>1 DEF UpOK
  <2> QED
    BY <2>1, <2>2
<1>11. PathsOK'
  <2> SUFFICES ASSUME NEW k \in Ids, NEW p \in Paths
               PROVE  <<k, p>> \in view'.paths
                         <=> \E j \in Active' : peers'[j].id = k /\ p \in peers'[j].logical
    BY DEF PathsOK
  <2>0. view'.paths = (view.paths \cup {<<e.id, q>> : q \in e.logical \ peers[i].logical})
                          \ {<<e.id, q>> : q \in peers[i].logical \ e.logical}
    BY <1>2 DEF Told
  <2>1. CASE k = e.id
    <3>1. <<k, p>> \in view.paths <=> p \in peers[i].logical
      <4>1. CASE i \in Active
        BY <1>1, <1>4, <2>1, <4>1 DEF PathsOK
      <4>2. CASE i \notin Active
        BY <1>1, <1>4, <1>5, <2>1, <4>2 DEF PathsOK, NoEntry
      <4> QED
        BY <4>1, <4>2
    <3>2. <<k, p>> \in view'.paths <=> p \in e.logical
      BY <2>0, <2>1, <3>1
    <3> QED
      BY <1>2, <1>3, <1>4, <2>1, <3>2
  <2>2. CASE k # e.id
    <3>1. <<k, p>> \in view'.paths <=> <<k, p>> \in view.paths
      BY <2>0, <2>2
    <3> QED
      BY <1>1, <1>2, <1>3, <2>2, <3>1 DEF PathsOK
  <2> QED
    BY <2>1, <2>2
<1> QED
  BY <1>6, <1>7, <1>8, <1>9, <1>10, <1>11 DEF Inv

\* An entry is disconnected and freed.
LEMMA Freed ==
    ASSUME Inv, ~closed, UNCHANGED closed, nextId' \in Ids,
           NEW i \in Active, DisconnectAndFree(i)
    PROVE  Inv'
<1> DEFINE e == peers[i]
<1>1. /\ peers \in [Slots -> Entries] /\ EntriesOK /\ Distinct /\ CountMatches /\ UpOK /\ PathsOK
      /\ nPeers \in Int /\ view \in [up : SUBSET Ids, paths : SUBSET (Ids \X Paths)]
      /\ i \in Slots /\ e \in Entries
  BY DEF Inv, TypeOK, Active
<1>2. e.id \in Ids /\ e.logical \subseteq Paths /\ e.alive \in BOOLEAN
  BY <1>1 DEF Entries
<1>3. /\ peers' = [peers EXCEPT ![i] = NoEntry]
      /\ peers'[i] = NoEntry
      /\ \A j \in Slots \ {i} : peers'[j] = peers[j]
      /\ nPeers' = nPeers - 1
  BY <1>1 DEF DisconnectAndFree
<1>4. /\ view'.up = view.up \ {e.id}
      /\ view'.paths = view.paths \ {<<e.id, p>> : p \in e.logical}
      /\ view' = [up |-> view'.up, paths |-> view'.paths]
  <2>1. view' = Told(e, Synced(e, {}))
    BY DEF DisconnectAndFree
  <2>2. LET f == Synced(e, {}) IN f.alive = FALSE /\ f.logical = {} /\ f.id = e.id
    BY <1>1 DEF Synced, Entries
  <2>3. ~e.alive => e.id \notin view.up
    BY <1>1, <1>2 DEF UpOK, Distinct
  <2> QED
    BY <1>2, <2>1, <2>2, <2>3 DEF Told
<1>5. Active' = Active \ {i} /\ Active \subseteq Slots
  BY <1>3 DEF Active, NoEntry
<1>6. TypeOK'
  <2>1. NoEntry \in Entries
    BY PeersAssumption DEF NoEntry, Entries, Ids, PeerNA
  <2>2. peers' \in [Slots -> Entries]
    BY <1>1, <1>3, <2>1
  <2>3. view' \in [up : SUBSET Ids, paths : SUBSET (Ids \X Paths)]
    BY <1>1, <1>4
  <2>4. closed' \in BOOLEAN
    BY Zenon DEF Inv, TypeOK
  <2> QED
    BY <1>1, <1>3, <2>2, <2>3, <2>4 DEF TypeOK
<1>7. EntriesOK'
  BY <1>1, <1>3 DEF EntriesOK, EntryOK, NoEntry
<1>8. Distinct'
  BY <1>1, <1>3, <1>5 DEF Distinct
<1>9. CountMatches'
  BY <1>1, <1>3, <1>5, ActiveFinite, FS_RemoveElement DEF CountMatches
<1>10. UpOK'
  BY <1>1, <1>3, <1>4, <1>5 DEF UpOK, Distinct
<1>11. PathsOK'
  <2> SUFFICES ASSUME NEW k \in Ids, NEW p \in Paths
               PROVE  <<k, p>> \in view'.paths
                         <=> \E j \in Active' : peers'[j].id = k /\ p \in peers'[j].logical
    BY DEF PathsOK
  <2>1. \A j \in Active \ {i} : peers[j].id # e.id
    BY <1>1 DEF Distinct
  <2>2. CASE k = e.id
    <3>1. <<k, p>> \in view.paths <=> p \in e.logical
      BY <1>1, <2>1, <2>2 DEF PathsOK
    <3> QED
      BY <1>3, <1>4, <1>5, <2>1, <2>2, <3>1
  <2>3. CASE k # e.id
    <3>1. <<k, p>> \in view'.paths <=> <<k, p>> \in view.paths
      BY <1>4, <2>3
    <3> QED
      BY <1>1, <1>3, <1>5, <2>3, <3>1 DEF PathsOK
  <2> QED
    BY <2>2, <2>3
<1> QED
  BY <1>6, <1>7, <1>8, <1>9, <1>10, <1>11 DEF Inv

-----------------------------------------------------------------------------
\* The actions

\* A packet that leaves an entry to its client.
LEMMA Kept ==
    ASSUME Inv, ~closed, UNCHANGED <<nextId, closed>>, nPeers' = nPeers,
           NEW i \in Active, NEW e \in Entries, EntryOK(e), Update(i, e),
           e.active, e.id = peers[i].id, e.sess = peers[i].sess
    PROVE  Inv'
<1>1. i \in Slots /\ nextId' \in Ids
  BY SMTT(30) DEF Inv, TypeOK, Active
<1> QED
  BY <1>1, Updated

\* A PING on a path keeps an entry well formed.
LEMMA OnPingOK ==
    ASSUME NEW e \in Entries, EntryOK(e), e.active, NEW p \in Paths, NEW remote \in SUBSET Paths
    PROVE  LET f == OnPing(e, p, remote)
           IN  f \in Entries /\ EntryOK(f) /\ f.active /\ f.id = e.id /\ f.sess = e.sess
  BY ZenonT(40) DEF OnPing, UpdateHealth, LearnPath, Synced, Logical, Entries, EntryOK

\* The expiry of some of its paths does.
LEMMA ExpiredOK ==
    ASSUME NEW e \in Entries, EntryOK(e), e.active, NEW late \in SUBSET Paths
    PROVE  LET f == Expired(e, late)
           IN  f \in Entries /\ EntryOK(f) /\ f.active /\ f.id = e.id /\ f.sess = e.sess
  BY ZenonT(40) DEF Expired, Synced, Logical, Entries, EntryOK

\* What a DATA, a REJECT and a pending FIN leave does.
LEMMA PacketOK ==
    ASSUME NEW e \in Entries, EntryOK(e), e.active, NEW p \in Paths,
           NEW f \in {LearnPath(e, p),
                      [Synced(LearnPath(e, p), {}) EXCEPT !.own = {}, !.remote = {}],
                      [e EXCEPT !.fin = TRUE]}
    PROVE  f \in Entries /\ EntryOK(f) /\ f.active /\ f.id = e.id /\ f.sess = e.sess
<1>1. CASE f = LearnPath(e, p)
  BY <1>1 DEF LearnPath, Entries, EntryOK
<1>2. CASE f = [Synced(LearnPath(e, p), {}) EXCEPT !.own = {}, !.remote = {}]
  BY <1>2, ZenonT(40) DEF LearnPath, Synced, Entries, EntryOK
<1>3. CASE f = [e EXCEPT !.fin = TRUE]
  BY <1>3 DEF Entries, EntryOK
<1> QED
  BY <1>1, <1>2, <1>3

\* The entry of a client that PING creates.
LEMMA CreatedOK ==
    ASSUME NEW k \in Ids \ {PeerNA, PeerAll}, NEW s \in Sessions, NEW p \in Paths
    PROVE  LET e == Created(k, s, p)
           IN  e \in Entries /\ EntryOK(e) /\ e.active /\ e.id = k /\ e.sess = s
  BY PeersAssumption, ZenonT(40) DEF Created, NoEntry, Entries, EntryOK, Ids, PeerNA

\* An active entry is an entry.
LEMMA ActiveOK ==
    ASSUME Inv, NEW i \in Active
    PROVE  i \in Slots /\ peers[i] \in Entries /\ EntryOK(peers[i]) /\ peers[i].active
  BY DEF Inv, TypeOK, EntriesOK, Active

\* A packet that is followed by the drain of the window.
LEMMA DrainedOK ==
    ASSUME Inv, ~closed, UNCHANGED <<nextId, closed>>,
           NEW i \in Active, NEW e \in Entries, EntryOK(e), Drained(i, e),
           e.active, e.id = peers[i].id, e.sess = peers[i].sess
    PROVE  Inv'
<1>1. CASE Update(i, e) /\ UNCHANGED nPeers
  BY <1>1, Kept
<1>2. CASE DisconnectAndFree(i)
  BY <1>2, Freed DEF Inv, TypeOK
<1> QED
  BY <1>1, <1>2 DEF Drained

\* A cleared entry.
LEMMA FreeOK == NoEntry \in Entries /\ EntryOK(NoEntry)
<1>1. PeerNA \in Ids
  BY PeersAssumption DEF Ids, PeerNA
<1>2. NoEntry \in Entries
  BY <1>1, ZenonT(40) DEF NoEntry, Entries
<1>3. /\ NoEntry.active = FALSE /\ NoEntry.alive = FALSE /\ NoEntry.logical = {}
      /\ NoEntry.own = {}
  BY DEF NoEntry
<1> QED
  BY <1>2, <1>3 DEF EntryOK

\* next_peer_id stays an id.
LEMMA NextIdOK ==
    ASSUME NEW k \in Ids
    PROVE  NextId(k) \in Ids
  BY PeersAssumption DEF NextId, Ids

-----------------------------------------------------------------------------
\* The inductive invariant

\* potr_internal_peer_table_init establishes it.
LEMMA InitInv == Init => Inv
<1> SUFFICES ASSUME Init PROVE Inv
  OBVIOUS
<1>1. NoEntry \in Entries /\ EntryOK(NoEntry)
  BY FreeOK
<1>2. Active = {}
  BY DEF Init, Active, NoEntry
<1>3. TypeOK
  <2>1. peers \in [Slots -> Entries] /\ nPeers \in Int
    BY <1>1 DEF Init
  <2>2. nextId \in Ids
    BY PeersAssumption DEF Init, Ids
  <2>3. view \in [up : SUBSET Ids, paths : SUBSET (Ids \X Paths)]
    BY DEF Init
  <2>4. closed \in BOOLEAN
    BY Zenon DEF Init
  <2> QED
    BY <2>1, <2>2, <2>3, <2>4 DEF TypeOK
<1>4. EntriesOK /\ Distinct
  BY <1>1, <1>2 DEF Init, EntriesOK, Distinct
<1>5. CountMatches
  BY <1>2, FS_EmptySet DEF Init, CountMatches
<1>6. UpOK /\ PathsOK
  BY <1>2 DEF Init, UpOK, PathsOK
<1> QED
  BY <1>3, <1>4, <1>5, <1>6 DEF Inv

\* Every handler keeps it.
LEMMA StepInv == Inv /\ [Next]_vars => Inv'
<1> SUFFICES ASSUME Inv, [Next]_vars PROVE Inv'
  OBVIOUS
<1>t. nextId \in Ids /\ \A s \in Sessions : Reach[s] \subseteq Paths
  BY PeersAssumption DEF Inv, TypeOK
<1>1. ASSUME NEW s \in Sessions, NEW p \in Paths, PingKnown(s, p)
      PROVE  Inv'
  <2>1. PICK i \in OfSession(s), remote \in SUBSET Reach[s] :
            Update(i, OnPing(peers[i], p, remote))
    BY <1>1 DEF PingKnown
  <2>2. i \in Active /\ remote \in SUBSET Paths /\ ~closed
    BY <1>1, <1>t DEF OfSession, PingKnown
  <2> QED
    BY <1>1, <2>1, <2>2, ActiveOK, OnPingOK, Kept DEF PingKnown
<1>2. ASSUME NEW s \in Sessions, NEW p \in Paths, PingNew(s, p)
      PROVE  Inv'
  <2>1. PICK i \in FreeSlot, k \in AllocateId, remote \in SUBSET Reach[s] :
            /\ Update(i, OnPing(Created(k, s, p), p, remote))
            /\ nextId' = NextId(k)
    BY <1>2 DEF PingNew
  <2>2. /\ i \in Slots /\ i \notin Active
        /\ k \in Ids \ {PeerNA, PeerAll} /\ OfId(k) = {} /\ OfSession(s) = {}
        /\ remote \in SUBSET Paths
    BY <1>2, <1>t, SMTT(30) DEF FreeSlot, AllocateId, FreshIds, PingNew
  <2> DEFINE e == OnPing(Created(k, s, p), p, remote)
  <2>3. e \in Entries /\ EntryOK(e) /\ e.active /\ e.id = k /\ e.sess = s
    BY <2>2, CreatedOK, OnPingOK, SMTT(30)
  <2>4. nextId' \in Ids /\ ~closed /\ UNCHANGED closed /\ nPeers' = nPeers + 1
    BY <1>2, <2>1, <2>2, NextIdOK DEF PingNew
  <2>5. Update(i, e)
    BY <2>1, SMTT(30)
  <2> HIDE DEF e
  <2> QED
    BY <2>2, <2>3, <2>4, <2>5, Updated
<1>3. ASSUME NEW s \in Sessions, NEW p \in Paths, Data(s, p)
      PROVE  Inv'
  <2>1. PICK i \in OfSession(s) : Drained(i, LearnPath(peers[i], p))
    BY <1>3 DEF Data
  <2>2. i \in Active
    BY SMTT(30) DEF OfSession
  <2> QED
    BY <1>3, <2>1, <2>2, ActiveOK, PacketOK, DrainedOK DEF Data
<1>4. ASSUME NEW s \in Sessions, NEW p \in Paths, Reject(s, p)
      PROVE  Inv'
  <2>1. PICK i \in OfSession(s) :
            Drained(i, [Synced(LearnPath(peers[i], p), {}) EXCEPT !.own = {}, !.remote = {}])
    BY <1>4 DEF Reject
  <2>2. i \in Active
    BY DEF OfSession
  <2> QED
    BY <1>4, <2>1, <2>2, ActiveOK, PacketOK, DrainedOK, ZenonT(40) DEF Reject
<1>5. ASSUME NEW s \in Sessions, PingNewFails(s)
      PROVE  Inv'
  <2>1. nextId' \in Ids /\ UNCHANGED <<peers, nPeers, view, closed>>
    BY <1>5, NextIdOK DEF PingNewFails, AllocateId, FreshIds
  <2> QED
    BY <2>1 DEF Inv, TypeOK, EntriesOK, Distinct, CountMatches, UpOK, PathsOK, Active
<1>6. ASSUME NEW s \in Sessions, Fin(s)
      PROVE  Inv'
  <2>1. PICK i \in OfSession(s) :
            \/ Update(i, [peers[i] EXCEPT !.fin = TRUE]) /\ UNCHANGED nPeers
            \/ DisconnectAndFree(i)
    BY <1>6 DEF Fin
  <2>2. i \in Active /\ ~closed /\ UNCHANGED <<nextId, closed>>
    BY <1>6 DEF OfSession, Fin
  <2>3. CASE Update(i, [peers[i] EXCEPT !.fin = TRUE]) /\ UNCHANGED nPeers
    <3> DEFINE e == [peers[i] EXCEPT !.fin = TRUE]
    <3>1. e \in Entries /\ EntryOK(e) /\ e.active /\ e.id = peers[i].id /\ e.sess = peers[i].sess
      BY <2>2, ActiveOK, ZenonT(40) DEF Entries, EntryOK
    <3> QED
      BY <2>2, <2>3, <3>1, Kept
  <2>4. CASE DisconnectAndFree(i)
    BY <1>t, <2>2, <2>4, Freed
  <2> QED
    BY <2>1, <2>3, <2>4
<1>7. ASSUME NEW i \in Slots, Poll(i)
      PROVE  Inv'
  <2>1. i \in Active /\ ~closed /\ UNCHANGED <<nextId, closed>>
    BY <1>7 DEF Poll, Active
  <2>2. PICK late \in SUBSET peers[i].heard :
            IF late = peers[i].heard THEN DisconnectAndFree(i)
            ELSE Update(i, Expired(peers[i], late)) /\ UNCHANGED nPeers
    BY <1>7 DEF Poll
  <2>3. late \in SUBSET Paths
    BY <2>1, ActiveOK DEF Entries
  <2>4. CASE DisconnectAndFree(i)
    BY <1>t, <2>1, <2>4, Freed
  <2>5. CASE Update(i, Expired(peers[i], late)) /\ UNCHANGED nPeers
    BY <2>1, <2>3, <2>5, ActiveOK, ExpiredOK, Kept
  <2> QED
    BY <2>2, <2>4, <2>5
<1>8. ASSUME NEW k \in Ids, PeerDisconnect(k)
      PROVE  Inv'
  <2>1. PICK i \in OfId(k) : DisconnectAndFree(i)
    BY <1>8 DEF PeerDisconnect
  <2> QED
    BY <1>8, <1>t, <2>1, Freed DEF PeerDisconnect, OfId
<1>9. ASSUME Dispose
      PROVE  Inv'
  <2>1. NoEntry \in Entries /\ EntryOK(NoEntry)
    BY FreeOK
  <2>2. Active' = {}
    BY <1>9 DEF Dispose, Active, NoEntry
  <2>3. TypeOK'
    BY <1>9, <2>1 DEF Dispose, Inv, TypeOK
  <2>4. EntriesOK' /\ Distinct'
    BY <1>9, <2>1, <2>2 DEF Dispose, EntriesOK, Distinct
  <2>5. CountMatches'
    BY <1>9, <2>2, FS_EmptySet, SMTT(30) DEF Dispose, CountMatches
  <2> QED
    BY <1>9, <2>3, <2>4, <2>5 DEF Dispose, Inv
<1>10. ASSUME UNCHANGED vars
       PROVE  Inv'
  BY <1>10 DEF vars, Inv, TypeOK, EntriesOK, Distinct, CountMatches, UpOK, PathsOK, Active
<1> QED
  BY <1>1, <1>2, <1>3, <1>4, <1>5, <1>6, <1>7, <1>8, <1>9, <1>10 DEF Next

\* The entries, the counters and the view keep their types: next_peer_id wraps
\* within the ids, and no event names a peer or a path that cannot be.
THEOREM PeersTyped == Spec => []TypeOK
<1>1. Inv => TypeOK
  BY DEF Inv
<1> QED
  BY InitInv, StepInv, <1>1, PTL DEF Spec

\* n_peers always counts the entries in use: no handler of the table counts an
\* entry twice, or forgets to.
THEOREM CountCorrect == Spec => []CountMatches
<1>1. Inv => CountMatches
  BY DEF Inv
<1> QED
  BY InitInv, StepInv, <1>1, PTL DEF Spec

\* The search of allocate_peer_id and the lookup of a session before an entry
\* is created keep the ids and the clients of the entries distinct.
THEOREM IdsCorrect == Spec => []IdsDistinct
  BY InitInv, StepInv, InvIds, PTL DEF Spec

\* The CONNECTED and DISCONNECTED events of peers and paths add up to what the
\* table says, as long as the service is open.
THEOREM ViewCorrect == Spec => []AppViewExact
  BY InitInv, StepInv, InvView, PTL DEF Spec

\* Every connected path can be reached and can expire.
THEOREM ExpiryCorrect == Spec => []ConnectedCanExpire
  BY InitInv, StepInv, InvExpire, PTL DEF Spec

-----------------------------------------------------------------------------
\* Sizes of sets

\* What the assumptions on the paths of a service ask of Cardinality holds of
\* every finite set.
THEOREM FiniteIsSized ==
    ASSUME NEW P, IsFiniteSet(P)
    PROVE  Sized(P)
<1>1. Cardinality({}) = 0 /\ Cardinality(P) \in Nat
  BY FS_EmptySet, FS_CardinalityType
<1>2. ASSUME NEW S \in SUBSET P
      PROVE  /\ Cardinality(S) \in 0 .. Cardinality(P)
             /\ Cardinality(S) = 0 => S = {}
             /\ \A x \in P \ S : Cardinality(S \cup {x}) = Cardinality(S) + 1
  <2>1. IsFiniteSet(S) /\ Cardinality(S) <= Cardinality(P)
    BY FS_Subset
  <2>2. Cardinality(S) \in Nat
    BY <2>1, FS_CardinalityType
  <2>3. Cardinality(S) = 0 => S = {}
    BY <2>1, FS_EmptySet
  <2>4. ASSUME NEW x \in P \ S PROVE Cardinality(S \cup {x}) = Cardinality(S) + 1
    BY <2>1, FS_AddElement, Zenon
  <2> QED BY <1>1, <2>1, <2>2, <2>3, <2>4
<1> QED BY <1>1, <1>2, Zenon DEF Sized

\* The paths of a service are as many as the last of them says.
THEOREM IntervalIsSized ==
    ASSUME NEW n \in Nat \ {0}
    PROVE  Sized(1 .. n) /\ Cardinality(1 .. n) = n
<1>1. IsFiniteSet(1 .. n) /\ Cardinality(1 .. n) = n
  BY FS_Interval
<1> QED BY <1>1, FiniteIsSized
==============================================================================

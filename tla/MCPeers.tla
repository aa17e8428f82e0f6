------------------------------- MODULE MCPeers -------------------------------
(***************************************************************************)
(* Instances of Peers for TLC: two entries for three clients, of which one *)
(* has two paths, and so few ids that next_peer_id wraps.                  *)
(***************************************************************************)
EXTENDS Peers, TLC

CONSTANTS s1, s2, s3, p1, p2

MCReach == s1 :> {p1, p2} @@ s2 :> {p1} @@ s3 :> {p1}
==============================================================================

----------------------------- MODULE MCPeerSend -----------------------------
(***************************************************************************)
(* An instance of PeerSend for TLC: two clients with one path each, one    *)
(* entry for them, and more ids than the counterexample spends, so that no *)
(* id is used twice in it.                                                 *)
(***************************************************************************)
EXTENDS PeerSend

MCReach == [s \in Sessions |-> Paths]
==============================================================================

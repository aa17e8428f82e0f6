----------------------------- MODULE MCLifecycle -----------------------------
(***************************************************************************)
(* An instance of Lifecycle for TLC.                                       *)
(***************************************************************************)
EXTENDS Lifecycle

Service(type, role, src, dst) ==
    [type |-> type, role |-> role, src |-> src, dst |-> dst, health |-> TRUE, retry |-> TRUE]

\* Every type, both roles, one and two paths, no path, a gap in the addresses.
MCConfs ==
    { Service("unicast", "sender", {1, 2}, {1, 2}),
      Service("unicast", "receiver", {1, 2}, {1}),
      Service("multicast", "sender", {1}, {}),
      Service("broadcast", "sender", {1, 2}, {}),
      Service("broadcast", "receiver", {2}, {}),
      Service("bidir", "receiver", {}, {1}),
      Service("bidir", "receiver", {1}, {1, 2}),
      [Service("bidir", "sender", {}, {1, 2}) EXCEPT !.health = FALSE],
      Service("n1", "receiver", {}, {}),
      Service("n1", "receiver", {}, {1, 2}),
      Service("tcp", "sender", {}, {1, 2}),
      [Service("tcp", "sender", {}, {1}) EXCEPT !.retry = FALSE],
      Service("tcp", "receiver", {1}, {1, 2}),
      [Service("tcp_bidir", "receiver", {}, {1, 2}) EXCEPT !.health = FALSE] }
==============================================================================

------------------------------ MODULE MCTcpLink ------------------------------
(* Instances of TcpLink for TLC. *)
EXTENDS TcpLink

MCPackets == Sessions \X Elements

\* Three packets over two paths, one of which is cut and not made again.
OnePathCut ==
    [sessions |-> {1}, elements |-> {1, 2, 3}, lossy |-> {2}, timeouts |-> FALSE,
     reconnects |-> FALSE, closes |-> FALSE, wire |-> 2]

\* A sender that closes or crashes, is started again and connects anew.
Restarts ==
    [sessions |-> {1, 2}, elements |-> {1}, lossy |-> {}, timeouts |-> FALSE,
     reconnects |-> TRUE, closes |-> TRUE, wire |-> 1]

\* Copies of a session that FIN ends are still on the other path.
Closes ==
    [sessions |-> {1}, elements |-> {1, 2}, lossy |-> {}, timeouts |-> FALSE,
     reconnects |-> FALSE, closes |-> TRUE, wire |-> 2]

\* The receiver loses all paths, or only the sender does, and they are made
\* again.
Reconnects ==
    [sessions |-> {1}, elements |-> {1, 2}, lossy |-> {1, 2}, timeouts |-> TRUE,
     reconnects |-> TRUE, closes |-> FALSE, wire |-> 1]

Safety == {OnePathCut, Restarts, Closes, Reconnects}

\* Both directions are up at different times, and the sender closes.
Closing ==
    {[sessions |-> {1}, elements |-> {1}, lossy |-> {}, timeouts |-> TRUE,
      reconnects |-> FALSE, closes |-> TRUE, wire |-> 2]}
==============================================================================

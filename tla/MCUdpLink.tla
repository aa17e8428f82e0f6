------------------------------ MODULE MCUdpLink ------------------------------
(***************************************************************************)
(* Instances of UdpLink for TLC.                                           *)
(***************************************************************************)
EXTENDS UdpLink

MCPackets == Sessions \X Elements

\* One session of n packets on one path, in a service that retransmits.
OneSession(n) ==
    [raw |-> FALSE, wait |-> FALSE, timeouts |-> FALSE, closes |-> FALSE, paths |-> {1},
     sessions |-> {1}, elements |-> 1 .. n, asks |-> 0 .. n - 1]

Safety ==
    { [OneSession(4) EXCEPT !.timeouts = TRUE],
      [OneSession(3) EXCEPT !.timeouts = TRUE, !.closes = TRUE],
      [OneSession(3) EXCEPT !.timeouts = TRUE, !.closes = TRUE, !.wait = TRUE],
      [OneSession(2) EXCEPT !.timeouts = TRUE, !.closes = TRUE, !.sessions = {1, 2}],
      [OneSession(2) EXCEPT !.timeouts = TRUE, !.wait = TRUE, !.sessions = {1, 2}],
      [OneSession(3) EXCEPT !.timeouts = TRUE, !.closes = TRUE, !.wait = TRUE,
                            !.raw = TRUE, !.paths = {1, 2}],
      [OneSession(2) EXCEPT !.timeouts = TRUE, !.closes = TRUE, !.wait = TRUE,
                            !.raw = TRUE, !.sessions = {1, 2}] }

Liveness == {OneSession(3)}

Fragmented == {OneSession(4)}

Closing == {[OneSession(2) EXCEPT !.closes = TRUE]}
==============================================================================

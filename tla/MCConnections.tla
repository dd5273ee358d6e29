--------------------------- MODULE MCConnections ----------------------------
EXTENDS Connections, TLC

CONSTANTS c1, c2, c3

(* With and without the accept mutex, requests that come with the          *)
(* connection, and TLS.                                                    *)
MCConfigs == {
  [accept_mutex |-> FALSE, deferred |-> TRUE, ssl |-> FALSE],
  [accept_mutex |-> FALSE, deferred |-> FALSE, ssl |-> TRUE],
  [accept_mutex |-> TRUE, deferred |-> TRUE, ssl |-> TRUE]}

Perms == Permutations(Conns)
=============================================================================

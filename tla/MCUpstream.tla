----------------------------- MODULE MCUpstream -----------------------------
EXTENDS Upstream, TLC

CONSTANTS r1, r2, r3

Server(w, m, d) == [weight |-> IF d THEN 0 ELSE w, max_fails |-> m, down |-> d]
Group(ps) == [single |-> FALSE, peer |-> ps]
Only(p) == [single |-> TRUE, peer |-> <<p>>]

Upstream(groups, next, max_cached, single) ==
  [groups |-> groups, next_upstream |-> next, max_cached |-> max_cached,
   single |-> single, cacheable |-> FALSE, ignore_client_abort |-> FALSE,
   connections |-> 2, early |-> FALSE]

Retry == {"error", "timeout"}

(* Two servers of different weight; one and a backup; three, one down; one. *)
TwoServers == Group(<<Server(2, 2, FALSE), Server(1, 1, FALSE)>>)
WithDown == Group(<<Server(1, 1, FALSE), Server(1, 1, TRUE), Server(1, 0, FALSE)>>)
Backup == Group(<<Server(1, 1, FALSE)>>)

MCConfigs == {
  Upstream(<<TwoServers>>, Retry, 1, FALSE),
  Upstream(<<TwoServers>>, Retry \cup {"http_404", "invalid_header"}, 2, TRUE),
  [Upstream(<<WithDown>>, Retry \cup {"http_500"}, 1, FALSE) EXCEPT !.cacheable = TRUE],
  [Upstream(<<Backup, Backup>>, Retry, 1, FALSE) EXCEPT !.ignore_client_abort = TRUE],
  [Upstream(<<TwoServers>>, Retry, 0, FALSE) EXCEPT !.connections = 1],
  [Upstream(<<Only(Server(1, 1, FALSE))>>, Retry, 1, FALSE) EXCEPT !.early = TRUE],
  Upstream(<<Only(Server(1, 1, FALSE))>>, Retry, 1, FALSE)}

MCAnswers == {
  [status |-> "200", empty |-> FALSE, close |-> FALSE],
  [status |-> "http_404", empty |-> TRUE, close |-> FALSE],
  [status |-> "http_500", empty |-> FALSE, close |-> TRUE],
  [status |-> "bad", empty |-> FALSE, close |-> TRUE]}

Perms == Permutations(Requests)
=============================================================================

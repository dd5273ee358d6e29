----------------------------- MODULE RoundRobin -----------------------------
(***************************************************************************)
(* The weighted round-robin balancer of an upstream                        *)
(* (http/ngx_http_upstream_round_robin.c): the choice of a server for an   *)
(* attempt, and what the outcome of an attempt does to the server's        *)
(* weight and to the record of its failures.                               *)
(*                                                                         *)
(* A configuration is a sequence of one or two groups, the servers and the *)
(* backup servers; a group is [single, peer] with peer a sequence of       *)
(* [weight, max_fails, down].  The state of a group, shared by all the     *)
(* requests of a worker, is a sequence of [current_weight, fails, expired, *)
(* probing].  The clock is abstracted to what the code compares:           *)
(*   expired   now - checked > fail_timeout                                *)
(*   probing   accessed < checked                                          *)
(* fails is only compared with max_fails, so it is kept up to max_fails.   *)
(*                                                                         *)
(* A request's own data, pd, is [group, current, tried, tries]: the fields *)
(* of ngx_http_upstream_rr_peer_data_t and tries of ngx_peer_connection_t. *)
(* peers->last_cached is never set by this version and is left out.        *)
(***************************************************************************)
EXTENDS Integers, Sequences, FiniteSetsExt, SequencesExt

InitPeer(p) == [current_weight |-> p.weight, fails |-> 0,
                expired |-> TRUE, probing |-> FALSE]

InitGroups(groups) ==
  [g \in DOMAIN groups |->
     [i \in DOMAIN groups[g].peer |-> InitPeer(groups[g].peer[i])]]

(* ngx_http_upstream_init_round_robin_peer *)
InitPeerData(groups) == [group |-> 1, current |-> 1, tried |-> {},
                         tries |-> Len(groups[1].peer)]

-----------------------------------------------------------------------------
(* ngx_http_upstream_get_peer: the first of the servers with weight left   *)
(* whose share of its weight exceeds that of the next such server, else    *)
(* the last of them; when no weight is left every weight is restored.      *)
Weighted(ps) == {i \in DOMAIN ps : ps[i].current_weight > 0}

Restored(peer, ps) ==
  [i \in DOMAIN ps |-> [ps[i] EXCEPT !.current_weight = peer[i].weight]]

Outweighs(peer, ps, m, i) ==
  (ps[m].current_weight * 1000) \div ps[i].current_weight
    > (peer[m].weight * 1000) \div peer[i].weight

Heaviest(peer, ps) ==
  LET W == Weighted(ps)
      After(m) == {i \in W : i > m}
      Over == {m \in W : After(m) # {} /\ Outweighs(peer, ps, m, Min(After(m)))}
  IN  IF W = {} THEN 1 ELSE IF Over # {} THEN Min(Over) ELSE Max(W)

GetPeer(peer, ps) ==
  LET r == IF Weighted(ps) = {} THEN Restored(peer, ps) ELSE ps
  IN  [current |-> Heaviest(peer, r), state |-> r]

-----------------------------------------------------------------------------
(* The test both search loops make of a server. *)
NotFailing(p, s) == p.max_fails = 0 \/ s.fails < p.max_fails

Usable(p, s) == ~p.down /\ (NotFailing(p, s) \/ s.expired)

(* peer->checked = now, when a failing server is to be checked again. *)
Checked(p, s) ==
  IF NotFailing(p, s) THEN s ELSE [s EXCEPT !.expired = FALSE, !.probing = TRUE]

(* The server is handed out. *)
Taken(p, s) == [Checked(p, s) EXCEPT !.current_weight = @ - 1]

NextIndex(peer, i) == IF i = Len(peer) THEN 1 ELSE i + 1

(* The server a round of a search loop looks at: that of                   *)
(* ngx_http_upstream_get_peer on "a first try", else the next in turn.     *)
Candidate(peer, first, s) ==
  IF first THEN GetPeer(peer, s.ps) ELSE [current |-> s.pd.current, state |-> s.ps]

(* Mutant: the servers a request has tried are not looked at. *)
LookAtAny(peer, first, pd, c, ps) ==
  IF Usable(peer[c], ps[c])
  THEN [ps |-> [ps EXCEPT ![c] = Taken(peer[c], @)],
        pd |-> [pd EXCEPT !.current = c, !.tried = @ \cup {c}],
        out |-> "found"]
  ELSE [ps |-> ps,
        pd |-> [pd EXCEPT !.current = IF first THEN c ELSE NextIndex(peer, c), !.tries = @ - 1],
        out |-> IF pd.tries = 1 THEN "failed" ELSE "search"]

(* One look at server c: it is taken, or passed over for good, or skipped  *)
(* because this request has tried it.                                      *)
LookAt(peer, first, pd, c, ps) ==
  LET untried == c \notin pd.tried
      left == pd.tries - (IF untried THEN 1 ELSE 0)
  IN  IF untried /\ Usable(peer[c], ps[c])
      THEN [ps |-> [ps EXCEPT ![c] = Taken(peer[c], @)],
            pd |-> [pd EXCEPT !.current = c, !.tried = @ \cup {c}],
            out |-> "found"]
      ELSE [ps |-> IF untried /\ ~peer[c].down
                   THEN [ps EXCEPT ![c].current_weight = 0] ELSE ps,
            pd |-> [pd EXCEPT !.current = IF first THEN c ELSE NextIndex(peer, c),
                              !.tried = IF untried /\ peer[c].down THEN @ \cup {c} ELSE @,
                              !.tries = left],
            out |-> IF left = 0 THEN "failed" ELSE "search"]

(* One round of a search loop.  s is [ps, pd, out]; out is "search" until  *)
(* a server is taken ("found") or none is left to try ("failed").          *)
SearchRound(peer, first, s) ==
  LET At(g) == LookAt(peer, first, s.pd, g.current, g.state)
  IN  IF s.out = "search" THEN At(Candidate(peer, first, s)) ELSE s

(* A loop makes at most tries rounds; one that ends still searching has    *)
(* logged "round robin upstream stuck" and fails as well.                  *)
IsFirstTry(peer, pd) == pd.tries = Len(peer)

Search(peer, ps, pd) ==
  LET first == IsFirstTry(peer, pd)
      after[k \in 0 .. pd.tries] ==
        IF k = 0 THEN [ps |-> ps, pd |-> pd, out |-> "search"]
        ELSE SearchRound(peer, first, after[k - 1])
  IN  after[pd.tries]

-----------------------------------------------------------------------------
(* ngx_http_upstream_get_round_robin_peer in one group.  When the last     *)
(* server of a group is handed out, the backup servers are added to tries  *)
(* and tried is cleared.                                                   *)
WithBackup(groups, pd) ==
  IF pd.tries = 1 /\ pd.group < Len(groups)
  THEN [pd EXCEPT !.tries = 1 + Len(groups[pd.group + 1].peer), !.tried = {}]
  ELSE pd

GetInGroup(groups, rr, pd) ==
  LET g == pd.group
      Result(s) == [rc |-> IF s.out = "found" THEN "OK" ELSE "BUSY",
                    rr |-> [rr EXCEPT ![g] = s.ps],
                    pd |-> IF s.out = "found" THEN WithBackup(groups, s.pd) ELSE s.pd]
  IN  IF groups[g].single
      THEN [rc |-> "OK", rr |-> rr, pd |-> WithBackup(groups, [pd EXCEPT !.current = 1])]
      ELSE Result(Search(groups[g].peer, rr[g], pd))

ClearFails(rr, g) ==
  [rr EXCEPT ![g] = [i \in DOMAIN @ |-> [@[i] EXCEPT !.fails = 0]]]

(* A group that has no server to offer passes the request on to the backup *)
(* group; when that fails too the failures of both are forgotten.          *)
GetRoundRobinPeer(groups, rr, pd) ==
  LET next == pd.group + 1
      Backup(a) == GetInGroup(groups, a.rr, [a.pd EXCEPT !.group = next,
                                                         !.tries = Len(groups[next].peer),
                                                         !.tried = {}])
      OrForget(b) == IF b.rc = "OK" THEN b
                     ELSE [b EXCEPT !.rr = ClearFails(ClearFails(@, next), pd.group)]
      OrBackup(a) == IF a.rc = "OK" THEN a
                     ELSE IF next > Len(groups)
                          THEN [a EXCEPT !.rr = ClearFails(@, pd.group)]
                     ELSE OrForget(Backup(a))
  IN  OrBackup(GetInGroup(groups, rr, pd))

-----------------------------------------------------------------------------
(* ngx_http_upstream_free_round_robin_peer.  state is "FAILED", "NEXT" or  *)
(* "0"; the result is [rr, pd].                                            *)
Failed(p, s) ==
  LET w == s.current_weight - (IF p.max_fails = 0 THEN 0 ELSE p.weight \div p.max_fails)
  IN  [current_weight |-> IF w < 0 THEN 0 ELSE w,
       fails |-> IF s.fails < p.max_fails THEN s.fails + 1 ELSE s.fails,
       expired |-> FALSE, probing |-> FALSE]

(* "mark peer live if check passed" *)
Passed(s) == IF s.probing THEN [s EXCEPT !.fails = 0] ELSE s

FreeRoundRobinPeer(groups, rr, pd, state) ==
  LET g == pd.group
      peer == groups[g].peer
      p == peer[pd.current]
  IN  IF state = "0" /\ pd.tries = 0 THEN [rr |-> rr, pd |-> pd]
      ELSE IF groups[g].single THEN [rr |-> rr, pd |-> [pd EXCEPT !.tries = 0]]
      ELSE [rr |-> [rr EXCEPT ![g][pd.current] =
                      IF state = "FAILED" THEN Failed(p, @) ELSE Passed(@)],
            pd |-> [pd EXCEPT !.current = NextIndex(peer, @),
                              !.tries = IF @ > 0 THEN @ - 1 ELSE 0]]

(* Time passes: the fail_timeout of a server runs out. *)
Expire(rr, g, i) == [rr EXCEPT ![g][i].expired = TRUE]

=============================================================================

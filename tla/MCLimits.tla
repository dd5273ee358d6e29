------------------------------ MODULE MCLimits -------------------------------
(* A small instance of the limits for TLC: a zone by address and one by     *)
(* server.                                                                  *)
EXTENDS Limits, TLC

CONSTANTS w1, w2, r1, r2, r3, a, b

MCKeyLen == [k \in Keys |-> IF k = b THEN 300 ELSE 16]
MCRate == [z \in ReqZones |-> 1000]

MCMaxBurst == [z \in ReqZones |-> 1000]
MCMaxConn == [caddr |-> 2, cserver |-> 1]

Vars(addr, server, caddr, cserver) ==
  [addr |-> addr, server |-> server, caddr |-> caddr, cserver |-> cserver]

(* Both zones apply; only the address does; the location of the second list *)
(* charges the address at once; the third has no limit_req.                 *)
Both == [limit_req |-> <<[zone |-> "addr", burst |-> 1000, nodelay |-> TRUE],
                         [zone |-> "server", burst |-> 1000, nodelay |-> FALSE]>>,
         limit_conn |-> <<[zone |-> "caddr", conn |-> 2], [zone |-> "cserver", conn |-> 1]>>]
AtOnce == [limit_req |-> <<[zone |-> "addr", burst |-> 0, nodelay |-> FALSE]>>,
           limit_conn |-> <<[zone |-> "caddr", conn |-> 1]>>]
ConnOnly == [limit_req |-> <<>>, limit_conn |-> <<[zone |-> "caddr", conn |-> 1]>>]

Visit(location, value) ==
  [limit_req |-> location.limit_req, limit_conn |-> location.limit_conn, value |-> value]

MCVisits == {Visit(Both, Vars(a, a, a, a)),
             Visit(Both, Vars(b, a, NoKey, NoKey)),
             Visit(Both, Vars(a, NoKey, NoKey, NoKey)),
             Visit(AtOnce, Vars(a, NoKey, a, NoKey)),
             Visit(ConnOnly, Vars(NoKey, NoKey, b, NoKey))}

Perms == Permutations(Workers) \cup Permutations(Requests)
=============================================================================

------------------------------- MODULE Limits --------------------------------
(***************************************************************************)
(* The limits on requests and connections                                  *)
(* (http/modules/ngx_http_limit_req_module.c,                              *)
(* http/modules/ngx_http_limit_conn_module.c): nodes in shared zones that  *)
(* several workers look up, charge, pin, expire and free, while requests   *)
(* pass the two handlers of the preaccess phase, limit_req first.          *)
(*                                                                         *)
(* What is done under the mutex of a zone is one step; between two such    *)
(* steps of a handler other workers run.  A worker has one handler at a    *)
(* time, and the time of day as it was when the handler started            *)
(* (ngx_timeofday is brought up to date once per iteration of the loop).   *)
(* A worker is never killed while it holds the mutex of a zone.            *)
(*                                                                         *)
(* A key stands for the value of a variable: its length matters because    *)
(* the length is stored in the node; equal values have equal hashes, and   *)
(* the red-black tree finds a node whose key and length agree.             *)
(***************************************************************************)
EXTENDS Integers, FiniteSets, Queue

CONSTANTS
  Workers, Requests,
  NoReq, NoWorker,
  Keys,          \* values of variables; KeyLen[k] is the length of one
  KeyLen,
  NoKey,         \* the variable is not found or empty
  ReqZones,      \* limit_req zones
  Rate,          \* ReqZones -> thousandths of a request per second
  ConnZones,     \* limit_conn zones
  Visits,        \* the requests to choose from, [limit_req, limit_conn,
                 \* value]: the limits [zone, burst, nodelay] and
                 \* [zone, conn] of the location, and the variables by zone
  MaxBurst,      \* ReqZones -> the largest burst of a limit
  Shared,        \* the zones that are not the last of some location
  MaxConn,       \* ConnZones -> the largest number of connections
  NodesPerZone,  \* bound: nodes that fit into a zone
  Start,         \* time of day at the beginning, in milliseconds
  ClockSteps,    \* bound: by how much the time of day may change
  MaxTicks,      \* bound: changes of the time of day
  MaxFaults      \* bound: workers killed and allocations that fail

ASSUME ActorsAssumption == /\ IsFiniteSet(Workers)
                           /\ IsFiniteSet(Requests)
                           /\ NoReq \notin Requests
                           /\ NoWorker \notin Workers
ASSUME LimitsAssumption ==
  /\ NodesPerZone \in Nat \ {0}
  /\ KeyLen \in [Keys -> Nat \ {0}]
  /\ Rate \in [ReqZones -> Nat \ {0}]
  /\ MaxBurst \in [ReqZones -> Nat]
  /\ MaxConn \in [ConnZones -> Nat]
  /\ NoKey \notin Keys
  /\ \A v \in Visits :
       /\ v.limit_req \in Seq([zone : ReqZones, burst : Nat, nodelay : BOOLEAN])
       /\ v.limit_conn \in Seq([zone : ConnZones, conn : Nat])
       /\ v.value \in [ReqZones \cup ConnZones -> Keys \cup {NoKey}]
       /\ \A i \in DOMAIN v.limit_req :
            LET l == v.limit_req[i]
            IN  /\ \A j \in 1 .. i - 1 : v.limit_req[j].zone # l.zone
                /\ l.burst <= MaxBurst[l.zone]
                /\ i < Len(v.limit_req) => l.zone \in Shared
       /\ \A i \in DOMAIN v.limit_conn :
            LET l == v.limit_conn[i]
            IN  /\ \A j \in 1 .. i - 1 : v.limit_conn[j].zone # l.zone
                /\ l.conn \in 1 .. MaxConn[l.zone]
(* The time of day is far from its zero, and is not set back before the    *)
(* start.                                                                  *)
ASSUME ClockAssumption ==
  /\ Start \in Nat
  /\ \A z \in ReqZones : Rate[z] * Start >= 1000000
  /\ ClockSteps \subseteq Int
  /\ MaxFaults \in Nat

VARIABLES
  lr,       \* the nodes of each limit_req zone
  queue,    \* their order of use, the latest first
  lc,       \* the nodes of each limit_conn zone
  h,        \* the handler each worker is in, with the time of day it has
  node,     \* ctx->node: the node a worker has pinned in each zone
  req,      \* the requests
  now, ticks, crashes, faults

vars == <<lr, queue, lc, h, node, req, now, ticks, crashes, faults>>

bounds == <<ticks, crashes, faults>>

Ids == 1 .. NodesPerZone
NoNode == 0
Free == [key |-> NoKey]

Idle == [pc |-> "idle", req |-> NoReq, n |-> 0, rc |-> "DECLINED",
         late |-> FALSE, time |-> 0]

NewReq == [state |-> "new", worker |-> NoWorker, visit |-> <<>>, held |-> <<>>,
           charged |-> [z \in ReqZones |-> 0], passed |-> FALSE]

Done == [NewReq EXCEPT !.state = "done"]

Limits(w) == req[h[w].req].visit.limit_req
ConnLimits(w) == req[h[w].req].visit.limit_conn
Value(w, z) == req[h[w].req].visit.value[z]
Allocated(nodes) == {i \in Ids : nodes[i] # Free}
Smallest(S) == CHOOSE i \in S : \A j \in S : i <= j
Abs(x) == IF x >= 0 THEN x ELSE -x
AtLeast0(x) == IF x < 0 THEN 0 ELSE x

-----------------------------------------------------------------------------
(* limit_req.  A zone is worked on as a record z of its nodes and its      *)
(* queue.                                                                  *)

(* Mutant: the difference of the times is taken with its sign. *)
ExcessSigned(z, n, time) ==
  AtLeast0(n.excess - (Rate[z] * (time - n.last)) \div 1000 + 1000)

(* The excess of a node now, with one more request. *)
Excess(z, n, time) ==
  AtLeast0(n.excess - (Rate[z] * Abs(time - n.last)) \div 1000 + 1000)

(* Mutant: the oldest node is removed whoever has pinned it. *)
DropOldestPinned(z, zone, time, force) ==
  IF zone.queue = <<>> THEN zone
  ELSE LET i == Last(zone.queue)
           n == zone.nodes[i]
           ms == Abs(time - n.last)
       IN  IF ~force /\ (ms < 60000 \/ n.excess - (Rate[z] * ms) \div 1000 > 0) THEN zone
           ELSE [nodes |-> [zone.nodes EXCEPT ![i] = Free], queue |-> Front(zone.queue)]

(* One round of ngx_http_limit_req_expire: the oldest node goes if nobody  *)
(* has pinned it and it is a minute old with nothing left to leak, or by   *)
(* force.                                                                  *)
DropOldest(z, zone, time, force) ==
  IF zone.queue = <<>> THEN zone
  ELSE LET i == Last(zone.queue)
           n == zone.nodes[i]
           ms == Abs(time - n.last)
       IN  IF \/ n.count > 0
              \/ ~force /\ (ms < 60000 \/ n.excess - (Rate[z] * ms) \div 1000 > 0)
           THEN zone
           ELSE [nodes |-> [zone.nodes EXCEPT ![i] = Free], queue |-> Front(zone.queue)]

(* ngx_http_limit_req_expire *)
Expire(z, zone, time, force) ==
  LET first == IF force THEN DropOldest(z, zone, time, TRUE) ELSE zone
  IN  DropOldest(z, DropOldest(z, first, time, FALSE), time, FALSE)

Full(zone) == Allocated(zone.nodes) = Ids

(* Room for a new node: expire, allocate, expire by force, allocate. *)
Room(z, zone, time) ==
  LET once == Expire(z, zone, time, FALSE)
  IN  IF Full(once) THEN Expire(z, once, time, TRUE) ELSE once

(* The nodes the tree finds; only one byte of the length was stored. *)
Found(nodes, k) ==
  {i \in Allocated(nodes) : nodes[i].key = k /\ nodes[i].len = KeyLen[k]}

(* ngx_http_limit_req_lookup: what it returns, the zone afterwards, the    *)
(* node it is about and the excess.                                        *)
LookupFound(z, i, limit, account, time) ==
  LET n == lr[z][i]
      e == Excess(z, n, time)
      rc == IF e > limit.burst THEN "BUSY" ELSE IF account THEN "OK" ELSE "AGAIN"
      n1 == CASE rc = "BUSY" -> n
              [] rc = "OK" -> [n EXCEPT !.excess = e, !.last = time]
              [] rc = "AGAIN" -> [n EXCEPT !.count = @ + 1]
  IN  [rc |-> rc, excess |-> e, node |-> i,
       nodes |-> [lr[z] EXCEPT ![i] = n1],
       queue |-> QueueToHead(queue[z], i)]

LookupNew(z, k, account, time) ==
  LET zone == Room(z, [nodes |-> lr[z], queue |-> queue[z]], time)
      i == Smallest(Ids \ Allocated(zone.nodes))
      new == [key |-> k, len |-> KeyLen[k] % 256, excess |-> 0,
              last |-> IF account THEN time ELSE 0,
              count |-> IF account THEN 0 ELSE 1]
  IN  IF Full(zone)
      THEN [rc |-> "ERROR", excess |-> 0, node |-> NoNode,
            nodes |-> zone.nodes, queue |-> zone.queue]
      ELSE [rc |-> IF account THEN "OK" ELSE "AGAIN", excess |-> 0, node |-> i,
            nodes |-> [zone.nodes EXCEPT ![i] = new], queue |-> <<i>> \o zone.queue]

LookupIn(z, k, limit, account, time) ==
  LET found == Found(lr[z], k)
  IN  IF found = {} THEN LookupNew(z, k, account, time)
      ELSE LookupFound(z, Smallest(found), limit, account, time)

(* Mutant: every zone is charged as soon as it is looked up. *)
AccountEach(w, n) == TRUE

(* The last zone is charged at once. *)
Account(w, n) == n = Len(Limits(w))

-----------------------------------------------------------------------------
(* The worker goes on in its handler. *)
Goto(w, pc, n) == h' = [h EXCEPT ![w].pc = pc, ![w].n = n]
Finish(w) == h' = [h EXCEPT ![w] = Idle]

EndReq(r) == req' = [req EXCEPT ![r] = Done]

(* A request arrives at a worker: a new iteration of its loop. *)
Arrive(w, r, visit) ==
  /\ h[w].pc = "idle"
  /\ req[r].state = "new"
  /\ req' = [req EXCEPT ![r].state = "limiting", ![r].worker = w, ![r].visit = visit]
  /\ h' = [h EXCEPT ![w] = [Idle EXCEPT !.pc = "lookup", !.req = r, !.n = 1, !.time = now]]
  /\ UNCHANGED <<lr, queue, lc, node, now, bounds>>

(* The limits still to look at whose variable is there and not too long. *)
Ahead(w, limits, longest) ==
  {i \in h[w].n .. Len(limits) : LET k == Value(w, limits[i].zone)
                                 IN  k # NoKey /\ KeyLen[k] <= longest}

ReqAhead(w) == Ahead(w, Limits(w), 65535)
ConnAhead(w) == Ahead(w, ConnLimits(w), 255)

(* The lookup in one zone.  A refusal goes on to give the pins of the      *)
(* earlier zones back, the last zone to charge them.                       *)
Lookup(w) ==
  /\ h[w].pc = "lookup"
  /\ ReqAhead(w) # {}
  /\ LET n == Smallest(ReqAhead(w))
         limit == Limits(w)[n]
         z == limit.zone
         l == LookupIn(z, Value(w, z), limit, Account(w, n), h[w].time)
     IN  /\ lr' = [lr EXCEPT ![z] = l.nodes]
         /\ queue' = [queue EXCEPT ![z] = l.queue]
         /\ node' = IF l.rc = "AGAIN" THEN [node EXCEPT ![w][z] = l.node] ELSE node
         /\ req' = IF l.rc = "OK" THEN [req EXCEPT ![h[w].req].charged[z] = @ + 1] ELSE req
         /\ h' = [h EXCEPT ![w].rc = l.rc,
                           ![w].pc = CASE l.rc \in {"BUSY", "ERROR"} -> "undo"
                                       [] l.rc = "AGAIN" -> "lookup"
                                       [] l.rc = "OK" -> "account",
                           ![w].n = n + 1,
                           ![w].late = /\ l.rc = "OK"
                                       /\ ~limit.nodelay
                                       /\ l.excess * 1000 >= Rate[z]]
  /\ UNCHANGED <<lc, now, bounds>>

(* Every limit has been looked at. *)
Looked(w) ==
  /\ h[w].pc = "lookup"
  /\ ReqAhead(w) = {}
  /\ IF h[w].rc = "DECLINED"
     THEN Goto(w, "conn", 1) /\ req' = [req EXCEPT ![h[w].req].passed = TRUE]
     ELSE Goto(w, "account", 1) /\ UNCHANGED req
  /\ UNCHANGED <<lr, queue, lc, node, now, bounds>>

(* The limits in whose zone the worker has pinned a node; the loops back   *)
(* over them end with the first.                                           *)
Pinned(w) == {i \in DOMAIN Limits(w) : node[w][Limits(w)[i].zone] # NoNode}
LastPinned(w) == Limits(w)[CHOOSE i \in Pinned(w) : \A j \in Pinned(w) : i >= j]

(* A refused request gives its pins back. *)
Unpin(w) ==
  /\ h[w].pc = "undo"
  /\ Pinned(w) # {}
  /\ LET z == LastPinned(w).zone
     IN  /\ lr' = [lr EXCEPT ![z][node[w][z]].count = @ - 1]
         /\ node' = [node EXCEPT ![w][z] = NoNode]
  /\ UNCHANGED <<queue, lc, h, req, now, bounds>>

Refuse(w) ==
  /\ h[w].pc = "undo"
  /\ Pinned(w) = {}
  /\ EndReq(h[w].req)
  /\ Finish(w)
  /\ UNCHANGED <<lr, queue, lc, node, now, bounds>>

(* ngx_http_limit_req_account: one zone charged, and the delay it asks for.*)
Charge(w) ==
  /\ h[w].pc = "account"
  /\ Pinned(w) # {}
  /\ LET limit == LastPinned(w)
         z == limit.zone
         i == node[w][z]
         n == lr[z][i]
         e == Excess(z, n, h[w].time)
     IN  /\ lr' = [lr EXCEPT ![z][i] = [n EXCEPT !.last = h[w].time, !.excess = e,
                                                 !.count = n.count - 1]]
         /\ node' = [node EXCEPT ![w][z] = NoNode]
         /\ req' = [req EXCEPT ![h[w].req].charged[z] = @ + 1]
         /\ h' = [h EXCEPT ![w].late = @ \/ (~limit.nodelay /\ e * 1000 >= Rate[z])]
  /\ UNCHANGED <<queue, lc, now, bounds>>

(* The request passes, or waits until its timer fires. *)
Pass(w) ==
  /\ h[w].pc = "account"
  /\ Pinned(w) = {}
  /\ LET r == h[w].req
     IN  IF h[w].late
         THEN Finish(w) /\ req' = [req EXCEPT ![r].state = "delayed", ![r].passed = TRUE]
         ELSE Goto(w, "conn", 1) /\ req' = [req EXCEPT ![r].passed = TRUE]
  /\ UNCHANGED <<lr, queue, lc, node, now, bounds>>

(* ngx_http_limit_req_delay: the phases run again, limit_req declines      *)
(* (limit_req_set).                                                        *)
Delayed(w, r) ==
  /\ h[w].pc = "idle"
  /\ req[r].state = "delayed"
  /\ req[r].worker = w
  /\ req' = [req EXCEPT ![r].state = "limiting"]
  /\ h' = [h EXCEPT ![w] = [Idle EXCEPT !.pc = "conn", !.req = r, !.n = 1]]
  /\ UNCHANGED <<lr, queue, lc, node, now, bounds>>

(* ngx_http_test_reading: the client of a delayed request goes away. *)
ClientGone(w, r) ==
  /\ h[w].pc = "idle"
  /\ req[r].state = "delayed"
  /\ req[r].worker = w
  /\ EndReq(r)
  /\ UNCHANGED <<lr, queue, lc, h, node, now, bounds>>

-----------------------------------------------------------------------------
(* limit_conn *)

ConnFound(z, k) == {i \in Ids : lc[z][i].key = k}

(* The limit is reached, or there is no room for a new node: what was      *)
(* counted in the earlier zones is given back (cleanup_all).               *)
ConnRefused(w) ==
  /\ h[w].pc = "conn"
  /\ ConnAhead(w) # {}
  /\ LET limit == ConnLimits(w)[Smallest(ConnAhead(w))]
         found == ConnFound(limit.zone, Value(w, limit.zone))
     IN  IF found = {} THEN Allocated(lc[limit.zone]) = Ids
         ELSE \E i \in found : lc[limit.zone][i].conn >= limit.conn
  /\ Goto(w, "cleanup", 1)
  /\ UNCHANGED <<lr, queue, lc, node, req, now, bounds>>

(* The connection is counted; the cleanup that will give it back may not   *)
(* fit into memory, then the request ends and the count stays.             *)
ConnCount(w, noMemory) ==
  /\ h[w].pc = "conn"
  /\ ConnAhead(w) # {}
  /\ LET n == Smallest(ConnAhead(w))
         limit == ConnLimits(w)[n]
         z == limit.zone
         found == ConnFound(z, Value(w, z))
         i == Smallest(IF found = {} THEN Ids \ Allocated(lc[z]) ELSE found)
     IN  /\ IF found = {} THEN Allocated(lc[z]) # Ids ELSE lc[z][i].conn < limit.conn
         /\ lc' = [lc EXCEPT ![z][i] = [key |-> Value(w, z),
                                        conn |-> IF found = {} THEN 1 ELSE lc[z][i].conn + 1]]
         /\ IF noMemory
            THEN /\ crashes + faults < MaxFaults
                 /\ faults' = faults + 1
                 /\ Goto(w, "cleanup", 1)
                 /\ UNCHANGED req
            ELSE /\ req' = [req EXCEPT ![h[w].req].held = <<[zone |-> z, node |-> i]>> \o @]
                 /\ Goto(w, "conn", n + 1)
                 /\ UNCHANGED faults
  /\ UNCHANGED <<lr, queue, node, now, ticks, crashes>>

(* The request goes on to its content. *)
Serve(w) ==
  /\ h[w].pc = "conn"
  /\ ConnAhead(w) = {}
  /\ req' = [req EXCEPT ![h[w].req].state = "serving"]
  /\ Finish(w)
  /\ UNCHANGED <<lr, queue, lc, node, now, bounds>>

(* The request is freed: its pool is destroyed. *)
Close(w, r) ==
  /\ h[w].pc = "idle"
  /\ req[r].state = "serving"
  /\ req[r].worker = w
  /\ h' = [h EXCEPT ![w] = [Idle EXCEPT !.pc = "cleanup", !.req = r]]
  /\ req' = [req EXCEPT ![r].state = "limiting"]
  /\ UNCHANGED <<lr, queue, lc, node, now, bounds>>

(* Mutant: the node is freed with the first connection that ends. *)
ConnFreedEarly(w) ==
  /\ h[w].pc = "cleanup"
  /\ LET r == h[w].req
         c == Head(req[r].held)
     IN  /\ req[r].held # <<>>
         /\ lc' = [lc EXCEPT ![c.zone][c.node] = Free]
         /\ req' = [req EXCEPT ![r].held = Tail(@)]
  /\ UNCHANGED <<lr, queue, h, node, now, bounds>>

(* ngx_http_limit_conn_cleanup *)
ConnCleanup(w) ==
  /\ h[w].pc = "cleanup"
  /\ LET r == h[w].req
         c == Head(req[r].held)
         n == lc[c.zone][c.node]
     IN  /\ req[r].held # <<>>
         /\ lc' = [lc EXCEPT ![c.zone][c.node] = IF n.conn = 1 THEN Free
                                                 ELSE [n EXCEPT !.conn = n.conn - 1]]
         /\ req' = [req EXCEPT ![r].held = Tail(@)]
  /\ UNCHANGED <<lr, queue, h, node, now, bounds>>

Closed(w) ==
  /\ h[w].pc = "cleanup"
  /\ req[h[w].req].held = <<>>
  /\ EndReq(h[w].req)
  /\ Finish(w)
  /\ UNCHANGED <<lr, queue, lc, node, now, bounds>>

-----------------------------------------------------------------------------
(* The time of day changes; it may be set back. *)
Tick(d) ==
  /\ ticks < MaxTicks
  /\ now + d >= Start
  /\ ticks' = ticks + 1
  /\ now' = now + d
  /\ UNCHANGED <<lr, queue, lc, h, node, req, crashes, faults>>

(* A worker is killed with all its requests, and started again. *)
Crash(w) ==
  /\ crashes + faults < MaxFaults
  /\ crashes' = crashes + 1
  /\ Finish(w)
  /\ node' = [node EXCEPT ![w] = [z \in ReqZones |-> NoNode]]
  /\ req' = [r \in Requests |-> IF req[r].worker = w
                                THEN Done ELSE req[r]]
  /\ UNCHANGED <<lr, queue, lc, now, ticks, faults>>

Init ==
  /\ lr = [z \in ReqZones |-> [i \in Ids |-> Free]]
  /\ queue = [z \in ReqZones |-> <<>>]
  /\ lc = [z \in ConnZones |-> [i \in Ids |-> Free]]
  /\ h = [w \in Workers |-> Idle]
  /\ node = [w \in Workers |-> [z \in ReqZones |-> NoNode]]
  /\ req = [r \in Requests |-> NewReq]
  /\ now = Start
  /\ ticks = 0
  /\ crashes = 0
  /\ faults = 0

Step(w) ==
  \/ Lookup(w) \/ Looked(w) \/ Unpin(w) \/ Refuse(w) \/ Charge(w) \/ Pass(w)
  \/ ConnRefused(w) \/ ConnCount(w, FALSE) \/ ConnCount(w, TRUE) \/ Serve(w)
  \/ ConnCleanup(w) \/ Closed(w)

Next ==
  \/ \E w \in Workers, r \in Requests :
       \/ \E visit \in Visits : Arrive(w, r, visit)
       \/ Delayed(w, r) \/ ClientGone(w, r) \/ Close(w, r)
  \/ \E w \in Workers : Step(w) \/ Crash(w)
  \/ \E d \in ClockSteps : Tick(d)

Spec == Init /\ [][Next]_vars

-----------------------------------------------------------------------------
(* Properties. *)

NodeType == [key : Keys, len : 0 .. 255, excess : Nat, last : Int, count : Nat]

(* The types of the variables. *)
TypeOK ==
  /\ lr \in [ReqZones -> [Ids -> NodeType \cup {Free}]]
  /\ queue \in [ReqZones -> Seq(Ids)]
  /\ lc \in [ConnZones -> [Ids -> [key : Keys, conn : Nat \ {0}] \cup {Free}]]
  /\ node \in [Workers -> [ReqZones -> Ids \cup {NoNode}]]
  /\ h \in [Workers -> [pc : {"idle", "lookup", "undo", "account", "conn", "cleanup"},
                         req : Requests \cup {NoReq}, n : Nat, late : BOOLEAN, time : Int,
                         rc : {"DECLINED", "AGAIN", "OK", "BUSY", "ERROR"}]]
  /\ \A r \in Requests : req[r].worker \in Workers \cup {NoWorker}

Pins(z, i) == {w \in Workers : node[w][z] = i}

(* The nodes a worker has pinned between the lookup and the accounting are *)
(* still there, with the key it looked up, whatever other workers expired  *)
(* meanwhile; the pins are counted exactly, so that a node can go when     *)
(* nobody needs it (a worker that was killed leaves its pins); the queue   *)
(* holds every node once.                                                  *)
PinsExact ==
  /\ TypeOK
  /\ \A z \in ReqZones :
      /\ \A w \in Workers : node[w][z] # NoNode => lr[z][node[w][z]].key = Value(w, z)
      /\ \A i \in Allocated(lr[z]) : LET pins == Cardinality(Pins(z, i))
                                    IN  /\ lr[z][i].count >= pins
                                        /\ crashes = 0 => lr[z][i].count = pins
      /\ Len(queue[z]) = Cardinality(Allocated(lr[z]))
      /\ Range(queue[z]) = Allocated(lr[z])

(* A key of at most 255 bytes has one node, and what it has in excess of   *)
(* its rate stays within the burst, whatever clocks the workers have.  A   *)
(* zone that is not the last of its location is charged after the lookup,  *)
(* when the other workers may have done the same: there the excess may be  *)
(* one request for each of them higher, and a thousandth of one for what   *)
(* is lost when what leaks is rounded.                                     *)
BurstBounded ==
  \A z \in ReqZones : \A i, j \in Allocated(lr[z]) :
    KeyLen[lr[z][i].key] <= 255 =>
      /\ lr[z][i].key = lr[z][j].key => i = j
      /\ lr[z][i].excess
           <= MaxBurst[z] + IF z \in Shared THEN 1001 * (Cardinality(Workers) - 1) ELSE 0

(* A request that passes is charged once in every zone that applies to it, *)
(* and one that some zone refuses is charged in none.                      *)
ChargedOnce ==
  /\ \A w \in Workers : h[w].pc = "undo" =>
       \A z \in ReqZones : req[h[w].req].charged[z] = 0
  /\ \A r \in Requests : req[r].passed =>
       \A z \in ReqZones :
         LET k == req[r].visit.value[z]
             applies == /\ \E l \in Range(req[r].visit.limit_req) : l.zone = z
                        /\ k # NoKey /\ KeyLen[k] <= 65535
         IN  req[r].charged[z] = IF applies THEN 1 ELSE 0

Holders(z, i) == {r \in Requests : [zone |-> z, node |-> i] \in Range(req[r].held)}

(* A connection is counted for every request that holds one, in a node     *)
(* that is there as long as they are and has their key, and never for more *)
(* requests than the limit; counts only stay behind when a worker is       *)
(* killed or memory runs out.                                              *)
ConnExact ==
  \A z \in ConnZones : \A i \in Ids :
    LET holders == Holders(z, i)
    IN  /\ \A r \in holders : lc[z][i].key = req[r].visit.value[z]
        /\ lc[z][i] # Free =>
             /\ lc[z][i].conn >= Cardinality(holders)
             /\ crashes + faults = 0 => lc[z][i].conn = Cardinality(holders)
             /\ lc[z][i].conn <= MaxConn[z]

=============================================================================

---------------------------- MODULE Connections -----------------------------
(***************************************************************************)
(* The connection objects of one worker (core/ngx_connection.c) under its  *)
(* event loop (event/modules/ngx_epoll_module.c, event/ngx_event_posted.h, *)
(* event/ngx_event_timer.c): the free list, the queue of reusable          *)
(* connections, and events that outlive the connection they are about.     *)
(*                                                                         *)
(* epoll_wait() returns a batch of events; handling one of them may close  *)
(* connections that have events further on, and open others in their       *)
(* objects.  Events that are posted, and timers, are taken back when their *)
(* connection is closed; those of the batch are not, and the instance bit  *)
(* is to tell that they are stale.                                         *)
(*                                                                         *)
(* What a handler does is abstracted to what it does to connections:       *)
(* requests of clients open connections to upstreams, try another one,     *)
(* keep one for later, end with a keepalive connection or close.  An       *)
(* action is one handler, or one accept().                                 *)
(***************************************************************************)
EXTENDS Integers, FiniteSets, Queue

CONSTANTS
  Conns,       \* ngx_cycle->connections, the listening socket's left out
  Listen,      \* the connection object of the listening socket
  None,        \* no connection
  Configs,     \* [accept_mutex, deferred, ssl] to choose from
  MaxBacklog,  \* bound: connections one accept event finds
  MaxDrain,    \* 32: how often ngx_drain_connections calls a handler
  MaxTries     \* bound: servers one handler tries

ASSUME ConnsAssumption == /\ IsFiniteSet(Conns)
                          /\ Listen \notin Conns
                          /\ None \notin Conns \cup {Listen}
ASSUME ConfigsAssumption ==
  Configs \subseteq [accept_mutex : BOOLEAN, deferred : BOOLEAN, ssl : BOOLEAN]
ASSUME BatchAssumption == /\ MaxBacklog \in Nat \ {0}
                          /\ MaxDrain \in Nat \ {0}
                          /\ MaxTries \in Nat \ {0}

VARIABLES
  conf,      \* the configuration
  conn,      \* the connection objects
  free_connections, \* a stack
  reusable,  \* reusable_connections_queue, head first
  phase,     \* of an iteration: "poll", "events", "timers" or "posted"
  batch,     \* what is left of event_list
  accepts,   \* connections the running accept handler still finds
  timers,    \* the connections whose timers have expired
  posted,    \* ngx_posted_events, head first
  refused    \* a connection was refused although an idle one could be closed

connVars == <<conf, conn, free_connections, reusable, phase, batch, accepts, timers,
              posted, refused>>

(* handler is that of the read event: of a request, of a keepalive client, *)
(* of the end of TLS, or of an upstream connection kept in the cache.  An  *)
(* upstream connection is used by the request of its client.               *)
Closed(instance) ==
  [open |-> FALSE, instance |-> instance, handler |-> "none", client |-> None,
   reusable |-> FALSE, close |-> FALSE, ssl |-> FALSE]

(* A handler works on a record of the state.  linger: what SSL_shutdown()  *)
(* cannot send at once during the handler; got: what ngx_get_connection    *)
(* returned.                                                               *)
World(linger) ==
  [conn |-> conn, free |-> free_connections, reusable |-> reusable, batch |-> batch,
   timers |-> timers, posted |-> posted, refused |-> refused,
   linger |-> linger, got |-> None]

Commit(w) ==
  /\ conn' = w.conn
  /\ free_connections' = w.free
  /\ reusable' = w.reusable
  /\ batch' = w.batch
  /\ timers' = w.timers
  /\ posted' = w.posted
  /\ refused' = w.refused
  /\ UNCHANGED conf

-----------------------------------------------------------------------------
(* Closing. *)

(* ngx_reusable_connection *)
SetReusable(w, c, reuse) ==
  LET rest == IF w.conn[c].reusable THEN QueueRemove(w.reusable, c) ELSE w.reusable
  IN  [w EXCEPT !.conn[c].reusable = reuse,
                !.reusable = IF reuse THEN <<c>> \o rest ELSE rest]

(* Mutant: the connection leaves its events posted. *)
CloseLeavingPosted(w, c) ==
  LET x == SetReusable(w, c, FALSE)
  IN  [x EXCEPT !.conn[c] = Closed(w.conn[c].instance),
                !.free = <<c>> \o @,
                !.timers = @ \ {c}]

(* ngx_delete_posted_event, for the read and the write event *)
Unposted(q, c) ==
  LET left[n \in 0 .. Len(q)] == IF n = 0 THEN <<>>
                                 ELSE IF q[n].c = c THEN left[n - 1]
                                 ELSE Append(left[n - 1], q[n])
  IN  left[Len(q)]

(* ngx_close_connection, ngx_free_connection *)
CloseConnection(w, c) ==
  LET x == SetReusable(w, c, FALSE)
  IN  [x EXCEPT !.conn[c] = Closed(w.conn[c].instance),
                !.free = <<c>> \o @,
                !.timers = @ \ {c},
                !.posted = Unposted(@, c)]

(* ngx_http_close_connection, with ngx_ssl_shutdown: the object stays      *)
(* where it is until the end of TLS has been sent.                         *)
CloseHttp(w, c) ==
  IF w.conn[c].ssl /\ w.linger THEN [w EXCEPT !.conn[c].handler = "shutdown"]
  ELSE CloseConnection(w, c)

-----------------------------------------------------------------------------
(* Opening. *)

(* Mutant: the handler is not told to close, and finds nothing to read. *)
DrainUnasked(w) == w

(* ngx_drain_connections: the handler of a reusable connection, told to    *)
(* close, closes it or is already ending TLS.                              *)
DrainOne(w) ==
  IF w.reusable = <<>> THEN w
  ELSE CloseHttp([w EXCEPT !.conn[Last(w.reusable)].close = TRUE], Last(w.reusable))

Drain(w) ==
  LET drained[n \in 0 .. MaxDrain] == IF n = 0 THEN w ELSE DrainOne(drained[n - 1])
  IN  drained[MaxDrain]

(* An event is about an earlier use of the object; this is not known to    *)
(* the program.                                                            *)
Reused(events, c) ==
  [i \in DOMAIN events |->
     IF events[i].c = c THEN [events[i] EXCEPT !.reused = @ + 1] ELSE events[i]]

IdleIn(w) == {c \in Conns : w.conn[c].handler = "keepalive"}
EndingIn(w) == {c \in Conns : w.conn[c].handler = "shutdown" /\ w.conn[c].reusable}

(* Mutant: the instance is kept. *)
TakeSame(w, client, ssl) ==
  LET c == Head(w.free)
  IN  [w EXCEPT !.free = Tail(@),
                !.conn[c] = [Closed(@.instance) EXCEPT !.open = TRUE, !.client = client,
                                                       !.handler = "request", !.ssl = ssl],
                !.batch = Reused(@, c),
                !.posted = Reused(@, c),
                !.got = c]

Take(w, client, ssl) ==
  LET c == Head(w.free)
  IN  [w EXCEPT !.free = Tail(@),
                !.conn[c] = [Closed(~@.instance) EXCEPT !.open = TRUE, !.client = client,
                                                        !.handler = "request", !.ssl = ssl],
                !.batch = Reused(@, c),
                !.posted = Reused(@, c),
                !.got = c]

(* ngx_get_connection *)
GetFrom(w, client, ssl) ==
  IF w.free # <<>> THEN Take(w, client, ssl)
  ELSE [w EXCEPT !.got = None, !.refused = @ \/ (IdleIn(w) # {} /\ EndingIn(w) = {})]

GetConnection(w, client, ssl) ==
  GetFrom(IF w.free = <<>> THEN Drain(w) ELSE w, client, ssl)

-----------------------------------------------------------------------------
(* Handlers: each operator is the set of the outcomes. *)

(* ngx_post_event: an event that is posted already is not posted again. *)
Event(conns, c, dir) ==
  [c |-> c, dir |-> dir, instance |-> conns[c].instance, reused |-> 0]

Post(w, c, dir) ==
  IF \E i \in DOMAIN w.posted : w.posted[i].c = c /\ w.posted[i].dir = dir THEN w
  ELSE [w EXCEPT !.posted = <<Event(w.conn, c, dir)>> \o @]

(* ngx_http_set_keepalive: the next request is there already, or the       *)
(* connection is idle, with or without something to read.                  *)
SetKeepalive(w, c) ==
  LET idle == SetReusable([w EXCEPT !.conn[c].handler = "keepalive"], c, TRUE)
  IN  {Post(w, c, "read"), idle, Post(idle, c, "read")}

Upstreams(w, c) == {u \in Conns : w.conn[u].client = c}

(* The end of a request closes its connection to an upstream first. *)
CloseRequest(w, c) ==
  CloseHttp(IF Upstreams(w, c) = {} THEN w
            ELSE CloseConnection(w, CHOOSE u \in Upstreams(w, c) : TRUE), c)

Finish(w, c) == SetKeepalive(w, c) \cup {CloseRequest(w, c)}

(* ngx_http_upstream_connect, ngx_event_connect_peer,                      *)
(* ngx_http_upstream_next: a connection of the cache is taken, or servers  *)
(* are tried, each failing at once, until a connection is being made,      *)
(* there is none left to try or no connection object for it.               *)
Got(w, c) == GetConnection(w, c, FALSE)

Connect(w0, c) ==
  LET cached == {u \in Conns : w0.conn[u].handler = "cached"}
      failed[n \in 0 .. MaxTries] ==
        IF n = 0 THEN {w0}
        ELSE {CloseConnection(x, x.got) :
                x \in {y \in {Got(w, c) : w \in failed[n - 1]} : y.got # None}}
      opened == UNION {{Got(w, c) : w \in failed[n]} : n \in 0 .. MaxTries - 1}
      ended == {w \in opened : w.got = None} \cup UNION {failed[n] : n \in 1 .. MaxTries}
  IN  {[w0 EXCEPT !.conn[u] = [@ EXCEPT !.handler = "request", !.client = c]] : u \in cached}
      \cup {w \in opened : w.got # None}
      \cup UNION {Finish(w, c) : w \in ended}

(* The handlers of a client's request, and of its upstream connection. *)
Request(w, c) ==
  {w, CloseRequest(w, c)}
  \cup IF Upstreams(w, c) = {} THEN SetKeepalive(w, c) \cup Connect(w, c) ELSE {}

(* ngx_http_upstream_free_keepalive_peer *)
Kept(w, u) ==
  [w EXCEPT !.conn[u] = [@ EXCEPT !.handler = "cached", !.client = None],
            !.timers = @ \ {u}]

(* The upstream connection is done with: the request goes on sending to    *)
(* the client, or ends.                                                    *)
Answered(w, c) == {w} \cup Finish(w, c)

UpstreamFails(w, u) ==
  LET c == w.conn[u].client
      x == CloseConnection(w, u)
  IN  Connect(x, c) \cup Answered(x, c)

Upstream(w, u) ==
  {w} \cup UpstreamFails(w, u) \cup Answered(Kept(w, u), w.conn[u].client)

(* ngx_http_keepalive_handler; the write handler is empty *)
Keepalive(w, c) ==
  {w, CloseHttp(w, c)}
  \cup Request(SetReusable([w EXCEPT !.conn[c].handler = "request"], c, FALSE), c)

(* An event is handled, or a timer has expired. *)
Handled(w, c, dir) ==
  CASE w.conn[c].handler = "keepalive" -> IF dir = "read" THEN Keepalive(w, c) ELSE {w}
    [] w.conn[c].handler = "shutdown" -> {CloseHttp(w, c)}
    [] w.conn[c].handler = "cached" -> IF dir = "read" THEN {w, CloseConnection(w, c)} ELSE {w}
    [] OTHER -> IF w.conn[c].client = None THEN Request(w, c) ELSE Upstream(w, c)

TimedOut(w, c) ==
  CASE w.conn[c].handler = "keepalive" -> {CloseHttp(w, c)}
    [] w.conn[c].handler = "shutdown" -> {CloseConnection(w, c)}
    [] OTHER -> IF w.conn[c].client = None THEN {CloseRequest(w, c)} ELSE UpstreamFails(w, c)

-----------------------------------------------------------------------------
(* The event loop. *)

Open == {c \in Conns : conn[c].open}

(* What epoll_wait() may report: a connection with a request both ways, as *)
(* its handlers may find that there is nothing to do; the others have no   *)
(* use for the write event.                                                *)
EventsOf(c) ==
  IF c = Listen THEN <<[c |-> Listen, dir |-> "read", instance |-> FALSE, reused |-> 0]>>
  ELSE IF conn[c].handler = "request" THEN <<Event(conn, c, "read"), Event(conn, c, "write")>>
  ELSE <<Event(conn, c, "read")>>

Orders(S) == {o \in [1 .. Cardinality(S) -> S] : Range(o) = S}

(* ngx_process_events_and_timers.  Without the accept mutex the events are *)
(* handled as they come; with it they are posted, each in front of the     *)
(* last, and connections are accepted first; while another worker has it   *)
(* there are no accept events.                                             *)
PollDirect ==
  /\ phase = "poll"
  /\ \E S \in SUBSET (Open \cup IF conf.accept_mutex THEN {} ELSE {Listen}) :
       \E o \in Orders(S) :
         batch' = FlattenSeq([i \in DOMAIN o |-> EventsOf(o[i])])
  /\ phase' = "events"
  /\ UNCHANGED <<conf, conn, free_connections, reusable, accepts, timers, posted, refused>>

PollPosting ==
  /\ phase = "poll"
  /\ conf.accept_mutex
  /\ \E S \in SUBSET Open : \E o \in Orders(S) :
       posted' = Reverse(FlattenSeq([i \in DOMAIN o |-> EventsOf(o[i])])) \o posted
  /\ accepts' \in 0 .. MaxBacklog
  /\ phase' = "events"
  /\ UNCHANGED <<conf, conn, free_connections, reusable, batch, timers, refused>>

Stale(e) == ~conn[e.c].open \/ conn[e.c].instance # e.instance

(* ngx_epoll_process_events *)
ProcessEvent ==
  /\ phase = "events" /\ accepts = 0 /\ batch # <<>>
  /\ UNCHANGED phase
  /\ LET e == Head(batch)
     IN  \/ /\ e.c = Listen
            /\ batch' = Tail(batch)
            /\ accepts' \in 1 .. MaxBacklog
            /\ UNCHANGED <<conf, conn, free_connections, reusable, timers, posted, refused>>
         \/ /\ e.c # Listen
            /\ Stale(e)
            /\ batch' = Tail(batch)
            /\ UNCHANGED <<conf, conn, free_connections, reusable, accepts, timers, posted,
                           refused>>
         \/ /\ e.c # Listen
            /\ ~Stale(e)
            /\ \E linger \in BOOLEAN :
                 \E w \in Handled([World(linger) EXCEPT !.batch = Tail(batch)], e.c, e.dir) :
                   Commit(w)
            /\ UNCHANGED accepts

(* ngx_event_accept, one connection: there may be no object for it, or no  *)
(* memory (ngx_close_accepted_connection); either ends the handler.  With  *)
(* deferred accept the request is there, and is handled at once or posted  *)
(* (ngx_http_init_connection).                                             *)
Accept ==
  /\ accepts > 0
  /\ \E linger \in BOOLEAN : \E w \in {GetConnection(World(linger), None, conf.ssl)} :
       \/ /\ w.got = None
          /\ Commit(w)
          /\ accepts' = 0
       \/ /\ w.got # None
          /\ Commit(CloseConnection(w, w.got))
          /\ accepts' = 0
       \/ /\ w.got # None
          /\ \E x \in IF ~conf.deferred THEN {w}
                      ELSE IF conf.accept_mutex THEN {Post(w, w.got, "read")}
                      ELSE Request(w, w.got) :
               Commit(x)
          /\ accepts' = accepts - 1
  /\ UNCHANGED phase

(* ngx_event_expire_timers.  A cached upstream connection has no timer. *)
EndEvents ==
  /\ phase = "events" /\ accepts = 0 /\ batch = <<>>
  /\ timers' \in SUBSET {c \in Open : conn[c].handler # "cached"}
  /\ phase' = "timers"
  /\ UNCHANGED <<conf, conn, free_connections, reusable, batch, accepts, posted, refused>>

ExpireTimer(c) ==
  /\ phase = "timers"
  /\ c \in timers
  /\ \E linger \in BOOLEAN :
       \E w \in TimedOut([World(linger) EXCEPT !.timers = @ \ {c}], c) : Commit(w)
  /\ UNCHANGED <<phase, accepts>>

EndTimers ==
  /\ phase = "timers" /\ timers = {}
  /\ phase' = "posted"
  /\ UNCHANGED <<conf, conn, free_connections, reusable, batch, accepts, timers, posted,
                 refused>>

(* ngx_event_process_posted *)
ProcessPosted ==
  /\ phase = "posted" /\ posted # <<>>
  /\ \E linger \in BOOLEAN :
       \E w \in Handled([World(linger) EXCEPT !.posted = Tail(posted)],
                        Head(posted).c, Head(posted).dir) :
         Commit(w)
  /\ UNCHANGED <<phase, accepts>>

EndPosted ==
  /\ phase = "posted" /\ posted = <<>>
  /\ phase' = "poll"
  /\ UNCHANGED <<conf, conn, free_connections, reusable, batch, accepts, timers, posted,
                 refused>>

-----------------------------------------------------------------------------
ConnInit ==
  /\ conf \in Configs
  /\ conn = [c \in Conns |-> Closed(FALSE)]
  /\ free_connections \in Orders(Conns)
  /\ reusable = <<>>
  /\ phase = "poll"
  /\ batch = <<>>
  /\ accepts = 0
  /\ timers = {}
  /\ posted = <<>>
  /\ refused = FALSE

ConnNext ==
  \/ PollDirect \/ PollPosting
  \/ ProcessEvent \/ Accept \/ EndEvents
  \/ \E c \in Conns : ExpireTimer(c)
  \/ EndTimers \/ ProcessPosted \/ EndPosted

ConnSpec == ConnInit /\ [][ConnNext]_connVars

-----------------------------------------------------------------------------
(* Properties. *)

ConnTypeOK ==
  /\ conf \in Configs
  /\ conn \in [Conns -> [open : BOOLEAN, instance : BOOLEAN,
                         handler : {"none", "request", "keepalive", "shutdown", "cached"},
                         client : Conns \cup {None}, reusable : BOOLEAN, close : BOOLEAN,
                         ssl : BOOLEAN]]
  /\ phase \in {"poll", "events", "timers", "posted"}
  /\ accepts \in 0 .. MaxBacklog
  /\ timers \subseteq Conns

(* Every connection object is in the free list once or open; the reusable  *)
(* queue holds, once each, the connections marked so, and only ones whose  *)
(* handler closes when told to: a drained connection never has a request.  *)
(* An upstream connection in use has a client that is there.  Events that  *)
(* are posted and timers belong to open connections, in their present use. *)
ListsExact ==
  /\ ConnTypeOK
  /\ Range(free_connections) = Conns \ Open
  /\ Len(free_connections) = Cardinality(Range(free_connections))
  /\ Range(reusable) = {c \in Conns : conn[c].reusable}
  /\ Len(reusable) = Cardinality(Range(reusable))
  /\ \A c \in Conns : conn[c].handler = "keepalive" => conn[c].reusable
  /\ \A c \in Conns : conn[c].reusable => conn[c].handler \in {"keepalive", "shutdown"}
  /\ \A c \in Open : conn[c].client # None => conn[conn[c].client].handler = "request"
  /\ timers \subseteq Open
  /\ \A i \in DOMAIN posted : posted[i].c \in Open /\ posted[i].reused = 0

(* "the stale event from a file descriptor that was just closed": an event *)
(* of the batch reaches the connection it was reported for, if that is     *)
(* still open, and no other.  One bit tells an object apart from its next  *)
(* use; after two reuses within the batch it cannot.                       *)
OwnEvents ==
  \A i \in DOMAIN batch :
    batch[i].c # Listen /\ batch[i].reused < 2 =>
      (Stale(batch[i]) <=> ~conn[batch[i].c].open \/ batch[i].reused = 1)

(* "keepalive connections may be closed premature, if there are no free    *)
(* worker connections": none is refused while a client's idle connection   *)
(* is left, unless a connection that is ending TLS holds up the queue.     *)
DrainedBeforeRefused == ~refused

=============================================================================

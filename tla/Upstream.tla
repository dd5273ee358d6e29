------------------------------ MODULE Upstream ------------------------------
(***************************************************************************)
(* The requests one worker passes to an upstream                           *)
(* (http/ngx_http_upstream.c, event/ngx_event_connect.c): connecting,      *)
(* sending, reading the answer, trying the next server, with the balancer  *)
(* (RoundRobin) and the cache of idle connections                          *)
(* (http/modules/ngx_http_upstream_keepalive_module.c) they share.         *)
(*                                                                         *)
(* A worker is one thread: one handler runs from an event to its return.   *)
(* A handler that goes on to another attempt is several actions; busy is   *)
(* the request it serves, and nothing else moves while it is set.          *)
(*                                                                         *)
(* The servers and the clients are the environment.  A server answers the  *)
(* requests of a connection in order, may close a connection at any time   *)
(* and, if conf.early, may answer a request before all of it arrived.      *)
(***************************************************************************)
EXTENDS RoundRobin, FiniteSets

CONSTANTS
  Requests,      \* requests
  NoReq,         \* no request
  Configs,       \* upstream configurations to choose from
  Connections,   \* bound: connection numbers
  Answers,       \* answers of servers: [status, empty, close]
  MaxFaults,     \* bound: failures of servers, sockets and clients
  MaxTicks       \* bound: fail_timeouts that run out

NoConn == 0
NoAddr == <<0, 0>>

ASSUME ConnectionsAssumption == Connections \subseteq Nat \ {NoConn}
ASSUME RequestsAssumption == NoReq \notin Requests
ASSUME ConfigsAssumption == \A f \in Configs : f.max_cached \in Nat
ASSUME GroupsAssumption ==
  \A f \in Configs :
    /\ f.groups \in Seq([single : BOOLEAN,
                         peer : Seq([weight : Nat, max_fails : Nat, down : BOOLEAN])])
    /\ Len(f.groups) \in {1, 2}
    /\ \A g \in DOMAIN f.groups : f.groups[g].peer # <<>>
ASSUME BoundAssumption == /\ MaxFaults \in Nat
                          /\ MaxTicks \in Nat

VARIABLES
  conf,    \* the configuration: groups, next_upstream, max_cached (0 without
           \* keepalive), single, cacheable, ignore_client_abort,
           \* connections (worker_connections); early, of the servers
  rr,      \* the balancer's servers, shared by the requests
  cache,   \* idle connections, most recently used first
  conn,    \* the connections to servers, and what is on the wire
  req,     \* the requests: r->upstream and what belongs to it
  busy,    \* the request whose handler is running, or NoReq
  faults, ticks

vars == <<conf, rr, cache, conn, req, busy, faults, ticks>>

(* rx: what the server has of the request it is receiving: nothing, a part *)
(* or all of it; "over" when it has answered and part of it is still to    *)
(* come.  ans: what it sent that has not been read.                        *)
Closed == [open |-> FALSE, peer |-> NoAddr, rx |-> "none", of |-> NoReq,
           answering |-> FALSE, ans |-> <<>>, eof |-> FALSE]

Opened(a) == [Closed EXCEPT !.open = TRUE, !.peer = a]

NewRequest == [phase |-> "new", pd |-> [group |-> 1, current |-> 1, tried |-> {}, tries |-> 0],
               addr |-> NoAddr, conn |-> NoConn, cached |-> FALSE, failed |-> FALSE,
               request_sent |-> FALSE, unsent |-> FALSE,
               header_sent |-> FALSE, keepalive |-> FALSE, close |-> FALSE,
               error |-> FALSE, seen |-> {}]

Phases == {"new", "connect", "connecting", "send", "sending", "waiting", "body", "done"}

FreeConns == {c \in Connections : c <= conf.connections /\ ~conn[c].open}

-----------------------------------------------------------------------------
(* A handler works on a record w of the state it shares and of its own     *)
(* request: w.q is req[r].  Commit makes w the next state.                 *)
World(r) == [rr |-> rr, cache |-> cache, conn |-> conn, q |-> req[r]]

Commit(r, w, b) ==
  /\ rr' = w.rr
  /\ cache' = w.cache
  /\ conn' = w.conn
  /\ req' = [req EXCEPT ![r] = w.q]
  /\ busy' = b
  /\ UNCHANGED conf

Close(w, c) == [w EXCEPT !.conn[c] = Closed]

(* peer.get *)
BalancerGet(w) ==
  LET Addr(g) == IF g.rc = "OK" THEN <<g.pd.group, g.pd.current>> ELSE w.q.addr
      Given(g) == [rc |-> g.rc,
                   w |-> [w EXCEPT !.rr = g.rr,
                                   !.q.pd = g.pd,
                                   !.q.cached = FALSE,
                                   !.q.conn = NoConn,
                                   !.q.addr = Addr(g),
                                   !.q.seen = @ \cup {Addr(g)}]]
  IN  Given(GetRoundRobinPeer(conf.groups, w.rr, w.q.pd))

TakeCached(w, k) ==
  [rc |-> "DONE",
   w |-> [w EXCEPT !.cache = RemoveAt(@, k),
                   !.q.conn = w.cache[k].c,
                   !.q.cached = TRUE]]

(* ngx_http_upstream_get_keepalive_peer *)
KeepaliveGet(w0) ==
  LET w == [w0 EXCEPT !.q.failed = FALSE]
      Suitable(b) == {k \in DOMAIN w.cache : w.cache[k].peer = b.w.q.addr}
      OrCached(b) == IF conf.single \/ b.rc # "OK" \/ Suitable(b) = {} THEN b
                     ELSE TakeCached(b.w, Min(Suitable(b)))
  IN  IF conf.single /\ w.cache # <<>> THEN TakeCached(w, 1)
      ELSE OrCached(BalancerGet(w))

(* ngx_http_upstream_free_keepalive_peer.  What the worker knows of the    *)
(* connection then: "quiet", or "ready", an event not handled yet, which   *)
(* makes the close handler look at the connection at once; or "eof", the   *)
(* end of the stream was read.  The other flags of c->read and c->write    *)
(* are set only when failed is set or keepalive is not.                    *)
Flags == {"quiet", "ready", "eof"}

(* Mutant: a connection is saved though its answer was not read to the end *)
(* or the server is to close it.                                           *)
SavableAlways(w, flag) == /\ conf.max_cached > 0
                          /\ ~w.q.failed
                          /\ w.q.conn # NoConn

Savable(w, flag) == /\ conf.max_cached > 0
                    /\ ~w.q.failed
                    /\ w.q.conn # NoConn
                    /\ ~(flag = "eof" /\ w.conn[w.q.conn].eof)
                    /\ w.q.keepalive

(* Mutant: the connection whose slot is taken over is not closed. *)
SaveOver(w, flag) ==
  [w EXCEPT !.cache = <<[c |-> w.q.conn, peer |-> w.q.addr]>>
                        \o SubSeq(@, 1, Min({Len(@), conf.max_cached - 1})),
            !.q.conn = NoConn]

Save(w, flag) ==
  LET full == Len(w.cache) = conf.max_cached
      kept == IF full THEN Front(w.cache) ELSE w.cache
      evicted == IF full THEN Close(w, Last(w.cache).c) ELSE w
      c == w.q.conn
      stale == flag = "ready" /\ (w.conn[c].ans # <<>> \/ w.conn[c].eof)
  IN  IF stale
      THEN [Close(evicted, c) EXCEPT !.cache = kept, !.q.conn = NoConn]
      ELSE [evicted EXCEPT !.cache = <<[c |-> c, peer |-> w.q.addr]>> \o kept,
                           !.q.conn = NoConn]

Free(w0, state, flag) ==
  LET Balancer(w, f) == [w EXCEPT !.rr = f.rr, !.q.pd = f.pd]
      Freed(w) == Balancer(w, FreeRoundRobinPeer(conf.groups, w.rr, w.q.pd, state))
      Saved(w) == IF Savable(w, flag) THEN Save(w, flag) ELSE w
  IN  Freed(Saved([w0 EXCEPT !.q.failed = @ \/ state = "FAILED"]))

CloseOwn(w) ==
  IF w.q.conn = NoConn THEN w ELSE [Close(w, w.q.conn) EXCEPT !.q.conn = NoConn]

(* ngx_http_upstream_finalize_request.  The status sent to the client is   *)
(* left out; nothing of the request matters any more.                      *)
Finalize(w, flag) ==
  [CloseOwn(Free(w, "0", flag)) EXCEPT !.q = [NewRequest EXCEPT !.phase = "done"]]

(* ngx_http_upstream_next: the request ends or another attempt begins.  An *)
(* error on an idle connection taken from the cache costs no try.          *)
AfterNext(w0, ft, flag) ==
  LET state == IF ft = "http_404" THEN "NEXT" ELSE "FAILED"
      Again(w) == w.q.cached /\ ft = "error"
      Retried(w) == IF Again(w) THEN [w EXCEPT !.q.pd.tries = @ + 1] ELSE w
      Over(w) == \/ w.q.error
                 \/ ~Again(w) /\ (w.q.pd.tries = 0 \/ ft \notin conf.next_upstream)
      Decide(w) == IF Over(w) THEN Finalize(w, flag)
                   ELSE [CloseOwn(w) EXCEPT !.q.phase = "connect"]
  IN  Decide(Retried(IF ft = "nolive" THEN w0 ELSE Free(w0, state, flag)))

(* How a handler of r ends: in w, and busy if it goes on to connect. *)
Return(r, w0) ==
  \E w \in {w0} : Commit(r, w, IF w.q.phase \in {"connect", "send"} THEN r ELSE NoReq)

NextUpstream(r, w, ft) == \E flag \in Flags : Return(r, AfterNext(w, ft, flag))

End(r, w) == \E flag \in Flags : Return(r, Finalize(w, flag))

Fault == /\ faults < MaxFaults
         /\ faults' = faults + 1
         /\ UNCHANGED ticks

NoFault == UNCHANGED <<faults, ticks>>

-----------------------------------------------------------------------------
(* ngx_http_upstream_init_request: peer.init, then the first connect. *)
Start(r) ==
  /\ busy = NoReq
  /\ req[r].phase = "new"
  /\ Return(r, [World(r) EXCEPT !.q.pd = InitPeerData(conf.groups),
                                !.q.phase = "connect"])
  /\ NoFault

(* Mutant: a second attempt starts with what the first one left. *)
AttachUnreset(w, c, phase) ==
  [w EXCEPT !.q.conn = c, !.q.phase = phase, !.q.unsent = FALSE, !.q.request_sent = FALSE]

(* A connection is to be used: reinit when a request was sent before. *)
Attach(w, c, phase) ==
  [w EXCEPT !.q.conn = c,
            !.q.phase = phase,
            !.q.unsent = FALSE,
            !.q.keepalive = IF w.q.request_sent THEN FALSE ELSE @,
            !.q.request_sent = FALSE]

(* ngx_http_upstream_connect with ngx_event_connect_peer, by what peer.get *)
(* and connect() return.                                                   *)
Connect(r) ==
  /\ busy = r
  /\ req[r].phase = "connect"
  /\ \E g \in {KeepaliveGet(World(r))} :
     LET w == g.w
         New(c) == [w EXCEPT !.conn[c] = Opened(w.q.addr)]
     IN  \/ /\ g.rc = "BUSY"
            /\ NextUpstream(r, w, "nolive")
            /\ NoFault
         \/ /\ g.rc = "DONE"
            /\ Return(r, Attach(w, w.q.conn, "send"))
            /\ NoFault
         \/ /\ g.rc = "OK"
            /\ FreeConns # {}
            /\ \/ /\ \E phase \in {"connecting", "send"} :
                       Return(r, Attach(New(Min(FreeConns)), Min(FreeConns), phase))
                  /\ NoFault
               \/ /\ NextUpstream(r, w, "error")
                  /\ Fault
         \/ /\ g.rc = "OK"
            /\ FreeConns = {}
            /\ End(r, w)
            /\ NoFault

-----------------------------------------------------------------------------
(* Bytes of r reach the server of c: all there are, or only a part. *)
Deliver(k, r, all) ==
  CASE k.rx = "none" -> [k EXCEPT !.of = r, !.rx = IF all THEN "full" ELSE "part"]
    [] k.rx = "part" -> [k EXCEPT !.rx = IF all THEN "full" ELSE "part"]
    [] OTHER -> k

(* ngx_http_upstream_send_request, called by connect or by a write event.  *)
(* A write event that comes when the answer is already being passed on     *)
(* only gives up the rest of the request: it is never sent.                *)
SendRequest(r) ==
  /\ \/ busy = r /\ req[r].phase = "send"
     \/ busy = NoReq /\ req[r].phase \in {"connecting", "sending"}
     \/ busy = NoReq /\ req[r].phase = "body" /\ req[r].unsent
  /\ LET w == World(r)
         c == w.q.conn
         Sent(all) == [w EXCEPT !.conn[c] = Deliver(@, r, all),
                                !.q.request_sent = TRUE,
                                !.q.unsent = ~all,
                                !.q.phase = IF all THEN "waiting" ELSE "sending"]
     IN  \/ /\ w.q.phase = "body"
            /\ Return(r, [w EXCEPT !.q.unsent = FALSE])
            /\ NoFault
         \/ /\ w.q.phase # "body"
            /\ \E all \in BOOLEAN : Return(r, Sent(all))
            /\ NoFault
         \/ /\ w.q.phase # "body"
            /\ \E sent \in {w.q.request_sent, TRUE} :
                 NextUpstream(r, [w EXCEPT !.q.request_sent = sent], "error")
            /\ IF w.conn[c].eof THEN NoFault ELSE Fault

(* Mutant: a server that falls silent in the middle of an answer is given  *)
(* up like one that has not answered.                                      *)
TimedOutAnywhere(r) ==
  /\ busy = NoReq
  /\ req[r].phase \in {"connecting", "sending", "waiting", "body"}
  /\ NextUpstream(r, World(r), "timeout")
  /\ NoFault

(* The write timer, of connecting or of sending, or the read timer. *)
TimedOut(r) ==
  /\ busy = NoReq
  /\ req[r].phase \in {"connecting", "sending", "waiting"}
       \/ (req[r].phase = "body" /\ req[r].unsent)
  /\ NextUpstream(r, World(r), "timeout")
  /\ NoFault

(* ngx_http_upstream_process_header finds the connection closed or broken. *)
HeaderError(r) ==
  /\ busy = NoReq
  /\ req[r].phase \in {"sending", "waiting"}
  /\ LET k == conn[req[r].conn]
     IN  \/ k.ans = <<>> /\ k.eof /\ NoFault
         \/ Fault
  /\ NextUpstream(r, World(r), "error")

(* ngx_http_upstream_process_header reads a header: it is invalid; or its  *)
(* status asks for the next server; or the request ends with it            *)
(* (intercepted, redirected, header only); or the answer is sent on.       *)
ReadHeader(r) ==
  /\ busy = NoReq
  /\ req[r].phase \in {"sending", "waiting"}
  /\ conn[req[r].conn].ans # <<>>
  /\ LET m == Head(conn[req[r].conn].ans)
         w == [World(r) EXCEPT !.conn[req[r].conn].ans = Tail(@),
                               !.q.close = m.close,
                               !.q.keepalive = IF m.empty THEN ~m.close ELSE @]
         TestNext == /\ m.status # "200"
                     /\ w.q.pd.tries > 1
                     /\ m.status \in conf.next_upstream
         Sent == [w EXCEPT !.q.header_sent = TRUE, !.q.phase = "body"]
     IN  IF m.status = "bad" THEN NextUpstream(r, w, "invalid_header")
         ELSE IF TestNext THEN NextUpstream(r, w, m.status)
         ELSE \/ End(r, w)
              \/ IF m.empty THEN End(r, Sent) ELSE Return(r, Sent)
  /\ NoFault

(* The answer has been read to its end, or the server closed, failed or    *)
(* fell silent: ngx_http_upstream_process_upstream and                     *)
(* ngx_http_upstream_process_non_buffered_request.                         *)
ReadBody(r) ==
  /\ busy = NoReq
  /\ req[r].phase = "body"
  /\ LET c == req[r].conn
         w == World(r)
     IN  \/ /\ conn[c].ans # <<>>
            /\ End(r, [w EXCEPT !.conn[c].ans = Tail(@), !.q.keepalive = ~w.q.close])
         \/ End(r, w)
  /\ NoFault

(* ngx_http_upstream_check_broken_connection, or a write to the client     *)
(* fails.                                                                  *)
ClientAborts(r) ==
  /\ busy = NoReq
  /\ ~req[r].error
  /\ \/ req[r].phase \in {"connecting", "sending", "waiting"} /\ ~conf.ignore_client_abort
     \/ req[r].phase = "body"
  /\ IF conf.cacheable THEN Return(r, [World(r) EXCEPT !.q.error = TRUE])
     ELSE End(r, World(r))
  /\ Fault

(* ngx_http_upstream_keepalive_close_handler: an idle connection has       *)
(* something to read, or the worker is closing its idle connections.       *)
CloseIdle(k) ==
  /\ busy = NoReq
  /\ k \in DOMAIN cache
  /\ LET c == cache[k].c
     IN  /\ \/ (conn[c].ans # <<>> \/ conn[c].eof) /\ NoFault
            \/ Fault
         /\ conn' = [conn EXCEPT ![c] = Closed]
  /\ cache' = RemoveAt(cache, k)
  /\ UNCHANGED <<conf, rr, req, busy>>

-----------------------------------------------------------------------------
(* The servers. *)
Answered(k) ==
  IF k.rx = "full" THEN [k EXCEPT !.rx = "none", !.of = NoReq, !.answering = FALSE]
  ELSE [k EXCEPT !.rx = "over", !.answering = FALSE]

Reply(a, r) == [status |-> a.status, empty |-> a.empty, close |-> a.close, of |-> r]

ServerAnswers(c) ==
  /\ busy = NoReq
  /\ LET k == conn[c]
     IN  /\ k.open /\ ~k.eof /\ ~k.answering
         /\ k.rx = "full" \/ (conf.early /\ k.rx = "part")
         /\ \E a \in Answers :
              LET s == [k EXCEPT !.ans = Append(@, Reply(a, k.of))]
              IN  conn' = [conn EXCEPT ![c] = IF a.empty THEN Answered(s)
                                              ELSE [s EXCEPT !.answering = TRUE]]
  /\ UNCHANGED <<conf, rr, cache, req, busy, faults, ticks>>

ServerEnds(c) ==
  /\ busy = NoReq
  /\ conn[c].open /\ ~conn[c].eof /\ conn[c].answering
  /\ conn' = [conn EXCEPT ![c] =
       Answered([conn[c] EXCEPT !.ans = Append(@, [of |-> conn[c].of])])]
  /\ UNCHANGED <<conf, rr, cache, req, busy, faults, ticks>>

ServerCloses(c) ==
  /\ busy = NoReq
  /\ conn[c].open /\ ~conn[c].eof
  /\ conn' = [conn EXCEPT ![c].eof = TRUE]
  /\ Fault
  /\ UNCHANGED <<conf, rr, cache, req, busy>>

(* The fail_timeout of a server runs out. *)
Tick ==
  /\ busy = NoReq
  /\ ticks < MaxTicks
  /\ \E g \in DOMAIN rr : \E i \in DOMAIN rr[g] :
       /\ ~rr[g][i].expired
       /\ rr' = Expire(rr, g, i)
  /\ ticks' = ticks + 1
  /\ UNCHANGED <<conf, cache, conn, req, busy, faults>>

-----------------------------------------------------------------------------
Init ==
  /\ conf \in Configs
  /\ rr = InitGroups(conf.groups)
  /\ cache = <<>>
  /\ conn = [c \in Connections |-> Closed]
  /\ req = [r \in Requests |-> NewRequest]
  /\ busy = NoReq
  /\ faults = 0
  /\ ticks = 0

Handler(r) == \/ Connect(r) \/ SendRequest(r) \/ TimedOut(r) \/ HeaderError(r)
              \/ ReadHeader(r) \/ ReadBody(r)

Next ==
  \/ \E r \in Requests : Start(r) \/ Handler(r) \/ ClientAborts(r)
  \/ \E c \in Connections : ServerAnswers(c) \/ ServerEnds(c) \/ ServerCloses(c)
  \/ \E k \in 1 .. conf.max_cached : CloseIdle(k)
  \/ Tick

Spec == Init /\ [][Next]_vars

-----------------------------------------------------------------------------
(* Properties. *)

(* The types of the variables; a request's index is always one of a server *)
(* of its group.                                                           *)
TypeOK ==
  /\ conf \in Configs
  /\ rr \in [DOMAIN conf.groups -> Seq([current_weight : Int, fails : Nat,
                                        expired : BOOLEAN, probing : BOOLEAN])]
  /\ cache \in Seq([c : Connections, peer : Nat \X Nat])
  /\ \A c \in Connections : conn[c].open \in BOOLEAN
  /\ \A r \in Requests : /\ req[r].phase \in Phases
                         /\ req[r].conn \in Connections \cup {NoConn}
                         /\ req[r].pd.tries \in Nat
                         /\ req[r].pd.group \in DOMAIN conf.groups
                         /\ req[r].pd.current \in DOMAIN rr[req[r].pd.group]
  /\ busy \in Requests \cup {NoReq}

Users(c) == {r \in Requests : req[r].conn = c}
Slots(c) == {k \in DOMAIN cache : cache[k].c = c}

(* The requests and the cache share out the connections: an open one is    *)
(* used by one request or is idle in one slot of the cache, under the      *)
(* address it is connected to; a closed one is used by nobody.  A request  *)
(* that is over has no connection.                                         *)
ConnectionsOwned ==
  /\ \A c \in Connections :
       Cardinality(Users(c)) + Cardinality(Slots(c)) = IF conn[c].open THEN 1 ELSE 0
  /\ Len(cache) <= conf.max_cached
  /\ ~conf.single => \A k \in DOMAIN cache : cache[k].peer = conn[cache[k].c].peer
  /\ \A r \in Requests : req[r].phase = "done" => req[r].conn = NoConn

(* Nothing of an earlier request is left on the wire: what a request is    *)
(* about to read from its connection answers that request, provided the    *)
(* servers read a request to its end before they answer it.                *)
OwnAnswers ==
  ~conf.early =>
  \A r \in Requests :
    req[r].conn # NoConn =>
      LET k == conn[req[r].conn]
      IN  /\ k.of \in {r, NoReq}
          /\ \A n \in DOMAIN k.ans : k.ans[n].of = r

(* "cache valid connections": an idle connection has no request partly     *)
(* sent and no answer to come, provided the servers read a request to its  *)
(* end before they answer it.                                              *)
IdleAreValid ==
  ~conf.early =>
  \A k \in DOMAIN cache : conn[cache[k].c].rx = "none" /\ conn[cache[k].c].ans = <<>>

(* Once the header of an answer has been passed to the client the request  *)
(* is never tried on another server, with servers that read a request to   *)
(* its end before they answer.                                             *)
NoRetryAfterHeader ==
  [][\A r \in Requests :
       ~conf.early /\ req[r].header_sent => req'[r].phase # "connect"]_vars

(* The attempts of a request come to an end: the balancer's data have      *)
(* their types and, without backup servers, it never offers a request a    *)
(* server it has tried, whatever other requests do to weights and failures *)
(* between its attempts.                                                   *)
NoServerTwice ==
  /\ TypeOK
  /\ \A r \in Requests :
       busy = r /\ req[r].phase = "connect" /\ Len(conf.groups) = 1 /\ ~conf.groups[1].single =>
         \A g \in {BalancerGet(World(r))} : g.rc = "OK" => g.w.q.addr \notin req[r].seen

=============================================================================

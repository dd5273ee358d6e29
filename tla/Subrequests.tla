---------------------------- MODULE Subrequests -----------------------------
(***************************************************************************)
(* A client's request and the subrequests it makes                         *)
(* (http/ngx_http_request.c, ngx_http_subrequest of                        *)
(* http/ngx_http_core_module.c, http/ngx_http_postpone_filter_module.c and *)
(* the output side of http/modules/ngx_http_ssi_filter_module.c): how      *)
(* requests that run at the same time put one response together, when each *)
(* of them is finalized, and when the whole is freed.                      *)
(*                                                                         *)
(* A worker is one thread.  An action is one handler with all it calls;    *)
(* every event ends with ngx_http_run_posted_requests, so that other       *)
(* events wait until posted is empty.                                      *)
(*                                                                         *)
(* Pages are given: site[i] is the page of the i-th request of the tree in *)
(* the order of creation, [kind, items], an item being "text", "include"   *)
(* or "wait" (include wait="yes").  A page is sent by a handler at once    *)
(* ("static"), piece by piece as an upstream delivers it ("upstream"), or  *)
(* by an upstream that fails inside its content handler ("failed").        *)
(*                                                                         *)
(* A piece of output is named by its place in the tree of pages: the path  *)
(* of its request and the number of the item.  The header of the response, *)
(* asynchronous file reading (r->blocked) and post_action are left out.    *)
(***************************************************************************)
EXTENDS Integers, Sequences, SequencesExt, FiniteSets

CONSTANTS
  MaxRequests,     \* bound: requests of a site
  Sites,           \* sequences of pages to choose from
  MaxSubrequests,  \* NGX_HTTP_MAX_SUBREQUESTS
  MaxFaults        \* bound: times the connection to the client breaks

Items == {"text", "include", "wait"}

ASSUME SitesAssumption ==
  \A s \in Sites : s \in Seq([kind : {"static", "upstream", "failed"}, items : Seq(Items)])

ASSUME BoundAssumption == /\ MaxSubrequests \in Nat
                          /\ MaxFaults \in Nat
                          /\ \A s \in Sites : Len(s) <= MaxRequests

VARIABLES
  site,         \* the pages
  rq,           \* the requests made so far, the main one first
  active,       \* c->data: the request whose output goes to the client
  posted,       \* r->main->posted_requests
  count,        \* r->main->count
  subrequests,  \* r->main->subrequests
  stream,       \* what was passed to ngx_http_write_filter
  buffered,     \* c->buffered
  error,        \* c->error
  conn,         \* "open", "lingering", "keepalive" or "closed"
  faults

vars == <<site, rq, active, posted, count, subrequests, stream, buffered, error, conn,
          faults>>

Main == 1
NoReq == 0

NewRequest(parent, path, waited) ==
  [parent |-> parent, path |-> path, waited |-> waited, done |-> FALSE,
   write_event_handler |-> "handler", postponed |-> <<>>,
   left |-> <<>>, in |-> <<>>, made |-> 0, wait |-> NoReq, buffered |-> FALSE]

(* The page of a request.  One that is not given is empty. *)
Page(r) == IF r \in DOMAIN site THEN site[r] ELSE [kind |-> "static", items |-> <<>>]

(* A handler works on a record w of the state.  slow and fail are what the *)
(* client's socket does during the handler; rc is what the last function   *)
(* called returned.                                                        *)
World(slow, fail) ==
  [rq |-> rq, active |-> active, posted |-> posted, count |-> count,
   subrequests |-> subrequests, stream |-> stream, buffered |-> buffered,
   error |-> error, conn |-> conn, rc |-> "OK", slow |-> slow, fail |-> fail]

Commit(w) ==
  /\ rq' = w.rq
  /\ active' = w.active
  /\ posted' = w.posted
  /\ count' = w.count
  /\ subrequests' = w.subrequests
  /\ stream' = w.stream
  /\ buffered' = w.buffered
  /\ error' = w.error
  /\ conn' = w.conn
  /\ UNCHANGED site

(* Op(x), written so that TLC evaluates x once. *)
Once(Op(_), x) == CHOOSE y \in {Op(v) : v \in {x}} : TRUE

Rc(w, rc) == [w EXCEPT !.rc = rc]

(* ngx_http_post_request *)
Post(w, r) == [w EXCEPT !.posted = Append(@, r), !.rc = "OK"]

-----------------------------------------------------------------------------
(* ngx_http_write_filter *)
WriteFilter(w, pieces) ==
  IF w.error \/ w.fail THEN [w EXCEPT !.error = TRUE, !.rc = "ERROR"]
  ELSE [w EXCEPT !.stream = @ \o pieces, !.buffered = w.slow,
                 !.rc = IF w.slow THEN "AGAIN" ELSE "OK"]

(* ngx_http_postpone_filter_add.  postponed is a list of subrequests and   *)
(* of output that comes after them.                                        *)
Out(pieces) == [request |-> NoReq, out |-> pieces]
Sub(r) == [request |-> r, out |-> <<>>]

AddOut(list, pieces) ==
  IF list # <<>> /\ Last(list).request = NoReq
  THEN Append(Front(list), Out(Last(list).out \o pieces))
  ELSE Append(list, Out(pieces))

(* ngx_http_postpone_filter; hasIn: in is not NULL. *)
Flush(w, r) ==
  LET list == w.rq[r].postponed
      Subs == {k \in DOMAIN list : list[k].request # NoReq}
      first == IF Subs = {} THEN Len(list) + 1 ELSE Min(Subs)
      outs == FlattenSeq([k \in 1 .. first - 1 |-> list[k].out])
      w1 == IF first = 1 THEN w ELSE WriteFilter(w, outs)
      w2 == [w1 EXCEPT !.rq[r].postponed = SubSeq(list, first + 1, Len(list))]
  IN  IF w1.rc = "ERROR" THEN w1
      ELSE IF Subs = {} THEN Rc(w2, "OK")
      ELSE Post([w2 EXCEPT !.active = list[first].request], list[first].request)

(* Mutant: what comes after a subrequest is sent at once when the request  *)
(* is active.                                                              *)
PostponeNothing(w0, r, hasIn, pieces) ==
  LET w == Rc(w0, "OK")
  IN  IF w.active # r
      THEN IF hasIn THEN [w EXCEPT !.rq[r].postponed = AddOut(@, pieces)] ELSE w
      ELSE IF hasIn THEN WriteFilter(w, pieces) ELSE Flush(w, r)

PostponeFilter(w0, r, hasIn, pieces) ==
  LET w == Rc(w0, "OK")
      added == IF hasIn THEN [w EXCEPT !.rq[r].postponed = AddOut(@, pieces)] ELSE w
  IN  IF w.active # r THEN added
      ELSE IF w.rq[r].postponed = <<>>
           THEN IF hasIn \/ w.buffered THEN WriteFilter(w, pieces) ELSE w
      ELSE Flush(added, r)

-----------------------------------------------------------------------------
(* ngx_http_subrequest *)
Subrequest(w, r, path, waited) ==
  LET s == Len(w.rq) + 1
      w1 == [w EXCEPT !.rq = Append([w.rq EXCEPT ![r].postponed = Append(@, Sub(s))],
                                    NewRequest(r, path, waited)),
                      !.active = IF w.active = r /\ w.rq[r].postponed = <<>> THEN s ELSE @,
                      !.subrequests = @ - 1,
                      !.count = @ + 1]
  IN  IF w.subrequests = 1 THEN Rc(w, "ERROR") ELSE Post(w1, s)

(* ngx_http_ssi_body_filter.  An include sends what was read before it     *)
(* down, then starts the subrequest; one that is waited for stops the      *)
(* filter, with the rest of the input kept.  An include that cannot be     *)
(* made is replaced by the text of the error message.                      *)
SsiItem(r, s, item) ==
  LET n == s.w.rq[r].made + 1
      path == Append(s.w.rq[r].path, n)
      w == [s.w EXCEPT !.rq[r].made = n]
      Made(sub) ==
        IF sub.rc = "ERROR" THEN [s EXCEPT !.w = Rc(sub, "OK"), !.out = <<path>>]
        ELSE IF item = "include" THEN [s EXCEPT !.w = sub, !.out = <<>>]
        ELSE [s EXCEPT !.w = [Rc(sub, "AGAIN") EXCEPT !.rq[r].wait = Len(sub.rq)],
                       !.stop = TRUE]
      Include(flushed) ==
        IF flushed.rc = "ERROR" THEN [s EXCEPT !.w = flushed, !.stop = TRUE]
        ELSE Once(Made, Subrequest(flushed, r, path, item = "wait"))
  IN  IF s.stop THEN [s EXCEPT !.rest = Append(@, item)]
      ELSE IF item = "text" THEN [s EXCEPT !.w = w, !.out = Append(@, path)]
      ELSE Once(Include, IF s.out = <<>> THEN Rc(w, "OK")
                         ELSE PostponeFilter(w, r, TRUE, s.out))

SsiParse(w, r, input) ==
  LET parsed[k \in 0 .. Len(input)] ==
        IF k = 0 THEN [w |-> w, out |-> <<>>, stop |-> FALSE, rest |-> <<>>]
        ELSE Once(LAMBDA s : SsiItem(r, s, input[k]), parsed[k - 1])
      Parsed(s) ==
        IF s.stop THEN [s.w EXCEPT !.rq[r].in = s.rest, !.rq[r].buffered = TRUE]
        ELSE [PostponeFilter([s.w EXCEPT !.rq[r].in = <<>>], r, TRUE, s.out)
                EXCEPT !.rq[r].buffered = FALSE]
  IN  Once(Parsed, parsed[Len(input)])

OutputFilter(w, r, hasIn, items) ==
  LET q == w.rq[r]
      input == q.in \o items
      kept == [w EXCEPT !.rq[r].in = input]
  IN  IF ~hasIn /\ ~q.buffered THEN PostponeFilter(w, r, FALSE, <<>>)
      ELSE IF q.wait = NoReq THEN SsiParse(w, r, input)
      ELSE IF w.active # r THEN Rc(kept, "AGAIN")
      ELSE IF ~w.rq[q.wait].done THEN PostponeFilter(kept, r, FALSE, <<>>)
      ELSE SsiParse([w EXCEPT !.rq[r].wait = NoReq], r, input)

-----------------------------------------------------------------------------
(* ngx_http_close_request, ngx_http_finalize_connection.  What becomes of  *)
(* the connection is chosen by fate, which keepalive, lingering_close and  *)
(* the state of the socket decide.                                         *)
Fates == {"keepalive", "lingering", "closed"}

CloseRequest(w) ==
  [w EXCEPT !.count = @ - 1, !.conn = IF w.count = 1 THEN "closed" ELSE @]

(* Mutant: the connection is finalized whoever still uses the request. *)
FinalizeAlways(w, fate) ==
  IF fate = "closed" THEN CloseRequest(w)
  ELSE [w EXCEPT !.conn = fate, !.count = @ - 1]

FinalizeConnection(w, fate) ==
  IF w.count # 1 \/ fate = "closed" THEN CloseRequest(w)
  ELSE [w EXCEPT !.conn = fate, !.count = IF fate = "keepalive" THEN 0 ELSE 1]

(* ngx_http_terminate_request.  The cleanup handlers end the upstreams     *)
(* that are still running, each as finalized with NGX_DONE.                *)
Running(w) == {s \in DOMAIN w.rq : w.rq[s].write_event_handler = "content"}

Terminate(w, r) ==
  LET others == Running(w) \ {r}
      Ended(s) == IF s = Main THEN "terminate"
                  ELSE IF s \in others THEN "empty" ELSE w.rq[s].write_event_handler
  IN  [w EXCEPT !.rq = [s \in DOMAIN @ |-> [@[s] EXCEPT !.write_event_handler = Ended(s)]],
                !.count = @ - Cardinality(others),
                !.posted = <<Main>>]

(* Mutant: the parent gets its turn and is not woken. *)
FinalizeQuietly(w, r) ==
  LET p == w.rq[r].parent
      w1 == [w EXCEPT !.rq[r].done = TRUE,
                      !.rq[p].postponed = IF @ # <<>> /\ Head(@).request = r THEN Tail(@) ELSE @,
                      !.count = @ - 1,
                      !.subrequests = @ + 1,
                      !.active = p]
      w2 == [w EXCEPT !.rq[r].write_event_handler = "finalizer",
                      !.rq[r].done = w.rq[r].waited]
  IN  IF w.active = r THEN w1 ELSE Post(w2, p)

(* Mutant: the reference is given back before the output has its turn. *)
FinalizeEarly(w, r) ==
  LET p == w.rq[r].parent
      w1 == [w EXCEPT !.rq[r].done = TRUE, !.count = @ - 1, !.subrequests = @ + 1]
  IN  Post(IF w.active = r THEN [w1 EXCEPT !.active = p] ELSE w1, p)

(* ngx_http_finalize_request *)
FinalizeSub(w, r) ==
  LET p == w.rq[r].parent
      list == w.rq[p].postponed
      w1 == [w EXCEPT !.rq[r].done = TRUE,
                      !.rq[p].postponed = IF list # <<>> /\ Head(list).request = r
                                          THEN Tail(list) ELSE list,
                      !.count = @ - 1,
                      !.subrequests = @ + 1,
                      !.active = p]
      w2 == [w EXCEPT !.rq[r].write_event_handler = "finalizer",
                      !.rq[r].done = w.rq[r].waited]
  IN  Post(IF w.active = r THEN w1 ELSE w2, p)

Unfinished(w, r) == w.rq[r].buffered \/ w.rq[r].postponed # <<>>

Finalize(w, r, rc, fate) ==
  IF rc = "ERROR" \/ w.error THEN Terminate(w, r)
  ELSE IF Unfinished(w, r) \/ (r = Main /\ w.buffered)
       THEN [w EXCEPT !.rq[r].write_event_handler = "writer"]
  ELSE IF r # Main THEN FinalizeSub(w, r)
  ELSE IF w.active # Main THEN w
  ELSE FinalizeConnection([w EXCEPT !.rq[r].done = TRUE,
                                    !.rq[r].write_event_handler = "empty"], fate)

-----------------------------------------------------------------------------
(* ngx_http_handler down to the content handler.  An upstream takes a      *)
(* reference of its own in ngx_http_read_client_request_body, which the    *)
(* NGX_DONE of its content handler gives back.                             *)
StartContent(w0, r, fate) ==
  LET w == [w0 EXCEPT !.rq[r].write_event_handler = "empty"]
      page == Page(r)
      taken == [w EXCEPT !.count = @ + 1]
      Sent(o) == Finalize(o, r, o.rc, fate)
  IN  CASE page.kind = "static" -> Once(Sent, OutputFilter(w, r, TRUE, page.items))
        [] page.kind = "upstream" ->
             FinalizeConnection([taken EXCEPT !.rq[r].write_event_handler = "content",
                                              !.rq[r].left = page.items], fate)
        [] page.kind = "failed" ->
             FinalizeConnection(Once(Sent, OutputFilter(taken, r, TRUE, page.items)), fate)

(* ngx_http_writer *)
Writer(w0, r, fate) ==
  LET Written(w) ==
        IF w.rc = "ERROR" THEN Finalize(w, r, "ERROR", fate)
        ELSE IF Unfinished(w, r) \/ (r = Main /\ w.buffered) THEN w
        ELSE Finalize([w EXCEPT !.rq[r].write_event_handler = "empty"], r, w.rc, fate)
  IN  Once(Written, OutputFilter(w0, r, FALSE, <<>>))

(* An upstream request whose client can be written to passes on what is    *)
(* buffered; what the upstream sends is an event of its own.               *)
Downstream(w0, r, fate) ==
  LET Written(w) == IF w.rc = "ERROR" THEN Finalize(w, r, "ERROR", fate) ELSE w
  IN  IF w0.buffered THEN Once(Written, OutputFilter(w0, r, FALSE, <<>>)) ELSE w0

WriteEventHandler(w, r, fate) ==
  LET h == w.rq[r].write_event_handler
  IN  CASE h = "handler" -> StartContent(w, r, fate)
        [] h = "content" -> Downstream(w, r, fate)
        [] h = "writer" -> Writer(w, r, fate)
        [] h = "finalizer" -> Finalize(w, r, "OK", fate)
        [] h = "terminate" -> CloseRequest([w EXCEPT !.count = 1])
        [] h = "empty" -> w

Fault(fail) == IF fail THEN faults < MaxFaults /\ faults' = faults + 1 ELSE UNCHANGED faults

(* A handler with what may happen to the client's socket meanwhile. *)
Handle(slow, Handler(_, _)) ==
  \E fail \in BOOLEAN, fate \in Fates :
    /\ Fault(fail)
    /\ \E w \in {Handler(World(slow, fail), fate)} : Commit(w)

(* ngx_http_run_posted_requests *)
RunPosted(slow) ==
  /\ conn = "open"
  /\ posted # <<>>
  /\ LET Run(w, fate) == WriteEventHandler([w EXCEPT !.posted = Tail(@)], Head(posted), fate)
     IN  Handle(slow, Run)

(* The client's socket can be written to: ngx_http_request_handler. *)
WriteEvent(slow) ==
  /\ conn = "open"
  /\ posted = <<>>
  /\ buffered
  /\ LET Run(w, fate) == WriteEventHandler(w, active, fate)
     IN  Handle(slow, Run)

(* The upstream of r delivers an item, or its answer is complete:          *)
(* ngx_http_upstream_finalize_request sends an empty last buffer.          *)
UpstreamEvent(r, slow) ==
  /\ conn = "open"
  /\ posted = <<>>
  /\ r \in DOMAIN rq
  /\ rq[r].write_event_handler = "content"
  /\ LET last == rq[r].left = <<>>
         items == IF last THEN <<>> ELSE <<Head(rq[r].left)>>
         rest == IF last THEN <<>> ELSE Tail(rq[r].left)
         Run(w, fate) ==
           LET Passed(o) ==
                 IF last \/ o.rc = "ERROR"
                 THEN Finalize([o EXCEPT !.rq[r].write_event_handler = "empty"], r, o.rc, fate)
                 ELSE o
           IN  Once(Passed, OutputFilter([w EXCEPT !.rq[r].left = rest], r, TRUE, items))
     IN  Handle(slow, Run)

(* The client closes or its timer runs out: ngx_http_test_reading,         *)
(* ngx_http_upstream_check_broken_connection, a timeout in ngx_http_writer.*)
ClientGone ==
  /\ conn = "open"
  /\ posted = <<>>
  /\ rq[active].write_event_handler \in {"writer", "content"}
  /\ faults < MaxFaults
  /\ faults' = faults + 1
  /\ Commit(Terminate([World(FALSE, FALSE) EXCEPT !.error = TRUE,
                                                  !.rq[active].write_event_handler = "empty"],
                      active))

(* ngx_http_lingering_close_handler *)
LingeringClose ==
  /\ conn = "lingering"
  /\ Commit(CloseRequest(World(FALSE, FALSE)))
  /\ UNCHANGED faults

-----------------------------------------------------------------------------
Init ==
  /\ site \in Sites
  /\ rq = <<NewRequest(NoReq, <<>>, FALSE)>>
  /\ active = Main
  /\ posted = <<Main>>
  /\ count = 1
  /\ subrequests = MaxSubrequests + 1
  /\ stream = <<>>
  /\ buffered = FALSE
  /\ error = FALSE
  /\ conn = "open"
  /\ faults = 0

Next ==
  \/ \E slow \in BOOLEAN : RunPosted(slow) \/ WriteEvent(slow)
  \/ \E r \in 1 .. MaxRequests, slow \in BOOLEAN : UpstreamEvent(r, slow)
  \/ ClientGone
  \/ LingeringClose

Spec == Init /\ [][Next]_vars

(* The worker runs what is posted, the upstreams answer, the client reads. *)
Fairness == /\ WF_vars(\E slow \in BOOLEAN : RunPosted(slow))
            /\ WF_vars(WriteEvent(FALSE))
            /\ \A r \in 1 .. MaxRequests : WF_vars(UpstreamEvent(r, FALSE))
            /\ WF_vars(LingeringClose)

FairSpec == Spec /\ Fairness

-----------------------------------------------------------------------------
(* Properties. *)

Handlers == {"handler", "content", "writer", "finalizer", "empty", "terminate"}

(* The types of the variables; the counter of subrequests that may still   *)
(* be made never reaches zero, and the count of references never goes      *)
(* below it, which it would if the request were used after it was freed.   *)
TypeOK ==
  /\ site \in Sites
  /\ subrequests \in 1 .. MaxSubrequests + 1
  /\ \A r \in DOMAIN rq : /\ rq[r].parent \in 0 .. r - 1
                          /\ rq[r].write_event_handler \in Handlers
                          /\ rq[r].wait \in 0 .. Len(rq)
                          /\ rq[r].made \in 0 .. Len(Page(r).items)
  /\ active \in DOMAIN rq
  /\ posted \in Seq(DOMAIN rq)
  /\ count \in Nat
  /\ buffered \in BOOLEAN
  /\ error \in BOOLEAN
  /\ conn \in {"open"} \cup Fates

(* The order of the places in the tree of pages. *)
Before(p, q) ==
  \E k \in DOMAIN p \cap DOMAIN q : p[k] < q[k] /\ SubSeq(p, 1, k - 1) = SubSeq(q, 1, k - 1)

(* The response is put together in the order of the pages, each included   *)
(* page in the place of its include, in whatever order the subrequests     *)
(* were answered, and nothing is sent twice.                               *)
InOrder ==
  \A i, j \in DOMAIN stream : i < j => Before(stream[i], stream[j])

Text(r, n) == Page(r).items[n] = "text"

(* A request that ends while the client is still there has sent every page *)
(* to its end.                                                             *)
NothingLost ==
  conn # "open" /\ ~error =>
    \A r \in DOMAIN rq :
      /\ rq[r].made = Len(Page(r).items)
      /\ \A n \in 1 .. Len(Page(r).items) :
           Text(r, n) => Append(rq[r].path, n) \in Range(stream)

(* The subrequests whose output is still to come: the active request and   *)
(* its ancestors, and what some request has postponed.                     *)
Live == {s \in DOMAIN rq \ {Main} :
           \/ IsPrefix(rq[s].path, rq[active].path)
           \/ \E r \in DOMAIN rq : \E k \in DOMAIN rq[r].postponed :
                rq[r].postponed[k].request = s}

(* The main request is referenced once for itself and once for each        *)
(* subrequest whose output is still to come: it is not freed under them    *)
(* and not kept when they are gone.  While it is being terminated it is    *)
(* still there.                                                            *)
CountExact ==
  /\ TypeOK
  /\ conn = "open" => IF rq[Main].write_event_handler = "terminate" THEN count >= 1
                      ELSE count = 1 + Cardinality(Live)

(* Every request comes to its end: no request waits for its turn, or for a *)
(* subrequest, after the one who should have woken it is gone.             *)
EveryRequestEnds == <>(conn \in {"keepalive", "closed"})

=============================================================================

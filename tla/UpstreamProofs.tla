--------------------------- MODULE UpstreamProofs ---------------------------
(***************************************************************************)
(* Theorems about Upstream, for any number of requests and connections and *)
(* any configuration.  The first part uses nothing of the balancer but     *)
(* what it returns ("OK" or "BUSY"): the connections are shared out right, *)
(* and the answers on them reach the right request, whichever servers it   *)
(* chooses.  The second part is about the servers it chooses.              *)
(*                                                                         *)
(* A handler transforms a world w, and O are the connections of the other  *)
(* requests.  Shares(w, O) is what every operator on worlds keeps.         *)
(***************************************************************************)
EXTENDS Upstream, Lemmas

ConnFields == {"open", "peer", "rx", "of", "answering", "ans", "eof"}
ReqFields == {"phase", "pd", "addr", "conn", "cached", "failed", "request_sent", "unsent",
              "header_sent", "keepalive", "close", "error", "seen"}

(* Nothing was sent on the connection that is not answered, and nothing    *)
(* came that was not read.                                                 *)
Idle(k) == k.rx = "none" /\ k.of = NoReq /\ ~k.answering /\ k.ans = <<>>

(* The slots of a cache have different connections, all of them open, none *)
(* of them used, and each idle.                                            *)
Caches(s, cs, used) ==
  /\ Holds(s, Range(s))
  /\ Len(s) <= conf.max_cached
  /\ \A e, f \in Range(s) : e.c = f.c => e = f
  /\ \A e \in Range(s) : /\ e.c \in Connections \ used
                         /\ cs[e.c].open
                         /\ ~conf.early => Idle(cs[e.c])
                         /\ ~conf.single => e.peer = cs[e.c].peer

ConnsOK(cs) == /\ DOMAIN cs = Connections
               /\ \A c \in Connections : DOMAIN cs[c] = ConnFields /\ cs[c].open \in BOOLEAN

(* The connection of a request, if it has one. *)
Uses(q, cs) ==
  /\ DOMAIN q = ReqFields
  /\ q.conn \in Connections \cup {NoConn}
  /\ q.conn # NoConn => /\ cs[q.conn].open
                        /\ ~conf.single => cs[q.conn].peer = q.addr

Shares(w, O) ==
  /\ DOMAIN w = {"rr", "cache", "conn", "q"}
  /\ ConnsOK(w.conn)
  /\ Caches(w.cache, w.conn, O \cup {w.q.conn})
  /\ Uses(w.q, w.conn)
  /\ O \subseteq Connections \ {w.q.conn}
  /\ \A c \in O : w.conn[c] = conn[c]
  /\ \A c \in Connections :
       w.conn[c].open => c \in O \cup {w.q.conn} \/ \E e \in Range(w.cache) : e.c = c

Others(r) == {req[x].conn : x \in Requests \ {r}} \ {NoConn}

(* What is on the wire of a request's connection, in each of its phases.   *)
(* A header that announces no body ends the answer.                        *)
Wire(r, phase, k) ==
  LET Full == k.rx = "full" /\ k.of = r
      Over == k.rx = "none" /\ k.of = NoReq /\ ~k.answering
  IN  /\ phase \in {"connecting", "send"} => Idle(k)
      /\ phase = "sending" => k.rx = "part" /\ k.of = r /\ ~k.answering /\ k.ans = <<>>
      /\ phase = "waiting" =>
           \/ Full /\ ~k.answering /\ k.ans = <<>>
           \/ Full /\ k.answering /\ \E m : k.ans = <<m>> /\ m.of = r /\ ~m.empty
           \/ Over /\ \E m : k.ans = <<m>> /\ m.of = r /\ m.empty
           \/ Over /\ \E m, n : k.ans = <<m, n>> /\ m.of = r /\ n.of = r /\ ~m.empty
      /\ phase = "body" =>
           \/ Full /\ k.answering /\ k.ans = <<>>
           \/ Over /\ \E n : k.ans = <<n>> /\ n.of = r

(* How far a request is. *)
Stage(r, q, cs) ==
  /\ q.phase \in Phases
  /\ q.conn = NoConn <=> q.phase \in {"new", "connect", "done"}
  /\ q.keepalive => q.phase = "connect" /\ q.request_sent
  /\ q.phase \in {"sending", "waiting", "body"} => q.request_sent
  /\ ~conf.early => /\ q.header_sent => q.phase = "body"
                    /\ q.phase \in {"waiting", "body"} => ~q.unsent
                    /\ q.conn # NoConn => Wire(r, q.phase, cs[q.conn])

Used == {req[r].conn : r \in Requests} \ {NoConn}

IInv ==
  /\ conf \in Configs
  /\ ConnsOK(conn)
  /\ DOMAIN req = Requests
  /\ Caches(cache, conn, Used)
  /\ \A r \in Requests : Uses(req[r], conn) /\ Stage(r, req[r], conn)
  /\ \A r, x \in Requests : req[r].conn = req[x].conn /\ r # x => req[r].conn = NoConn
  /\ \A c \in Connections : conn[c].open => c \in Used \/ \E e \in Range(cache) : e.c = c

-----------------------------------------------------------------------------
(* The records a handler works with. *)
LEMMA NewConn ==
  /\ DOMAIN Closed = ConnFields /\ Closed.open = FALSE
  /\ \A a : /\ DOMAIN Opened(a) = ConnFields /\ Opened(a).open = TRUE /\ Opened(a).peer = a
            /\ Idle(Opened(a))
BY DEF Closed, Opened, ConnFields, Idle

(* A request that is over, or has not begun. *)
LEMMA NewReq ==
  \A p : LET q == [NewRequest EXCEPT !.phase = p]
         IN  /\ DOMAIN q = ReqFields /\ q.conn = NoConn /\ q.phase = p /\ ~q.keepalive
             /\ ~q.header_sent /\ ~q.unsent /\ ~q.request_sent
BY DEF NewRequest, ReqFields

(* Two states of a request differ in the fields S only. *)
Agree(p, q, S) == \A f \in ReqFields \ S : p[f] = q[f]

(* The first elements of short sequences. *)
LEMMA Short ==
  ASSUME NEW m, NEW n
  PROVE  /\ Head(<<m>>) = m /\ Tail(<<m>>) = <<>> /\ <<m>> # <<>>
         /\ Head(<<m, n>>) = m /\ Tail(<<m, n>>) = <<n>> /\ <<m, n>> # <<>>
         /\ Append(<<>>, m) = <<m>> /\ Append(<<m>>, n) = <<m, n>>
         /\ DOMAIN <<m>> = {1} /\ DOMAIN <<m, n>> = {1, 2}
<1>1. Head(<<m>>) = m /\ <<m>> # <<>> /\ Head(<<m, n>>) = m /\ <<m, n>> # <<>>
  OBVIOUS
<1>2. Tail(<<m>>) = <<>>
  OBVIOUS
<1>3. Tail(<<m, n>>) = <<n>>
  OBVIOUS
<1>4. Append(<<>>, m) = <<m>>
  OBVIOUS
<1>5. Append(<<m>>, n) = <<m, n>>
  <2>1. <<m>> \in Seq({m, n}) /\ <<m, n>> \in Seq({m, n}) /\ Len(<<m>>) = 1 /\ Len(<<m, n>>) = 2
    OBVIOUS
  <2>2. /\ Append(<<m>>, n) \in Seq({m, n}) /\ Len(Append(<<m>>, n)) = 2
        /\ Append(<<m>>, n)[1] = m /\ Append(<<m>>, n)[2] = n
    BY <2>1, AppendProperties
  <2>3. \A i \in 1 .. 2 : Append(<<m>>, n)[i] = <<m, n>>[i]
    BY <2>2
  <2> QED BY <2>1, <2>2, <2>3, SeqEqual
<1>6. DOMAIN <<m>> = {1}
  OBVIOUS
<1>7. DOMAIN <<m, n>> = {1, 2}
  OBVIOUS
<1> QED BY <1>1, <1>2, <1>3, <1>4, <1>5, <1>6, <1>7

(* Closing the connection of the request. *)
LEMMA CloseOwnKeeps ==
  ASSUME NEW w, NEW O, Shares(w, O)
  PROVE  /\ Shares(CloseOwn(w), O)
         /\ CloseOwn(w).q.conn = NoConn
         /\ Agree(CloseOwn(w).q, w.q, {"conn"})
<1>1. CASE w.q.conn = NoConn
  BY <1>1 DEF CloseOwn, Agree
<1>2. CASE w.q.conn # NoConn
  <2>0. PICK c \in Connections : c = w.q.conn
    BY <1>2 DEF Shares, Uses
  <2> DEFINE cs == [w.conn EXCEPT ![c] = Closed]
             q == [w.q EXCEPT !.conn = NoConn]
             v == CloseOwn(w)
  <2>1. /\ DOMAIN v = DOMAIN w /\ v.conn = cs /\ v.cache = w.cache /\ v.q = q
    BY <1>2, <2>0 DEF CloseOwn, Close, Shares
  <2>2. /\ DOMAIN q = ReqFields /\ q.conn = NoConn /\ Agree(q, w.q, {"conn"})
    BY DEF Shares, Uses, ReqFields, Agree
  <2>3. /\ DOMAIN cs = Connections /\ cs[c] = Closed
        /\ \A d \in Connections : d # c => cs[d] = w.conn[d]
    BY DEF Shares, ConnsOK
  <2> HIDE DEF cs, q, v
  <2>4. ConnsOK(cs)
    BY <2>3, NewConn DEF Shares, ConnsOK
  <2>5. Caches(w.cache, cs, O \cup {NoConn})
    BY <2>0, <2>3, ConnectionsAssumption DEF Shares, Caches
  <2>6. O \subseteq Connections \ {NoConn, c} /\ \A d \in O : cs[d] = conn[d]
    BY <2>0, <2>3, ConnectionsAssumption DEF Shares
  <2>7. \A d \in Connections : cs[d].open => d \in O \/ \E e \in Range(w.cache) : e.c = d
    BY <2>0, <2>3, NewConn DEF Shares
  <2>8. Uses(q, cs)
    BY <2>2 DEF Uses
  <2>9. DOMAIN v = {"rr", "cache", "conn", "q"}
    BY <2>1 DEF Shares
  <2>10. Shares(v, O)
    BY <2>1, <2>2, <2>4, <2>5, <2>6, <2>7, <2>8, <2>9 DEF Shares
  <2> QED BY <2>1, <2>2, <2>10 DEF v
<1> QED BY <1>1, <1>2

-----------------------------------------------------------------------------
(* What a cache is after an entry was taken out or put in. *)
LEMMA CacheWithout ==
  ASSUME NEW s, NEW cs, NEW used, Caches(s, cs, used), NEW n \in DOMAIN s, conf \in Configs
  PROVE  /\ s[n] \in Range(s)
         /\ Range(RemoveAt(s, n)) = Range(s) \ {s[n]}
         /\ Holds(RemoveAt(s, n), Range(RemoveAt(s, n)))
         /\ Len(RemoveAt(s, n)) + 1 = Len(s)
<1>1. Holds(s, Range(s)) /\ s \in Seq(Range(s)) /\ n \in 1 .. Len(s)
  BY DEF Caches, Holds
<1>2. s[n] \in Range(s) /\ Holds(RemoveAt(s, n), Range(s) \ {s[n]})
  BY <1>1, HoldsRemoveAt
<1>3. Range(RemoveAt(s, n)) = Range(s) \ {s[n]}
  BY <1>2, HoldsLen
<1>4. Len(RemoveAt(s, n)) = Len(s) - 1 /\ Len(s) \in Nat
  BY <1>1, RemoveAtElements
<1> QED BY <1>2, <1>3, <1>4

(* The same for the last entry. *)
LEMMA CacheFront ==
  ASSUME NEW s, NEW cs, NEW used, Caches(s, cs, used), s # <<>>, conf \in Configs
  PROVE  /\ Last(s) \in Range(s)
         /\ Range(Front(s)) = Range(s) \ {Last(s)}
         /\ Holds(Front(s), Range(Front(s)))
         /\ Len(Front(s)) + 1 = Len(s)
<1>1. Holds(s, Range(s)) /\ s \in Seq(Range(s))
  BY DEF Caches, Holds
<1>2. Last(s) \in Range(s) /\ Holds(Front(s), Range(s) \ {Last(s)})
  BY <1>1, HoldsFront
<1>3. Range(Front(s)) = Range(s) \ {Last(s)}
  BY <1>2, HoldsLen
<1>4. Len(Front(s)) + 1 = Len(s)
  <2>1. /\ IsFiniteSet(Range(s)) /\ Len(s) = Cardinality(Range(s))
        /\ Len(Front(s)) = Cardinality(Range(s) \ {Last(s)})
    BY <1>1, <1>2, HoldsLen
  <2>2. Cardinality(Range(s) \ {Last(s)}) = Cardinality(Range(s)) - 1
    BY <1>2, <2>1, FS_RemoveElement
  <2>3. Cardinality(Range(s)) \in Nat
    BY <2>1, FS_CardinalityType
  <2> QED BY <2>1, <2>2, <2>3
<1> QED BY <1>2, <1>3, <1>4

(* An entry for another connection is put at the head. *)
LEMMA CacheWith ==
  ASSUME NEW s, Holds(s, Range(s)), NEW e, e \notin Range(s)
  PROVE  /\ Range(<<e>> \o s) = Range(s) \cup {e}
         /\ Holds(<<e>> \o s, Range(<<e>> \o s))
         /\ Len(<<e>> \o s) = Len(s) + 1
<1>1. Holds(<<e>> \o s, Range(s) \cup {e})
  BY HoldsInsert
<1>2. Range(<<e>> \o s) = Range(s) \cup {e}
  BY <1>1, HoldsLen
<1>3. s \in Seq(Range(s) \cup {e}) /\ <<e>> \in Seq(Range(s) \cup {e}) /\ Len(<<e>>) = 1
  <2>1. s \in Seq(Range(s)) /\ Range(s) \subseteq Range(s) \cup {e}
    BY DEF Holds
  <2> QED BY <2>1
<1>4. Len(<<e>> \o s) = Len(s) + 1
  BY <1>3
<1> QED BY <1>1, <1>2, <1>4

(* ngx_http_upstream_free_keepalive_peer makes room in a full cache. *)
Kept(w) == IF Len(w.cache) = conf.max_cached THEN Front(w.cache) ELSE w.cache
Evicted(w) == IF Len(w.cache) = conf.max_cached THEN Close(w, Last(w.cache).c) ELSE w

Room(w, O, c, kept, v) ==
  /\ DOMAIN v = {"rr", "cache", "conn", "q"} /\ v.q = w.q
  /\ ConnsOK(v.conn)
  /\ Caches(kept, v.conn, O \cup {c})
  /\ Len(kept) + 1 <= conf.max_cached
  /\ v.conn[c] = w.conn[c]
  /\ \A d \in O : v.conn[d] = conn[d]
  /\ \A d \in Connections :
       v.conn[d].open => d \in O \cup {c} \/ \E e \in Range(kept) : e.c = d

(* What is left is a cache with room for one. *)
LEMMA Evicts ==
  ASSUME NEW w, NEW O, Shares(w, O), conf \in Configs, NEW c \in Connections, c = w.q.conn,
         conf.max_cached > 0, NEW kept, kept = Kept(w), NEW v, v = Evicted(w)
  PROVE  Room(w, O, c, kept, v)
<1>1. conf.max_cached \in Nat /\ Len(w.cache) \in Nat /\ Len(w.cache) <= conf.max_cached
  <2>1. w.cache \in Seq(Range(w.cache))
    BY DEF Shares, Caches, Holds
  <2> QED BY <2>1, ConfigsAssumption DEF Shares, Caches
<1>2. CASE Len(w.cache) # conf.max_cached
  <2>1. v = w /\ kept = w.cache
    BY <1>2 DEF Kept, Evicted
  <2>2. Len(kept) + 1 <= conf.max_cached
    BY <1>1, <1>2, <2>1
  <2> QED BY <2>1, <2>2 DEF Shares, Room
<1>3. CASE Len(w.cache) = conf.max_cached
  <2>1. w.cache # <<>>
    <3> SUFFICES ASSUME w.cache = <<>> PROVE FALSE
      OBVIOUS
    <3>1. Len(w.cache) = 0
      OBVIOUS
    <3> QED BY <1>1, <1>3, <3>1
  <2>2. PICK x : x = Last(w.cache)
    OBVIOUS
  <2>3. Caches(w.cache, w.conn, O \cup {c})
    BY DEF Shares
  <2>4. /\ x \in Range(w.cache)
        /\ Range(kept) = Range(w.cache) \ {x}
        /\ Holds(kept, Range(kept))
        /\ Len(kept) + 1 = Len(w.cache)
    BY <1>3, <2>1, <2>2, <2>3, CacheFront DEF Kept
  <2>5. x.c \in Connections \ (O \cup {c})
    BY <2>3, <2>4 DEF Caches
  <2>6. DOMAIN v = {"rr", "cache", "conn", "q"} /\ v.q = w.q /\ v.conn = [w.conn EXCEPT ![x.c] = Closed]
    BY <1>3, <2>2 DEF Evicted, Close, Shares
  <2>7. /\ DOMAIN v.conn = Connections /\ v.conn[x.c] = Closed
        /\ \A d \in Connections : d # x.c => v.conn[d] = w.conn[d]
    BY <2>5, <2>6 DEF Shares, ConnsOK
  <2>8. ConnsOK(v.conn)
    BY <2>7, NewConn DEF Shares, ConnsOK
  <2>9. \A e \in Range(kept) : e \in Range(w.cache) /\ e.c # x.c
    BY <2>3, <2>4 DEF Caches
  <2>10. Len(kept) <= conf.max_cached /\ Len(kept) + 1 <= conf.max_cached
    <3>1. kept \in Seq(Range(kept))
      BY <2>4 DEF Holds
    <3> QED BY <1>1, <2>4, <3>1
  <2>11. Caches(kept, v.conn, O \cup {c})
    BY <2>3, <2>4, <2>7, <2>9, <2>10 DEF Caches
  <2>12. \A d \in O : v.conn[d] = conn[d]
    BY <2>5, <2>7 DEF Shares
  <2>13. ASSUME NEW d \in Connections, v.conn[d].open
         PROVE  d \in O \cup {c} \/ \E e \in Range(kept) : e.c = d
    <3>1. d # x.c /\ w.conn[d].open
      BY <2>7, <2>13, NewConn
    <3>2. d \in O \cup {c} \/ \E e \in Range(w.cache) : e.c = d
      BY <3>1 DEF Shares
    <3> QED BY <2>4, <3>1, <3>2
  <2> QED BY <2>5, <2>6, <2>7, <2>8, <2>10, <2>11, <2>12, <2>13 DEF Room
<1> QED BY <1>2, <1>3

(* ngx_http_upstream_free_keepalive_peer puts the connection into the      *)
(* cache: one that is idle, or it is closed at once.                       *)
LEMMA SaveKeeps ==
  ASSUME NEW w, NEW O, NEW flag, Shares(w, O), conf \in Configs, Savable(w, flag),
         ~conf.early => Idle(w.conn[w.q.conn])
  PROVE  /\ Shares(Save(w, flag), O)
         /\ Save(w, flag).q.conn = NoConn
         /\ Agree(Save(w, flag).q, w.q, {"conn"})
<1>0. PICK c \in Connections : c = w.q.conn
  BY DEF Savable, Shares, Uses
<1>1. PICK kept : kept = Kept(w)
  OBVIOUS
<1>2. PICK u : u = Evicted(w)
  OBVIOUS
<1>3. /\ DOMAIN u = {"rr", "cache", "conn", "q"} /\ u.q = w.q
      /\ ConnsOK(u.conn)
      /\ Caches(kept, u.conn, O \cup {c})
      /\ Len(kept) + 1 <= conf.max_cached
      /\ u.conn[c] = w.conn[c]
      /\ \A d \in O : u.conn[d] = conn[d]
      /\ \A d \in Connections :
           u.conn[d].open => d \in O \cup {c} \/ \E e \in Range(kept) : e.c = d
  <2>1. conf.max_cached > 0
    BY DEF Savable
  <2>2. Room(w, O, c, kept, u)
    BY <1>0, <1>1, <1>2, <2>1, Evicts
  <2> QED BY <2>2 DEF Room
<1> DEFINE q == [w.q EXCEPT !.conn = NoConn]
<1>4. DOMAIN q = ReqFields /\ q.conn = NoConn /\ Agree(q, w.q, {"conn"})
  BY DEF Shares, Uses, ReqFields, Agree
<1>5. O \subseteq Connections \ {NoConn, c} /\ NoConn \notin Connections
  BY <1>0, ConnectionsAssumption DEF Shares
<1>6. PICK x : x = [c |-> c, peer |-> w.q.addr]
  OBVIOUS
<1>7. x.c = c /\ x.peer = w.q.addr
  BY <1>6
<1>8. \/ Save(w, flag) = [Close(u, c) EXCEPT !.cache = kept, !.q.conn = NoConn]
      \/ Save(w, flag) = [u EXCEPT !.cache = <<x>> \o kept, !.q.conn = NoConn]
  BY <1>0, <1>1, <1>2, <1>6, Zenon DEF Save, Kept, Evicted
<1>9. CASE Save(w, flag) = [Close(u, c) EXCEPT !.cache = kept, !.q.conn = NoConn]
  <2>1. PICK v : v = Save(w, flag)
    OBVIOUS
  <2> DEFINE cs == [u.conn EXCEPT ![c] = Closed]
  <2>2. DOMAIN v = {"rr", "cache", "conn", "q"} /\ v.conn = cs /\ v.cache = kept /\ v.q = q
    BY <1>3, <1>9, <2>1 DEF Close
  <2>3. /\ DOMAIN cs = Connections /\ cs[c] = Closed
        /\ \A d \in Connections : d # c => cs[d] = u.conn[d]
    BY <1>3 DEF ConnsOK
  <2> HIDE DEF cs, q
  <2>4. ConnsOK(cs)
    BY <1>3, <2>3, NewConn DEF ConnsOK
  <2>5. Caches(kept, cs, O \cup {NoConn})
    BY <1>3, <1>5, <2>3 DEF Caches
  <2>6. \A d \in O : cs[d] = conn[d]
    BY <1>3, <1>5, <2>3
  <2>7. \A d \in Connections : cs[d].open => d \in O \/ \E e \in Range(kept) : e.c = d
    BY <1>3, <2>3, NewConn
  <2>8. Uses(q, cs)
    BY <1>4 DEF Uses
  <2>9. Shares(v, O)
    BY <1>4, <1>5, <2>2, <2>4, <2>5, <2>6, <2>7, <2>8 DEF Shares
  <2> QED BY <1>4, <2>1, <2>2, <2>9
<1>10. CASE Save(w, flag) = [u EXCEPT !.cache = <<x>> \o kept, !.q.conn = NoConn]
  <2>1. PICK v : v = Save(w, flag)
    OBVIOUS
  <2>2. PICK s : s = <<x>> \o kept
    OBVIOUS
  <2>3. DOMAIN v = {"rr", "cache", "conn", "q"} /\ v.conn = u.conn /\ v.cache = s /\ v.q = q
    BY <1>3, <1>10, <2>1, <2>2
  <2> HIDE DEF q
  <2>4. \A e \in Range(kept) : e.c # c
    BY <1>3 DEF Caches
  <2>5. Holds(kept, Range(kept)) /\ x \notin Range(kept)
    BY <1>3, <1>7, <2>4 DEF Caches
  <2>6. Range(s) = Range(kept) \cup {x} /\ Holds(s, Range(s)) /\ Len(s) = Len(kept) + 1
    BY <2>2, <2>5, CacheWith
  <2>7. /\ u.conn[c].open
        /\ ~conf.early => Idle(u.conn[c])
        /\ ~conf.single => w.q.addr = u.conn[c].peer
    BY <1>0, <1>3, <1>5 DEF Shares, Uses
  <2>8. Caches(s, u.conn, O \cup {NoConn})
    <3>1. \A e, f \in Range(s) : e.c = f.c => e = f
      BY <1>3, <1>7, <2>4, <2>6 DEF Caches
    <3>2. ASSUME NEW e \in Range(s)
          PROVE  /\ e.c \in Connections \ (O \cup {NoConn})
                 /\ u.conn[e.c].open
                 /\ ~conf.early => Idle(u.conn[e.c])
                 /\ ~conf.single => e.peer = u.conn[e.c].peer
      <4>1. CASE e = x
        BY <1>5, <1>7, <2>7, <4>1
      <4>2. CASE e \in Range(kept)
        BY <1>3, <1>5, <4>2 DEF Caches
      <4> QED BY <2>6, <4>1, <4>2
    <3> QED BY <1>3, <2>6, <3>1, <3>2 DEF Caches
  <2>9. \A d \in Connections : u.conn[d].open => d \in O \/ \E e \in Range(s) : e.c = d
    BY <1>3, <1>7, <2>6
  <2>10. Uses(q, u.conn)
    BY <1>4 DEF Uses
  <2>11. Shares(v, O)
    BY <1>3, <1>4, <1>5, <2>3, <2>8, <2>9, <2>10 DEF Shares
  <2> QED BY <1>4, <2>1, <2>3, <2>11
<1> QED BY <1>8, <1>9, <1>10

(* What a handler changes of its request besides the connection. *)
LEMMA TouchKeeps ==
  ASSUME NEW w, NEW O, Shares(w, O), NEW v, DOMAIN v = DOMAIN w, v.conn = w.conn,
         v.cache = w.cache, DOMAIN v.q = ReqFields, v.q.conn = w.q.conn,
         v.q.conn # NoConn => v.q.addr = w.q.addr
  PROVE  Shares(v, O)
BY DEF Shares, Uses

(* The connection of a request whose answer was read to its end is idle. *)
Keepable(w) ==
  ~conf.early /\ w.q.keepalive /\ w.q.conn # NoConn => Idle(w.conn[w.q.conn])

(* peer.free: the connection is kept by the request, or goes to the cache. *)
LEMMA FreeKeeps ==
  ASSUME NEW w, NEW O, NEW state, NEW flag, Shares(w, O), conf \in Configs, Keepable(w)
  PROVE  /\ Shares(Free(w, state, flag), O)
         /\ Keepable(Free(w, state, flag))
         /\ Agree(Free(w, state, flag).q, w.q, {"failed", "pd", "conn"})
<1>1. PICK u : u = [w EXCEPT !.q.failed = @ \/ state = "FAILED"]
  OBVIOUS
<1>2. PICK t : t = IF Savable(u, flag) THEN Save(u, flag) ELSE u
  OBVIOUS
<1>3. PICK f : f = FreeRoundRobinPeer(conf.groups, t.rr, t.q.pd, state)
  OBVIOUS
<1>4. PICK v : v = [t EXCEPT !.rr = f.rr, !.q.pd = f.pd]
  OBVIOUS
<1>5. Free(w, state, flag) = v
  BY <1>1, <1>2, <1>3, <1>4, Zenon DEF Free
<1>6. Shares(u, O) /\ Agree(u.q, w.q, {"failed"})
  <2>1. PICK b : b = (w.q.failed \/ state = "FAILED")
    OBVIOUS
  <2>2. u = [w EXCEPT !.q.failed = b]
    BY <1>1, <2>1, Zenon
  <2>3. DOMAIN w = {"rr", "cache", "conn", "q"} /\ DOMAIN w.q = ReqFields
    BY DEF Shares, Uses
  <2>4. /\ DOMAIN u = DOMAIN w /\ u.conn = w.conn /\ u.cache = w.cache
        /\ DOMAIN u.q = ReqFields /\ u.q.conn = w.q.conn /\ u.q.addr = w.q.addr
        /\ Agree(u.q, w.q, {"failed"})
    BY <2>2, <2>3 DEF ReqFields, Agree
  <2> QED BY <2>4, TouchKeeps
<1>7. Shares(t, O) /\ Keepable(t) /\ Agree(t.q, w.q, {"failed", "conn"})
  <2>1. u.q.keepalive = w.q.keepalive /\ u.q.conn = w.q.conn /\ u.conn = w.conn
    BY <1>1, <1>6 DEF Agree, ReqFields, Shares
  <2>2. CASE ~Savable(u, flag)
    BY <1>2, <1>6, <2>1, <2>2 DEF Agree, Keepable
  <2>3. CASE Savable(u, flag)
    <3>1. ~conf.early => Idle(u.conn[u.q.conn])
      BY <2>1, <2>3 DEF Savable, Keepable
    <3>2. /\ Shares(Save(u, flag), O) /\ Save(u, flag).q.conn = NoConn
          /\ Agree(Save(u, flag).q, u.q, {"conn"})
      BY <1>6, <2>3, <3>1, SaveKeeps
    <3>3. Shares(t, O) /\ t.q.conn = NoConn /\ Agree(t.q, u.q, {"conn"})
      BY <1>2, <2>3, <3>2
    <3> QED BY <1>6, <3>3 DEF Agree, Keepable
  <2> QED BY <2>2, <2>3
<1>8. DOMAIN t = {"rr", "cache", "conn", "q"} /\ DOMAIN t.q = ReqFields
  BY <1>7 DEF Shares, Uses
<1>9. /\ DOMAIN v = DOMAIN t /\ v.conn = t.conn /\ v.cache = t.cache
      /\ DOMAIN v.q = ReqFields /\ v.q.conn = t.q.conn /\ v.q.addr = t.q.addr
      /\ Agree(v.q, t.q, {"pd"})
  BY <1>4, <1>8 DEF ReqFields, Agree
<1>10. Shares(v, O)
  BY <1>7, <1>9, TouchKeeps
<1>11. Agree(v.q, w.q, {"failed", "pd", "conn"}) /\ Keepable(v)
  BY <1>7, <1>9 DEF Agree, Keepable, ReqFields
<1> QED BY <1>5, <1>10, <1>11

(* ngx_http_upstream_finalize_request leaves nothing behind. *)
LEMMA FinalizeKeeps ==
  ASSUME NEW w, NEW O, NEW flag, Shares(w, O), conf \in Configs, Keepable(w)
  PROVE  /\ Shares(Finalize(w, flag), O)
         /\ Finalize(w, flag).q = [NewRequest EXCEPT !.phase = "done"]
<1>1. PICK u : u = Free(w, "0", flag)
  OBVIOUS
<1>2. Shares(u, O)
  BY <1>1, FreeKeeps
<1>3. PICK t : t = CloseOwn(u)
  OBVIOUS
<1>4. Shares(t, O) /\ t.q.conn = NoConn
  BY <1>2, <1>3, CloseOwnKeeps
<1>5. PICK q : q = [NewRequest EXCEPT !.phase = "done"]
  OBVIOUS
<1>6. DOMAIN q = ReqFields /\ q.conn = NoConn
  BY <1>5, NewReq
<1>7. PICK v : v = [t EXCEPT !.q = q]
  OBVIOUS
<1>8. Finalize(w, flag) = v
  BY <1>1, <1>3, <1>5, <1>7 DEF Finalize
<1>9. /\ DOMAIN v = DOMAIN t /\ v.conn = t.conn /\ v.cache = t.cache /\ v.q = q
  BY <1>4, <1>7 DEF Shares
<1>10. Shares(v, O)
  BY <1>4, <1>6, <1>9, TouchKeeps
<1> QED BY <1>5, <1>8, <1>9, <1>10

(* The request is over, or tries again. *)
Ended(v) == v.q = [NewRequest EXCEPT !.phase = "done"]

TriesAgain(v, w) == /\ v.q.phase = "connect" /\ v.q.conn = NoConn
                    /\ Agree(v.q, w.q, {"failed", "pd", "conn", "phase"})

(* ngx_http_upstream_next *)
LEMMA NextKeeps ==
  ASSUME NEW w, NEW O, NEW ft, NEW flag, Shares(w, O), conf \in Configs, Keepable(w)
  PROVE  /\ Shares(AfterNext(w, ft, flag), O)
         /\ Ended(AfterNext(w, ft, flag)) \/ TriesAgain(AfterNext(w, ft, flag), w)
<1>0. PICK state : state = IF ft = "http_404" THEN "NEXT" ELSE "FAILED"
  OBVIOUS
<1>1. PICK u : u = IF ft = "nolive" THEN w ELSE Free(w, state, flag)
  OBVIOUS
<1>2. PICK t : t = IF u.q.cached /\ ft = "error" THEN [u EXCEPT !.q.pd.tries = @ + 1] ELSE u
  OBVIOUS
<1>3. PICK v : v = [CloseOwn(t) EXCEPT !.q.phase = "connect"]
  OBVIOUS
<1>4. AfterNext(w, ft, flag) = Finalize(t, flag) \/ AfterNext(w, ft, flag) = v
  BY <1>0, <1>1, <1>2, <1>3, Zenon DEF AfterNext
<1>5. Shares(u, O) /\ Keepable(u) /\ Agree(u.q, w.q, {"failed", "pd", "conn"})
  <2>1. CASE ft = "nolive"
    BY <1>1, <2>1 DEF Agree
  <2>2. CASE ft # "nolive"
    BY <1>1, <2>2, FreeKeeps
  <2> QED BY <2>1, <2>2
<1>6. Shares(t, O) /\ Keepable(t) /\ Agree(t.q, w.q, {"failed", "pd", "conn"})
  <2>1. CASE t = u
    BY <1>5, <2>1
  <2>2. CASE t = [u EXCEPT !.q.pd.tries = @ + 1]
    <3>1. DOMAIN u = {"rr", "cache", "conn", "q"} /\ DOMAIN u.q = ReqFields
      BY <1>5 DEF Shares, Uses
    <3>2. PICK p : p = [u.q.pd EXCEPT !.tries = @ + 1]
      OBVIOUS
    <3>3. t = [u EXCEPT !.q.pd = p]
      BY <2>2, <3>2
    <3>4. /\ DOMAIN t = DOMAIN u /\ t.conn = u.conn /\ t.cache = u.cache
          /\ DOMAIN t.q = ReqFields /\ t.q.conn = u.q.conn /\ t.q.addr = u.q.addr
          /\ t.q.keepalive = u.q.keepalive
          /\ Agree(t.q, u.q, {"pd"})
      BY <3>1, <3>3 DEF ReqFields, Agree
    <3>5. Shares(t, O)
      BY <1>5, <3>4, TouchKeeps
    <3> QED BY <1>5, <3>4, <3>5 DEF Keepable, Agree
  <2> QED BY <1>2, <2>1, <2>2
<1>7. PICK x : x = CloseOwn(t)
  OBVIOUS
<1>8. Shares(x, O) /\ x.q.conn = NoConn /\ Agree(x.q, t.q, {"conn"})
  BY <1>6, <1>7, CloseOwnKeeps
<1>9. DOMAIN x = {"rr", "cache", "conn", "q"} /\ DOMAIN x.q = ReqFields
  BY <1>8 DEF Shares, Uses
<1>10. /\ DOMAIN v = DOMAIN x /\ v.conn = x.conn /\ v.cache = x.cache
       /\ DOMAIN v.q = ReqFields /\ v.q.conn = NoConn /\ v.q.phase = "connect"
       /\ Agree(v.q, x.q, {"phase"})
  BY <1>3, <1>7, <1>8, <1>9 DEF ReqFields, Agree
<1>11. Shares(v, O)
  BY <1>8, <1>10, TouchKeeps
<1>12. TriesAgain(v, w)
  BY <1>6, <1>8, <1>10 DEF Agree, TriesAgain
<1>13. Shares(Finalize(t, flag), O) /\ Ended(Finalize(t, flag))
  BY <1>6, FinalizeKeeps DEF Ended
<1> QED BY <1>4, <1>11, <1>12, <1>13

-----------------------------------------------------------------------------
(* The balancer offers a server or none. *)
LEMMA BalancerOffers ==
  ASSUME NEW rs, NEW pd
  PROVE  GetRoundRobinPeer(conf.groups, rs, pd).rc \in {"OK", "BUSY"}
<1>1. ASSUME NEW a, NEW p
      PROVE  GetInGroup(conf.groups, a, p).rc \in {"OK", "BUSY"}
  BY DEF GetInGroup
<1> QED BY <1>1 DEF GetRoundRobinPeer

(* What peer.get may change of a request. *)
Got == {"failed", "pd", "cached", "conn", "addr", "seen"}

(* The balancer alone gives no connection. *)
LEMMA BalancerKeeps ==
  ASSUME NEW w, NEW O, Shares(w, O), w.q.conn = NoConn
  PROVE  LET g == BalancerGet(w)
         IN  /\ g.rc \in {"OK", "BUSY"}
             /\ Shares(g.w, O) /\ g.w.q.conn = NoConn /\ g.w.conn = w.conn
             /\ g.w.cache = w.cache /\ Agree(g.w.q, w.q, Got)
<1>1. PICK b : b = GetRoundRobinPeer(conf.groups, w.rr, w.q.pd)
  OBVIOUS
<1>2. b.rc \in {"OK", "BUSY"}
  BY <1>1, BalancerOffers
<1>3. PICK a : a = IF b.rc = "OK" THEN <<b.pd.group, b.pd.current>> ELSE w.q.addr
  OBVIOUS
<1>4. PICK n : n = w.q.seen \cup {a}
  OBVIOUS
<1>5. PICK v : v = [w EXCEPT !.rr = b.rr, !.q.pd = b.pd, !.q.cached = FALSE,
                             !.q.conn = NoConn, !.q.addr = a, !.q.seen = n]
  OBVIOUS
<1>6. BalancerGet(w).rc = b.rc /\ BalancerGet(w).w = v
  BY <1>1, <1>3, <1>4, <1>5 DEF BalancerGet
<1>7. DOMAIN w = {"rr", "cache", "conn", "q"} /\ DOMAIN w.q = ReqFields
  BY DEF Shares, Uses
<1>8. /\ DOMAIN v = DOMAIN w /\ v.conn = w.conn /\ v.cache = w.cache
      /\ DOMAIN v.q = ReqFields /\ v.q.conn = NoConn
      /\ Agree(v.q, w.q, Got)
  BY <1>5, <1>7 DEF ReqFields, Agree, Got
<1>9. Shares(v, O)
  BY <1>8, TouchKeeps
<1> QED BY <1>2, <1>6, <1>8, <1>9

(* An idle connection is taken out of the cache for the request. *)
LEMMA TakeKeeps ==
  ASSUME NEW w, NEW O, Shares(w, O), conf \in Configs, w.q.conn = NoConn,
         NEW k \in DOMAIN w.cache, ~conf.single => w.cache[k].peer = w.q.addr
  PROVE  LET g == TakeCached(w, k)
         IN  /\ g.rc = "DONE"
             /\ Shares(g.w, O) /\ g.w.q.conn \in Connections /\ g.w.conn = w.conn
             /\ ~conf.early => Idle(g.w.conn[g.w.q.conn])
             /\ Agree(g.w.q, w.q, Got)
<1>1. PICK x : x = w.cache[k]
  OBVIOUS
<1>2. PICK s : s = RemoveAt(w.cache, k)
  OBVIOUS
<1>3. PICK v : v = [w EXCEPT !.cache = s, !.q.conn = x.c, !.q.cached = TRUE]
  OBVIOUS
<1>4. TakeCached(w, k).rc = "DONE" /\ TakeCached(w, k).w = v
  BY <1>1, <1>2, <1>3 DEF TakeCached
<1>5. DOMAIN w = {"rr", "cache", "conn", "q"} /\ DOMAIN w.q = ReqFields
  BY DEF Shares, Uses
<1>6. /\ DOMAIN v = DOMAIN w /\ v.conn = w.conn /\ v.cache = s
      /\ DOMAIN v.q = ReqFields /\ v.q.conn = x.c /\ v.q.addr = w.q.addr
      /\ Agree(v.q, w.q, Got)
  BY <1>3, <1>5 DEF ReqFields, Agree, Got
<1>7. Caches(w.cache, w.conn, O \cup {NoConn})
  BY DEF Shares
<1>8. /\ x \in Range(w.cache)
      /\ Range(s) = Range(w.cache) \ {x}
      /\ Holds(s, Range(s))
      /\ Len(s) + 1 = Len(w.cache)
  BY <1>1, <1>2, <1>7, CacheWithout
<1>9. /\ x.c \in Connections \ O /\ w.conn[x.c].open
      /\ ~conf.early => Idle(w.conn[x.c])
      /\ ~conf.single => w.conn[x.c].peer = w.q.addr
  BY <1>1, <1>7, <1>8 DEF Caches
<1>10. \A e \in Range(s) : e \in Range(w.cache) /\ e.c # x.c
  BY <1>7, <1>8 DEF Caches
<1>11. Len(s) <= conf.max_cached
  <2>1. s \in Seq(Range(s)) /\ w.cache \in Seq(Range(w.cache))
    BY <1>7, <1>8 DEF Caches, Holds
  <2>2. Len(s) \in Nat /\ Len(w.cache) \in Nat /\ conf.max_cached \in Nat
    BY <2>1, ConfigsAssumption
  <2> QED BY <1>7, <1>8, <2>2 DEF Caches
<1>12. Caches(s, w.conn, O \cup {x.c})
  BY <1>7, <1>8, <1>10, <1>11 DEF Caches
<1>13. \A c \in Connections :
         w.conn[c].open => c \in O \cup {x.c} \/ \E e \in Range(s) : e.c = c
  <2>1. NoConn \notin Connections
    BY ConnectionsAssumption
  <2> QED BY <1>8, <2>1 DEF Shares
<1>14. Uses(v.q, w.conn)
  BY <1>6, <1>9 DEF Uses
<1>15. Shares(v, O)
  BY <1>5, <1>6, <1>9, <1>12, <1>13, <1>14 DEF Shares
<1> QED BY <1>4, <1>6, <1>9, <1>15

(* ngx_http_upstream_get_keepalive_peer: an idle connection, or an address *)
(* to connect to, or nothing.                                              *)
LEMMA GetKeeps ==
  ASSUME NEW w, NEW O, Shares(w, O), conf \in Configs, w.q.conn = NoConn
  PROVE  LET g == KeepaliveGet(w)
         IN  /\ Shares(g.w, O) /\ g.w.conn = w.conn /\ Agree(g.w.q, w.q, Got)
             /\ \/ g.rc \in {"OK", "BUSY"} /\ g.w.q.conn = NoConn
                \/ /\ g.rc = "DONE" /\ g.w.q.conn \in Connections
                   /\ ~conf.early => Idle(g.w.conn[g.w.q.conn])
<1>1. PICK u : u = [w EXCEPT !.q.failed = FALSE]
  OBVIOUS
<1>2. Shares(u, O) /\ u.q.conn = NoConn /\ u.conn = w.conn /\ Agree(u.q, w.q, {"failed"})
  <2>1. DOMAIN w = {"rr", "cache", "conn", "q"} /\ DOMAIN w.q = ReqFields
    BY DEF Shares, Uses
  <2>2. /\ DOMAIN u = DOMAIN w /\ u.conn = w.conn /\ u.cache = w.cache
        /\ DOMAIN u.q = ReqFields /\ u.q.conn = NoConn
        /\ Agree(u.q, w.q, {"failed"})
    BY <1>1, <2>1 DEF ReqFields, Agree
  <2> QED BY <2>2, TouchKeeps
<1>3. PICK b : b = BalancerGet(u)
  OBVIOUS
<1>4. /\ b.rc \in {"OK", "BUSY"}
      /\ Shares(b.w, O) /\ b.w.q.conn = NoConn /\ b.w.conn = w.conn
      /\ b.w.cache = u.cache /\ Agree(b.w.q, w.q, Got)
  <2>1. /\ b.rc \in {"OK", "BUSY"}
        /\ Shares(b.w, O) /\ b.w.q.conn = NoConn /\ b.w.conn = u.conn
        /\ b.w.cache = u.cache /\ Agree(b.w.q, u.q, Got)
    BY <1>2, <1>3, BalancerKeeps
  <2> QED BY <1>2, <2>1 DEF Agree, Got
<1>5. PICK fit : fit = {k \in DOMAIN u.cache : u.cache[k].peer = b.w.q.addr}
  OBVIOUS
<1>6. \/ conf.single /\ u.cache # <<>> /\ KeepaliveGet(w) = TakeCached(u, 1)
      \/ KeepaliveGet(w) = b
      \/ fit # {} /\ KeepaliveGet(w) = TakeCached(b.w, Min(fit))
  BY <1>1, <1>3, <1>5, Zenon DEF KeepaliveGet
<1>7. u.cache \in Seq(Range(u.cache)) /\ DOMAIN u.cache = 1 .. Len(u.cache) /\ Len(u.cache) \in Nat
  <2>1. u.cache \in Seq(Range(u.cache))
    BY <1>2 DEF Shares, Caches, Holds
  <2> QED BY <2>1
<1>8. CASE conf.single /\ u.cache # <<>> /\ KeepaliveGet(w) = TakeCached(u, 1)
  <2>1. 1 \in DOMAIN u.cache
    BY <1>7, <1>8, EmptySeq
  <2>2. PICK g : g = TakeCached(u, 1)
    OBVIOUS
  <2>3. /\ g.rc = "DONE"
        /\ Shares(g.w, O) /\ g.w.q.conn \in Connections /\ g.w.conn = u.conn
        /\ ~conf.early => Idle(g.w.conn[g.w.q.conn])
        /\ Agree(g.w.q, u.q, Got)
    BY <1>2, <1>8, <2>1, <2>2, TakeKeeps
  <2>4. Agree(g.w.q, w.q, Got)
    BY <1>2, <2>3 DEF Agree, Got
  <2> QED BY <1>2, <1>8, <2>2, <2>3, <2>4
<1>9. CASE KeepaliveGet(w) = b
  BY <1>4, <1>9
<1>10. CASE fit # {} /\ KeepaliveGet(w) = TakeCached(b.w, Min(fit))
  <2>1. Min(fit) \in fit
    <3>1. fit \in SUBSET Nat
      BY <1>5, <1>7
    <3> QED BY <1>10, <3>1, MinIn
  <2>2. PICK k : k = Min(fit)
    OBVIOUS
  <2>3. k \in DOMAIN b.w.cache /\ b.w.cache[k].peer = b.w.q.addr
    BY <1>4, <1>5, <2>1, <2>2
  <2>4. PICK g : g = TakeCached(b.w, k)
    OBVIOUS
  <2>5. /\ g.rc = "DONE"
        /\ Shares(g.w, O) /\ g.w.q.conn \in Connections /\ g.w.conn = b.w.conn
        /\ ~conf.early => Idle(g.w.conn[g.w.q.conn])
        /\ Agree(g.w.q, b.w.q, Got)
    BY <1>4, <2>3, <2>4, TakeKeeps
  <2>6. Agree(g.w.q, w.q, Got)
    BY <1>4, <2>5 DEF Agree
  <2>7. KeepaliveGet(w) = g
    BY <1>10, <2>2, <2>4
  <2> QED BY <1>4, <2>5, <2>6, <2>7
<1> QED BY <1>6, <1>8, <1>9, <1>10

(* What is known of a request whose connection is about to be used. *)
Attached(v, w, c, phase) ==
  /\ v.q.conn = c /\ v.q.phase = phase /\ ~v.q.unsent /\ ~v.q.request_sent
  /\ v.q.keepalive => w.q.keepalive /\ ~w.q.request_sent
  /\ v.q.header_sent = w.q.header_sent

(* Attach changes the request alone. *)
LEMMA AttachFields ==
  ASSUME NEW w, NEW c, NEW phase, DOMAIN w = {"rr", "cache", "conn", "q"},
         DOMAIN w.q = ReqFields
  PROVE  LET v == Attach(w, c, phase)
         IN  /\ DOMAIN v = DOMAIN w /\ v.conn = w.conn /\ v.cache = w.cache
             /\ DOMAIN v.q = ReqFields /\ v.q.addr = w.q.addr
             /\ Attached(v, w, c, phase)
<1>1. PICK b : b = IF w.q.request_sent THEN FALSE ELSE w.q.keepalive
  OBVIOUS
<1>2. PICK v : v = [w EXCEPT !.q.conn = c, !.q.phase = phase, !.q.unsent = FALSE,
                             !.q.keepalive = b, !.q.request_sent = FALSE]
  OBVIOUS
<1>3. v = Attach(w, c, phase)
  BY <1>1, <1>2 DEF Attach
<1>4. /\ DOMAIN v = DOMAIN w /\ v.conn = w.conn /\ v.cache = w.cache
      /\ DOMAIN v.q = ReqFields /\ v.q.addr = w.q.addr
      /\ v.q.conn = c /\ v.q.phase = phase /\ v.q.unsent = FALSE /\ v.q.request_sent = FALSE
      /\ v.q.keepalive = b /\ v.q.header_sent = w.q.header_sent
  BY <1>2 DEF ReqFields
<1>5. v.q.keepalive => w.q.keepalive /\ ~w.q.request_sent
  BY <1>1, <1>4
<1> QED BY <1>3, <1>4, <1>5 DEF Attached

(* A new connection, of an object that was closed. *)
LEMMA OpenKeeps ==
  ASSUME NEW w, NEW O, NEW c \in Connections, NEW phase, Shares(w, O), w.q.conn = NoConn,
         \A d \in O : conn[d].open, ~w.conn[c].open
  PROVE  LET v == Attach([w EXCEPT !.conn[c] = Opened(w.q.addr)], c, phase)
         IN  /\ Shares(v, O)
             /\ Idle(v.conn[c])
             /\ Attached(v, w, c, phase)
<1>1. PICK u : u = [w EXCEPT !.conn[c] = Opened(w.q.addr)]
  OBVIOUS
<1>2. PICK cs : cs = [w.conn EXCEPT ![c] = Opened(w.q.addr)]
  OBVIOUS
<1>3. DOMAIN w = {"rr", "cache", "conn", "q"} /\ DOMAIN w.q = ReqFields
  BY DEF Shares, Uses
<1>4. /\ DOMAIN u = {"rr", "cache", "conn", "q"} /\ u.q = w.q /\ u.conn = cs
      /\ u.cache = w.cache
  BY <1>1, <1>2, <1>3
<1>5. PICK v : v = Attach(u, c, phase)
  OBVIOUS
<1>6. /\ DOMAIN v = {"rr", "cache", "conn", "q"} /\ v.conn = cs /\ v.cache = w.cache
      /\ DOMAIN v.q = ReqFields /\ v.q.addr = w.q.addr /\ v.q.conn = c
      /\ Attached(v, w, c, phase)
  <2>1. /\ DOMAIN v = DOMAIN u /\ v.conn = u.conn /\ v.cache = u.cache
        /\ DOMAIN v.q = ReqFields /\ v.q.addr = u.q.addr
        /\ Attached(v, u, c, phase)
    BY <1>3, <1>4, <1>5, AttachFields
  <2> QED BY <1>4, <2>1 DEF Attached
<1>7. /\ DOMAIN cs = Connections /\ cs[c] = Opened(w.q.addr)
      /\ \A d \in Connections : d # c => cs[d] = w.conn[d]
  BY <1>2 DEF Shares, ConnsOK
<1>8. /\ DOMAIN cs[c] = ConnFields /\ cs[c].open /\ cs[c].peer = w.q.addr /\ Idle(cs[c])
  BY <1>7, NewConn
<1>9. c \notin O
  BY DEF Shares
<1>10. ConnsOK(cs)
  BY <1>7, <1>8 DEF Shares, ConnsOK
<1>11. Caches(w.cache, cs, O \cup {c})
  <2>1. Caches(w.cache, w.conn, O \cup {NoConn})
    BY DEF Shares
  <2>2. \A e \in Range(w.cache) : e.c \in Connections /\ e.c # c
    BY <2>1 DEF Caches
  <2> QED BY <1>7, <2>1, <2>2 DEF Caches
<1>12. \A d \in Connections :
         cs[d].open => d \in O \cup {c} \/ \E e \in Range(w.cache) : e.c = d
  <2>1. NoConn \notin Connections
    BY ConnectionsAssumption
  <2> QED BY <1>7, <2>1 DEF Shares
<1>13. Uses(v.q, cs)
  BY <1>6, <1>8 DEF Uses
<1>14. O \subseteq Connections \ {c} /\ \A d \in O : cs[d] = conn[d]
  BY <1>7, <1>9 DEF Shares
<1>15. Shares(v, O)
  BY <1>6, <1>10, <1>11, <1>12, <1>13, <1>14 DEF Shares
<1> QED BY <1>1, <1>5, <1>6, <1>8, <1>15

-----------------------------------------------------------------------------
(* The world of a request before its handler runs. *)
LEMMA WorldOf ==
  ASSUME IInv, NEW r \in Requests
  PROVE  /\ Shares(World(r), Others(r))
         /\ World(r).q = req[r] /\ World(r).conn = conn
         /\ \A d \in Others(r) : conn[d].open
<1>1. PICK w : w = World(r)
  OBVIOUS
<1>2. /\ DOMAIN w = {"rr", "cache", "conn", "q"} /\ w.q = req[r] /\ w.conn = conn
      /\ w.cache = cache
  BY <1>1 DEF World
<1>3. PICK O : O = Others(r)
  OBVIOUS
<1>4. \A d \in O : \E x \in Requests \ {r} : req[x].conn = d /\ d # NoConn
  BY <1>3 DEF Others
<1>5. O \subseteq Connections \ {req[r].conn}
  BY <1>4 DEF IInv, Uses
<1>6. Used \subseteq O \cup {req[r].conn} /\ O \subseteq Used
  BY <1>3 DEF Used, Others
<1>7. \A e \in Range(cache) : e.c \in Connections \ (O \cup {req[r].conn})
  <2>1. \A e \in Range(cache) : e.c \in Connections \ Used
    BY DEF IInv, Caches
  <2>2. req[r].conn \in Connections => req[r].conn \in Used
    BY ConnectionsAssumption DEF Used
  <2> QED BY <1>6, <2>1, <2>2
<1>8. Caches(cache, conn, O \cup {req[r].conn})
  BY <1>7 DEF IInv, Caches
<1>9. \A d \in O : conn[d].open
  BY <1>4 DEF IInv, Uses
<1>10. Shares(w, O)
  <2>1. \A c \in Connections :
          conn[c].open => c \in O \cup {req[r].conn} \/ \E e \in Range(cache) : e.c = c
    BY <1>6 DEF IInv
  <2>2. ConnsOK(conn) /\ Uses(req[r], conn)
    BY DEF IInv
  <2> QED BY <1>2, <1>5, <1>8, <2>1, <2>2 DEF Shares
<1> QED BY <1>1, <1>2, <1>3, <1>9, <1>10

(* The stage of a request depends on its connection alone. *)
LEMMA StageKept ==
  ASSUME NEW x, NEW q, NEW cs, NEW ds, Stage(x, q, cs), q.conn # NoConn => ds[q.conn] = cs[q.conn]
  PROVE  Stage(x, q, ds)
BY DEF Stage

(* The end of a handler that did everything right. *)
LEMMA CommitKeeps ==
  ASSUME IInv, NEW r \in Requests, NEW w, NEW b, Commit(r, w, b),
         Shares(w, Others(r)), Stage(r, w.q, w.conn)
  PROVE  IInv' /\ req' = [req EXCEPT ![r] = w.q]
<1>1. PICK O : O = Others(r)
  OBVIOUS
<1>2. conf' = conf /\ cache' = w.cache /\ conn' = w.conn /\ req' = [req EXCEPT ![r] = w.q]
  BY DEF Commit
<1>3. /\ DOMAIN req = Requests /\ DOMAIN req' = Requests /\ req'[r] = w.q
      /\ \A x \in Requests : x # r => req'[x] = req[x]
  BY <1>2 DEF IInv
<1>4. /\ ConnsOK(w.conn) /\ Caches(w.cache, w.conn, O \cup {w.q.conn}) /\ Uses(w.q, w.conn)
      /\ O \subseteq Connections \ {w.q.conn} /\ \A c \in O : w.conn[c] = conn[c]
      /\ \A c \in Connections :
           w.conn[c].open => c \in O \cup {w.q.conn} \/ \E e \in Range(w.cache) : e.c = c
  BY <1>1 DEF Shares
<1>5. \A x \in Requests : x # r => req[x].conn = NoConn \/ req[x].conn \in O
  BY <1>1 DEF Others
<1>6. \A d \in O : \E x \in Requests \ {r} : req[x].conn = d /\ d # NoConn
  BY <1>1 DEF Others
<1>7. Used' \subseteq O \cup {w.q.conn}
  <2>1. Used' = {req'[x].conn : x \in Requests} \ {NoConn}
    BY DEF Used
  <2> QED BY <1>3, <1>5, <2>1
<1>8. O \cup ({w.q.conn} \ {NoConn}) \subseteq Used'
  <2>1. Used' = {req'[x].conn : x \in Requests} \ {NoConn}
    BY DEF Used
  <2>2. \A d \in O : d \in Used'
    BY <1>3, <1>6, <2>1
  <2>3. w.q.conn # NoConn => w.q.conn \in Used'
    BY <1>3, <2>1
  <2> QED BY <2>2, <2>3
<1>9. ConnsOK(conn)'
  BY <1>2, <1>4 DEF ConnsOK
<1>10. Caches(cache, conn, Used)'
  BY <1>2, <1>4, <1>7 DEF Caches, Idle
<1>11. ASSUME NEW x \in Requests
       PROVE  Uses(req[x], conn)' /\ Stage(x, req[x], conn)'
  <2>1. CASE x = r
    <3>1. Stage(x, req'[x], conn') /\ Uses(req'[x], conn')
      BY <1>2, <1>3, <1>4, <2>1
    <3> QED BY <1>2, <3>1 DEF Stage, Uses, Wire, Idle
  <2>2. CASE x # r
    <3>1. req'[x] = req[x] /\ (req[x].conn # NoConn => conn'[req[x].conn] = conn[req[x].conn])
      BY <1>2, <1>3, <1>4, <1>5, <2>2
    <3>2. Uses(req[x], conn) /\ Stage(x, req[x], conn)
      BY DEF IInv
    <3>3. Stage(x, req'[x], conn') /\ Uses(req'[x], conn')
      BY <3>1, <3>2, StageKept DEF Uses
    <3> QED BY <1>2, <3>3 DEF Stage, Uses, Wire, Idle
  <2> QED BY SMTT(30), <2>1, <2>2
<1>12. ASSUME NEW x \in Requests, NEW y \in Requests, req'[x].conn = req'[y].conn, x # y
       PROVE  req'[x].conn = NoConn
  <2>1. \A z \in Requests : z # r /\ req[z].conn = w.q.conn => w.q.conn = NoConn
    BY <1>4, <1>5
  <2>2. CASE x = r \/ y = r
    BY <1>3, <1>12, <2>1, <2>2
  <2>3. CASE x # r /\ y # r
    BY <1>3, <1>12, <2>3 DEF IInv
  <2> QED BY <2>2, <2>3
<1>13. \A c \in Connections : conn'[c].open => c \in Used' \/ \E e \in Range(cache') : e.c = c
  <2>1. NoConn \notin Connections
    BY ConnectionsAssumption
  <2> QED BY <1>2, <1>4, <1>8, <2>1
<1>14. conf' \in Configs
  BY <1>2 DEF IInv
<1> QED BY <1>2, <1>3, <1>9, <1>10, <1>11, <1>12, <1>13, <1>14 DEF IInv

(* The same, for the way handlers return. *)
LEMMA ReturnKeeps ==
  ASSUME IInv, NEW r \in Requests, NEW w, Return(r, w),
         Shares(w, Others(r)), Stage(r, w.q, w.conn)
  PROVE  IInv' /\ req' = [req EXCEPT ![r] = w.q]
<1>1. PICK b : Commit(r, w, b)
  BY DEF Return
<1> QED BY <1>1, CommitKeeps

(* The next upstream, or the end: what remains of the request is known. *)
LEMMA GivesUp ==
  ASSUME IInv, NEW r \in Requests, NEW w, NEW ft, NextUpstream(r, w, ft),
         Shares(w, Others(r)), Keepable(w),
         w.q.keepalive => w.q.request_sent, ~conf.early => ~w.q.header_sent
  PROVE  IInv'
<1>1. PICK flag : Return(r, AfterNext(w, ft, flag))
  BY DEF NextUpstream
<1>2. PICK v : v = AfterNext(w, ft, flag)
  OBVIOUS
<1>3. Shares(v, Others(r)) /\ (Ended(v) \/ TriesAgain(v, w))
  BY <1>2, NextKeeps DEF IInv
<1>4. CASE Ended(v)
  <2>1. Stage(r, v.q, v.conn)
    BY <1>4, NewReq DEF Ended, Stage, Phases
  <2> QED BY <1>1, <1>2, <1>3, <2>1, ReturnKeeps
<1>5. CASE TriesAgain(v, w)
  <2>1. /\ v.q.phase = "connect" /\ v.q.conn = NoConn
        /\ v.q.keepalive = w.q.keepalive /\ v.q.request_sent = w.q.request_sent
        /\ v.q.header_sent = w.q.header_sent
    BY <1>5 DEF TriesAgain, Agree, ReqFields
  <2>2. Stage(r, v.q, v.conn)
    BY <2>1 DEF Stage, Phases
  <2> QED BY <1>1, <1>2, <1>3, <2>2, ReturnKeeps
<1> QED BY <1>3, <1>4, <1>5

(* The end of a request. *)
LEMMA EndKeeps ==
  ASSUME IInv, NEW r \in Requests, NEW w, End(r, w), Shares(w, Others(r)), Keepable(w)
  PROVE  /\ IInv' /\ req'[r].phase = "done"
         /\ \A x \in Requests : x # r => req'[x] = req[x]
<1>1. PICK flag : Return(r, Finalize(w, flag))
  BY DEF End
<1>2. PICK v : v = Finalize(w, flag)
  OBVIOUS
<1>3. Shares(v, Others(r)) /\ v.q = [NewRequest EXCEPT !.phase = "done"]
  BY <1>2, FinalizeKeeps DEF IInv
<1>4. Stage(r, v.q, v.conn) /\ v.q.phase = "done"
  BY <1>3, NewReq DEF Stage, Phases
<1>5. IInv' /\ req' = [req EXCEPT ![r] = v.q]
  BY <1>1, <1>2, <1>3, <1>4, ReturnKeeps
<1>6. DOMAIN req = Requests
  BY DEF IInv
<1> QED BY <1>4, <1>5, <1>6

-----------------------------------------------------------------------------
(* The actions. *)

(* Start *)
LEMMA StartKeeps ==
  ASSUME IInv, NEW r \in Requests, Start(r)
  PROVE  IInv'
<1>1. PICK w : w = World(r)
  OBVIOUS
<1>2. Shares(w, Others(r)) /\ w.q = req[r] /\ w.conn = conn
  BY <1>1, WorldOf
<1>3. PICK p : p = InitPeerData(conf.groups)
  OBVIOUS
<1>4. PICK v : v = [w EXCEPT !.q.pd = p, !.q.phase = "connect"]
  OBVIOUS
<1>5. Return(r, v) /\ req[r].phase = "new"
  BY <1>1, <1>3, <1>4 DEF Start
<1>6. DOMAIN w = {"rr", "cache", "conn", "q"} /\ DOMAIN w.q = ReqFields
  BY <1>2 DEF Shares, Uses
<1>7. /\ DOMAIN v = DOMAIN w /\ v.conn = w.conn /\ v.cache = w.cache
      /\ DOMAIN v.q = ReqFields /\ v.q.conn = w.q.conn /\ v.q.addr = w.q.addr
      /\ v.q.phase = "connect" /\ Agree(v.q, w.q, {"pd", "phase"})
  BY <1>4, <1>6 DEF ReqFields, Agree
<1>8. Shares(v, Others(r))
  BY <1>2, <1>7, TouchKeeps
<1>9. Stage(r, req[r], conn)
  BY DEF IInv
<1>10. Stage(r, v.q, v.conn)
  BY <1>2, <1>5, <1>7, <1>9 DEF Stage, Phases, Agree, ReqFields
<1> QED BY <1>5, <1>8, <1>10, ReturnKeeps

(* Connect *)
LEMMA ConnectKeeps ==
  ASSUME IInv, NEW r \in Requests, Connect(r)
  PROVE  IInv'
<1>1. PICK w0 : w0 = World(r)
  OBVIOUS
<1>2. /\ Shares(w0, Others(r)) /\ w0.q = req[r] /\ w0.conn = conn
      /\ \A d \in Others(r) : conn[d].open
  BY <1>1, WorldOf
<1>3. Stage(r, req[r], conn) /\ req[r].phase = "connect" /\ conf \in Configs
  BY DEF IInv, Connect
<1>4. req[r].conn = NoConn
  BY <1>3 DEF Stage
<1>5. PICK g : g = KeepaliveGet(w0)
  OBVIOUS
<1>6. PICK w : w = g.w
  OBVIOUS
<1>7. /\ Shares(w, Others(r)) /\ w.conn = conn /\ Agree(w.q, req[r], Got)
      /\ \/ g.rc \in {"OK", "BUSY"} /\ w.q.conn = NoConn
         \/ /\ g.rc = "DONE" /\ w.q.conn \in Connections
            /\ ~conf.early => Idle(w.conn[w.q.conn])
  BY <1>2, <1>3, <1>4, <1>5, <1>6, GetKeeps
<1>8. /\ w.q.keepalive => w.q.request_sent
      /\ ~conf.early => ~w.q.header_sent
  BY <1>3, <1>7 DEF Agree, Got, ReqFields, Stage
<1>9. \/ NextUpstream(r, w, "nolive") /\ g.rc = "BUSY"
      \/ g.rc = "DONE" /\ Return(r, Attach(w, w.q.conn, "send"))
      \/ /\ g.rc = "OK" /\ FreeConns # {}
         /\ \E phase \in {"connecting", "send"} :
              Return(r, Attach([w EXCEPT !.conn[Min(FreeConns)] = Opened(w.q.addr)],
                               Min(FreeConns), phase))
      \/ g.rc = "OK" /\ NextUpstream(r, w, "error")
      \/ g.rc = "OK" /\ End(r, w)
  BY <1>1, <1>5, <1>6, Zenon DEF Connect
<1>10. CASE g.rc \in {"OK", "BUSY"} /\ \E ft : NextUpstream(r, w, ft)
  <2>1. Keepable(w)
    BY <1>7, <1>10 DEF Keepable
  <2> QED BY <1>7, <1>8, <1>10, <2>1, GivesUp
<1>11. CASE g.rc = "OK" /\ End(r, w)
  <2>1. Keepable(w)
    BY <1>7, <1>11 DEF Keepable
  <2> QED BY <1>7, <1>11, <2>1, EndKeeps
<1>12. CASE g.rc = "DONE" /\ Return(r, Attach(w, w.q.conn, "send"))
  <2>1. PICK v : v = Attach(w, w.q.conn, "send")
    OBVIOUS
  <2>2. DOMAIN w = {"rr", "cache", "conn", "q"} /\ DOMAIN w.q = ReqFields
    BY <1>7 DEF Shares, Uses
  <2>3. /\ DOMAIN v = DOMAIN w /\ v.conn = w.conn /\ v.cache = w.cache
        /\ DOMAIN v.q = ReqFields /\ v.q.addr = w.q.addr
        /\ Attached(v, w, w.q.conn, "send")
    BY <2>1, <2>2, AttachFields
  <2>4. Shares(v, Others(r))
    BY <1>7, <2>3, TouchKeeps DEF Attached
  <2>5. w.q.conn \in Connections /\ w.q.conn # NoConn /\ (~conf.early => Idle(conn[w.q.conn]))
    BY <1>7, <1>12, ConnectionsAssumption
  <2>6. Stage(r, v.q, v.conn)
    BY <1>7, <1>8, <2>3, <2>5 DEF Attached, Stage, Phases, Wire
  <2> QED BY <1>12, <2>1, <2>4, <2>6, ReturnKeeps
<1>13. CASE /\ g.rc = "OK" /\ FreeConns # {}
            /\ \E phase \in {"connecting", "send"} :
                 Return(r, Attach([w EXCEPT !.conn[Min(FreeConns)] = Opened(w.q.addr)],
                                  Min(FreeConns), phase))
  <2>1. PICK c : c = Min(FreeConns)
    OBVIOUS
  <2>2. c \in Connections /\ ~conn[c].open /\ c # NoConn
    <3>1. FreeConns \in SUBSET Nat
      BY ConnectionsAssumption DEF FreeConns
    <3>2. Min(FreeConns) \in FreeConns
      BY <1>13, <3>1, MinIn
    <3> QED BY <2>1, <3>2, ConnectionsAssumption DEF FreeConns
  <2>3. PICK phase \in {"connecting", "send"} :
          Return(r, Attach([w EXCEPT !.conn[c] = Opened(w.q.addr)], c, phase))
    BY <1>13, <2>1
  <2>4. PICK v : v = Attach([w EXCEPT !.conn[c] = Opened(w.q.addr)], c, phase)
    OBVIOUS
  <2>5. Shares(v, Others(r)) /\ Idle(v.conn[c]) /\ Attached(v, w, c, phase)
    BY <1>2, <1>7, <1>13, <2>2, <2>4, OpenKeeps
  <2>6. Stage(r, v.q, v.conn)
    BY <1>8, <2>2, <2>5 DEF Attached, Stage, Phases, Wire
  <2>7. Return(r, v)
    BY <2>3, <2>4
  <2> QED BY <2>5, <2>6, <2>7, ReturnKeeps
<1> QED BY <1>9, <1>10, <1>11, <1>12, <1>13

(* In world v the request's own connection c has become k. *)
Rewired(v, w, c, k) ==
  /\ c = w.q.conn /\ c # NoConn
  /\ DOMAIN k = ConnFields /\ k.open = w.conn[c].open /\ k.peer = w.conn[c].peer
  /\ DOMAIN v = DOMAIN w /\ v.conn = [w.conn EXCEPT ![c] = k] /\ v.cache = w.cache
  /\ DOMAIN v.q = ReqFields /\ v.q.conn = c /\ v.q.addr = w.q.addr

(* What comes and goes on the request's own connection. *)
LEMMA WireKeeps ==
  ASSUME NEW w, NEW O, Shares(w, O), NEW v, NEW c, NEW k, Rewired(v, w, c, k)
  PROVE  Shares(v, O) /\ v.conn[c] = k
<1> USE DEF Rewired
<1>1. c \in Connections /\ c \notin O
  BY DEF Shares, Uses
<1>2. /\ DOMAIN v.conn = Connections /\ v.conn[c] = k
      /\ \A d \in Connections : d # c => v.conn[d] = w.conn[d]
  BY <1>1 DEF Shares, ConnsOK
<1>3. \A d \in Connections : v.conn[d].open = w.conn[d].open
  BY <1>1, <1>2
<1>4. ConnsOK(v.conn)
  BY <1>2 DEF Shares, ConnsOK
<1>5. Caches(v.cache, v.conn, O \cup {c})
  <2>1. Caches(w.cache, w.conn, O \cup {c})
    BY DEF Shares
  <2>2. \A e \in Range(w.cache) : v.conn[e.c] = w.conn[e.c]
    BY <1>2, <2>1 DEF Caches
  <2> QED BY <2>1, <2>2 DEF Caches
<1>6. Uses(v.q, v.conn)
  BY <1>1, <1>2 DEF Shares, Uses
<1>7. \A d \in O : v.conn[d] = conn[d]
  BY <1>1, <1>2 DEF Shares
<1>8. \A d \in Connections :
        v.conn[d].open => d \in O \cup {c} \/ \E e \in Range(v.cache) : e.c = d
  BY <1>3 DEF Shares
<1> QED BY <1>1, <1>2, <1>4, <1>5, <1>6, <1>7, <1>8 DEF Shares

(* A request with a connection is given up, or over. *)
LEMMA LeavesKeeps ==
  ASSUME IInv, NEW r \in Requests, NEW w, w = World(r), req[r].phase # "connect"
  PROVE  /\ Shares(w, Others(r)) /\ w.q = req[r] /\ w.conn = conn
         /\ DOMAIN w = {"rr", "cache", "conn", "q"} /\ DOMAIN w.q = ReqFields
         /\ ~w.q.keepalive /\ Keepable(w)
         /\ End(r, w) => IInv'
         /\ (~conf.early => req[r].phase # "body") /\ (\E ft : NextUpstream(r, w, ft)) => IInv'
<1>1. Shares(w, Others(r)) /\ w.q = req[r] /\ w.conn = conn
  BY WorldOf
<1>2. DOMAIN w = {"rr", "cache", "conn", "q"} /\ DOMAIN w.q = ReqFields
  BY <1>1 DEF Shares, Uses
<1>3. Stage(r, req[r], conn)
  BY DEF IInv
<1>4. ~w.q.keepalive
  BY <1>1, <1>3 DEF Stage
<1>5. Keepable(w)
  BY <1>4 DEF Keepable
<1>6. ASSUME ~conf.early => req[r].phase # "body", NEW ft, NextUpstream(r, w, ft)
      PROVE  IInv'
  <2>1. ~conf.early => ~w.q.header_sent
    BY <1>1, <1>3, <1>6 DEF Stage
  <2> QED BY <1>1, <1>4, <1>5, <1>6, <2>1, GivesUp
<1>7. End(r, w) => IInv'
  BY <1>1, <1>5, EndKeeps
<1> QED BY <1>1, <1>2, <1>4, <1>5, <1>6, <1>7

(* TimedOut *)
LEMMA TimedOutKeeps ==
  ASSUME IInv, NEW r \in Requests, TimedOut(r)
  PROVE  IInv'
<1>1. PICK w : w = World(r)
  OBVIOUS
<1>2. /\ NextUpstream(r, w, "timeout") /\ req[r].phase # "connect"
      /\ req[r].phase = "body" => req[r].unsent
  BY <1>1 DEF TimedOut
<1>3. Stage(r, req[r], conn)
  BY DEF IInv
<1>4. ~conf.early => req[r].phase # "body"
  BY <1>2, <1>3 DEF Stage
<1> QED BY <1>1, <1>2, <1>4, LeavesKeeps

(* HeaderError *)
LEMMA HeaderErrorKeeps ==
  ASSUME IInv, NEW r \in Requests, HeaderError(r)
  PROVE  IInv'
<1>1. PICK w : w = World(r)
  OBVIOUS
<1>2. NextUpstream(r, w, "error") /\ req[r].phase \in {"sending", "waiting"}
  BY <1>1 DEF HeaderError
<1> QED BY <1>1, <1>2, LeavesKeeps

(* ClientAborts *)
LEMMA ClientAbortsKeeps ==
  ASSUME IInv, NEW r \in Requests, ClientAborts(r)
  PROVE  /\ IInv'
         /\ req'[r].phase \in {req[r].phase, "done"}
<1>1. PICK w : w = World(r)
  OBVIOUS
<1>2. PICK v : v = [w EXCEPT !.q.error = TRUE]
  OBVIOUS
<1>3. /\ req[r].phase # "connect"
      /\ Return(r, v) \/ End(r, w)
  BY <1>1, <1>2 DEF ClientAborts
<1>4. /\ Shares(w, Others(r)) /\ w.q = req[r] /\ w.conn = conn
      /\ DOMAIN w = {"rr", "cache", "conn", "q"} /\ DOMAIN w.q = ReqFields
      /\ Keepable(w)
  BY <1>1, <1>3, LeavesKeeps
<1>5. CASE End(r, w)
  BY <1>4, <1>5, EndKeeps
<1>6. CASE Return(r, v)
  <2>1. /\ DOMAIN v = DOMAIN w /\ v.conn = w.conn /\ v.cache = w.cache
        /\ DOMAIN v.q = ReqFields /\ v.q.conn = w.q.conn /\ v.q.addr = w.q.addr
        /\ Agree(v.q, w.q, {"error"})
    BY <1>2, <1>4 DEF ReqFields, Agree
  <2>2. Shares(v, Others(r))
    BY <1>4, <2>1, TouchKeeps
  <2>3. Stage(r, req[r], conn) /\ DOMAIN req = Requests
    BY DEF IInv
  <2>4. Stage(r, v.q, v.conn) /\ v.q.phase = req[r].phase
    BY <1>4, <2>1, <2>3 DEF Stage, Agree, ReqFields
  <2>5. IInv' /\ req' = [req EXCEPT ![r] = v.q]
    BY <1>6, <2>2, <2>4, ReturnKeeps
  <2> QED BY <2>3, <2>4, <2>5
<1> QED BY <1>3, <1>5, <1>6

(* Deliver *)
LEMMA Delivered ==
  ASSUME NEW k, NEW r, NEW all \in BOOLEAN, DOMAIN k = ConnFields,
         NEW l, l = Deliver(k, r, all)
  PROVE  /\ DOMAIN l = ConnFields /\ l.open = k.open /\ l.peer = k.peer
         /\ l.answering = k.answering /\ l.ans = k.ans
         /\ k.rx = "none" => l.of = r
         /\ k.rx = "part" => l.of = k.of
         /\ k.rx \in {"none", "part"} => l.rx = IF all THEN "full" ELSE "part"
<1>1. CASE k.rx = "none"
  BY <1>1 DEF Deliver, ConnFields
<1>2. CASE k.rx = "part"
  BY <1>2 DEF Deliver, ConnFields
<1>3. CASE k.rx \notin {"none", "part"}
  BY <1>3 DEF Deliver
<1> QED BY <1>1, <1>2, <1>3

(* SendRequest *)
LEMMA SendRequestKeeps ==
  ASSUME IInv, NEW r \in Requests, SendRequest(r)
  PROVE  IInv'
<1>1. PICK w : w = World(r)
  OBVIOUS
<1>2. PICK c : c = w.q.conn
  BY SMTT(30)
<1>3. /\ req[r].phase \in {"send", "connecting", "sending", "body"}
      /\ req[r].phase = "body" => req[r].unsent
  BY DEF SendRequest
<1>4. /\ Shares(w, Others(r)) /\ w.q = req[r] /\ w.conn = conn
      /\ DOMAIN w = {"rr", "cache", "conn", "q"} /\ DOMAIN w.q = ReqFields
      /\ ~w.q.keepalive /\ Keepable(w)
  BY <1>1, <1>3, LeavesKeeps
<1>5. Stage(r, req[r], conn) /\ ConnsOK(conn) /\ DOMAIN req = Requests
  BY DEF IInv
<1>6. c \in Connections /\ c # NoConn
  BY <1>2, <1>3, <1>4, <1>5 DEF Stage, Shares, Uses
<1>7. \/ w.q.phase = "body" /\ Return(r, [w EXCEPT !.q.unsent = FALSE])
      \/ /\ w.q.phase # "body"
         /\ \E all \in BOOLEAN :
              Return(r, [w EXCEPT !.conn[c] = Deliver(@, r, all),
                                  !.q.request_sent = TRUE,
                                  !.q.unsent = ~all,
                                  !.q.phase = IF all THEN "waiting" ELSE "sending"])
      \/ /\ w.q.phase # "body"
         /\ \E sent : NextUpstream(r, [w EXCEPT !.q.request_sent = sent], "error")
  BY <1>1, <1>2, Zenon DEF SendRequest
<1>8. CASE w.q.phase = "body" /\ Return(r, [w EXCEPT !.q.unsent = FALSE])
  <2>1. PICK v : v = [w EXCEPT !.q.unsent = FALSE]
    OBVIOUS
  <2>2. /\ DOMAIN v = DOMAIN w /\ v.conn = w.conn /\ v.cache = w.cache
        /\ DOMAIN v.q = ReqFields /\ v.q.conn = w.q.conn /\ v.q.addr = w.q.addr
        /\ ~v.q.unsent /\ Agree(v.q, w.q, {"unsent"})
    BY <1>4, <2>1 DEF ReqFields, Agree
  <2>3. Shares(v, Others(r))
    BY <1>4, <2>2, TouchKeeps
  <2>4. Stage(r, v.q, v.conn)
    BY <1>4, <1>5, <2>2 DEF Stage, Agree, ReqFields
  <2> QED BY <1>8, <2>1, <2>3, <2>4, ReturnKeeps
<1>9. CASE /\ w.q.phase # "body"
           /\ \E sent : NextUpstream(r, [w EXCEPT !.q.request_sent = sent], "error")
  <2>1. PICK sent : NextUpstream(r, [w EXCEPT !.q.request_sent = sent], "error")
    BY <1>9
  <2>2. PICK v : v = [w EXCEPT !.q.request_sent = sent]
    OBVIOUS
  <2>3. /\ DOMAIN v = DOMAIN w /\ v.conn = w.conn /\ v.cache = w.cache
        /\ DOMAIN v.q = ReqFields /\ v.q.conn = w.q.conn /\ v.q.addr = w.q.addr
        /\ v.q.keepalive = w.q.keepalive /\ v.q.header_sent = w.q.header_sent
    BY <1>4, <2>2 DEF ReqFields
  <2>4. Shares(v, Others(r))
    BY <1>4, <2>3, TouchKeeps
  <2>5. Keepable(v) /\ ~v.q.keepalive /\ (~conf.early => ~v.q.header_sent)
    BY <1>4, <1>5, <1>9, <2>3 DEF Keepable, Stage
  <2> QED BY <2>1, <2>2, <2>4, <2>5, GivesUp
<1>10. CASE /\ w.q.phase # "body"
            /\ \E all \in BOOLEAN :
                 Return(r, [w EXCEPT !.conn[c] = Deliver(@, r, all),
                                     !.q.request_sent = TRUE,
                                     !.q.unsent = ~all,
                                     !.q.phase = IF all THEN "waiting" ELSE "sending"])
  <2>1. PICK all \in BOOLEAN :
          Return(r, [w EXCEPT !.conn[c] = Deliver(@, r, all),
                              !.q.request_sent = TRUE,
                              !.q.unsent = ~all,
                              !.q.phase = IF all THEN "waiting" ELSE "sending"])
    BY <1>10, Zenon
  <2>2. PICK k : k = Deliver(conn[c], r, all)
    OBVIOUS
  <2>3. PICK n : n = ~all
    OBVIOUS
  <2>4. PICK p : p = IF all THEN "waiting" ELSE "sending"
    OBVIOUS
  <2>5. PICK v : v = [w EXCEPT !.conn[c] = k, !.q.request_sent = TRUE, !.q.unsent = n,
                               !.q.phase = p]
    OBVIOUS
  <2>6. Return(r, v)
    BY <1>4, <2>1, <2>2, <2>3, <2>4, <2>5, Zenon
  <2>7. /\ DOMAIN k = ConnFields /\ k.open = conn[c].open /\ k.peer = conn[c].peer
        /\ k.answering = conn[c].answering /\ k.ans = conn[c].ans
        /\ conn[c].rx = "none" => k.of = r
        /\ conn[c].rx = "part" => k.of = conn[c].of
        /\ conn[c].rx \in {"none", "part"} => k.rx = IF all THEN "full" ELSE "part"
    BY <1>5, <1>6, <2>2, Delivered DEF ConnsOK
  <2>8. /\ DOMAIN v = DOMAIN w /\ v.conn = [w.conn EXCEPT ![c] = k] /\ v.cache = w.cache
        /\ DOMAIN v.q = ReqFields /\ v.q.conn = c /\ v.q.addr = w.q.addr
        /\ v.q.phase = p /\ v.q.request_sent = TRUE /\ v.q.unsent = n
        /\ v.q.keepalive = w.q.keepalive /\ v.q.header_sent = w.q.header_sent
    BY <1>2, <1>4, <2>5 DEF ReqFields
  <2>9. Shares(v, Others(r)) /\ v.conn[c] = k
    <3>1. k.open = w.conn[c].open /\ k.peer = w.conn[c].peer
      BY <1>4, <2>7
    <3>2. Rewired(v, w, c, k)
      BY <1>2, <1>6, <2>7, <2>8, <3>1, Zenon DEF Rewired
    <3> QED BY <1>4, <3>2, WireKeeps
  <2>10. ~conf.early => Wire(r, p, k)
    <3> SUFFICES ASSUME ~conf.early PROVE Wire(r, p, k)
      OBVIOUS
    <3>1. Wire(r, req[r].phase, conn[c])
      BY <1>2, <1>4, <1>5, <1>6 DEF Stage
    <3>2. /\ ~conn[c].answering /\ conn[c].ans = <<>>
          /\ \/ conn[c].rx = "none"
             \/ conn[c].rx = "part" /\ conn[c].of = r
      BY <1>3, <1>4, <1>10, <3>1 DEF Wire, Idle
    <3>3. k.of = r /\ ~k.answering /\ k.ans = <<>> /\ k.rx = IF all THEN "full" ELSE "part"
      BY <2>7, <3>2
    <3> QED BY <2>4, <3>3 DEF Wire
  <2>11. Stage(r, v.q, v.conn)
    <3>1. p \in {"waiting", "sending"} /\ (p = "waiting" => ~n)
      BY <2>3, <2>4
    <3>2. ~v.q.keepalive /\ (~conf.early => ~v.q.header_sent)
      BY <1>4, <1>5, <1>10, <2>8 DEF Stage
    <3> QED BY <1>6, <2>8, <2>9, <2>10, <3>1, <3>2 DEF Stage, Phases
  <2> QED BY <2>6, <2>9, <2>11, ReturnKeeps
<1> QED BY <1>7, <1>8, <1>9, <1>10

(* ReadHeader *)
LEMMA ReadHeaderKeeps ==
  ASSUME IInv, NEW r \in Requests, ReadHeader(r)
  PROVE  IInv'
<1>1. PICK w : w = World(r)
  OBVIOUS
<1>2. PICK c : c = req[r].conn
  OBVIOUS
<1>3. PICK m : m = Head(conn[c].ans)
  OBVIOUS
<1>4. PICK b : b = IF m.empty THEN ~m.close ELSE req[r].keepalive
  OBVIOUS
<1>5. PICK t : t = Tail(conn[c].ans)
  OBVIOUS
<1>6. req[r].phase \in {"sending", "waiting"} /\ conn[c].ans # <<>>
  BY <1>2 DEF ReadHeader
<1>7. /\ Shares(w, Others(r)) /\ w.q = req[r] /\ w.conn = conn
      /\ DOMAIN w = {"rr", "cache", "conn", "q"} /\ DOMAIN w.q = ReqFields
      /\ ~req[r].keepalive
  BY <1>1, <1>6, LeavesKeeps
<1>8. Stage(r, req[r], conn) /\ ConnsOK(conn)
  BY DEF IInv
<1>9. c \in Connections /\ c # NoConn /\ c = w.q.conn
  BY <1>2, <1>6, <1>7, <1>8 DEF Stage, Shares, Uses
<1>10. PICK v : v = [w EXCEPT !.conn[c].ans = t, !.q.close = m.close, !.q.keepalive = b]
  OBVIOUS
<1>11. PICK u : u = [v EXCEPT !.q.header_sent = TRUE, !.q.phase = "body"]
  OBVIOUS
<1>12. \/ \E ft : NextUpstream(r, v, ft)
       \/ End(r, v)
       \/ m.empty /\ End(r, u)
       \/ ~m.empty /\ Return(r, u)
  <2>1. v = [World(r) EXCEPT !.conn[req[r].conn].ans = Tail(@),
                             !.q.close = m.close,
                             !.q.keepalive = IF m.empty THEN ~m.close ELSE @]
    BY <1>1, <1>2, <1>4, <1>5, <1>7, <1>10, Zenon
  <2> QED BY <1>2, <1>3, <1>11, <2>1, Zenon DEF ReadHeader
<1>13. PICK k : k = [conn[c] EXCEPT !.ans = t]
  OBVIOUS
<1>14. /\ DOMAIN k = ConnFields /\ k.open = w.conn[c].open /\ k.peer = w.conn[c].peer
       /\ k.rx = conn[c].rx /\ k.of = conn[c].of /\ k.answering = conn[c].answering
       /\ k.ans = t
  BY <1>7, <1>8, <1>9, <1>13 DEF ConnsOK, ConnFields
<1>15. /\ DOMAIN v = DOMAIN w /\ v.conn = [w.conn EXCEPT ![c] = k] /\ v.cache = w.cache
       /\ DOMAIN v.q = ReqFields /\ v.q.conn = c /\ v.q.addr = w.q.addr
       /\ v.q.keepalive = b /\ Agree(v.q, w.q, {"close", "keepalive"})
  BY <1>7, <1>9, <1>10, <1>13 DEF ReqFields, Agree
<1>16. Shares(v, Others(r)) /\ v.conn[c] = k
  <2>1. Rewired(v, w, c, k)
    BY <1>9, <1>14, <1>15, Zenon DEF Rewired
  <2> QED BY <1>7, <2>1, WireKeeps
<1>17. /\ DOMAIN u = DOMAIN v /\ u.conn = v.conn /\ u.cache = v.cache
       /\ DOMAIN u.q = ReqFields /\ u.q.conn = v.q.conn /\ u.q.addr = v.q.addr
       /\ u.q.phase = "body" /\ Agree(u.q, v.q, {"header_sent", "phase"})
  BY <1>7, <1>11, <1>15 DEF ReqFields, Agree
<1>18. Shares(u, Others(r))
  BY <1>16, <1>17, TouchKeeps
<1>19. v.q.keepalive => m.empty
  BY <1>4, <1>7, <1>15
<1>20. ~conf.early => /\ req[r].phase = "waiting"
                      /\ m.empty => Idle(k)
                      /\ ~m.empty => Wire(r, "body", k)
  <2> SUFFICES ASSUME ~conf.early
               PROVE  /\ req[r].phase = "waiting"
                      /\ m.empty => Idle(k)
                      /\ ~m.empty => Wire(r, "body", k)
    OBVIOUS
  <2>1. Wire(r, req[r].phase, conn[c])
    BY <1>2, <1>8, <1>9 DEF Stage
  <2>2. req[r].phase = "waiting"
    BY <1>6, <2>1 DEF Wire
  <2>3. CASE /\ conn[c].rx = "full" /\ conn[c].of = r /\ conn[c].answering
             /\ \E h : conn[c].ans = <<h>> /\ h.of = r /\ ~h.empty
    <3>1. PICK h : conn[c].ans = <<h>> /\ h.of = r /\ ~h.empty
      BY <2>3
    <3>2. m = h /\ t = <<>>
      BY <1>3, <1>5, <3>1, Short
    <3> QED BY <1>14, <2>2, <2>3, <3>1, <3>2 DEF Wire
  <2>4. CASE /\ conn[c].rx = "none" /\ conn[c].of = NoReq /\ ~conn[c].answering
             /\ \E h : conn[c].ans = <<h>> /\ h.of = r /\ h.empty
    <3>1. PICK h : conn[c].ans = <<h>> /\ h.of = r /\ h.empty
      BY <2>4
    <3>2. m = h /\ t = <<>>
      BY <1>3, <1>5, <3>1, Short
    <3> QED BY <1>14, <2>2, <2>4, <3>1, <3>2 DEF Idle
  <2>5. CASE /\ conn[c].rx = "none" /\ conn[c].of = NoReq /\ ~conn[c].answering
             /\ \E h, e : conn[c].ans = <<h, e>> /\ h.of = r /\ e.of = r /\ ~h.empty
    <3>1. PICK h, e : conn[c].ans = <<h, e>> /\ h.of = r /\ e.of = r /\ ~h.empty
      BY <2>5
    <3>2. m = h /\ t = <<e>>
      BY <1>3, <1>5, <3>1, Short
    <3> QED BY <1>14, <2>2, <2>5, <3>1, <3>2 DEF Wire
  <2> QED BY <1>6, <2>1, <2>2, <2>3, <2>4, <2>5 DEF Wire
<1>21. Keepable(v)
  BY <1>15, <1>16, <1>19, <1>20 DEF Keepable
<1>22. CASE \E ft : NextUpstream(r, v, ft)
  <2>1. v.q.request_sent /\ (~conf.early => ~v.q.header_sent)
    BY <1>6, <1>7, <1>8, <1>15 DEF Stage, Agree, ReqFields
  <2> QED BY <1>16, <1>21, <1>22, <2>1, GivesUp
<1>23. CASE End(r, v)
  BY <1>16, <1>21, <1>23, EndKeeps
<1>24. CASE m.empty /\ End(r, u)
  <2>1. Keepable(u)
    BY <1>15, <1>16, <1>17, <1>20, <1>24 DEF Keepable
  <2> QED BY <1>18, <1>24, <2>1, EndKeeps
<1>25. CASE ~m.empty /\ Return(r, u)
  <2>1. u.q.conn = c /\ u.conn[c] = k /\ ~u.q.keepalive /\ u.q.request_sent
    BY <1>6, <1>7, <1>8, <1>15, <1>16, <1>17, <1>19, <1>25 DEF Agree, ReqFields, Stage
  <2>2. ~conf.early => ~u.q.unsent
    BY <1>7, <1>8, <1>15, <1>17, <1>20 DEF Agree, ReqFields, Stage
  <2>3. Stage(r, u.q, u.conn)
    BY <1>9, <1>17, <1>20, <1>25, <2>1, <2>2 DEF Stage, Phases
  <2> QED BY <1>18, <1>25, <2>3, ReturnKeeps
<1> QED BY <1>12, <1>22, <1>23, <1>24, <1>25

(* ReadBody *)
LEMMA ReadBodyKeeps ==
  ASSUME IInv, NEW r \in Requests, ReadBody(r)
  PROVE  IInv' /\ req'[r].phase = "done"
<1>1. PICK w : w = World(r)
  OBVIOUS
<1>2. PICK c : c = req[r].conn
  OBVIOUS
<1>3. PICK t : t = Tail(conn[c].ans)
  OBVIOUS
<1>4. PICK b : b = ~w.q.close
  OBVIOUS
<1>5. PICK v : v = [w EXCEPT !.conn[c].ans = t, !.q.keepalive = b]
  OBVIOUS
<1>6. req[r].phase = "body"
  BY DEF ReadBody
<1>7. /\ Shares(w, Others(r)) /\ w.q = req[r] /\ w.conn = conn
      /\ DOMAIN w = {"rr", "cache", "conn", "q"} /\ DOMAIN w.q = ReqFields
      /\ Keepable(w)
  BY <1>1, <1>6, LeavesKeeps
<1>8. End(r, w) \/ (conn[c].ans # <<>> /\ End(r, v))
  <2>1. v = [w EXCEPT !.conn[c].ans = Tail(@), !.q.keepalive = ~w.q.close]
    BY <1>3, <1>4, <1>5, <1>7, Zenon
  <2> QED BY <1>1, <1>2, <2>1, Zenon DEF ReadBody
<1>9. Stage(r, req[r], conn) /\ ConnsOK(conn)
  BY DEF IInv
<1>10. c \in Connections /\ c # NoConn /\ c = w.q.conn
  BY <1>2, <1>6, <1>7, <1>9 DEF Stage, Shares, Uses
<1>11. CASE End(r, w)
  BY <1>7, <1>11, EndKeeps
<1>12. CASE conn[c].ans # <<>> /\ End(r, v)
  <2>1. PICK k : k = [conn[c] EXCEPT !.ans = t]
    OBVIOUS
  <2>2. /\ DOMAIN k = ConnFields /\ k.open = w.conn[c].open /\ k.peer = w.conn[c].peer
        /\ k.rx = conn[c].rx /\ k.of = conn[c].of /\ k.answering = conn[c].answering
        /\ k.ans = t
    BY <1>7, <1>9, <1>10, <2>1 DEF ConnsOK, ConnFields
  <2>3. /\ DOMAIN v = DOMAIN w /\ v.conn = [w.conn EXCEPT ![c] = k] /\ v.cache = w.cache
        /\ DOMAIN v.q = ReqFields /\ v.q.conn = c /\ v.q.addr = w.q.addr
    BY <1>5, <1>7, <1>10, <2>1 DEF ReqFields
  <2>4. Shares(v, Others(r)) /\ v.conn[c] = k
    <3>1. Rewired(v, w, c, k)
      BY <1>10, <2>2, <2>3, Zenon DEF Rewired
    <3> QED BY <1>7, <3>1, WireKeeps
  <2>5. ~conf.early => Idle(k)
    <3> SUFFICES ASSUME ~conf.early PROVE Idle(k)
      OBVIOUS
    <3>1. Wire(r, "body", conn[c])
      BY <1>2, <1>6, <1>9, <1>10 DEF Stage
    <3>2. PICK n : conn[c].ans = <<n>> /\ conn[c].rx = "none" /\ conn[c].of = NoReq
                   /\ ~conn[c].answering
      BY <1>12, <3>1 DEF Wire
    <3>3. t = <<>>
      BY <1>3, <3>2, Short
    <3> QED BY <2>2, <3>2, <3>3 DEF Idle
  <2>6. Keepable(v)
    BY <2>3, <2>4, <2>5 DEF Keepable
  <2> QED BY <1>12, <2>4, <2>6, EndKeeps
<1> QED BY <1>8, <1>11, <1>12

-----------------------------------------------------------------------------
(* What is not a step of a request: the cache and the servers. *)

(* What is on the wire of the requests' connections still is as it should  *)
(* be in their phases.                                                     *)
Undisturbed(cs, ds) ==
  \A r \in Requests : req[r].conn # NoConn =>
    LET k == cs[req[r].conn]
        l == ds[req[r].conn]
    IN  /\ l.open = k.open /\ l.peer = k.peer
        /\ ~conf.early => (Wire(r, req[r].phase, k) => Wire(r, req[r].phase, l))

(* The requests go on as they are. *)
LEMMA OutsideKeeps ==
  ASSUME IInv, UNCHANGED <<conf, req>>, NEW s, s = cache', NEW ds, ds = conn',
         ConnsOK(ds), Caches(s, ds, Used), Undisturbed(conn, ds),
         \A c \in Connections : ds[c].open => c \in Used \/ \E e \in Range(s) : e.c = c
  PROVE  IInv'
<1>1. conf' = conf /\ req' = req
  OBVIOUS
<1>2. Used' = Used
  BY <1>1 DEF Used
<1>3. ConnsOK(conn)' /\ Caches(cache, conn, Used)'
  BY SMTT(30), <1>1, <1>2 DEF ConnsOK, Caches, Idle
<1>4. ASSUME NEW r \in Requests
      PROVE  Uses(req[r], conn)' /\ Stage(r, req[r], conn)'
  <2>1. Uses(req[r], conn) /\ Stage(r, req[r], conn)
    BY DEF IInv
  <2>2. Uses(req[r], ds) /\ Stage(r, req[r], ds)
    BY <2>1 DEF Undisturbed, Uses, Stage
  <2> QED BY <1>1, <2>2 DEF Stage, Uses, Wire, Idle
<1>5. conf' \in Configs /\ DOMAIN req' = Requests
  BY <1>1 DEF IInv
<1>6. \A r, x \in Requests : req'[r].conn = req'[x].conn /\ r # x => req'[r].conn = NoConn
  BY <1>1 DEF IInv
<1>7. \A c \in Connections : conn'[c].open => c \in Used' \/ \E e \in Range(cache') : e.c = c
  BY <1>2
<1> QED BY <1>3, <1>4, <1>5, <1>6, <1>7 DEF IInv

(* CloseIdle *)
LEMMA CloseIdleKeeps ==
  ASSUME IInv, NEW n, CloseIdle(n)
  PROVE  IInv'
<1>1. n \in DOMAIN cache /\ cache' = RemoveAt(cache, n) /\ UNCHANGED <<conf, req>>
  BY DEF CloseIdle
<1>2. PICK c : c = cache[n].c
  OBVIOUS
<1>3. conn' = [conn EXCEPT ![c] = Closed]
  BY <1>2 DEF CloseIdle
<1>4. PICK s : s = cache'
  OBVIOUS
<1>5. PICK ds : ds = conn'
  OBVIOUS
<1>6. Caches(cache, conn, Used) /\ ConnsOK(conn) /\ conf \in Configs /\ conf.max_cached \in Nat
  BY ConfigsAssumption DEF IInv
<1>7. /\ cache[n] \in Range(cache) /\ Range(s) = Range(cache) \ {cache[n]}
      /\ Holds(s, Range(s)) /\ Len(s) + 1 = Len(cache)
  BY <1>1, <1>4, <1>6, CacheWithout
<1>8. c \in Connections \ Used /\ Len(cache) <= conf.max_cached
  BY <1>2, <1>6, <1>7 DEF Caches
<1>9. /\ DOMAIN ds = Connections /\ ds[c] = Closed
      /\ \A d \in Connections : d # c => ds[d] = conn[d]
  BY <1>3, <1>5, <1>6, <1>8 DEF ConnsOK
<1>10. ConnsOK(ds)
  BY <1>6, <1>9, NewConn DEF ConnsOK
<1>11. Caches(s, ds, Used)
  <2>1. \A e \in Range(s) : e \in Range(cache) /\ e.c # c
    BY <1>2, <1>6, <1>7 DEF Caches
  <2>2. Len(s) <= conf.max_cached
    <3>1. Len(s) \in Nat
      BY <1>7 DEF Holds
    <3> QED BY <1>6, <1>7, <1>8, <3>1
  <2>3. /\ \A e, f \in Range(s) : e.c = f.c => e = f
        /\ \A e \in Range(s) : e.c \in Connections \ Used /\ ds[e.c] = conn[e.c]
    BY <1>6, <1>9, <2>1 DEF Caches
  <2> QED BY <1>6, <1>7, <2>1, <2>2, <2>3 DEF Caches
<1>12. \A d \in Connections : ds[d].open => d \in Used \/ \E e \in Range(s) : e.c = d
  <2> SUFFICES ASSUME NEW d \in Connections, ds[d].open, d \notin Used
               PROVE  \E e \in Range(s) : e.c = d
    OBVIOUS
  <2>1. d # c /\ conn[d].open
    BY <1>9, NewConn
  <2>2. PICK e \in Range(cache) : e.c = d
    BY <2>1 DEF IInv
  <2> QED BY <1>2, <1>7, <2>1, <2>2
<1>13. Undisturbed(conn, ds)
  <2>1. \A r \in Requests : req[r].conn # NoConn =>
          req[r].conn \in Connections /\ req[r].conn \in Used
    BY DEF IInv, Uses, Used
  <2>2. \A r \in Requests : req[r].conn # NoConn => ds[req[r].conn] = conn[req[r].conn]
    BY <1>8, <1>9, <2>1
  <2> QED BY <2>2 DEF Undisturbed
<1> QED BY <1>1, <1>4, <1>5, <1>10, <1>11, <1>12, <1>13, OutsideKeeps

(* The server of c does something on it that a client that waits for the   *)
(* answer, and an idle connection, can take.                               *)
Acceptable(k, l) ==
  /\ DOMAIN l = ConnFields /\ l.open = k.open /\ l.peer = k.peer
  /\ ~conf.early => /\ Idle(k) => Idle(l)
                    /\ \A r \in Requests, p \in Phases : Wire(r, p, k) => Wire(r, p, l)

(* Nothing else is changed. *)
LEMMA ServerKeeps ==
  ASSUME IInv, NEW c \in Connections, NEW l, Acceptable(conn[c], l),
         conn' = [conn EXCEPT ![c] = l], UNCHANGED <<conf, cache, req>>
  PROVE  IInv'
<1>1. PICK ds : ds = conn'
  OBVIOUS
<1>2. PICK s : s = cache'
  OBVIOUS
<1>3. Caches(cache, conn, Used) /\ ConnsOK(conn) /\ s = cache
  BY <1>2 DEF IInv
<1>4. /\ DOMAIN ds = Connections /\ ds[c] = l
      /\ \A d \in Connections : d # c => ds[d] = conn[d]
  BY <1>1, <1>3 DEF ConnsOK
<1>5. /\ DOMAIN l = ConnFields /\ l.open = conn[c].open /\ l.peer = conn[c].peer
      /\ ~conf.early =>
           /\ Idle(conn[c]) => Idle(l)
           /\ \A r \in Requests, p \in Phases : Wire(r, p, conn[c]) => Wire(r, p, l)
  BY DEF Acceptable
<1>6. ConnsOK(ds)
  BY <1>3, <1>4, <1>5 DEF ConnsOK
<1>7. \A d \in Connections : /\ ds[d].open = conn[d].open /\ ds[d].peer = conn[d].peer
                             /\ ~conf.early => (Idle(conn[d]) => Idle(ds[d]))
  BY <1>4, <1>5
<1>8. Caches(s, ds, Used)
  BY <1>3, <1>7 DEF Caches
<1>9. \A d \in Connections : ds[d].open => d \in Used \/ \E e \in Range(s) : e.c = d
  BY <1>3, <1>7 DEF IInv
<1>10. Undisturbed(conn, ds)
  <2>1. \A r \in Requests : /\ req[r].phase \in Phases
                            /\ req[r].conn # NoConn => req[r].conn \in Connections
    BY DEF IInv, Uses, Stage
  <2> QED BY <1>4, <1>5, <1>7, <2>1 DEF Undisturbed
<1> QED BY <1>1, <1>2, <1>6, <1>8, <1>9, <1>10, OutsideKeeps

(* The end of an answer. *)
LEMMA AnsweredFields ==
  ASSUME NEW k, DOMAIN k = ConnFields
  PROVE  /\ DOMAIN Answered(k) = ConnFields
         /\ Answered(k).open = k.open /\ Answered(k).peer = k.peer /\ Answered(k).ans = k.ans
         /\ ~Answered(k).answering
         /\ k.rx = "full" => Answered(k).rx = "none" /\ Answered(k).of = NoReq
<1>1. CASE k.rx = "full"
  BY <1>1 DEF Answered, ConnFields
<1>2. CASE k.rx # "full"
  BY <1>2 DEF Answered, ConnFields
<1> QED BY <1>1, <1>2

(* ServerAnswers *)
LEMMA ServerAnswersKeeps ==
  ASSUME IInv, NEW c \in Connections, ServerAnswers(c)
  PROVE  IInv'
<1>1. PICK k : k = conn[c]
  OBVIOUS
<1>2. /\ ~k.answering /\ (~conf.early => k.rx = "full") /\ UNCHANGED <<conf, cache, req>>
      /\ \E a \in Answers :
           conn' = [conn EXCEPT ![c] =
             IF a.empty THEN Answered([k EXCEPT !.ans = Append(@, Reply(a, k.of))])
             ELSE [[k EXCEPT !.ans = Append(@, Reply(a, k.of))] EXCEPT !.answering = TRUE]]
  BY <1>1, Zenon DEF ServerAnswers
<1>3. PICK a \in Answers :
        conn' = [conn EXCEPT ![c] =
          IF a.empty THEN Answered([k EXCEPT !.ans = Append(@, Reply(a, k.of))])
          ELSE [[k EXCEPT !.ans = Append(@, Reply(a, k.of))] EXCEPT !.answering = TRUE]]
  BY <1>2, Zenon
<1>4. PICK m : m = Reply(a, k.of)
  OBVIOUS
<1>5. PICK t : t = Append(k.ans, m)
  OBVIOUS
<1>6. PICK s : s = [k EXCEPT !.ans = t]
  OBVIOUS
<1>7. PICK l : l = IF a.empty THEN Answered(s) ELSE [s EXCEPT !.answering = TRUE]
  OBVIOUS
<1>8. conn' = [conn EXCEPT ![c] = l]
  BY <1>3, <1>4, <1>5, <1>6, <1>7, Zenon
<1>9. DOMAIN k = ConnFields /\ m.of = k.of /\ m.empty = a.empty
  BY <1>1, <1>4 DEF IInv, ConnsOK, Reply
<1>10. /\ DOMAIN s = ConnFields /\ s.open = k.open /\ s.peer = k.peer /\ s.rx = k.rx
       /\ s.of = k.of /\ s.ans = t
  BY <1>6, <1>9 DEF ConnFields
<1>11. /\ DOMAIN l = ConnFields /\ l.open = k.open /\ l.peer = k.peer /\ l.ans = t
       /\ a.empty /\ k.rx = "full" => l.rx = "none" /\ l.of = NoReq /\ ~l.answering
       /\ ~a.empty => l.rx = k.rx /\ l.of = k.of /\ l.answering
  <2>1. CASE a.empty
    BY <1>7, <1>10, <2>1, AnsweredFields
  <2>2. CASE ~a.empty
    BY <1>7, <1>10, <2>2 DEF ConnFields
  <2> QED BY <2>1, <2>2
<1>12. ASSUME ~conf.early, NEW r \in Requests, NEW p \in Phases, Wire(r, p, k)
       PROVE  Wire(r, p, l)
  <2>1. CASE p \notin {"connecting", "send", "sending", "waiting", "body"}
    BY <2>1 DEF Wire
  <2>2. CASE p \in {"connecting", "send", "sending", "waiting", "body"}
    <3>1. k.rx = "full" /\ ~k.answering
      BY <1>2, <1>12
    <3>2. p = "waiting" /\ k.of = r /\ k.ans = <<>>
      BY <1>12, <2>2, <3>1 DEF Wire, Idle
    <3>3. t = <<m>>
      BY <1>5, <3>2, Short
    <3>4. CASE a.empty
      BY <1>9, <1>11, <3>1, <3>2, <3>3, <3>4 DEF Wire
    <3>5. CASE ~a.empty
      BY <1>9, <1>11, <3>1, <3>2, <3>3, <3>5 DEF Wire
    <3> QED BY <3>4, <3>5
  <2> QED BY <2>1, <2>2
<1>13. ~conf.early => ~Idle(k)
  BY <1>2 DEF Idle
<1>14. Acceptable(conn[c], l)
  BY <1>1, <1>11, <1>12, <1>13 DEF Acceptable
<1> QED BY <1>2, <1>8, <1>14, ServerKeeps

(* ServerEnds *)
LEMMA ServerEndsKeeps ==
  ASSUME IInv, NEW c \in Connections, ServerEnds(c)
  PROVE  IInv'
<1>1. PICK k : k = conn[c]
  OBVIOUS
<1>2. PICK m : m = [of |-> k.of]
  OBVIOUS
<1>3. PICK t : t = Append(k.ans, m)
  OBVIOUS
<1>4. PICK s : s = [k EXCEPT !.ans = t]
  OBVIOUS
<1>5. PICK l : l = Answered(s)
  OBVIOUS
<1>6. DOMAIN k = ConnFields /\ DOMAIN conn = Connections
  BY <1>1 DEF IInv, ConnsOK
<1>7. k.answering /\ UNCHANGED <<conf, cache, req>> /\ conn' = [conn EXCEPT ![c] = l]
  <2>1. s = [conn[c] EXCEPT !.ans = Append(conn[c].ans, [of |-> conn[c].of])]
    BY <1>1, <1>2, <1>3, <1>4, Zenon
  <2>2. l = Answered([conn[c] EXCEPT !.ans = Append(@, [of |-> conn[c].of])])
    BY <1>5, <2>1, Zenon
  <2>3. conn' = [conn EXCEPT ![c] = l]
    BY <2>2, Zenon DEF ServerEnds
  <2> QED BY <1>1, <2>3 DEF ServerEnds
<1>8. m.of = k.of
  BY <1>2
<1>9. /\ DOMAIN s = ConnFields /\ s.open = k.open /\ s.peer = k.peer /\ s.rx = k.rx
      /\ s.of = k.of /\ s.ans = t
  BY <1>4, <1>6 DEF ConnFields
<1>10. /\ DOMAIN l = ConnFields /\ l.open = k.open /\ l.peer = k.peer /\ l.ans = t
       /\ ~l.answering
       /\ k.rx = "full" => l.rx = "none" /\ l.of = NoReq
  BY <1>5, <1>9, AnsweredFields
<1>11. ASSUME ~conf.early, NEW r \in Requests, NEW p \in Phases, Wire(r, p, k)
       PROVE  Wire(r, p, l)
  <2>1. CASE p \notin {"connecting", "send", "sending", "waiting", "body"}
    BY <2>1 DEF Wire
  <2>2. CASE p \in {"connecting", "send", "sending"}
    BY <1>7, <1>11, <2>2 DEF Wire, Idle
  <2>3. CASE p = "waiting"
    <3>1. k.rx = "full" /\ k.of = r /\ \E h : k.ans = <<h>> /\ h.of = r /\ ~h.empty
      BY <1>7, <1>11, <2>3 DEF Wire
    <3>2. PICK h : k.ans = <<h>> /\ h.of = r /\ ~h.empty
      BY <3>1
    <3>3. t = <<h, m>>
      BY <1>3, <3>2, Short
    <3> QED BY <1>8, <1>10, <2>3, <3>1, <3>2, <3>3 DEF Wire
  <2>4. CASE p = "body"
    <3>1. k.rx = "full" /\ k.of = r /\ k.ans = <<>>
      BY <1>7, <1>11, <2>4 DEF Wire
    <3>2. t = <<m>>
      BY <1>3, <3>1, Short
    <3> QED BY <1>8, <1>10, <2>4, <3>1, <3>2 DEF Wire
  <2> QED BY <2>1, <2>2, <2>3, <2>4
<1>12. ~Idle(k)
  BY <1>7 DEF Idle
<1>13. Acceptable(conn[c], l)
  BY <1>1, <1>10, <1>11, <1>12 DEF Acceptable
<1> QED BY <1>7, <1>13, ServerKeeps

(* ServerCloses *)
LEMMA ServerClosesKeeps ==
  ASSUME IInv, NEW c \in Connections, ServerCloses(c)
  PROVE  IInv'
<1>1. PICK l : l = [conn[c] EXCEPT !.eof = TRUE]
  OBVIOUS
<1>2. UNCHANGED <<conf, cache, req>> /\ conn' = [conn EXCEPT ![c] = l]
  BY <1>1, Zenon DEF ServerCloses
<1>3. DOMAIN conn[c] = ConnFields
  BY DEF IInv, ConnsOK
<1>4. /\ DOMAIN l = ConnFields
      /\ \A f \in ConnFields \ {"eof"} : l[f] = conn[c][f]
  BY <1>1, <1>3
<1>5. /\ l.open = conn[c].open /\ l.peer = conn[c].peer /\ l.rx = conn[c].rx
      /\ l.of = conn[c].of /\ l.answering = conn[c].answering /\ l.ans = conn[c].ans
  BY <1>4 DEF ConnFields
<1>6. Acceptable(conn[c], l)
  BY <1>4, <1>5 DEF Acceptable, Idle, Wire
<1> QED BY <1>2, <1>6, ServerKeeps

(* A step that changes nothing the invariant is about. *)
LEMMA StutterKeeps ==
  ASSUME IInv, UNCHANGED <<conf, cache, conn, req>>
  PROVE  IInv'
<1>1. Caches(cache, conn, Used) /\ ConnsOK(conn)
  BY DEF IInv
<1>2. Undisturbed(conn, conn)
  BY DEF Undisturbed
<1>3. \A c \in Connections : conn[c].open => c \in Used \/ \E e \in Range(cache) : e.c = c
  BY DEF IInv
<1>4. cache = cache' /\ conn = conn' /\ UNCHANGED <<conf, req>>
  OBVIOUS
<1> QED BY <1>1, <1>2, <1>3, <1>4, OutsideKeeps

(* The start: nothing is open. *)
LEMMA InitKeeps == Init => IInv
<1> SUFFICES ASSUME Init PROVE IInv
  OBVIOUS
<1>1. conf \in Configs /\ cache = <<>> /\ conf.max_cached \in Nat
  BY ConfigsAssumption DEF Init
<1>2. /\ DOMAIN conn = Connections /\ \A c \in Connections : conn[c] = Closed
      /\ DOMAIN req = Requests /\ \A r \in Requests : req[r] = NewRequest
  BY DEF Init
<1>3. ConnsOK(conn)
  BY <1>2, NewConn DEF ConnsOK
<1>4. Caches(cache, conn, Used)
  <2>1. Range(cache) = {} /\ Len(cache) = 0
    BY <1>1 DEF Range
  <2>2. Holds(cache, Range(cache))
    BY <1>1, <2>1, HoldsEmpty
  <2> QED BY <1>1, <2>1, <2>2 DEF Caches
<1>5. /\ DOMAIN NewRequest = ReqFields /\ NewRequest.conn = NoConn
      /\ NewRequest.phase = "new" /\ ~NewRequest.keepalive /\ ~NewRequest.header_sent
  BY DEF NewRequest, ReqFields
<1>6. \A r \in Requests : Uses(req[r], conn) /\ Stage(r, req[r], conn)
  BY <1>2, <1>5 DEF Uses, Stage, Phases
<1>7. \A c \in Connections : ~conn[c].open
  BY <1>2, NewConn
<1> QED BY <1>1, <1>2, <1>3, <1>4, <1>5, <1>6, <1>7 DEF IInv

(* Every step. *)
LEMMA NextKeepsIInv == IInv /\ [Next]_vars => IInv'
<1> SUFFICES ASSUME IInv, [Next]_vars PROVE IInv'
  OBVIOUS
<1>1. ASSUME NEW r \in Requests, Start(r) \/ Handler(r) \/ ClientAborts(r)
      PROVE  IInv'
  BY <1>1, StartKeeps, ConnectKeeps, SendRequestKeeps, TimedOutKeeps, HeaderErrorKeeps,
     ReadHeaderKeeps, ReadBodyKeeps, ClientAbortsKeeps DEF Handler
<1>2. ASSUME NEW c \in Connections, ServerAnswers(c) \/ ServerEnds(c) \/ ServerCloses(c)
      PROVE  IInv'
  BY <1>2, ServerAnswersKeeps, ServerEndsKeeps, ServerClosesKeeps
<1>3. ASSUME NEW n, CloseIdle(n)
      PROVE  IInv'
  BY <1>3, CloseIdleKeeps
<1>4. CASE Tick
  BY <1>4, StutterKeeps DEF Tick
<1>5. CASE UNCHANGED vars
  BY <1>5, StutterKeeps DEF vars
<1> QED BY <1>1, <1>2, <1>3, <1>4, <1>5 DEF Next

(* The inductive invariant holds in every reachable state. *)
THEOREM Inductive == Spec => []IInv
BY InitKeeps, NextKeepsIInv, PTL DEF Spec

-----------------------------------------------------------------------------
(* A connection has at most one user, and a user is in no slot. *)
LEMMA OwnersCounted ==
  ASSUME IInv, NEW c \in Connections
  PROVE  Cardinality(Users(c)) + Cardinality(Slots(c)) = IF conn[c].open THEN 1 ELSE 0
<1>1. c # NoConn /\ Caches(cache, conn, Used) /\ Holds(cache, Range(cache))
  BY ConnectionsAssumption DEF IInv, Caches
<1>2. \A n \in DOMAIN cache : cache[n] \in Range(cache)
  BY DEF Range
<1>3. Cardinality({}) = 0 /\ \A x : Cardinality({x}) = 1
  BY FS_EmptySet, FS_Singleton
<1>4. CASE \E r \in Requests : req[r].conn = c
  <2>1. PICK r \in Requests : req[r].conn = c
    BY <1>4
  <2>2. c \in Used /\ conn[c].open
    BY <1>1, <2>1 DEF Used, IInv, Uses
  <2>3. Users(c) = {r}
    BY <1>1, <2>1 DEF Users, IInv
  <2>4. Slots(c) = {}
    BY <1>1, <1>2, <2>2 DEF Slots, Caches
  <2>5. Cardinality(Users(c)) = 1 /\ Cardinality(Slots(c)) = 0
    BY <1>3, <2>3, <2>4
  <2> QED BY <2>2, <2>5
<1>5. CASE \E e \in Range(cache) : e.c = c
  <2>1. PICK e \in Range(cache) : e.c = c
    BY <1>5
  <2>2. c \notin Used /\ conn[c].open
    BY <1>1, <2>1 DEF Caches
  <2>3. Users(c) = {}
    BY <1>1, <2>2 DEF Users, Used
  <2>4. Slots(c) = {n \in DOMAIN cache : cache[n] = e}
    BY <1>1, <1>2, <2>1 DEF Slots, Caches
  <2>5. Cardinality(Slots(c)) = 1
    BY <1>1, <2>1, <2>4, HoldsLen
  <2> QED BY <1>3, <2>2, <2>3, <2>5
<1>6. CASE /\ ~\E r \in Requests : req[r].conn = c
           /\ ~\E e \in Range(cache) : e.c = c
  <2>1. Users(c) = {} /\ Slots(c) = {}
    BY <1>2, <1>6 DEF Users, Slots
  <2>2. ~conn[c].open
    BY <1>6 DEF IInv, Used
  <2> QED BY <1>3, <2>1, <2>2
<1> QED BY <1>4, <1>5, <1>6

(* The requests and the cache share out the connections: after any         *)
(* sequence of connects, retries, saves, evictions, aborts and closes      *)
(* every open connection has exactly one owner and every closed one none,  *)
(* so none is leaked, shared by two requests or closed under its user.     *)
THEOREM ConnectionsShared == Spec => []ConnectionsOwned
<1>1. IInv => ConnectionsOwned
  <2> SUFFICES ASSUME IInv PROVE ConnectionsOwned
    OBVIOUS
  <2>1. \A c \in Connections :
          Cardinality(Users(c)) + Cardinality(Slots(c)) = IF conn[c].open THEN 1 ELSE 0
    BY OwnersCounted
  <2>2. Caches(cache, conn, Used)
    BY DEF IInv
  <2>3. \A n \in DOMAIN cache : cache[n] \in Range(cache)
    BY DEF Range
  <2>4. /\ Len(cache) <= conf.max_cached
        /\ ~conf.single => \A n \in DOMAIN cache : cache[n].peer = conn[cache[n].c].peer
    BY <2>2, <2>3 DEF Caches
  <2>5. \A r \in Requests : req[r].phase = "done" => req[r].conn = NoConn
    BY DEF IInv, Stage
  <2> QED BY <2>1, <2>4, <2>5 DEF ConnectionsOwned
<1> QED BY <1>1, Inductive, PTL

(* With servers that read a request to its end before they answer, what a  *)
(* request reads from its connection, new or taken from the cache, is the  *)
(* answer to that request.                                                 *)
THEOREM AnswersReachTheirRequest == Spec => []OwnAnswers
<1>1. IInv => OwnAnswers
  <2> SUFFICES ASSUME IInv, ~conf.early, NEW r \in Requests, req[r].conn # NoConn,
                      NEW k, k = conn[req[r].conn]
               PROVE  k.of \in {r, NoReq} /\ \A n \in DOMAIN k.ans : k.ans[n].of = r
    BY DEF OwnAnswers
  <2>1. Stage(r, req[r], conn)
    BY DEF IInv
  <2>2. /\ req[r].phase \in {"connecting", "send", "sending", "waiting", "body"}
        /\ Wire(r, req[r].phase, k)
    BY <2>1 DEF Stage, Phases
  <2>3. CASE k.of \in {r, NoReq} /\ k.ans = <<>>
    BY <2>3
  <2>4. CASE k.of \in {r, NoReq} /\ \E m : k.ans = <<m>> /\ m.of = r
    <3>1. PICK m : k.ans = <<m>> /\ m.of = r
      BY <2>4
    <3>2. DOMAIN k.ans = {1} /\ k.ans[1] = m
      BY <3>1, Short
    <3> QED BY <2>4, <3>1, <3>2
  <2>5. CASE k.of \in {r, NoReq} /\ \E m, n : k.ans = <<m, n>> /\ m.of = r /\ n.of = r
    <3>1. PICK m, n : k.ans = <<m, n>> /\ m.of = r /\ n.of = r
      BY <2>5
    <3>2. DOMAIN k.ans = {1, 2} /\ k.ans[1] = m /\ k.ans[2] = n
      BY <3>1, Short
    <3> QED BY <2>5, <3>1, <3>2
  <2> QED BY <2>2, <2>3, <2>4, <2>5 DEF Wire, Idle
<1> QED BY <1>1, Inductive, PTL

(* With such servers a connection in the cache is clean: nothing of its    *)
(* last request is still to be sent, answered or read.                     *)
THEOREM IdleConnectionsValid == Spec => []IdleAreValid
<1>1. IInv => IdleAreValid
  <2> SUFFICES ASSUME IInv, ~conf.early, NEW n \in DOMAIN cache
               PROVE  conn[cache[n].c].rx = "none" /\ conn[cache[n].c].ans = <<>>
    BY DEF IdleAreValid
  <2>1. Caches(cache, conn, Used) /\ cache[n] \in Range(cache)
    BY DEF IInv, Range
  <2> QED BY <2>1 DEF Caches, Idle
<1> QED BY <1>1, Inductive, PTL

(* A handler changes no request but its own. *)
LEMMA OnlyItsOwn ==
  ASSUME IInv, NEW x \in Requests, Start(x) \/ Handler(x) \/ ClientAborts(x),
         NEW r \in Requests, r # x
  PROVE  req'[r] = req[r]
<1>1. (\E w : Return(x, w)) => req'[r] = req[r]
  BY DEF Return, Commit, IInv
<1>2. /\ (\E w, ft : NextUpstream(x, w, ft)) => req'[r] = req[r]
      /\ (\E w : End(x, w)) => req'[r] = req[r]
  BY <1>1 DEF NextUpstream, End
<1>3. CASE Start(x)
  BY <1>1, <1>3, Zenon DEF Start
<1>4. CASE Connect(x)
  BY <1>1, <1>2, <1>4, Zenon DEF Connect
<1>5. CASE SendRequest(x)
  BY <1>1, <1>2, <1>5, Zenon DEF SendRequest
<1>6. CASE TimedOut(x)
  BY <1>2, <1>6, Zenon DEF TimedOut
<1>7. CASE HeaderError(x)
  BY <1>2, <1>7, Zenon DEF HeaderError
<1>8. CASE ReadHeader(x)
  BY <1>1, <1>2, <1>8, Zenon DEF ReadHeader
<1>9. CASE ReadBody(x)
  BY <1>2, <1>9, Zenon DEF ReadBody
<1>10. CASE ClientAborts(x)
  BY <1>1, <1>2, <1>10, Zenon DEF ClientAborts
<1> QED BY <1>3, <1>4, <1>5, <1>6, <1>7, <1>8, <1>9, <1>10 DEF Handler

(* Once the header of an answer has been passed to the client the request  *)
(* is never tried on another server: no timer, error or abort that can     *)
(* still come leads back to ngx_http_upstream_connect.                     *)
THEOREM NeverRetriedAfterHeader == Spec => NoRetryAfterHeader
<1>1. ASSUME IInv, [Next]_vars, NEW r \in Requests, ~conf.early, req[r].header_sent
      PROVE  req'[r].phase # "connect"
  <2>1. Stage(r, req[r], conn)
    BY <1>1 DEF IInv
  <2>2. req[r].phase = "body" /\ ~req[r].unsent
    BY <1>1, <2>1 DEF Stage
  <2>3. ASSUME NEW x \in Requests, Start(x) \/ Handler(x) \/ ClientAborts(x)
        PROVE  req'[r].phase # "connect"
    <3>1. CASE x # r
      BY <1>1, <2>2, <2>3, <3>1, OnlyItsOwn
    <3>2. CASE x = r
      <4>1. ReadBody(r) \/ ClientAborts(r)
        BY ZenonT(40), <2>2, <2>3, <3>2 DEF Start, Handler, Connect, SendRequest, TimedOut, HeaderError,
                                ReadHeader
      <4> QED BY SMTT(30), <1>1, <2>2, <4>1, ReadBodyKeeps, ClientAbortsKeeps
    <3> QED BY <3>1, <3>2
  <2>4. ASSUME NEW c \in Connections, ServerAnswers(c) \/ ServerEnds(c) \/ ServerCloses(c)
        PROVE  req' = req
    BY <2>4 DEF ServerAnswers, ServerEnds, ServerCloses
  <2>5. ASSUME NEW n, CloseIdle(n)
        PROVE  req' = req
    BY <2>5 DEF CloseIdle
  <2>6. CASE Tick \/ UNCHANGED vars
    BY <2>2, <2>6 DEF Tick, vars
  <2> QED BY <1>1, <2>2, <2>3, <2>4, <2>5, <2>6 DEF Next
<1>2. IInv /\ [Next]_vars => [\A r \in Requests :
        ~conf.early /\ req[r].header_sent => req'[r].phase # "connect"]_vars
  BY <1>1
<1> QED BY <1>2, Inductive, PTL DEF Spec, NoRetryAfterHeader

-----------------------------------------------------------------------------
(***************************************************************************)
(* The balancer.  Its data are shared by the requests and changed by every *)
(* peer.get and peer.free, by any of them in any order; a request's own    *)
(* data, pd, lead it from server to server.  Balanced(w) is what every     *)
(* operator on worlds keeps of them.                                       *)
(***************************************************************************)
PeerState == [current_weight : Int, fails : Nat, expired : BOOLEAN, probing : BOOLEAN]
Entry == [c : Connections, peer : Nat \X Nat]

Peers(g) == conf.groups[g].peer

(* The state of the balancer's servers. *)
Servers(rs) ==
  /\ rs \in [DOMAIN conf.groups -> Seq(PeerState)]
  /\ \A g \in DOMAIN conf.groups : Len(rs[g]) = Len(Peers(g))

(* A request's own data: its server is one of its group. *)
Turn(pd) ==
  /\ pd \in [group : DOMAIN conf.groups, current : Nat, tried : SUBSET Nat, tries : Nat]
  /\ pd.current \in 1 .. Len(Peers(pd.group))

(* With one group of servers the servers a request was offered are the     *)
(* servers it has tried.                                                   *)
OneGroup == Len(conf.groups) = 1 /\ ~conf.groups[1].single
Tried(pd) == {NoAddr} \cup {<<1, i>> : i \in pd.tried}

Data(q) ==
  /\ DOMAIN q = ReqFields
  /\ q.conn \in Connections \cup {NoConn}
  /\ q.addr \in Nat \X Nat
  /\ Turn(q.pd)
  /\ OneGroup => q.seen \cup {q.addr} \subseteq Tried(q.pd)

Balanced(w) == /\ DOMAIN w = {"rr", "cache", "conn", "q"}
               /\ Servers(w.rr)
               /\ w.cache \in Seq(Entry)
               /\ Data(w.q) /\ w.q.phase # "new"

BInv == /\ Servers(rr)
        /\ cache \in Seq(Entry)
        /\ \A r \in Requests : /\ Data(req[r])
                               /\ req[r].phase = "new" => req[r].seen = {} /\ req[r].addr = NoAddr
        /\ busy \in Requests \cup {NoReq}

-----------------------------------------------------------------------------
(* The configured groups. *)
PeerType == [weight : Nat, max_fails : Nat, down : BOOLEAN]

LEMMA GroupType ==
  ASSUME conf \in Configs
  PROVE  /\ Len(conf.groups) \in {1, 2} /\ DOMAIN conf.groups = 1 .. Len(conf.groups)
         /\ \A g \in DOMAIN conf.groups :
              /\ conf.groups[g].single \in BOOLEAN
              /\ Peers(g) \in Seq(PeerType) /\ Len(Peers(g)) \in Nat \ {0}
              /\ DOMAIN Peers(g) = 1 .. Len(Peers(g))
<1>1. /\ conf.groups \in Seq([single : BOOLEAN, peer : Seq(PeerType)])
      /\ Len(conf.groups) \in {1, 2}
      /\ \A g \in DOMAIN conf.groups : Peers(g) # <<>>
  BY GroupsAssumption DEF PeerType, Peers
<1>2. DOMAIN conf.groups = 1 .. Len(conf.groups)
  BY <1>1
<1>3. ASSUME NEW g \in DOMAIN conf.groups
      PROVE  /\ conf.groups[g].single \in BOOLEAN
             /\ Peers(g) \in Seq(PeerType) /\ Len(Peers(g)) \in Nat \ {0}
             /\ DOMAIN Peers(g) = 1 .. Len(Peers(g))
  <2>1. conf.groups[g] \in [single : BOOLEAN, peer : Seq(PeerType)]
    BY <1>1, <1>2, ElementOfSeq
  <2>2. conf.groups[g].single \in BOOLEAN /\ Peers(g) \in Seq(PeerType)
    BY <2>1 DEF Peers
  <2>3. Len(Peers(g)) \in Nat \ {0} /\ DOMAIN Peers(g) = 1 .. Len(Peers(g))
    BY <1>1, <2>2, EmptySeq
  <2> QED BY <2>2, <2>3
<1> QED BY <1>1, <1>2, <1>3

(* ngx_http_upstream_get_peer chooses one of the servers. *)
LEMMA GetPeerType ==
  ASSUME NEW peer \in Seq(PeerType), Len(peer) \in Nat \ {0},
         NEW ps \in Seq(PeerState), Len(ps) = Len(peer)
  PROVE  /\ GetPeer(peer, ps).current \in 1 .. Len(peer)
         /\ GetPeer(peer, ps).state \in Seq(PeerState)
         /\ Len(GetPeer(peer, ps).state) = Len(peer)
<1>1. DOMAIN ps = 1 .. Len(peer) /\ DOMAIN peer = 1 .. Len(peer)
  OBVIOUS
<1>2. /\ Restored(peer, ps) \in Seq(PeerState)
      /\ Len(Restored(peer, ps)) = Len(peer)
  <2>1. ASSUME NEW i \in 1 .. Len(peer)
        PROVE  [ps[i] EXCEPT !.current_weight = peer[i].weight] \in PeerState
    <3>1. peer[i] \in PeerType /\ ps[i] \in PeerState
      BY <1>1, ElementOfSeq
    <3>2. peer[i].weight \in Int
      BY <3>1 DEF PeerType
    <3> QED BY <3>1, <3>2 DEF PeerState
  <2>2. Restored(peer, ps) \in [1 .. Len(peer) -> PeerState]
    BY <1>1, <2>1 DEF Restored
  <2> QED BY <2>2
<1>3. PICK r : r = IF Weighted(ps) = {} THEN Restored(peer, ps) ELSE ps
  OBVIOUS
<1>4. r \in Seq(PeerState) /\ Len(r) = Len(peer) /\ DOMAIN r = 1 .. Len(peer)
  <2>1. r \in Seq(PeerState) /\ Len(r) = Len(peer)
    BY <1>2, <1>3
  <2> QED BY <2>1
<1>5. Heaviest(peer, r) \in 1 .. Len(peer)
  <2>1. PICK W : W = Weighted(r)
    OBVIOUS
  <2>2. W \subseteq 1 .. Len(peer) /\ W \in SUBSET Nat
    BY <1>4, <2>1 DEF Weighted
  <2>3. PICK O : O = {m \in W : /\ {i \in W : i > m} # {}
                                /\ Outweighs(peer, r, m, Min({i \in W : i > m}))}
    OBVIOUS
  <2>4. Heaviest(peer, r) = IF W = {} THEN 1 ELSE IF O # {} THEN Min(O) ELSE Max(W)
    BY <2>1, <2>3, Zenon DEF Heaviest
  <2>5. O \in SUBSET W /\ O \in SUBSET Nat
    BY <2>2, <2>3
  <2>6. O # {} => Min(O) \in O
    BY <2>5, MinIn
  <2>7. W # {} => Max(W) \in W
    <3>1. Len(peer) \in Nat /\ \A m \in W : m <= Len(peer)
      BY <2>2
    <3> QED BY <2>2, <3>1, MaxIn
  <2>8. 1 \in 1 .. Len(peer)
    OBVIOUS
  <2>9. PICK h : h = Heaviest(peer, r)
    OBVIOUS
  <2>10. h \in W \/ h = 1
    <3>1. PICK lo : lo = Min(O)
      OBVIOUS
    <3>2. PICK hi : hi = Max(W)
      OBVIOUS
    <3>3. h = IF W = {} THEN 1 ELSE IF O # {} THEN lo ELSE hi
      BY <2>4, <2>9, <3>1, <3>2
    <3> QED BY <2>5, <2>6, <2>7, <3>1, <3>2, <3>3
  <2> QED BY <2>2, <2>8, <2>9, <2>10
<1>6. GetPeer(peer, ps) = [current |-> Heaviest(peer, r), state |-> r]
  BY <1>3, Zenon DEF GetPeer
<1> QED BY <1>4, <1>5, <1>6

(* What the search for a server works on, and what it has come to after    *)
(* one or more rounds that started from pd.                                *)
TurnType == [group : DOMAIN conf.groups, current : Nat, tried : SUBSET Nat, tries : Nat]

Searches(peer, pd, s) ==
  /\ s \in [ps : Seq(PeerState), pd : TurnType, out : {"search", "found", "failed"}]
  /\ Len(s.ps) = Len(peer)
  /\ s.pd.group = pd.group /\ s.pd.current \in 1 .. Len(peer)
  /\ pd.tried \subseteq s.pd.tried
  /\ s.out = "search" => s.pd.tries # 0
  /\ s.out = "found" => s.pd.current \in s.pd.tried \ pd.tried

(* The state of a server whose weight is changed. *)
LEMMA NewWeight ==
  ASSUME NEW s \in PeerState, NEW n \in Int
  PROVE  [s EXCEPT !.current_weight = n] \in PeerState
BY DEF PeerState

LEMMA TakenType ==
  ASSUME NEW p, NEW s \in PeerState
  PROVE  Taken(p, s) \in PeerState
<1>1. PICK e : e = Checked(p, s)
  OBVIOUS
<1>2. e \in PeerState
  BY <1>1 DEF Checked, PeerState
<1>3. PICK n : n = e.current_weight - 1
  OBVIOUS
<1>4. n \in Int
  BY <1>2, <1>3 DEF PeerState
<1>5. Taken(p, s) = [e EXCEPT !.current_weight = n]
  BY <1>1, <1>3 DEF Taken
<1> QED BY <1>2, <1>4, <1>5, NewWeight

(* The look at one server. *)
LEMMA LookAtType ==
  ASSUME NEW peer \in Seq(PeerType), Len(peer) \in Nat \ {0}, NEW first,
         NEW pd \in TurnType, pd.tries # 0, NEW c \in 1 .. Len(peer),
         NEW ps \in Seq(PeerState), Len(ps) = Len(peer)
  PROVE  Searches(peer, pd, LookAt(peer, first, pd, c, ps))
<1>1. DOMAIN ps = 1 .. Len(peer) /\ peer[c] \in PeerType /\ ps[c] \in PeerState
  BY ElementOfSeq
<1>2. PICK untried : untried = (c \notin pd.tried)
  OBVIOUS
<1>3. PICK left : left = pd.tries - (IF untried THEN 1 ELSE 0)
  OBVIOUS
<1>4. /\ pd.tries \in Nat /\ pd.tried \in SUBSET Nat /\ pd.group \in DOMAIN conf.groups
      /\ left \in Nat /\ c \in Nat
  BY <1>3 DEF TurnType
<1>5. \A e \in PeerState : [ps EXCEPT ![c] = e] \in Seq(PeerState)
                           /\ Len([ps EXCEPT ![c] = e]) = Len(peer)
  BY <1>1
<1>6. PICK r : r = LookAt(peer, first, pd, c, ps)
  OBVIOUS
<1>7. CASE untried /\ Usable(peer[c], ps[c])
  <2>1. PICK e : e = Taken(peer[c], ps[c])
    OBVIOUS
  <2>2. PICK t : t = [ps EXCEPT ![c] = e]
    OBVIOUS
  <2>3. PICK p : p = [pd EXCEPT !.current = c, !.tried = @ \cup {c}]
    OBVIOUS
  <2>4. e \in PeerState
    BY <1>1, <2>1, TakenType
  <2>5. t \in Seq(PeerState) /\ Len(t) = Len(peer)
    BY <1>5, <2>2, <2>4
  <2>6. /\ p \in TurnType /\ p.group = pd.group /\ p.current = c
        /\ p.tried = pd.tried \cup {c}
    BY <1>4, <2>3 DEF TurnType
  <2>7. r = [ps |-> t, pd |-> p, out |-> "found"]
    <3>1. t = [ps EXCEPT ![c] = Taken(peer[c], @)]
      BY <2>1, <2>2, Zenon
    <3> QED BY <1>2, <1>6, <1>7, <2>3, <3>1, Zenon DEF LookAt
  <2>8. /\ r \in [ps : Seq(PeerState), pd : TurnType, out : {"search", "found", "failed"}]
        /\ r.ps = t /\ r.pd = p /\ r.out = "found"
    BY <2>5, <2>6, <2>7
  <2>9. c \in p.tried \ pd.tried /\ pd.tried \subseteq p.tried
    BY <1>2, <1>7, <2>6
  <2> QED BY <1>6, <2>5, <2>6, <2>8, <2>9 DEF Searches
<1>8. CASE ~(untried /\ Usable(peer[c], ps[c]))
  <2>1. PICK t : t = IF untried /\ ~peer[c].down
                     THEN [ps EXCEPT ![c].current_weight = 0] ELSE ps
    OBVIOUS
  <2>2. PICK i : i = IF first THEN c ELSE NextIndex(peer, c)
    OBVIOUS
  <2>3. PICK T : T = IF untried /\ peer[c].down THEN pd.tried \cup {c} ELSE pd.tried
    OBVIOUS
  <2>4. PICK p : p = [pd EXCEPT !.current = i, !.tried = T, !.tries = left]
    OBVIOUS
  <2>5. PICK out : out = IF left = 0 THEN "failed" ELSE "search"
    OBVIOUS
  <2>6. t \in Seq(PeerState) /\ Len(t) = Len(peer)
    <3>1. [ps[c] EXCEPT !.current_weight = 0] \in PeerState
      BY <1>1, NewWeight
    <3>2. [ps EXCEPT ![c].current_weight = 0] = [ps EXCEPT ![c] = [ps[c] EXCEPT !.current_weight = 0]]
      BY Zenon
    <3> QED BY <1>5, <2>1, <3>1, <3>2
  <2>7. i \in 1 .. Len(peer)
    BY <2>2 DEF NextIndex
  <2>8. T \in SUBSET Nat /\ pd.tried \subseteq T
    BY <1>4, <2>3
  <2>9. /\ p \in TurnType /\ p.group = pd.group /\ p.current = i /\ p.tried = T
        /\ p.tries = left
    <3>1. i \in Nat
      BY <2>7
    <3> QED BY <1>4, <2>4, <2>8, <3>1 DEF TurnType
  <2>10. r = [ps |-> t, pd |-> p, out |-> out]
    <3>1. p = [pd EXCEPT !.current = IF first THEN c ELSE NextIndex(peer, c),
                         !.tried = IF untried /\ peer[c].down THEN @ \cup {c} ELSE @,
                         !.tries = left]
      BY <2>2, <2>3, <2>4, Zenon
    <3> QED BY <1>2, <1>3, <1>6, <1>8, <2>1, <2>5, <3>1, Zenon DEF LookAt
  <2>11. /\ r \in [ps : Seq(PeerState), pd : TurnType, out : {"search", "found", "failed"}]
         /\ r.ps = t /\ r.pd = p /\ r.out = out
    BY <2>5, <2>6, <2>9, <2>10
  <2> QED BY <1>6, <2>5, <2>6, <2>7, <2>8, <2>9, <2>11 DEF Searches
<1> QED BY <1>7, <1>8

(* One round of the search. *)
Begin(ps, pd) == [ps |-> ps, pd |-> pd, out |-> "search"]

LEMMA RoundType ==
  ASSUME NEW peer \in Seq(PeerType), Len(peer) \in Nat \ {0}, NEW first,
         NEW pd \in TurnType, pd.tries # 0, first \/ pd.current \in 1 .. Len(peer),
         NEW ps \in Seq(PeerState), Len(ps) = Len(peer),
         NEW s, s = Begin(ps, pd) \/ Searches(peer, pd, s)
  PROVE  Searches(peer, pd, SearchRound(peer, first, s))
<1>1. CASE s.out # "search"
  <2>1. SearchRound(peer, first, s) = s
    BY <1>1 DEF SearchRound
  <2>2. s # Begin(ps, pd)
    BY <1>1 DEF Begin
  <2> QED BY <2>1, <2>2
<1>2. CASE s.out = "search"
  <2>1. /\ s.ps \in Seq(PeerState) /\ Len(s.ps) = Len(peer)
        /\ s.pd \in TurnType /\ s.pd.tries # 0 /\ s.pd.group = pd.group
        /\ pd.tried \subseteq s.pd.tried
        /\ first \/ s.pd.current \in 1 .. Len(peer)
    <3>1. CASE s = Begin(ps, pd)
      <4>1. s.ps = ps /\ s.pd = pd
        BY <3>1 DEF Begin
      <4> QED BY <4>1
    <3>2. CASE Searches(peer, pd, s)
      BY <1>2, <3>2 DEF Searches
    <3> QED BY <3>1, <3>2
  <2>2. PICK g : g = Candidate(peer, first, s)
    OBVIOUS
  <2>3. /\ g.current \in 1 .. Len(peer)
        /\ g.state \in Seq(PeerState) /\ Len(g.state) = Len(peer)
    <3>1. CASE first
      <4>1. g = GetPeer(peer, s.ps)
        BY <2>2, <3>1 DEF Candidate
      <4> QED BY <2>1, <4>1, GetPeerType
    <3>2. CASE ~first
      <4>1. g.current = s.pd.current /\ g.state = s.ps
        BY <2>2, <3>2 DEF Candidate
      <4> QED BY <2>1, <3>2, <4>1
    <3> QED BY <3>1, <3>2
  <2>4. PICK r : r = LookAt(peer, first, s.pd, g.current, g.state)
    OBVIOUS
  <2>5. Searches(peer, s.pd, r)
    BY <2>1, <2>3, <2>4, LookAtType
  <2>6. SearchRound(peer, first, s) = r
    BY <1>2, <2>2, <2>4, Zenon DEF SearchRound
  <2>7. Searches(peer, pd, r)
    BY <2>1, <2>5 DEF Searches
  <2> QED BY <2>6, <2>7
<1> QED BY <1>1, <1>2

(* The search offers a server of the group that was not tried, or none. *)
LEMMA SearchType ==
  ASSUME NEW peer \in Seq(PeerType), Len(peer) \in Nat \ {0},
         NEW pd \in TurnType, IsFirstTry(peer, pd) \/ pd.current \in 1 .. Len(peer),
         NEW ps \in Seq(PeerState), Len(ps) = Len(peer)
  PROVE  IF pd.tries = 0 THEN Search(peer, ps, pd) = Begin(ps, pd)
         ELSE Searches(peer, pd, Search(peer, ps, pd))
<1>0. PICK first : first = IsFirstTry(peer, pd)
  OBVIOUS
<1>1. PICK w : w = Begin(ps, pd)
  OBVIOUS
<1> DEFINE N == pd.tries
           S == {y \in [ps : Seq(PeerState), pd : TurnType, out : {"search", "found", "failed"}] :
                   y = w \/ Searches(peer, pd, y)}
           P(f) == f = [k \in 0 .. pd.tries |->
                          IF k = 0 THEN [ps |-> ps, pd |-> pd, out |-> "search"]
                          ELSE SearchRound(peer, IsFirstTry(peer, pd), f[k - 1])]
           after[k \in 0 .. pd.tries] ==
             IF k = 0 THEN [ps |-> ps, pd |-> pd, out |-> "search"]
             ELSE SearchRound(peer, IsFirstTry(peer, pd), after[k - 1])
           g == [k \in 1 .. N |-> [y \in S |-> SearchRound(peer, first, y)]]
<1>2. N \in Nat
  BY DEF TurnType
<1>3. w \in S
  BY <1>1 DEF Begin
<1>4. ASSUME NEW y \in S, N # 0
      PROVE  /\ SearchRound(peer, first, y) \in S
             /\ Searches(peer, pd, SearchRound(peer, first, y))
  <2>1. Searches(peer, pd, SearchRound(peer, first, y))
    BY <1>0, <1>1, <1>4, RoundType
  <2> QED BY <2>1 DEF Searches
<1> HIDE DEF S
<1>5. g \in [1 .. N -> [S -> S]]
  BY <1>2, <1>4
<1>6. PICK h \in [0 .. N -> S] : Repeats(h, w, g, N)
  <2> HIDE DEF g, N
  <2> QED BY <1>2, <1>3, <1>5, Iteration
<1>7. \A n \in 1 .. N : n - 1 \in 0 .. N /\ n \in 0 .. N /\ n # 0
  BY <1>2
<1>8. P(h)
  <2>1. h[0] = w
    BY <1>6 DEF Repeats
  <2>2. ASSUME NEW n \in 1 .. N PROVE h[n] = SearchRound(peer, first, h[n - 1])
    <3>1. h[n] = g[n][h[n - 1]]
      BY <1>6 DEF Repeats
    <3>2. h[n - 1] \in S
      BY <1>6, <1>7
    <3>3. g[n] = [y \in S |-> SearchRound(peer, first, y)]
      OBVIOUS
    <3> HIDE DEF g
    <3> QED BY <3>1, <3>2, <3>3
  <2>3. \A n \in 0 .. N : h[n] = IF n = 0 THEN w ELSE SearchRound(peer, first, h[n - 1])
    <3> SUFFICES ASSUME NEW n \in 0 .. N, n # 0 PROVE h[n] = SearchRound(peer, first, h[n - 1])
      BY <2>1
    <3>1. n \in 1 .. N
      BY <1>2
    <3> QED BY <2>2, <3>1
  <2>4. h = [n \in 0 .. N |-> h[n]]
    BY <1>6
  <2> QED BY <1>0, <1>1, <2>3, <2>4 DEF Begin
<1>9. after = CHOOSE f : P(f)
  BY Zenon
<1>10. P(CHOOSE f : P(f))
  <2> HIDE DEF P
  <2> QED BY <1>8, Zenon
<1>11. Search(peer, ps, pd) = after[N]
  BY Zenon DEF Search
<1> HIDE DEF after
<1>12. P(after)
  BY <1>9, <1>10
<1>13. \A n \in 0 .. N : after[n] = IF n = 0 THEN w ELSE SearchRound(peer, first, after[n - 1])
  BY <1>0, <1>1, <1>12 DEF Begin
<1> HIDE DEF P
<1> DEFINE T == {n \in 0 .. N : after[n] \in S}
<1>14. 0 .. N \subseteq T
  <2>1. 0 \in T
    <3>1. 0 \in 0 .. N
      BY <1>2
    <3> QED BY <1>3, <1>13, <3>1
  <2>2. ASSUME NEW n \in 1 .. N, n - 1 \in T PROVE n \in T
    <3>1. N # 0
      BY <1>2
    <3>2. after[n] = SearchRound(peer, first, after[n - 1])
      BY <1>7, <1>13
    <3> QED BY <1>4, <1>7, <2>2, <3>1, <3>2
  <2> HIDE DEF T
  <2> QED BY <1>2, <2>1, <2>2, Upto
<1>15. CASE N = 0
  <2>1. after[N] = w
    BY <1>13, <1>15
  <2> QED BY <1>1, <1>11, <1>15, <2>1
<1>16. CASE N # 0
  <2>1. N \in 1 .. N /\ N \in 0 .. N /\ N - 1 \in 0 .. N
    BY <1>2, <1>16
  <2>2. after[N] = SearchRound(peer, first, after[N - 1]) /\ after[N - 1] \in S
    BY <1>13, <1>14, <1>16, <2>1
  <2>3. Searches(peer, pd, after[N])
    BY <1>4, <1>16, <2>2
  <2> QED BY <1>11, <1>16, <2>3
<1> QED BY <1>15, <1>16

(* The servers of one group change. *)
LEMMA GroupChanges ==
  ASSUME NEW rs, Servers(rs), NEW g \in DOMAIN conf.groups,
         NEW ps \in Seq(PeerState), Len(ps) = Len(Peers(g))
  PROVE  Servers([rs EXCEPT ![g] = ps])
BY DEF Servers

LEMMA TurnIs ==
  ASSUME NEW pd
  PROVE  Turn(pd) <=> pd \in TurnType /\ pd.current \in 1 .. Len(Peers(pd.group))
BY DEF Turn, TurnType

(* What peer.get of the balancer makes of its data.  With one group it     *)
(* offers a server that was not tried, which counts as tried from then on. *)
Given(x, pd) ==
  /\ x.rc \in {"OK", "BUSY"} /\ Servers(x.rr) /\ Turn(x.pd)
  /\ OneGroup => /\ pd.tried \subseteq x.pd.tried
                 /\ x.rc = "OK" => x.pd.group = 1 /\ x.pd.current \in x.pd.tried \ pd.tried

(* The last server of a group is handed out: the backup servers are added. *)
LEMMA WithBackupType ==
  ASSUME conf \in Configs, NEW pd, Turn(pd)
  PROVE  /\ Turn(WithBackup(conf.groups, pd))
         /\ WithBackup(conf.groups, pd).group = pd.group
         /\ WithBackup(conf.groups, pd).current = pd.current
         /\ OneGroup => WithBackup(conf.groups, pd) = pd
<1>1. /\ pd \in TurnType /\ pd.current \in 1 .. Len(Peers(pd.group))
      /\ Len(conf.groups) \in {1, 2} /\ DOMAIN conf.groups = 1 .. Len(conf.groups)
      /\ pd.group \in DOMAIN conf.groups
  <2>1. pd \in TurnType /\ pd.current \in 1 .. Len(Peers(pd.group))
    BY TurnIs
  <2> QED BY <2>1, GroupType DEF TurnType
<1>2. CASE ~(pd.tries = 1 /\ pd.group < Len(conf.groups))
  BY <1>2 DEF WithBackup
<1>3. CASE pd.tries = 1 /\ pd.group < Len(conf.groups)
  <2>1. PICK n : n = 1 + Len(conf.groups[pd.group + 1].peer)
    OBVIOUS
  <2>2. pd.group + 1 \in DOMAIN conf.groups
    BY <1>1, <1>3
  <2>3. n \in Nat
    BY <2>1, <2>2, GroupType DEF Peers
  <2>4. PICK p : p = [pd EXCEPT !.tries = n, !.tried = {}]
    OBVIOUS
  <2>5. p \in TurnType /\ p.group = pd.group /\ p.current = pd.current
    BY <1>1, <2>3, <2>4 DEF TurnType
  <2>6. WithBackup(conf.groups, pd) = p
    BY <1>3, <2>1, <2>4 DEF WithBackup
  <2>7. ~OneGroup
    <3>1. pd.group \in 1 .. Len(conf.groups) /\ pd.group < Len(conf.groups)
      BY <1>1, <1>3
    <3>2. PICK m : m = Len(conf.groups)
      OBVIOUS
    <3>3. m \in {1, 2} /\ pd.group \in 1 .. m /\ pd.group < m
      BY <1>1, <3>1, <3>2
    <3>4. m # 1
      BY <3>3
    <3> QED BY <3>2, <3>4 DEF OneGroup
  <2> QED BY <1>1, <2>5, <2>6, <2>7, TurnIs
<1> QED BY <1>2, <1>3

(* A server of the group of pd. *)
LEMMA InGroupType ==
  ASSUME conf \in Configs, NEW rs, Servers(rs), NEW pd \in TurnType,
         pd.tries = Len(Peers(pd.group)) \/ pd.current \in 1 .. Len(Peers(pd.group))
  PROVE  LET x == GetInGroup(conf.groups, rs, pd)
         IN  Given(x, pd) /\ x.pd.group = pd.group
<1>1. PICK g : g = pd.group
  OBVIOUS
<1>2. /\ g \in DOMAIN conf.groups /\ Peers(g) \in Seq(PeerType) /\ Len(Peers(g)) \in Nat \ {0}
      /\ rs[g] \in Seq(PeerState) /\ Len(rs[g]) = Len(Peers(g))
  <2>1. g \in DOMAIN conf.groups
    BY <1>1 DEF TurnType
  <2> QED BY <2>1, GroupType DEF Servers
<1>3. PICK x : x = GetInGroup(conf.groups, rs, pd)
  OBVIOUS
<1>4. OneGroup => g = 1 /\ ~conf.groups[g].single
  BY <1>2, GroupType DEF OneGroup
<1>5. CASE conf.groups[g].single
  <2>1. PICK p : p = [pd EXCEPT !.current = 1]
    OBVIOUS
  <2>2. p \in TurnType /\ p.group = g /\ p.current = 1
    BY <1>1, <2>1 DEF TurnType
  <2>3. Turn(p)
    BY <1>2, <2>2, TurnIs
  <2>4. PICK b : b = WithBackup(conf.groups, p)
    OBVIOUS
  <2>5. Turn(b) /\ b.group = g
    BY <2>2, <2>3, <2>4, WithBackupType
  <2>6. x = [rc |-> "OK", rr |-> rs, pd |-> b]
    BY <1>1, <1>3, <1>5, <2>1, <2>4 DEF GetInGroup
  <2>7. x.rc = "OK" /\ x.rr = rs /\ x.pd = b
    BY <2>6
  <2> QED BY <1>1, <1>3, <1>4, <1>5, <2>5, <2>7 DEF Given
<1>6. CASE ~conf.groups[g].single
  <2>1. PICK s : s = Search(Peers(g), rs[g], pd)
    OBVIOUS
  <2>2. IF pd.tries = 0 THEN s = Begin(rs[g], pd) ELSE Searches(Peers(g), pd, s)
    BY <1>1, <1>2, <2>1, SearchType DEF IsFirstTry
  <2>3. PICK b : b = IF s.out = "found" THEN WithBackup(conf.groups, s.pd) ELSE s.pd
    OBVIOUS
  <2>4. PICK rc : rc = IF s.out = "found" THEN "OK" ELSE "BUSY"
    OBVIOUS
  <2>5. PICK rt : rt = [rs EXCEPT ![g] = s.ps]
    OBVIOUS
  <2>6. x = [rc |-> rc, rr |-> rt, pd |-> b]
    BY <1>1, <1>3, <1>6, <2>1, <2>3, <2>4, <2>5, Zenon DEF GetInGroup, Peers
  <2>7. x.rc = rc /\ x.rr = rt /\ x.pd = b
    BY <2>6
  <2>8. /\ s.ps \in Seq(PeerState) /\ Len(s.ps) = Len(Peers(g))
        /\ s.pd \in TurnType /\ s.pd.group = g /\ s.pd.current \in 1 .. Len(Peers(g))
        /\ pd.tried \subseteq s.pd.tried
        /\ s.out = "found" => s.pd.current \in s.pd.tried \ pd.tried
    <3>1. CASE pd.tries = 0
      <4>1. s.ps = rs[g] /\ s.pd = pd /\ s.out = "search"
        BY <2>2, <3>1 DEF Begin
      <4>2. pd.current \in 1 .. Len(Peers(g))
        BY <1>1, <1>2, <3>1
      <4> QED BY <1>1, <1>2, <4>1, <4>2
    <3>2. CASE pd.tries # 0
      BY <1>1, <2>2, <3>2 DEF Searches
    <3> QED BY <3>1, <3>2
  <2>9. Servers(rt)
    BY <1>2, <2>5, <2>8, GroupChanges
  <2>10. Turn(s.pd)
    BY <2>8, TurnIs
  <2>11. Turn(b) /\ b.group = g /\ b.current = s.pd.current /\ (OneGroup => b = s.pd)
    BY <2>3, <2>8, <2>10, WithBackupType
  <2> QED BY <1>1, <1>3, <1>4, <2>4, <2>7, <2>8, <2>9, <2>11 DEF Given
<1> QED BY <1>5, <1>6

(* All the servers of a group failed, and are taken for live again. *)
LEMMA ClearFailsType ==
  ASSUME NEW rs, Servers(rs), NEW g \in DOMAIN conf.groups
  PROVE  Servers(ClearFails(rs, g))
<1>1. rs[g] \in Seq(PeerState) /\ Len(rs[g]) = Len(Peers(g))
  BY DEF Servers
<1>2. PICK ps : ps = [i \in DOMAIN rs[g] |-> [rs[g][i] EXCEPT !.fails = 0]]
  OBVIOUS
<1>3. ps \in Seq(PeerState) /\ Len(ps) = Len(Peers(g))
  <2>1. DOMAIN rs[g] = 1 .. Len(rs[g]) /\ Len(rs[g]) \in Nat
    BY <1>1
  <2>2. ASSUME NEW i \in DOMAIN rs[g] PROVE [rs[g][i] EXCEPT !.fails = 0] \in PeerState
    <3>1. rs[g][i] \in PeerState
      BY <1>1, <2>1, ElementOfSeq
    <3> QED BY <3>1 DEF PeerState
  <2>3. ps \in [1 .. Len(rs[g]) -> PeerState]
    BY <1>2, <2>1, <2>2
  <2> QED BY <1>1, <2>1, <2>3
<1>4. ClearFails(rs, g) = [rs EXCEPT ![g] = ps]
  BY <1>2, Zenon DEF ClearFails
<1>5. Servers([rs EXCEPT ![g] = ps])
  BY <1>3, GroupChanges
<1> QED BY <1>4, <1>5

(* The whole of peer.get: the group of pd, then the backup group. *)
LEMMA RoundRobinType ==
  ASSUME conf \in Configs, NEW rs, Servers(rs), NEW pd, Turn(pd)
  PROVE  Given(GetRoundRobinPeer(conf.groups, rs, pd), pd)
<1>1. PICK x : x = GetRoundRobinPeer(conf.groups, rs, pd)
  OBVIOUS
<1>2. PICK g : g = pd.group
  OBVIOUS
<1>3. PICK a : a = GetInGroup(conf.groups, rs, pd)
  OBVIOUS
<1>4. /\ pd \in TurnType /\ pd.current \in 1 .. Len(Peers(g)) /\ g \in DOMAIN conf.groups
      /\ Len(conf.groups) \in {1, 2} /\ DOMAIN conf.groups = 1 .. Len(conf.groups)
  <2>1. pd \in TurnType /\ pd.current \in 1 .. Len(Peers(g))
    BY <1>2, TurnIs
  <2> QED BY <1>2, <2>1, GroupType DEF TurnType
<1>5. Given(a, pd) /\ a.pd.group = g
  BY <1>2, <1>3, <1>4, InGroupType
<1>6. DOMAIN a = {"rc", "rr", "pd"}
  BY <1>3 DEF GetInGroup
<1>7. CASE a.rc = "OK"
  <2>1. x = a
    BY <1>1, <1>3, <1>7, Zenon DEF GetRoundRobinPeer
  <2> QED BY <1>1, <1>5, <2>1
<1>8. CASE a.rc # "OK" /\ g + 1 > Len(conf.groups)
  <2>1. PICK t : t = ClearFails(a.rr, g)
    OBVIOUS
  <2>2. Servers(t)
    BY <1>4, <1>5, <2>1, ClearFailsType DEF Given
  <2>3. x = [a EXCEPT !.rr = t]
    BY <1>1, <1>2, <1>3, <1>8, <2>1, Zenon DEF GetRoundRobinPeer
  <2>4. x.rc = a.rc /\ x.rr = t /\ x.pd = a.pd
    BY <1>6, <2>3
  <2> QED BY <1>1, <1>5, <2>2, <2>4 DEF Given
<1>9. CASE a.rc # "OK" /\ ~(g + 1 > Len(conf.groups))
  <2>1. g + 1 \in DOMAIN conf.groups /\ ~OneGroup
    <3>1. g \in 1 .. Len(conf.groups) /\ ~(g + 1 > Len(conf.groups))
      BY <1>4, <1>9
    <3>2. PICK m : m = Len(conf.groups)
      OBVIOUS
    <3>3. m \in {1, 2} /\ g \in 1 .. m /\ ~(g + 1 > m)
      BY <1>4, <3>1, <3>2
    <3>4. m # 1 /\ g + 1 \in 1 .. m
      BY <3>3
    <3> QED BY <1>4, <3>2, <3>4 DEF OneGroup
  <2>2. PICK n : n = g + 1
    OBVIOUS
  <2>3. PICK p : p = [a.pd EXCEPT !.group = n, !.tries = Len(conf.groups[n].peer), !.tried = {}]
    OBVIOUS
  <2>4. PICK b : b = GetInGroup(conf.groups, a.rr, p)
    OBVIOUS
  <2>5. p \in TurnType /\ p.group = n /\ p.tries = Len(Peers(n))
    <3>1. n \in DOMAIN conf.groups /\ Len(conf.groups[n].peer) \in Nat
      BY <2>1, <2>2, GroupType DEF Peers
    <3>2. a.pd \in TurnType
      BY <1>5, TurnIs DEF Given
    <3> QED BY <2>3, <3>1, <3>2 DEF TurnType, Peers
  <2>6. Given(b, p) /\ b.pd.group = n
    BY <1>5, <2>4, <2>5, InGroupType DEF Given
  <2>7. DOMAIN b = {"rc", "rr", "pd"}
    BY <2>4 DEF GetInGroup
  <2>8. CASE b.rc = "OK"
    <3>1. x = b
      BY <1>1, <1>2, <1>3, <1>9, <2>2, <2>3, <2>4, <2>8, Zenon DEF GetRoundRobinPeer
    <3> QED BY <1>1, <2>1, <2>6, <3>1 DEF Given
  <2>9. CASE b.rc # "OK"
    <3>1. PICK t : t = ClearFails(ClearFails(b.rr, n), g)
      OBVIOUS
    <3>2. Servers(ClearFails(b.rr, n))
      BY <2>1, <2>2, <2>6, ClearFailsType DEF Given
    <3>3. Servers(t)
      BY <1>4, <3>1, <3>2, ClearFailsType
    <3>4. x = [b EXCEPT !.rr = t]
      <4>1. [b EXCEPT !.rr = t] = [b EXCEPT !.rr = ClearFails(ClearFails(@, n), g)]
        BY <3>1, Zenon
      <4> QED BY <1>1, <1>2, <1>3, <1>9, <2>2, <2>3, <2>4, <2>9, <4>1, Zenon DEF GetRoundRobinPeer
    <3>5. x.rc = b.rc /\ x.rr = t /\ x.pd = b.pd
      BY <2>7, <3>4
    <3> QED BY <1>1, <2>1, <2>6, <3>3, <3>5 DEF Given
  <2> QED BY <2>8, <2>9
<1> QED BY <1>7, <1>8, <1>9

(* ngx_http_upstream_free_round_robin_peer *)
LEMMA FailedType ==
  ASSUME NEW p \in PeerType, NEW s \in PeerState
  PROVE  Failed(p, s) \in PeerState /\ Passed(s) \in PeerState
<1>1. PICK n : n = IF p.max_fails = 0 THEN 0 ELSE p.weight \div p.max_fails
  OBVIOUS
<1>2. n \in Int
  <2>1. p.max_fails \in Nat /\ p.weight \in Nat
    BY DEF PeerType
  <2> QED BY <1>1, <2>1
<1>3. PICK w : w = s.current_weight - n
  OBVIOUS
<1>4. PICK f : f = IF s.fails < p.max_fails THEN s.fails + 1 ELSE s.fails
  OBVIOUS
<1>5. w \in Int /\ f \in Nat
  BY <1>2, <1>3, <1>4 DEF PeerState
<1>6. PICK v : v = IF w < 0 THEN 0 ELSE w
  OBVIOUS
<1>7. v \in Int
  BY <1>5, <1>6
<1>8. Failed(p, s) = [current_weight |-> v, fails |-> f, expired |-> FALSE, probing |-> FALSE]
  BY <1>1, <1>3, <1>4, <1>6, Zenon DEF Failed
<1>9. Failed(p, s) \in PeerState
  BY <1>5, <1>7, <1>8 DEF PeerState
<1>10. Passed(s) \in PeerState
  BY DEF Passed, PeerState
<1> QED BY <1>9, <1>10

Released(f, pd) == Servers(f.rr) /\ Turn(f.pd) /\ f.pd.tried = pd.tried

(* What peer.free of the balancer makes of its data. *)
LEMMA FreePeerType ==
  ASSUME conf \in Configs, NEW rs, Servers(rs), NEW pd, Turn(pd), NEW state
  PROVE  Released(FreeRoundRobinPeer(conf.groups, rs, pd, state), pd)
<1>1. PICK f : f = FreeRoundRobinPeer(conf.groups, rs, pd, state)
  OBVIOUS
<1>2. PICK g : g = pd.group
  OBVIOUS
<1>3. PICK c : c = pd.current
  OBVIOUS
<1>4. /\ pd \in TurnType /\ c \in 1 .. Len(Peers(g)) /\ g \in DOMAIN conf.groups
      /\ Peers(g) \in Seq(PeerType) /\ Len(Peers(g)) \in Nat \ {0}
      /\ rs[g] \in Seq(PeerState) /\ Len(rs[g]) = Len(Peers(g))
  <2>1. pd \in TurnType /\ c \in 1 .. Len(Peers(g))
    BY <1>2, <1>3, TurnIs
  <2>2. g \in DOMAIN conf.groups
    BY <1>2, <2>1 DEF TurnType
  <2> QED BY <2>1, <2>2, GroupType DEF Servers
<1>5. CASE state = "0" /\ pd.tries = 0
  <2>1. f.rr = rs /\ f.pd = pd
    BY <1>1, <1>5 DEF FreeRoundRobinPeer
  <2> QED BY <1>1, <2>1 DEF Released
<1>6. CASE ~(state = "0" /\ pd.tries = 0) /\ conf.groups[g].single
  <2>1. PICK p : p = [pd EXCEPT !.tries = 0]
    OBVIOUS
  <2>2. p \in TurnType /\ p.group = g /\ p.current = c /\ p.tried = pd.tried
    BY <1>2, <1>3, <1>4, <2>1 DEF TurnType
  <2>3. f.rr = rs /\ f.pd = p
    BY <1>1, <1>2, <1>6, <2>1 DEF FreeRoundRobinPeer
  <2> QED BY <1>1, <1>4, <2>2, <2>3, TurnIs DEF Released
<1>7. CASE ~(state = "0" /\ pd.tries = 0) /\ ~conf.groups[g].single
  <2>1. PICK e : e = IF state = "FAILED" THEN Failed(Peers(g)[c], rs[g][c]) ELSE Passed(rs[g][c])
    OBVIOUS
  <2>2. PICK ps : ps = [rs[g] EXCEPT ![c] = e]
    OBVIOUS
  <2>3. PICK i : i = NextIndex(Peers(g), c)
    OBVIOUS
  <2>4. PICK n : n = IF pd.tries > 0 THEN pd.tries - 1 ELSE 0
    OBVIOUS
  <2>5. PICK p : p = [pd EXCEPT !.current = i, !.tries = n]
    OBVIOUS
  <2>6. f = [rr |-> [rs EXCEPT ![g] = ps], pd |-> p]
    <3>1. p = [pd EXCEPT !.current = NextIndex(conf.groups[g].peer, @),
                         !.tries = IF @ > 0 THEN @ - 1 ELSE 0]
      BY <1>3, <2>3, <2>4, <2>5, Zenon DEF Peers
    <3>2. [rs EXCEPT ![g] = ps] = [rs EXCEPT ![g][c] =
             IF state = "FAILED" THEN Failed(conf.groups[g].peer[c], @) ELSE Passed(@)]
      BY <2>1, <2>2, Zenon DEF Peers
    <3> QED BY <1>1, <1>2, <1>3, <1>7, <3>1, <3>2, Zenon DEF FreeRoundRobinPeer
  <2>7. f.rr = [rs EXCEPT ![g] = ps] /\ f.pd = p
    BY <2>6
  <2>8. e \in PeerState
    <3>1. Peers(g)[c] \in PeerType /\ rs[g][c] \in PeerState
      BY <1>4, ElementOfSeq
    <3> QED BY <2>1, <3>1, FailedType
  <2>9. ps \in Seq(PeerState) /\ Len(ps) = Len(Peers(g))
    BY <1>4, <2>2, <2>8
  <2>10. i \in 1 .. Len(Peers(g)) /\ i \in Nat /\ n \in Nat
    <3>1. i \in 1 .. Len(Peers(g))
      BY <1>4, <2>3 DEF NextIndex
    <3>2. n \in Nat
      BY <1>4, <2>4 DEF TurnType
    <3> QED BY <3>1, <3>2
  <2>11. p \in TurnType /\ p.group = g /\ p.current = i /\ p.tried = pd.tried
    BY <1>2, <1>4, <2>5, <2>10 DEF TurnType
  <2>12. Servers([rs EXCEPT ![g] = ps])
    BY <1>4, <2>9, GroupChanges
  <2> QED BY <1>1, <2>7, <2>10, <2>11, <2>12, TurnIs DEF Released
<1> QED BY <1>5, <1>6, <1>7

-----------------------------------------------------------------------------
(* The handlers on the balancer's data. *)

(* What a handler changes that is not the balancer's. *)
LEMMA TouchBalanced ==
  ASSUME NEW w, Balanced(w), NEW v, DOMAIN v = DOMAIN w, v.rr = w.rr, v.cache = w.cache,
         DOMAIN v.q = ReqFields, v.q.conn \in Connections \cup {NoConn}, v.q.phase # "new",
         v.q.pd = w.q.pd, v.q.addr = w.q.addr, v.q.seen = w.q.seen
  PROVE  Balanced(v)
BY DEF Balanced, Data

(* peer.get of the balancer: a server the request has not seen, or none. *)
LEMMA GivenBalanced ==
  ASSUME conf \in Configs, NEW w, Balanced(w), NEW g, g = BalancerGet(w)
  PROVE  /\ Balanced(g.w)
         /\ g.w.q.conn = NoConn /\ g.w.cache = w.cache
         /\ OneGroup /\ g.rc = "OK" => g.w.q.addr \notin w.q.seen
<1>1. PICK b : b = GetRoundRobinPeer(conf.groups, w.rr, w.q.pd)
  OBVIOUS
<1>2. /\ DOMAIN w = {"rr", "cache", "conn", "q"} /\ Servers(w.rr) /\ w.cache \in Seq(Entry)
      /\ DOMAIN w.q = ReqFields /\ Turn(w.q.pd) /\ w.q.addr \in Nat \X Nat
      /\ w.q.phase # "new"
      /\ OneGroup => w.q.seen \cup {w.q.addr} \subseteq Tried(w.q.pd)
  BY DEF Balanced, Data
<1>3. Given(b, w.q.pd)
  BY <1>1, <1>2, RoundRobinType
<1>4. PICK a : a = IF b.rc = "OK" THEN <<b.pd.group, b.pd.current>> ELSE w.q.addr
  OBVIOUS
<1>5. PICK n : n = w.q.seen \cup {a}
  OBVIOUS
<1>6. PICK v : v = [w EXCEPT !.rr = b.rr, !.q.pd = b.pd, !.q.cached = FALSE,
                             !.q.conn = NoConn, !.q.addr = a, !.q.seen = n]
  OBVIOUS
<1>7. g.rc = b.rc /\ g.w = v
  BY <1>1, <1>4, <1>5, <1>6 DEF BalancerGet
<1>8. /\ DOMAIN v = DOMAIN w /\ v.rr = b.rr /\ v.cache = w.cache
      /\ DOMAIN v.q = ReqFields /\ v.q.conn = NoConn /\ v.q.phase = w.q.phase
      /\ v.q.pd = b.pd /\ v.q.addr = a /\ v.q.seen = n
  BY <1>2, <1>6 DEF ReqFields
<1>9. a \in Nat \X Nat
  <2>1. b.pd.group \in DOMAIN conf.groups /\ b.pd.current \in Nat
    BY <1>3, TurnIs DEF Given, TurnType
  <2>2. DOMAIN conf.groups = 1 .. Len(conf.groups)
    BY GroupType
  <2>3. b.pd.group \in Nat
    BY <2>1, <2>2
  <2> QED BY <1>2, <1>4, <2>1, <2>3
<1>10. ASSUME OneGroup
       PROVE  /\ n \cup {a} \subseteq Tried(b.pd)
              /\ b.rc = "OK" => a \notin w.q.seen
  <2>1. /\ w.q.pd.tried \subseteq b.pd.tried
        /\ b.rc = "OK" => b.pd.group = 1 /\ b.pd.current \in b.pd.tried \ w.q.pd.tried
    BY <1>3, <1>10 DEF Given
  <2>2. w.q.seen \cup {w.q.addr} \subseteq Tried(w.q.pd) /\ Tried(w.q.pd) \subseteq Tried(b.pd)
    BY <1>2, <1>10, <2>1 DEF Tried
  <2>3. CASE b.rc # "OK"
    BY <1>4, <1>5, <2>2, <2>3
  <2>4. CASE b.rc = "OK"
    <3>1. PICK c : c = b.pd.current
      OBVIOUS
    <3>2. a = <<1, c>> /\ c \in b.pd.tried /\ c \notin w.q.pd.tried
      BY <1>4, <2>1, <2>4, <3>1
    <3>3. a \in Tried(b.pd)
      BY <3>2 DEF Tried
    <3>4. a \notin Tried(w.q.pd)
      BY <3>2 DEF Tried, NoAddr
    <3> QED BY <1>5, <2>2, <3>3, <3>4
  <2> QED BY <2>3, <2>4
<1>11. Balanced(v)
  <2>1. Servers(v.rr) /\ Turn(v.q.pd)
    BY <1>3, <1>8 DEF Given
  <2>2. OneGroup => v.q.seen \cup {v.q.addr} \subseteq Tried(v.q.pd)
    BY <1>8, <1>10
  <2> QED BY <1>2, <1>8, <1>9, <2>1, <2>2 DEF Balanced, Data
<1> QED BY <1>7, <1>8, <1>10, <1>11

(* An idle connection is taken. *)
LEMMA TakeBalanced ==
  ASSUME NEW w, Balanced(w), NEW k \in 1 .. Len(w.cache)
  PROVE  Balanced(TakeCached(w, k).w)
<1>1. PICK x : x = w.cache[k]
  OBVIOUS
<1>2. PICK s : s = RemoveAt(w.cache, k)
  OBVIOUS
<1>3. PICK v : v = [w EXCEPT !.cache = s, !.q.conn = x.c, !.q.cached = TRUE]
  OBVIOUS
<1>4. TakeCached(w, k).w = v
  BY <1>1, <1>2, <1>3 DEF TakeCached
<1>5. DOMAIN w = {"rr", "cache", "conn", "q"} /\ DOMAIN w.q = ReqFields /\ w.cache \in Seq(Entry)
  BY DEF Balanced, Data
<1>6. /\ DOMAIN v = DOMAIN w /\ v.rr = w.rr /\ v.cache = s
      /\ DOMAIN v.q = ReqFields /\ v.q.conn = x.c /\ v.q.phase = w.q.phase
      /\ v.q.pd = w.q.pd /\ v.q.addr = w.q.addr /\ v.q.seen = w.q.seen
  BY <1>3, <1>5 DEF ReqFields
<1>7. s \in Seq(Entry)
  BY <1>2, <1>5, RemoveAtElements
<1>8. x.c \in Connections
  <2>1. x \in Entry
    BY <1>1, <1>5, ElementOfSeq
  <2> QED BY <2>1 DEF Entry
<1>9. Balanced(v)
  BY <1>6, <1>7, <1>8 DEF Balanced, Data
<1> QED BY <1>4, <1>9

(* ngx_http_upstream_get_keepalive_peer *)
LEMMA GetBalanced ==
  ASSUME conf \in Configs, NEW w, Balanced(w)
  PROVE  Balanced(KeepaliveGet(w).w)
<1>1. PICK u : u = [w EXCEPT !.q.failed = FALSE]
  OBVIOUS
<1>2. Balanced(u)
  <2>1. DOMAIN w = {"rr", "cache", "conn", "q"} /\ DOMAIN w.q = ReqFields
    BY DEF Balanced, Data
  <2>2. /\ DOMAIN u = DOMAIN w /\ u.rr = w.rr /\ u.cache = w.cache
        /\ DOMAIN u.q = ReqFields /\ u.q.conn = w.q.conn /\ u.q.phase = w.q.phase
        /\ u.q.pd = w.q.pd /\ u.q.addr = w.q.addr /\ u.q.seen = w.q.seen
    BY <1>1, <2>1 DEF ReqFields
  <2> QED BY <2>2, TouchBalanced DEF Balanced, Data
<1>3. PICK b : b = BalancerGet(u)
  OBVIOUS
<1>4. Balanced(b.w) /\ b.w.cache = u.cache
  BY <1>2, <1>3, GivenBalanced
<1>5. PICK fit : fit = {k \in DOMAIN u.cache : u.cache[k].peer = b.w.q.addr}
  OBVIOUS
<1>6. \/ conf.single /\ u.cache # <<>> /\ KeepaliveGet(w) = TakeCached(u, 1)
      \/ KeepaliveGet(w) = b
      \/ fit # {} /\ KeepaliveGet(w) = TakeCached(b.w, Min(fit))
  BY <1>1, <1>3, <1>5, Zenon DEF KeepaliveGet
<1>7. u.cache \in Seq(Entry) /\ DOMAIN u.cache = 1 .. Len(u.cache) /\ Len(u.cache) \in Nat
  <2>1. u.cache \in Seq(Entry)
    BY <1>2 DEF Balanced
  <2> QED BY <2>1
<1>8. CASE u.cache # <<>> /\ KeepaliveGet(w) = TakeCached(u, 1)
  <2>1. 1 \in 1 .. Len(u.cache)
    BY <1>7, <1>8, EmptySeq
  <2> QED BY <1>2, <1>8, <2>1, TakeBalanced
<1>9. CASE KeepaliveGet(w) = b
  BY <1>4, <1>9
<1>10. CASE fit # {} /\ KeepaliveGet(w) = TakeCached(b.w, Min(fit))
  <2>1. Min(fit) \in fit
    <3>1. fit \in SUBSET Nat
      BY <1>5, <1>7
    <3> QED BY <1>10, <3>1, MinIn
  <2>2. Min(fit) \in 1 .. Len(b.w.cache)
    BY <1>4, <1>5, <1>7, <2>1
  <2> QED BY <1>4, <1>10, <2>2, TakeBalanced
<1> QED BY <1>6, <1>8, <1>9, <1>10

(* Attach *)
LEMMA AttachBalanced ==
  ASSUME NEW w, Balanced(w), NEW c \in Connections \cup {NoConn}, NEW phase, phase # "new"
  PROVE  Balanced(Attach(w, c, phase))
<1>1. PICK b : b = IF w.q.request_sent THEN FALSE ELSE w.q.keepalive
  OBVIOUS
<1>2. PICK v : v = [w EXCEPT !.q.conn = c, !.q.phase = phase, !.q.unsent = FALSE,
                             !.q.keepalive = b, !.q.request_sent = FALSE]
  OBVIOUS
<1>3. v = Attach(w, c, phase)
  BY <1>1, <1>2 DEF Attach
<1>4. DOMAIN w = {"rr", "cache", "conn", "q"} /\ DOMAIN w.q = ReqFields
  BY DEF Balanced, Data
<1>5. /\ DOMAIN v = DOMAIN w /\ v.rr = w.rr /\ v.cache = w.cache
      /\ DOMAIN v.q = ReqFields /\ v.q.conn = c /\ v.q.phase = phase
      /\ v.q.pd = w.q.pd /\ v.q.addr = w.q.addr /\ v.q.seen = w.q.seen
  BY <1>2, <1>4 DEF ReqFields
<1> QED BY <1>3, <1>5, TouchBalanced

(* Closing the connection of the request. *)
LEMMA CloseOwnBalanced ==
  ASSUME NEW w, Balanced(w)
  PROVE  Balanced(CloseOwn(w))
<1>1. CASE w.q.conn = NoConn
  BY <1>1 DEF CloseOwn
<1>2. CASE w.q.conn # NoConn
  <2>1. PICK c : c = w.q.conn
    OBVIOUS
  <2>2. PICK v : v = [[w EXCEPT !.conn[c] = Closed] EXCEPT !.q.conn = NoConn]
    OBVIOUS
  <2>3. CloseOwn(w) = v
    BY <1>2, <2>1, <2>2 DEF CloseOwn, Close
  <2>4. DOMAIN w = {"rr", "cache", "conn", "q"} /\ DOMAIN w.q = ReqFields
    BY DEF Balanced, Data
  <2>5. /\ DOMAIN v = DOMAIN w /\ v.rr = w.rr /\ v.cache = w.cache
        /\ DOMAIN v.q = ReqFields /\ v.q.conn = NoConn /\ v.q.phase = w.q.phase
        /\ v.q.pd = w.q.pd /\ v.q.addr = w.q.addr /\ v.q.seen = w.q.seen
    BY <2>2, <2>4 DEF ReqFields
  <2>6. v.q.phase # "new"
    BY <2>5 DEF Balanced
  <2> QED BY <2>3, <2>5, <2>6, TouchBalanced
<1> QED BY <1>1, <1>2

(* ngx_http_upstream_free_keepalive_peer saves the connection. *)
LEMMA SaveBalanced ==
  ASSUME NEW w, Balanced(w), NEW flag, w.q.conn # NoConn
  PROVE  Balanced(Save(w, flag))
<1>1. PICK c \in Connections : c = w.q.conn
  BY DEF Balanced, Data
<1>2. PICK kept : kept = Kept(w)
  OBVIOUS
<1>3. PICK u : u = Evicted(w)
  OBVIOUS
<1>4. DOMAIN w = {"rr", "cache", "conn", "q"} /\ DOMAIN w.q = ReqFields /\ w.cache \in Seq(Entry)
  BY DEF Balanced, Data
<1>5. DOMAIN u = DOMAIN w /\ u.rr = w.rr /\ u.q = w.q
  <2>1. CASE u = w
    BY <2>1
  <2>2. CASE u = Close(w, Last(w.cache).c)
    BY <1>4, <2>2 DEF Close
  <2> QED BY <1>3, <2>1, <2>2 DEF Evicted
<1>6. kept \in Seq(Entry)
  <2>1. Front(w.cache) \in Seq(Entry)
    <3>1. Len(w.cache) \in Nat /\ \A i \in 1 .. Len(w.cache) : w.cache[i] \in Entry
      BY <1>4, ElementOfSeq
    <3>2. \A i \in 1 .. Len(w.cache) - 1 : w.cache[i] \in Entry
      BY <3>1
    <3>3. SubSeq(w.cache, 1, Len(w.cache) - 1) \in Seq(Entry)
      <4>1. Len(w.cache) - 1 \in Int /\ 1 \in Int
        BY <3>1
      <4> QED BY <3>2, <4>1, SubSeqProperties
    <3> QED BY <3>3 DEF Front
  <2> QED BY <1>2, <1>4, <2>1 DEF Kept
<1>7. PICK x : x = [c |-> c, peer |-> w.q.addr]
  OBVIOUS
<1>8. <<x>> \o kept \in Seq(Entry)
  <2>1. x \in Entry
    BY <1>7 DEF Entry, Balanced, Data
  <2>2. <<x>> \in Seq(Entry)
    BY <2>1
  <2> QED BY <1>6, <2>2
<1>9. PICK s \in Seq(Entry) :
        \/ Save(w, flag) = [Close(u, c) EXCEPT !.cache = s, !.q.conn = NoConn]
        \/ Save(w, flag) = [u EXCEPT !.cache = s, !.q.conn = NoConn]
  <2>1. \/ Save(w, flag) = [Close(u, c) EXCEPT !.cache = kept, !.q.conn = NoConn]
        \/ Save(w, flag) = [u EXCEPT !.cache = <<x>> \o kept, !.q.conn = NoConn]
    BY <1>1, <1>2, <1>3, <1>7, Zenon DEF Save, Kept, Evicted
  <2> QED BY <1>6, <1>8, <2>1
<1>10. PICK t : /\ DOMAIN t = DOMAIN w /\ t.rr = w.rr /\ t.q = w.q
                /\ Save(w, flag) = [t EXCEPT !.cache = s, !.q.conn = NoConn]
  <2>1. DOMAIN Close(u, c) = DOMAIN u /\ Close(u, c).rr = u.rr /\ Close(u, c).q = u.q
    BY <1>4, <1>5 DEF Close
  <2> QED BY <1>5, <1>9, <2>1
<1>11. PICK v : v = [t EXCEPT !.cache = s, !.q.conn = NoConn]
  OBVIOUS
<1>12. /\ DOMAIN v = DOMAIN w /\ v.rr = w.rr /\ v.cache = s
       /\ DOMAIN v.q = ReqFields /\ v.q.conn = NoConn /\ v.q.phase = w.q.phase
       /\ v.q.pd = w.q.pd /\ v.q.addr = w.q.addr /\ v.q.seen = w.q.seen
  BY <1>4, <1>10, <1>11 DEF ReqFields
<1>13. Balanced(v)
  BY <1>9, <1>12 DEF Balanced, Data
<1> QED BY <1>10, <1>11, <1>13

(* peer.free: neither of the two balancers forgets what was tried. *)
LEMMA FreeBalanced ==
  ASSUME conf \in Configs, NEW w, Balanced(w), NEW state, NEW flag
  PROVE  Balanced(Free(w, state, flag))
<1>1. PICK a : a = (w.q.failed \/ state = "FAILED")
  OBVIOUS
<1>2. PICK u : u = [w EXCEPT !.q.failed = a]
  OBVIOUS
<1>3. PICK t : t = IF Savable(u, flag) THEN Save(u, flag) ELSE u
  OBVIOUS
<1>4. PICK f : f = FreeRoundRobinPeer(conf.groups, t.rr, t.q.pd, state)
  OBVIOUS
<1>5. PICK v : v = [t EXCEPT !.rr = f.rr, !.q.pd = f.pd]
  OBVIOUS
<1>6. Free(w, state, flag) = v
  <2>1. u = [w EXCEPT !.q.failed = @ \/ state = "FAILED"]
    BY <1>1, <1>2, Zenon
  <2> QED BY <1>3, <1>4, <1>5, <2>1, Zenon DEF Free
<1>7. Balanced(u)
  <2>1. DOMAIN w = {"rr", "cache", "conn", "q"} /\ DOMAIN w.q = ReqFields
    BY DEF Balanced, Data
  <2>2. /\ DOMAIN u = DOMAIN w /\ u.rr = w.rr /\ u.cache = w.cache
        /\ DOMAIN u.q = ReqFields /\ u.q.conn = w.q.conn /\ u.q.phase = w.q.phase
        /\ u.q.pd = w.q.pd /\ u.q.addr = w.q.addr /\ u.q.seen = w.q.seen
    BY <1>2, <2>1 DEF ReqFields
  <2> QED BY <2>2, TouchBalanced DEF Balanced, Data
<1>8. Balanced(t)
  <2>1. CASE Savable(u, flag)
    BY <1>3, <1>7, <2>1, SaveBalanced DEF Savable
  <2>2. CASE ~Savable(u, flag)
    BY <1>3, <1>7, <2>2
  <2> QED BY <2>1, <2>2
<1>9. /\ DOMAIN t = {"rr", "cache", "conn", "q"} /\ DOMAIN t.q = ReqFields
      /\ Servers(t.rr) /\ Turn(t.q.pd)
  BY <1>8 DEF Balanced, Data
<1>10. Servers(f.rr) /\ Turn(f.pd) /\ f.pd.tried = t.q.pd.tried
  <2>1. PICK rs : rs = t.rr
    OBVIOUS
  <2>2. PICK pd : pd = t.q.pd
    OBVIOUS
  <2>3. Servers(rs) /\ Turn(pd)
    BY <1>9, <2>1, <2>2
  <2>4. f = FreeRoundRobinPeer(conf.groups, rs, pd, state)
    BY <1>4, <2>1, <2>2
  <2>5. Released(f, pd)
    BY <2>3, <2>4, FreePeerType
  <2> QED BY <2>2, <2>5 DEF Released
<1>11. /\ DOMAIN v = DOMAIN t /\ v.rr = f.rr /\ v.cache = t.cache
       /\ DOMAIN v.q = ReqFields /\ v.q.conn = t.q.conn /\ v.q.phase = t.q.phase
       /\ v.q.pd = f.pd /\ v.q.addr = t.q.addr /\ v.q.seen = t.q.seen
  BY <1>5, <1>9 DEF ReqFields
<1>12. OneGroup => v.q.seen \cup {v.q.addr} \subseteq Tried(v.q.pd)
  <2>1. OneGroup => t.q.seen \cup {t.q.addr} \subseteq Tried(t.q.pd)
    BY <1>8 DEF Balanced, Data
  <2>2. Tried(v.q.pd) = Tried(t.q.pd)
    BY <1>10, <1>11 DEF Tried
  <2> QED BY <1>11, <2>1, <2>2
<1>13. Balanced(v)
  BY <1>8, <1>9, <1>10, <1>11, <1>12 DEF Balanced, Data
<1> QED BY <1>6, <1>13

(* A request as it is before it begins and after its end. *)
LEMMA NewData ==
  ASSUME conf \in Configs, NEW p, NEW q, q = [NewRequest EXCEPT !.phase = p]
  PROVE  Data(q) /\ q.seen = {} /\ q.addr = NoAddr /\ q.phase = p
<1>1. PICK pd : pd = [group |-> 1, current |-> 1, tried |-> {}, tries |-> 0]
  OBVIOUS
<1>2. /\ DOMAIN q = ReqFields /\ q.phase = p /\ q.pd = pd /\ q.addr = NoAddr
      /\ q.conn = NoConn /\ q.seen = {}
  BY <1>1 DEF NewRequest, ReqFields
<1>3. 1 \in DOMAIN conf.groups /\ Len(Peers(1)) \in Nat \ {0}
  BY GroupType
<1>4. pd \in TurnType /\ pd.group = 1 /\ pd.current = 1
  BY <1>1, <1>3 DEF TurnType
<1>5. Turn(pd)
  <2>1. 1 \in 1 .. Len(Peers(1))
    BY <1>3
  <2> QED BY <1>4, <2>1, TurnIs
<1>6. NoAddr \in Nat \X Nat /\ {} \cup {NoAddr} \subseteq Tried(pd)
  BY DEF NoAddr, Tried
<1> QED BY <1>2, <1>5, <1>6 DEF Data

(* ngx_http_upstream_finalize_request *)
LEMMA FinalizeBalanced ==
  ASSUME conf \in Configs, NEW w, Balanced(w), NEW flag
  PROVE  Balanced(Finalize(w, flag))
<1>1. PICK t : t = CloseOwn(Free(w, "0", flag))
  OBVIOUS
<1>2. Balanced(t)
  BY <1>1, FreeBalanced, CloseOwnBalanced
<1>3. PICK q : q = [NewRequest EXCEPT !.phase = "done"]
  OBVIOUS
<1>4. Data(q) /\ q.phase = "done"
  BY <1>3, NewData
<1>5. PICK v : v = [t EXCEPT !.q = q]
  OBVIOUS
<1>6. Finalize(w, flag) = v
  BY <1>1, <1>3, <1>5 DEF Finalize
<1>7. DOMAIN v = DOMAIN t /\ v.rr = t.rr /\ v.cache = t.cache /\ v.q = q
  BY <1>2, <1>5 DEF Balanced
<1>8. Balanced(v)
  BY <1>2, <1>4, <1>7 DEF Balanced
<1> QED BY <1>6, <1>8

(* ngx_http_upstream_next *)
LEMMA AfterNextBalanced ==
  ASSUME conf \in Configs, NEW w, Balanced(w), NEW ft, NEW flag
  PROVE  Balanced(AfterNext(w, ft, flag))
<1>0. PICK state : state = IF ft = "http_404" THEN "NEXT" ELSE "FAILED"
  OBVIOUS
<1>1. PICK u : u = IF ft = "nolive" THEN w ELSE Free(w, state, flag)
  OBVIOUS
<1>2. PICK t : t = IF u.q.cached /\ ft = "error" THEN [u EXCEPT !.q.pd.tries = @ + 1] ELSE u
  OBVIOUS
<1>3. PICK v : v = [CloseOwn(t) EXCEPT !.q.phase = "connect"]
  OBVIOUS
<1>4. AfterNext(w, ft, flag) = Finalize(t, flag) \/ AfterNext(w, ft, flag) = v
  BY <1>0, <1>1, <1>2, <1>3, Zenon DEF AfterNext
<1>5. Balanced(u)
  BY <1>1, FreeBalanced
<1>6. Balanced(t)
  <2>1. CASE t = u
    BY <1>5, <2>1
  <2>2. CASE t = [u EXCEPT !.q.pd.tries = @ + 1]
    <3>1. /\ DOMAIN u = {"rr", "cache", "conn", "q"} /\ DOMAIN u.q = ReqFields
          /\ Turn(u.q.pd) /\ u.q.pd \in TurnType
      BY <1>5, TurnIs DEF Balanced, Data
    <3>2. PICK n : n = u.q.pd.tries + 1
      OBVIOUS
    <3>3. PICK p : p = [u.q.pd EXCEPT !.tries = n]
      OBVIOUS
    <3>4. n \in Nat
      BY <3>1, <3>2 DEF TurnType
    <3>5. /\ p \in TurnType /\ p.group = u.q.pd.group /\ p.current = u.q.pd.current
          /\ p.tried = u.q.pd.tried
      BY <3>1, <3>3, <3>4 DEF TurnType
    <3>6. Turn(p) /\ Tried(p) = Tried(u.q.pd)
      BY <3>1, <3>5, TurnIs DEF Tried
    <3>7. t = [u EXCEPT !.q.pd = p]
      BY <2>2, <3>2, <3>3, Zenon
    <3>8. /\ DOMAIN t = DOMAIN u /\ t.rr = u.rr /\ t.cache = u.cache
          /\ DOMAIN t.q = ReqFields /\ t.q.conn = u.q.conn /\ t.q.phase = u.q.phase
          /\ t.q.pd = p /\ t.q.addr = u.q.addr /\ t.q.seen = u.q.seen
      BY <3>1, <3>7 DEF ReqFields
    <3> QED BY <1>5, <3>6, <3>8 DEF Balanced, Data
  <2> QED BY <1>2, <2>1, <2>2
<1>7. PICK x : x = CloseOwn(t)
  OBVIOUS
<1>8. Balanced(x)
  BY <1>6, <1>7, CloseOwnBalanced
<1>9. DOMAIN x = {"rr", "cache", "conn", "q"} /\ DOMAIN x.q = ReqFields
  BY <1>8 DEF Balanced, Data
<1>10. /\ DOMAIN v = DOMAIN x /\ v.rr = x.rr /\ v.cache = x.cache
       /\ DOMAIN v.q = ReqFields /\ v.q.conn = x.q.conn /\ v.q.phase = "connect"
       /\ v.q.pd = x.q.pd /\ v.q.addr = x.q.addr /\ v.q.seen = x.q.seen
  BY <1>3, <1>7, <1>9 DEF ReqFields
<1>11. Balanced(v)
  BY <1>8, <1>10, TouchBalanced DEF Balanced, Data
<1>12. Balanced(Finalize(t, flag))
  BY <1>6, FinalizeBalanced
<1> QED BY <1>4, <1>11, <1>12

-----------------------------------------------------------------------------
(* The actions on the balancer's data. *)

LEMMA WorldBalanced ==
  ASSUME BInv, NEW r \in Requests, req[r].phase # "new", NEW w, w = World(r)
  PROVE  /\ Balanced(w) /\ w.q = req[r]
         /\ DOMAIN w = {"rr", "cache", "conn", "q"} /\ DOMAIN w.q = ReqFields
         /\ w.q.conn \in Connections \cup {NoConn}
BY DEF BInv, World, Balanced, Data

(* What the data of the balancer are depends on the configuration alone. *)
LEMMA SameConf ==
  ASSUME conf' = conf, Servers(rr'), cache' \in Seq(Entry), busy' \in Requests \cup {NoReq},
         \A r \in Requests :
           Data(req'[r]) /\ (req'[r].phase = "new" => req'[r].seen = {} /\ req'[r].addr = NoAddr)
  PROVE  BInv'
BY DEF BInv, Servers, Data, Turn, Peers, OneGroup, Tried

LEMMA ReturnBalanced ==
  ASSUME IInv, BInv, NEW r \in Requests, NEW w, Return(r, w), Balanced(w)
  PROVE  BInv'
<1>1. PICK b : Commit(r, w, b) /\ b \in {r, NoReq}
  BY DEF Return
<1>2. /\ conf' = conf /\ rr' = w.rr /\ cache' = w.cache /\ busy' = b
      /\ req' = [req EXCEPT ![r] = w.q] /\ DOMAIN req = Requests
  BY <1>1 DEF Commit, IInv
<1>3. ASSUME NEW x \in Requests
      PROVE  /\ Data(req'[x])
             /\ req'[x].phase = "new" => req'[x].seen = {} /\ req'[x].addr = NoAddr
  <2>1. CASE x = r
    BY <1>2, <2>1 DEF Balanced
  <2>2. CASE x # r
    BY <1>2, <2>2 DEF BInv
  <2> QED BY <2>1, <2>2
<1>4. Servers(rr') /\ cache' \in Seq(Entry) /\ busy' \in Requests \cup {NoReq}
  BY <1>1, <1>2 DEF Balanced
<1> QED BY <1>2, <1>3, <1>4, SameConf

LEMMA GivesUpBalanced ==
  ASSUME IInv, BInv, NEW r \in Requests, NEW w, Balanced(w)
  PROVE  /\ (\E ft : NextUpstream(r, w, ft)) => BInv'
         /\ End(r, w) => BInv'
<1>1. conf \in Configs
  BY DEF IInv
<1>2. ASSUME NEW ft, NextUpstream(r, w, ft) PROVE BInv'
  <2>1. PICK flag : Return(r, AfterNext(w, ft, flag))
    BY <1>2 DEF NextUpstream
  <2>2. Balanced(AfterNext(w, ft, flag))
    BY <1>1, AfterNextBalanced
  <2> QED BY <2>1, <2>2, ReturnBalanced
<1>3. ASSUME End(r, w) PROVE BInv'
  <2>1. PICK flag : Return(r, Finalize(w, flag))
    BY <1>3 DEF End
  <2>2. Balanced(Finalize(w, flag))
    BY <1>1, FinalizeBalanced
  <2> QED BY <2>1, <2>2, ReturnBalanced
<1> QED BY <1>2, <1>3

(* Start *)
LEMMA StartBalanced ==
  ASSUME IInv, BInv, NEW r \in Requests, Start(r)
  PROVE  BInv'
<1>1. PICK w : w = World(r)
  OBVIOUS
<1>2. PICK p : p = InitPeerData(conf.groups)
  OBVIOUS
<1>3. PICK v : v = [w EXCEPT !.q.pd = p, !.q.phase = "connect"]
  OBVIOUS
<1>4. Return(r, v) /\ req[r].phase = "new"
  BY <1>1, <1>2, <1>3 DEF Start
<1>5. /\ Servers(rr) /\ cache \in Seq(Entry) /\ Data(req[r])
      /\ req[r].seen = {} /\ req[r].addr = NoAddr
  BY <1>4 DEF BInv
<1>6. /\ DOMAIN v = {"rr", "cache", "conn", "q"} /\ v.rr = rr /\ v.cache = cache
      /\ DOMAIN v.q = ReqFields /\ v.q.conn = req[r].conn /\ v.q.phase = "connect"
      /\ v.q.pd = p /\ v.q.addr = NoAddr /\ v.q.seen = {}
  BY <1>1, <1>3, <1>5 DEF World, Data, ReqFields
<1>7. 1 \in DOMAIN conf.groups /\ Len(Peers(1)) \in Nat \ {0}
  BY GroupType DEF IInv
<1>8. PICK n : n = Len(conf.groups[1].peer)
  OBVIOUS
<1>9. p = [group |-> 1, current |-> 1, tried |-> {}, tries |-> n]
  BY <1>2, <1>8 DEF InitPeerData
<1>10. p \in TurnType /\ p.group = 1 /\ p.current = 1
  BY <1>7, <1>8, <1>9 DEF TurnType, Peers
<1>11. Turn(p)
  <2>1. 1 \in 1 .. Len(Peers(1))
    BY <1>7
  <2> QED BY <1>10, <2>1, TurnIs
<1>12. {} \cup {NoAddr} \subseteq Tried(p)
  BY DEF Tried
<1>13. Balanced(v)
  BY <1>5, <1>6, <1>11, <1>12 DEF Balanced, Data
<1> QED BY <1>4, <1>13, ReturnBalanced

(* Connect *)
LEMMA ConnectBalanced ==
  ASSUME IInv, BInv, NEW r \in Requests, Connect(r)
  PROVE  BInv'
<1>1. PICK w0 : w0 = World(r)
  OBVIOUS
<1>2. req[r].phase = "connect" /\ conf \in Configs
  BY DEF Connect, IInv
<1>3. Balanced(w0)
  BY <1>1, <1>2, WorldBalanced
<1>4. PICK g : g = KeepaliveGet(w0)
  OBVIOUS
<1>5. PICK w : w = g.w
  OBVIOUS
<1>6. Balanced(w)
  BY <1>2, <1>3, <1>4, <1>5, GetBalanced
<1>7. \/ \E ft : NextUpstream(r, w, ft)
      \/ End(r, w)
      \/ Return(r, Attach(w, w.q.conn, "send"))
      \/ /\ FreeConns # {}
         /\ \E phase \in {"connecting", "send"} :
              Return(r, Attach([w EXCEPT !.conn[Min(FreeConns)] = Opened(w.q.addr)],
                               Min(FreeConns), phase))
  BY <1>1, <1>4, <1>5, Zenon DEF Connect
<1>8. CASE (\E ft : NextUpstream(r, w, ft)) \/ End(r, w)
  BY <1>6, <1>8, GivesUpBalanced
<1>9. CASE Return(r, Attach(w, w.q.conn, "send"))
  <2>1. w.q.conn \in Connections \cup {NoConn}
    BY <1>6 DEF Balanced, Data
  <2>2. Balanced(Attach(w, w.q.conn, "send"))
    BY <1>6, <2>1, AttachBalanced
  <2> QED BY <1>9, <2>2, ReturnBalanced
<1>10. CASE /\ FreeConns # {}
            /\ \E phase \in {"connecting", "send"} :
                 Return(r, Attach([w EXCEPT !.conn[Min(FreeConns)] = Opened(w.q.addr)],
                                  Min(FreeConns), phase))
  <2>1. PICK c : c = Min(FreeConns)
    OBVIOUS
  <2>2. c \in Connections
    <3>1. FreeConns \in SUBSET Nat
      BY ConnectionsAssumption DEF FreeConns
    <3>2. Min(FreeConns) \in FreeConns
      BY <1>10, <3>1, MinIn
    <3> QED BY <2>1, <3>2 DEF FreeConns
  <2>3. PICK v : v = [w EXCEPT !.conn[c] = Opened(w.q.addr)]
    OBVIOUS
  <2>4. PICK phase \in {"connecting", "send"} : Return(r, Attach(v, c, phase))
    BY <1>10, <2>1, <2>3
  <2>5. Balanced(v)
    <3>1. DOMAIN v = DOMAIN w /\ v.rr = w.rr /\ v.cache = w.cache /\ v.q = w.q
      BY <1>6, <2>3 DEF Balanced
    <3> QED BY <1>6, <3>1 DEF Balanced
  <2>6. Balanced(Attach(v, c, phase))
    BY <2>2, <2>5, AttachBalanced
  <2> QED BY <2>4, <2>6, ReturnBalanced
<1> QED BY <1>7, <1>8, <1>9, <1>10

(* A request's connection exists while it talks to its server. *)
LEMMA HandlerBalanced ==
  ASSUME IInv, BInv, NEW r \in Requests, req[r].phase # "new", NEW w, w = World(r)
  PROVE  /\ Balanced(w) /\ w.q = req[r]
         /\ DOMAIN w = {"rr", "cache", "conn", "q"} /\ DOMAIN w.q = ReqFields
         /\ w.q.conn \in Connections \cup {NoConn}
         /\ (\E ft : NextUpstream(r, w, ft)) \/ End(r, w) => BInv'
BY WorldBalanced, GivesUpBalanced

(* SendRequest *)
LEMMA SendRequestBalanced ==
  ASSUME IInv, BInv, NEW r \in Requests, SendRequest(r)
  PROVE  BInv'
<1>1. PICK w : w = World(r)
  OBVIOUS
<1>2. PICK c : c = w.q.conn
  OBVIOUS
<1>3. req[r].phase # "new"
  BY DEF SendRequest
<1>4. /\ Balanced(w) /\ w.q = req[r] /\ w.q.phase # "new"
      /\ DOMAIN w = {"rr", "cache", "conn", "q"} /\ DOMAIN w.q = ReqFields
      /\ w.q.conn \in Connections \cup {NoConn}
  BY <1>1, <1>3, HandlerBalanced
<1>5. \/ Return(r, [w EXCEPT !.q.unsent = FALSE])
      \/ \E all \in BOOLEAN :
           Return(r, [w EXCEPT !.conn[c] = Deliver(@, r, all),
                               !.q.request_sent = TRUE,
                               !.q.unsent = ~all,
                               !.q.phase = IF all THEN "waiting" ELSE "sending"])
      \/ \E sent : NextUpstream(r, [w EXCEPT !.q.request_sent = sent], "error")
  BY <1>1, <1>2, Zenon DEF SendRequest
<1>6. CASE Return(r, [w EXCEPT !.q.unsent = FALSE])
  <2>1. PICK v : v = [w EXCEPT !.q.unsent = FALSE]
    OBVIOUS
  <2>2. /\ DOMAIN v = DOMAIN w /\ v.rr = w.rr /\ v.cache = w.cache
        /\ DOMAIN v.q = ReqFields /\ v.q.conn = w.q.conn /\ v.q.phase = w.q.phase
        /\ v.q.pd = w.q.pd /\ v.q.addr = w.q.addr /\ v.q.seen = w.q.seen
    BY <1>4, <2>1 DEF ReqFields
  <2>3. Balanced(v)
    BY <1>4, <2>2, TouchBalanced
  <2> QED BY <1>6, <2>1, <2>3, ReturnBalanced
<1>7. CASE \E sent : NextUpstream(r, [w EXCEPT !.q.request_sent = sent], "error")
  <2>1. PICK sent : NextUpstream(r, [w EXCEPT !.q.request_sent = sent], "error")
    BY <1>7
  <2>2. PICK v : v = [w EXCEPT !.q.request_sent = sent]
    OBVIOUS
  <2>3. /\ DOMAIN v = DOMAIN w /\ v.rr = w.rr /\ v.cache = w.cache
        /\ DOMAIN v.q = ReqFields /\ v.q.conn = w.q.conn /\ v.q.phase = w.q.phase
        /\ v.q.pd = w.q.pd /\ v.q.addr = w.q.addr /\ v.q.seen = w.q.seen
    BY <1>4, <2>2 DEF ReqFields
  <2>4. Balanced(v)
    BY <1>4, <2>3, TouchBalanced
  <2> QED BY <2>1, <2>2, <2>4, GivesUpBalanced
<1>8. CASE \E all \in BOOLEAN :
             Return(r, [w EXCEPT !.conn[c] = Deliver(@, r, all),
                                 !.q.request_sent = TRUE,
                                 !.q.unsent = ~all,
                                 !.q.phase = IF all THEN "waiting" ELSE "sending"])
  <2>1. PICK all \in BOOLEAN :
          Return(r, [w EXCEPT !.conn[c] = Deliver(@, r, all),
                              !.q.request_sent = TRUE,
                              !.q.unsent = ~all,
                              !.q.phase = IF all THEN "waiting" ELSE "sending"])
    BY <1>8, Zenon
  <2>2. PICK k : k = Deliver(w.conn[c], r, all)
    OBVIOUS
  <2>3. PICK n : n = ~all
    OBVIOUS
  <2>4. PICK p : p = IF all THEN "waiting" ELSE "sending"
    OBVIOUS
  <2>5. PICK v : v = [w EXCEPT !.conn[c] = k, !.q.request_sent = TRUE, !.q.unsent = n,
                               !.q.phase = p]
    OBVIOUS
  <2>6. Return(r, v)
    BY <2>1, <2>2, <2>3, <2>4, <2>5, Zenon
  <2>7. /\ DOMAIN v = DOMAIN w /\ v.rr = w.rr /\ v.cache = w.cache
        /\ DOMAIN v.q = ReqFields /\ v.q.conn = w.q.conn /\ v.q.phase = p
        /\ v.q.pd = w.q.pd /\ v.q.addr = w.q.addr /\ v.q.seen = w.q.seen
    BY <1>4, <2>5 DEF ReqFields
  <2>8. Balanced(v)
    BY <1>4, <2>4, <2>7, TouchBalanced
  <2> QED BY <2>6, <2>8, ReturnBalanced
<1> QED BY <1>5, <1>6, <1>7, <1>8

(* TimedOut and HeaderError *)
LEMMA GivenUpBalanced ==
  ASSUME IInv, BInv, NEW r \in Requests, TimedOut(r) \/ HeaderError(r)
  PROVE  BInv'
<1>1. PICK w : w = World(r)
  OBVIOUS
<1>2. req[r].phase # "new" /\ \E ft : NextUpstream(r, w, ft)
  BY <1>1 DEF TimedOut, HeaderError
<1> QED BY <1>1, <1>2, HandlerBalanced

(* ClientAborts *)
LEMMA ClientAbortsBalanced ==
  ASSUME IInv, BInv, NEW r \in Requests, ClientAborts(r)
  PROVE  BInv'
<1>1. PICK w : w = World(r)
  OBVIOUS
<1>2. PICK v : v = [w EXCEPT !.q.error = TRUE]
  OBVIOUS
<1>3. req[r].phase # "new" /\ (Return(r, v) \/ End(r, w))
  BY <1>1, <1>2 DEF ClientAborts
<1>4. /\ Balanced(w) /\ w.q = req[r] /\ w.q.phase # "new"
      /\ DOMAIN w = {"rr", "cache", "conn", "q"} /\ DOMAIN w.q = ReqFields
      /\ w.q.conn \in Connections \cup {NoConn}
      /\ End(r, w) => BInv'
  BY <1>1, <1>3, HandlerBalanced
<1>5. CASE Return(r, v)
  <2>1. /\ DOMAIN v = DOMAIN w /\ v.rr = w.rr /\ v.cache = w.cache
        /\ DOMAIN v.q = ReqFields /\ v.q.conn = w.q.conn /\ v.q.phase = w.q.phase
        /\ v.q.pd = w.q.pd /\ v.q.addr = w.q.addr /\ v.q.seen = w.q.seen
    BY <1>2, <1>4 DEF ReqFields
  <2>2. Balanced(v)
    BY <1>4, <2>1, TouchBalanced
  <2> QED BY <1>5, <2>2, ReturnBalanced
<1> QED BY <1>3, <1>4, <1>5

(* ReadHeader *)
LEMMA ReadHeaderBalanced ==
  ASSUME IInv, BInv, NEW r \in Requests, ReadHeader(r)
  PROVE  BInv'
<1>1. PICK w : w = World(r)
  OBVIOUS
<1>2. PICK c : c = req[r].conn
  OBVIOUS
<1>3. PICK m : m = Head(conn[c].ans)
  OBVIOUS
<1>4. PICK b : b = IF m.empty THEN ~m.close ELSE req[r].keepalive
  OBVIOUS
<1>5. PICK t : t = Tail(conn[c].ans)
  OBVIOUS
<1>6. req[r].phase # "new"
  BY DEF ReadHeader
<1>7. /\ Balanced(w) /\ w.q = req[r] /\ w.q.phase # "new" /\ w.conn = conn
      /\ DOMAIN w = {"rr", "cache", "conn", "q"} /\ DOMAIN w.q = ReqFields
      /\ w.q.conn \in Connections \cup {NoConn}
  BY <1>1, <1>6, HandlerBalanced, WorldOf
<1>8. PICK v : v = [w EXCEPT !.conn[c].ans = t, !.q.close = m.close, !.q.keepalive = b]
  OBVIOUS
<1>9. PICK u : u = [v EXCEPT !.q.header_sent = TRUE, !.q.phase = "body"]
  OBVIOUS
<1>10. (\E ft : NextUpstream(r, v, ft)) \/ End(r, v) \/ End(r, u) \/ Return(r, u)
  <2>1. v = [World(r) EXCEPT !.conn[req[r].conn].ans = Tail(@),
                             !.q.close = m.close,
                             !.q.keepalive = IF m.empty THEN ~m.close ELSE @]
    BY <1>1, <1>2, <1>4, <1>5, <1>7, <1>8, Zenon
  <2> QED BY <1>2, <1>3, <1>9, <2>1, Zenon DEF ReadHeader
<1>11. /\ DOMAIN v = DOMAIN w /\ v.rr = w.rr /\ v.cache = w.cache
       /\ DOMAIN v.q = ReqFields /\ v.q.conn = w.q.conn /\ v.q.phase = w.q.phase
       /\ v.q.pd = w.q.pd /\ v.q.addr = w.q.addr /\ v.q.seen = w.q.seen
  BY <1>7, <1>8 DEF ReqFields
<1>12. /\ DOMAIN u = DOMAIN w /\ u.rr = w.rr /\ u.cache = w.cache
       /\ DOMAIN u.q = ReqFields /\ u.q.conn = w.q.conn /\ u.q.phase = "body"
       /\ u.q.pd = w.q.pd /\ u.q.addr = w.q.addr /\ u.q.seen = w.q.seen
  BY <1>7, <1>9, <1>11 DEF ReqFields
<1>13. Balanced(v) /\ Balanced(u)
  BY <1>7, <1>11, <1>12, TouchBalanced
<1> QED BY <1>10, <1>13, GivesUpBalanced, ReturnBalanced

(* ReadBody *)
LEMMA ReadBodyBalanced ==
  ASSUME IInv, BInv, NEW r \in Requests, ReadBody(r)
  PROVE  BInv'
<1>1. PICK w : w = World(r)
  OBVIOUS
<1>2. PICK c : c = req[r].conn
  OBVIOUS
<1>3. PICK t : t = Tail(w.conn[c].ans)
  OBVIOUS
<1>4. PICK b : b = ~w.q.close
  OBVIOUS
<1>5. PICK v : v = [w EXCEPT !.conn[c].ans = t, !.q.keepalive = b]
  OBVIOUS
<1>6. req[r].phase # "new"
  BY DEF ReadBody
<1>7. /\ Balanced(w) /\ w.q = req[r] /\ w.q.phase # "new"
      /\ DOMAIN w = {"rr", "cache", "conn", "q"} /\ DOMAIN w.q = ReqFields
      /\ w.q.conn \in Connections \cup {NoConn}
  BY <1>1, <1>6, HandlerBalanced
<1>8. End(r, w) \/ End(r, v)
  <2>1. v = [w EXCEPT !.conn[c].ans = Tail(@), !.q.keepalive = ~w.q.close]
    BY <1>3, <1>4, <1>5, Zenon
  <2> QED BY <1>1, <1>2, <2>1, Zenon DEF ReadBody
<1>9. /\ DOMAIN v = DOMAIN w /\ v.rr = w.rr /\ v.cache = w.cache
      /\ DOMAIN v.q = ReqFields /\ v.q.conn = w.q.conn /\ v.q.phase = w.q.phase
      /\ v.q.pd = w.q.pd /\ v.q.addr = w.q.addr /\ v.q.seen = w.q.seen
  BY <1>5, <1>7 DEF ReqFields
<1>10. Balanced(v)
  BY <1>7, <1>9, TouchBalanced
<1> QED BY <1>7, <1>8, <1>10, GivesUpBalanced

-----------------------------------------------------------------------------
(* What is not a step of a request. *)
LEMMA OutsideBalanced ==
  ASSUME BInv, UNCHANGED <<conf, req, busy>>, Servers(rr'), cache' \in Seq(Entry)
  PROVE  BInv'
<1>1. busy' \in Requests \cup {NoReq}
  BY DEF BInv
<1>2. \A r \in Requests :
        Data(req'[r]) /\ (req'[r].phase = "new" => req'[r].seen = {} /\ req'[r].addr = NoAddr)
  BY DEF BInv
<1> QED BY <1>1, <1>2, SameConf

(* CloseIdle *)
LEMMA CloseIdleBalanced ==
  ASSUME BInv, NEW n, CloseIdle(n)
  PROVE  BInv'
<1>1. n \in DOMAIN cache /\ cache' = RemoveAt(cache, n) /\ UNCHANGED <<conf, rr, req, busy>>
  BY DEF CloseIdle
<1>2. PICK s \in Seq(Entry) : s = cache
  BY DEF BInv
<1>3. n \in 1 .. Len(s)
  BY <1>1, <1>2
<1>4. RemoveAt(s, n) \in Seq(Entry)
  BY <1>3, RemoveAtElements
<1>5. Servers(rr')
  BY <1>1 DEF BInv
<1> QED BY <1>1, <1>2, <1>4, <1>5, OutsideBalanced

(* Tick *)
LEMMA TickBalanced ==
  ASSUME BInv, Tick
  PROVE  BInv'
<1>1. PICK rs : rs = rr
  OBVIOUS
<1>2. PICK g \in DOMAIN rs : \E i \in DOMAIN rs[g] : rr' = Expire(rs, g, i)
  BY <1>1 DEF Tick
<1>3. PICK i \in DOMAIN rs[g] : rr' = Expire(rs, g, i)
  BY <1>2
<1>4. Servers(rs) /\ cache \in Seq(Entry) /\ UNCHANGED <<conf, cache, req, busy>>
  BY <1>1 DEF BInv, Tick
<1>5. g \in DOMAIN conf.groups /\ rs[g] \in Seq(PeerState) /\ Len(rs[g]) = Len(Peers(g))
  BY <1>4 DEF Servers
<1>6. PICK e : e = [rs[g][i] EXCEPT !.expired = TRUE]
  OBVIOUS
<1>7. PICK ps : ps = [rs[g] EXCEPT ![i] = e]
  OBVIOUS
<1>8. e \in PeerState
  <2>1. rs[g][i] \in PeerState
    BY <1>5
  <2> QED BY <1>6, <2>1 DEF PeerState
<1>9. ps \in Seq(PeerState) /\ Len(ps) = Len(Peers(g))
  BY <1>5, <1>7, <1>8
<1>10. rr' = [rs EXCEPT ![g] = ps]
  BY <1>3, <1>6, <1>7, Zenon DEF Expire
<1>11. Servers(rr')
  BY <1>4, <1>5, <1>9, <1>10, GroupChanges
<1> QED BY <1>4, <1>11, OutsideBalanced

(* The start. *)
LEMMA InitBalanced == Init => BInv
<1> SUFFICES ASSUME Init PROVE BInv
  OBVIOUS
<1>1. /\ conf \in Configs /\ rr = InitGroups(conf.groups) /\ cache = <<>> /\ busy = NoReq
      /\ \A r \in Requests : req[r] = NewRequest
  BY DEF Init
<1>2. cache \in Seq(Entry) /\ busy \in Requests \cup {NoReq}
  BY <1>1
<1>3. PICK q : q = [NewRequest EXCEPT !.phase = "new"]
  OBVIOUS
<1>4. NewRequest = q
  BY <1>3 DEF NewRequest
<1>5. Data(q) /\ q.seen = {} /\ q.addr = NoAddr
  BY <1>1, <1>3, NewData
<1>6. ASSUME NEW g \in DOMAIN conf.groups
      PROVE  rr[g] \in Seq(PeerState) /\ Len(rr[g]) = Len(Peers(g))
  <2>1. /\ Peers(g) \in Seq(PeerType) /\ Len(Peers(g)) \in Nat
        /\ DOMAIN Peers(g) = 1 .. Len(Peers(g))
    BY <1>1, GroupType
  <2>2. rr[g] = [i \in 1 .. Len(Peers(g)) |-> InitPeer(Peers(g)[i])]
    BY <1>1, <2>1 DEF InitGroups, Peers
  <2>3. ASSUME NEW i \in 1 .. Len(Peers(g))
        PROVE  InitPeer(Peers(g)[i]) \in PeerState
    <3>1. Peers(g)[i] \in PeerType
      BY <2>1, ElementOfSeq
    <3>2. Peers(g)[i].weight \in Int
      BY <3>1 DEF PeerType
    <3> QED BY <3>2 DEF InitPeer, PeerState
  <2>4. rr[g] \in [1 .. Len(Peers(g)) -> PeerState]
    BY <2>2, <2>3
  <2> QED BY <2>1, <2>4
<1>7. rr \in [DOMAIN conf.groups -> Seq(PeerState)]
  BY <1>1, <1>6 DEF InitGroups
<1>8. Servers(rr)
  BY <1>6, <1>7 DEF Servers
<1> QED BY <1>1, <1>2, <1>4, <1>5, <1>8 DEF BInv

(* Every step. *)
LEMMA NextBalanced == IInv /\ BInv /\ [Next]_vars => BInv'
<1> SUFFICES ASSUME IInv, BInv, [Next]_vars PROVE BInv'
  OBVIOUS
<1>1. ASSUME NEW r \in Requests, Start(r) \/ Handler(r) \/ ClientAborts(r)
      PROVE  BInv'
  BY <1>1, StartBalanced, ConnectBalanced, SendRequestBalanced, GivenUpBalanced,
     ReadHeaderBalanced, ReadBodyBalanced, ClientAbortsBalanced DEF Handler
<1>2. Servers(rr) /\ cache \in Seq(Entry)
  BY DEF BInv
<1>3. ASSUME NEW c \in Connections, ServerAnswers(c) \/ ServerEnds(c) \/ ServerCloses(c)
      PROVE  BInv'
  <2>1. UNCHANGED <<conf, rr, cache, req, busy>>
    BY <1>3 DEF ServerAnswers, ServerEnds, ServerCloses
  <2>2. Servers(rr') /\ cache' \in Seq(Entry)
    BY <1>2, <2>1
  <2> QED BY <2>1, <2>2, OutsideBalanced
<1>4. ASSUME NEW n, CloseIdle(n)
      PROVE  BInv'
  BY <1>4, CloseIdleBalanced
<1>5. CASE Tick
  BY <1>5, TickBalanced
<1>6. CASE UNCHANGED vars
  <2>1. UNCHANGED <<conf, rr, cache, req, busy>>
    BY <1>6 DEF vars
  <2>2. Servers(rr') /\ cache' \in Seq(Entry)
    BY <1>2, <2>1
  <2> QED BY <2>1, <2>2, OutsideBalanced
<1> QED BY <1>1, <1>3, <1>4, <1>5, <1>6 DEF Next

(* The balancer's invariant holds in every reachable state. *)
THEOREM BalancerInductive == Spec => []BInv
<1>1. Init => BInv
  BY InitBalanced
<1>2. IInv /\ IInv' /\ BInv /\ [Next]_vars => BInv'
  BY NextBalanced
<1> QED BY <1>1, <1>2, Inductive, PTL DEF Spec

(* The attempts of a request come to an end: as long as an upstream has no *)
(* backup servers, ngx_http_upstream_get_round_robin_peer never offers a   *)
(* request a server it was offered before, whatever the other requests,    *)
(* the cache of connections and the clock do to the servers in between;    *)
(* and the index it goes on from is always one of a server.                *)
THEOREM OfferedOnce == Spec => []NoServerTwice
<1>1. IInv /\ BInv => TypeOK
  <2> SUFFICES ASSUME IInv, BInv PROVE TypeOK
    OBVIOUS
  <2>1. conf \in Configs /\ ConnsOK(conn)
    BY DEF IInv
  <2>2. Servers(rr) /\ cache \in Seq(Entry) /\ busy \in Requests \cup {NoReq}
    BY DEF BInv
  <2>3. \A c \in Connections : conn[c].open \in BOOLEAN
    BY <2>1 DEF ConnsOK
  <2>4. ASSUME NEW r \in Requests
        PROVE  /\ req[r].phase \in Phases
               /\ req[r].conn \in Connections \cup {NoConn}
               /\ req[r].pd.tries \in Nat
               /\ req[r].pd.group \in DOMAIN conf.groups
               /\ req[r].pd.current \in DOMAIN rr[req[r].pd.group]
    <3>1. Stage(r, req[r], conn) /\ Data(req[r])
      BY DEF IInv, BInv
    <3>2. PICK pd : pd = req[r].pd
      OBVIOUS
    <3>3. Turn(pd)
      BY <3>1, <3>2 DEF Data
    <3>4. /\ pd.tries \in Nat /\ pd.group \in DOMAIN conf.groups
          /\ pd.current \in 1 .. Len(Peers(pd.group))
      BY <3>3 DEF Turn
    <3>5. DOMAIN rr[pd.group] = 1 .. Len(Peers(pd.group))
      BY <2>2, <3>4 DEF Servers
    <3> QED BY <3>1, <3>2, <3>4, <3>5 DEF Stage, Data
  <2> QED BY <2>1, <2>2, <2>3, <2>4 DEF TypeOK, Servers, PeerState, Entry
<1>2. ASSUME IInv, BInv, NEW r \in Requests, req[r].phase = "connect", OneGroup,
             NEW g, g = BalancerGet(World(r)), g.rc = "OK"
      PROVE  g.w.q.addr \notin req[r].seen
  <2>1. PICK w : w = World(r)
    OBVIOUS
  <2>2. Balanced(w) /\ w.q = req[r] /\ conf \in Configs
    BY <1>2, <2>1, WorldBalanced DEF IInv
  <2> QED BY <1>2, <2>1, <2>2, GivenBalanced
<1>3. IInv /\ BInv => NoServerTwice
  BY <1>1, <1>2 DEF NoServerTwice, OneGroup
<1> QED BY <1>3, Inductive, BalancerInductive, PTL

=============================================================================

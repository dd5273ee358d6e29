-------------------------- MODULE FileCacheProofs ---------------------------
(***************************************************************************)
(* Proofs about the shared cache, for every number of requests, keys and   *)
(* nodes, every option and every place where a process may be killed.      *)
(*                                                                         *)
(* The reference count of a node is exact only together with what the      *)
(* program counters say about the references each process has (PcInv), and *)
(* the queue is exact only together with the tree: IInv is their           *)
(* conjunction.                                                            *)
(***************************************************************************)
EXTENDS FileCache, Lemmas

(* Program points at which a request has a node, has none, and at which it *)
(* may have set the mark of its node.                                      *)
Using == {"open", "mark", "stale", "lock", "wait", "fetch", "rename", "update", "end"}
Without == {"idle", "force", "alloc"} \cup Deleting
Marking == {"fetch", "rename", "update", "end"}

RequestInv ==
  \A r \in Requests :
    /\ pc[r] \in {"exists"} \cup Using \cup Without
    /\ pc[r] \in Using => c[r].node # None
    /\ pc[r] \in Without => c[r].node = None
    /\ pc[r] # "idle" => c[r].key \in Keys
    /\ c[r].updating => pc[r] \in Marking
    /\ pc[r] \in Deleting => victim[r].next = "alloc"

PcInv ==
  /\ RequestInv
  /\ pc[Manager] \in {"idle", "expire", "size"} \cup Deleting
  /\ pc[Manager] \in Deleting => victim[Manager].next \in {"expire", "size"}
  /\ pc[Loader] \in {"idle", "add", "discard"}
  /\ pc[Loader] # "idle" => found \in Keys
  /\ todo \subseteq Keys
  /\ \A a \in Actors : pc[a] \in Deleting <=> victim[a].node # None

Refs(i) == Cardinality(Holders(i)) + Cardinality(Deleters(i)) + lost[i]

(* The count of a node is what refers to it; a free place has no           *)
(* references.                                                             *)
CountInv ==
  \A i \in Places : Refs(i) = IF node[i].present THEN node[i].count ELSE 0

(* The queue holds the nodes of the tree. *)
QueueInv == Holds(queue, Present)

IInv == TypeOK /\ PcInv /\ CountInv /\ QueueInv

-----------------------------------------------------------------------------
(* The processes are finitely many, and so are those that refer to a node. *)
LEMMA FiniteRefs ==
  \A i : /\ IsFiniteSet(Holders(i)) /\ Cardinality(Holders(i)) \in Nat
         /\ IsFiniteSet(Deleters(i)) /\ Cardinality(Deleters(i)) \in Nat
<1>1. IsFiniteSet(Requests)
  BY ActorsAssumption
<1>2. IsFiniteSet(Actors)
  <2>1. IsFiniteSet({Manager}) /\ IsFiniteSet({Loader})
    BY FS_Singleton
  <2>2. IsFiniteSet({Manager} \cup {Loader})
    BY <2>1, FS_Union
  <2>3. IsFiniteSet(Requests \cup ({Manager} \cup {Loader}))
    BY <1>1, <2>2, FS_Union
  <2>4. Requests \cup ({Manager} \cup {Loader}) = Actors
    BY DEF Actors
  <2> QED BY <2>3, <2>4
<1>3. \A i : Holders(i) \subseteq Requests /\ Deleters(i) \subseteq Actors
  BY DEF Holders, Deleters
<1> QED BY <1>1, <1>2, <1>3, FS_Subset, FS_CardinalityType

(* A node that is in the tree has all the fields of one. *)
LEMMA PresentType ==
  ASSUME TypeOK, NEW i \in Places, node[i].present
  PROVE  node[i] \in NodeType
BY DEF TypeOK, NoNode

(* A request that has a node finds it in the tree, counted. *)
LEMMA Held ==
  ASSUME TypeOK, CountInv, NEW r \in Requests, c[r].node # None
  PROVE  /\ c[r].node \in Places
         /\ node[c[r].node].present
         /\ node[c[r].node] \in NodeType
         /\ node[c[r].node].count > 0
<1> DEFINE i == c[r].node
<1>1. i \in Places
  BY DEF TypeOK
<1>2. r \in Holders(i)
  BY DEF Holders
<1>3. Cardinality(Holders(i)) # 0
  BY <1>2, FiniteRefs, FS_EmptySet
<1>4. Refs(i) > 0
  BY <1>1, <1>3, FiniteRefs DEF TypeOK, Refs
<1>5. node[i].present /\ node[i].count > 0
  BY <1>1, <1>4 DEF CountInv
<1> QED BY <1>1, <1>5, PresentType

(* So does a process that deletes one. *)
LEMMA Deleted ==
  ASSUME TypeOK, CountInv, NEW a \in Actors, victim[a].node # None
  PROVE  /\ victim[a].node \in Places
         /\ node[victim[a].node].present
         /\ node[victim[a].node] \in NodeType
         /\ node[victim[a].node].count > 0
<1> DEFINE i == victim[a].node
<1>1. i \in Places
  BY DEF TypeOK
<1>2. a \in Deleters(i)
  BY DEF Deleters
<1>3. Cardinality(Deleters(i)) # 0
  BY <1>2, FiniteRefs, FS_EmptySet
<1>4. Refs(i) > 0
  BY <1>1, <1>3, FiniteRefs DEF TypeOK, Refs
<1>5. node[i].present /\ node[i].count > 0
  BY <1>1, <1>4 DEF CountInv
<1> QED BY <1>1, <1>5, PresentType

(* What is in the queue is in the tree. *)
LEMMA Queued ==
  ASSUME QueueInv, NEW n \in DOMAIN queue
  PROVE  queue[n] \in Present
BY ElementOfSeq DEF QueueInv, Holds

(* Forced expiry picks a node that nobody uses. *)
LEMMA ForcedPicks ==
  ASSUME QueueInv, Unused # {}
  PROVE  queue[Max(Unused)] \in Present /\ node[queue[Max(Unused)]].count = 0
<1>1. DOMAIN queue = 1 .. Len(queue) /\ Len(queue) \in Nat
  BY DEF QueueInv, Holds
<1>2. Unused \in SUBSET Nat /\ \A m \in Unused : m <= Len(queue)
  BY <1>1 DEF Unused
<1>3. Max(Unused) \in Unused
  BY <1>1, <1>2, MaxIn
<1> QED BY <1>3, Queued DEF Unused

-----------------------------------------------------------------------------
(* What a step does to the references.  In the next lemmas x is what the   *)
(* step makes of the ngx_http_cache_t of a request, or v of the victim.    *)

CacheType == [key : Keys \cup {NoKey}, node : Places \cup {None},
              updating : BOOLEAN, lock : BOOLEAN,
              error : {"none", "old", "new"}, cacheable : BOOLEAN,
              opened : {"none", "valid", "stale"}]

VictimType == [node : Places \cup {None}, next : PCs]

(* A step that moves no reference. *)
LEMMA RefsSame ==
  ASSUME \A r \in Requests : c'[r].node = c[r].node,
         \A a \in Actors : victim'[a].node = victim[a].node,
         lost' = lost
  PROVE  \A i : /\ Holders(i)' = Holders(i)
                /\ Deleters(i)' = Deleters(i)
                /\ Refs(i)' = Refs(i)
<1>1. \A i : Holders(i)' = Holders(i) /\ Deleters(i)' = Deleters(i)
  BY DEF Holders, Deleters
<1> QED BY <1>1 DEF Refs

(* A request that had no node gets one. *)
LEMMA RefsJoin ==
  ASSUME TypeOK, NEW r \in Requests, NEW x \in CacheType, c' = [c EXCEPT ![r] = x],
         c[r].node = None, x.node \in Places, UNCHANGED <<victim, lost>>
  PROVE  \A i \in Places : /\ Refs(i) \in Nat
                           /\ Refs(i)' = Refs(i) + IF i = x.node THEN 1 ELSE 0
<1> SUFFICES ASSUME NEW i \in Places
             PROVE  Refs(i) \in Nat /\ Refs(i)' = Refs(i) + IF i = x.node THEN 1 ELSE 0
  OBVIOUS
<1>1. Deleters(i)' = Deleters(i) /\ lost'[i] = lost[i] /\ lost[i] \in Nat
  BY DEF Deleters, TypeOK
<1>2. CASE i = x.node
  <2>1. Holders(i)' = Holders(i) \cup {r} /\ r \notin Holders(i)
    BY <1>2 DEF Holders, TypeOK, None, Places
  <2>2. Cardinality(Holders(i)') = Cardinality(Holders(i)) + 1
    BY <2>1, FiniteRefs, FS_AddElement
  <2> QED BY <1>1, <1>2, <2>2, FiniteRefs DEF Refs
<1>3. CASE i # x.node
  <2>1. Holders(i)' = Holders(i)
    BY <1>3 DEF Holders, TypeOK, None, Places
  <2> QED BY <1>1, <1>3, <2>1, FiniteRefs DEF Refs
<1> QED BY <1>2, <1>3

(* A request gives its node back. *)
LEMMA RefsLeave ==
  ASSUME TypeOK, NEW r \in Requests, NEW x \in CacheType, c' = [c EXCEPT ![r] = x],
         c[r].node # None, x.node = None, UNCHANGED <<victim, lost>>
  PROVE  \A i \in Places : /\ Refs(i) \in Nat
                           /\ Refs(i)' = Refs(i) - IF i = c[r].node THEN 1 ELSE 0
<1> SUFFICES ASSUME NEW i \in Places
             PROVE  Refs(i) \in Nat /\ Refs(i)' = Refs(i) - IF i = c[r].node THEN 1 ELSE 0
  OBVIOUS
<1>1. Deleters(i)' = Deleters(i) /\ lost'[i] = lost[i] /\ lost[i] \in Nat
  BY DEF Deleters, TypeOK
<1>2. CASE i = c[r].node
  <2>1. Holders(i)' = Holders(i) \ {r} /\ r \in Holders(i)
    BY <1>2 DEF Holders, TypeOK, None, Places
  <2>2. Cardinality(Holders(i)') = Cardinality(Holders(i)) - 1
    BY <2>1, FiniteRefs, FS_RemoveElement
  <2> QED BY <1>1, <1>2, <2>2, FiniteRefs DEF Refs
<1>3. CASE i # c[r].node
  <2>1. Holders(i)' = Holders(i)
    BY <1>3 DEF Holders, TypeOK, None, Places
  <2> QED BY <1>1, <1>3, <2>1, FiniteRefs DEF Refs
<1> QED BY <1>2, <1>3

(* A process begins to delete a node. *)
LEMMA RefsDelete ==
  ASSUME TypeOK, NEW a \in Actors, NEW v \in VictimType, victim' = [victim EXCEPT ![a] = v],
         victim[a].node = None, v.node \in Places, UNCHANGED <<c, lost>>
  PROVE  \A i \in Places : /\ Refs(i) \in Nat
                           /\ Refs(i)' = Refs(i) + IF i = v.node THEN 1 ELSE 0
<1> SUFFICES ASSUME NEW i \in Places
             PROVE  Refs(i) \in Nat /\ Refs(i)' = Refs(i) + IF i = v.node THEN 1 ELSE 0
  OBVIOUS
<1>1. Holders(i)' = Holders(i) /\ lost'[i] = lost[i] /\ lost[i] \in Nat
  BY DEF Holders, TypeOK
<1>2. CASE i = v.node
  <2>1. Deleters(i)' = Deleters(i) \cup {a} /\ a \notin Deleters(i)
    BY <1>2 DEF Deleters, TypeOK, None, Places
  <2>2. Cardinality(Deleters(i)') = Cardinality(Deleters(i)) + 1
    BY <2>1, FiniteRefs, FS_AddElement
  <2> QED BY <1>1, <1>2, <2>2, FiniteRefs DEF Refs
<1>3. CASE i # v.node
  <2>1. Deleters(i)' = Deleters(i)
    BY <1>3 DEF Deleters, TypeOK, None, Places
  <2> QED BY <1>1, <1>3, <2>1, FiniteRefs DEF Refs
<1> QED BY <1>2, <1>3

(* ... and ends. *)
LEMMA RefsDeleted ==
  ASSUME TypeOK, NEW a \in Actors, NEW v \in VictimType, victim' = [victim EXCEPT ![a] = v],
         victim[a].node # None, v.node = None, UNCHANGED <<c, lost>>
  PROVE  \A i \in Places : /\ Refs(i) \in Nat
                           /\ Refs(i)' = Refs(i) - IF i = victim[a].node THEN 1 ELSE 0
<1> SUFFICES ASSUME NEW i \in Places
             PROVE  Refs(i) \in Nat /\ Refs(i)' = Refs(i) - IF i = victim[a].node THEN 1 ELSE 0
  OBVIOUS
<1>1. Holders(i)' = Holders(i) /\ lost'[i] = lost[i] /\ lost[i] \in Nat
  BY DEF Holders, TypeOK
<1>2. CASE i = victim[a].node
  <2>1. Deleters(i)' = Deleters(i) \ {a} /\ a \in Deleters(i)
    BY <1>2 DEF Deleters, TypeOK, None, Places
  <2>2. Cardinality(Deleters(i)') = Cardinality(Deleters(i)) - 1
    BY <2>1, FiniteRefs, FS_RemoveElement
  <2> QED BY <1>1, <1>2, <2>2, FiniteRefs DEF Refs
<1>3. CASE i # victim[a].node
  <2>1. Deleters(i)' = Deleters(i)
    BY <1>3 DEF Deleters, TypeOK, None, Places
  <2> QED BY <1>1, <1>3, <2>1, FiniteRefs DEF Refs
<1> QED BY <1>2, <1>3

-----------------------------------------------------------------------------
(* What a step does to the tree and the queue. *)

NodesOK == node \in [Places -> NodeType \cup {NoNode}]

(* A node is brought up to date where it is. *)
LEMMA NodePut ==
  ASSUME NodesOK, NEW i \in Places, NEW n \in NodeType, node' = [node EXCEPT ![i] = n]
  PROVE  /\ NodesOK'
         /\ Present' = Present \cup {i}
         /\ node'[i] = n /\ n.present
         /\ \A j \in Places : j # i => node'[j] = node[j]
<1>1. n.present
  BY DEF NodeType
<1> QED BY <1>1 DEF NodesOK, Present

(* A node is freed. *)
LEMMA NodeFreed ==
  ASSUME NodesOK, QueueInv, NEW i \in Present, FreeNode(i)
  PROVE  /\ NodesOK'
         /\ QueueInv'
         /\ queue' \in Seq(Places)
         /\ ~node'[i].present
         /\ \A j \in Places : j # i => node'[j] = node[j]
<1>1. i \in Places /\ Present \subseteq Places
  BY DEF Present
<1>2. NodesOK' /\ ~node'[i].present /\ \A j \in Places : j # i => node'[j] = node[j]
  BY <1>1 DEF FreeNode, NodesOK, NoNode
<1>3. Present' = Present \ {i}
  BY <1>1, <1>2 DEF Present
<1>4. Holds(queue', Present \ {i})
  BY HoldsRemove DEF QueueInv, FreeNode
<1>5. queue' \in Seq(Places)
  <2>1. Present \ {i} \subseteq Places
    BY <1>1
  <2> QED BY <1>4, <2>1, SeqMonotonic DEF Holds
<1> QED BY <1>2, <1>3, <1>4, <1>5 DEF QueueInv

(* A new node takes a free place. *)
LEMMA NodeInserted ==
  ASSUME NodesOK, QueueInv, NEW i \in Room, NEW n \in NodeType, Insert(i, n)
  PROVE  /\ NodesOK'
         /\ QueueInv'
         /\ queue' \in Seq(Places)
         /\ node'[i] = n /\ n.present
         /\ \A j \in Places : j # i => node'[j] = node[j]
<1>1. i \in Places /\ i \notin Present /\ Present \subseteq Places
  BY DEF Room, Present
<1>2. /\ NodesOK'
      /\ Present' = Present \cup {i}
      /\ node'[i] = n /\ n.present
      /\ \A j \in Places : j # i => node'[j] = node[j]
  BY <1>1, NodePut DEF Insert
<1>3. Holds(queue', Present \cup {i})
  BY <1>1, HoldsInsert DEF QueueInv, Insert
<1> QED BY <1>1, <1>2, <1>3, SeqMonotonic DEF QueueInv, Holds

(* A node in use is brought up to date, and its link left alone or moved   *)
(* to the head of the queue.                                               *)
LEMMA NodeUpdated ==
  ASSUME NodesOK, QueueInv, NEW i \in Present, NEW n \in NodeType,
         node' = [node EXCEPT ![i] = n], UNCHANGED queue \/ ToHead(i)
  PROVE  /\ NodesOK'
         /\ QueueInv'
         /\ queue' \in Seq(Places)
         /\ node'[i] = n /\ n.present
         /\ \A j \in Places : j # i => node'[j] = node[j]
<1>1. i \in Places /\ Present \subseteq Places
  BY DEF Present
<1>2. /\ NodesOK'
      /\ Present' = Present \cup {i}
      /\ node'[i] = n /\ n.present
      /\ \A j \in Places : j # i => node'[j] = node[j]
  BY <1>1, NodePut
<1>3. Holds(queue', Present)
  BY HoldsToHead DEF QueueInv, ToHead
<1>4. Present' = Present
  BY <1>2
<1> QED BY <1>1, <1>2, <1>3, <1>4, SeqMonotonic DEF QueueInv, Holds

(* A step that leaves the tree and the queue alone. *)
LEMMA NodesKept ==
  ASSUME TypeOK, QueueInv, UNCHANGED <<node, queue>>
  PROVE  NodesOK' /\ QueueInv' /\ queue' \in Seq(Places)
BY DEF TypeOK, NodesOK, QueueInv, Present

-----------------------------------------------------------------------------
(* Steps of a request. *)

Outside == {"idle", "force", "alloc"}

(* What a request is at its next point of the program. *)
Fits(l, x) ==
  /\ l \in {"exists"} \cup Using \cup Outside
  /\ l \in Using => x.node # None
  /\ l \in Outside => x.node = None
  /\ l # "idle" => x.key \in Keys
  /\ x.updating => l \in Marking

(* A request that is not deleting anything goes on. *)
LEMMA RequestMoves ==
  ASSUME TypeOK, PcInv, NEW r \in Requests, NEW l, NEW x \in CacheType,
         pc[r] \notin Deleting, Fits(l, x), Goto(r, l), c' = [c EXCEPT ![r] = x],
         UNCHANGED <<loader, victim>>
  PROVE  /\ PcInv'
         /\ pc' \in [Actors -> PCs]
         /\ c' \in [Requests -> CacheType]
<1>1. r \in Actors /\ r # Manager /\ r # Loader
  BY ActorsAssumption DEF Actors
<1>2. l \in PCs /\ l \notin Deleting
  BY DEF Fits, PCs, RequestPCs, Using, Outside, Deleting
<1>3. /\ pc' \in [Actors -> PCs] /\ pc'[r] = l
      /\ \A a \in Actors : a # r => pc'[a] = pc[a]
  BY <1>1, <1>2 DEF TypeOK, Goto
<1>4. /\ c' \in [Requests -> CacheType] /\ c'[r] = x
      /\ \A q \in Requests : q # r => c'[q] = c[q]
  BY DEF TypeOK, CacheType
<1>5. RequestInv'
  <2> SUFFICES ASSUME NEW q \in Requests
               PROVE  /\ pc'[q] \in {"exists"} \cup Using \cup Without
                      /\ pc'[q] \in Using => c'[q].node # None
                      /\ pc'[q] \in Without => c'[q].node = None
                      /\ pc'[q] # "idle" => c'[q].key \in Keys
                      /\ c'[q].updating => pc'[q] \in Marking
                      /\ pc'[q] \in Deleting => victim'[q].next = "alloc"
    BY DEF RequestInv
  <2>1. CASE q = r
    BY <1>2, <1>3, <1>4, <2>1 DEF Fits, Without, Outside
  <2>2. CASE q # r
    <3>1. q \in Actors
      BY DEF Actors
    <3> QED BY <1>3, <1>4, <2>2, <3>1 DEF PcInv, RequestInv
  <2> QED BY <2>1, <2>2
<1>6. Manager \in Actors /\ Loader \in Actors
  BY DEF Actors
<1>7. \A a \in Actors : pc'[a] \in Deleting <=> victim'[a].node # None
  BY <1>1, <1>2, <1>3 DEF PcInv
<1> QED BY <1>1, <1>3, <1>4, <1>5, <1>6, <1>7 DEF PcInv, loader

(* The marks stay owned when one request changes: its own mark is set or   *)
(* kept, or the node's is cleared with it.                                 *)
LEMMA MarksMove ==
  ASSUME TypeOK, UpdatingOwned, NEW r \in Requests, NEW x \in CacheType,
         c' = [c EXCEPT ![r] = x], lost' = lost,
         \A i \in Places : node'[i].present /\ node'[i].updating =>
           \/ i = x.node /\ x.updating
           \/ /\ node[i].present /\ node[i].updating
              /\ c[r].node = i /\ c[r].updating => x.node = i /\ x.updating
  PROVE  UpdatingOwned'
<1> SUFFICES ASSUME NEW i \in Places, node'[i].present /\ node'[i].updating
             PROVE  lost'[i] > 0 \/ \E q \in Requests : c'[q].node = i /\ c'[q].updating
  BY DEF UpdatingOwned, Holders
<1>1. c'[r] = x /\ \A q \in Requests : q # r => c'[q] = c[q]
  BY DEF TypeOK
<1>2. CASE i = x.node /\ x.updating
  BY <1>1, <1>2
<1>3. CASE /\ node[i].present /\ node[i].updating
           /\ c[r].node = i /\ c[r].updating => x.node = i /\ x.updating
  <2>1. lost[i] > 0 \/ \E q \in Requests : c[q].node = i /\ c[q].updating
    BY <1>3 DEF UpdatingOwned, Holders
  <2> QED BY <1>1, <1>3, <2>1
<1> QED BY <1>2, <1>3

(* The conjuncts of the type invariant that a step of a request leaves to  *)
(* be shown.                                                               *)
LEMMA TypeFrom ==
  ASSUME TypeOK, NodesOK', queue' \in Seq(Places), size' \in Int, cold' \in BOOLEAN,
         file' \in [Keys -> {"none", "valid", "stale"}], pc' \in [Actors -> PCs],
         victim' \in [Actors -> VictimType], c' \in [Requests -> CacheType],
         lost' \in [Places -> Nat]
  PROVE  TypeOK'
BY DEF TypeOK, NodesOK, VictimType, CacheType

(* A request that keeps the node it has, or none, and does not change what *)
(* is counted in it.                                                       *)
LEMMA RequestStays ==
  ASSUME IInv, UpdatingOwned, NEW r \in Requests, NEW l, NEW x \in CacheType,
         pc[r] \notin Deleting, Fits(l, x), Goto(r, l), c' = [c EXCEPT ![r] = x],
         x.node = c[r].node, c[r].updating => x.updating,
         \/ UNCHANGED <<node, queue>>
         \/ /\ c[r].node # None
            /\ UNCHANGED queue \/ ToHead(c[r].node)
            /\ \E n \in NodeType : /\ node' = [node EXCEPT ![c[r].node] = n]
                                   /\ n.count = node[c[r].node].count
                                   /\ n.updating => x.updating \/ node[c[r].node].updating,
         size' \in Int, file' \in [Keys -> {"none", "valid", "stale"}],
         UNCHANGED <<loader, victim, lost>>
  PROVE  IInv' /\ UpdatingOwned'
<1> USE DEF IInv
<1>1. PcInv' /\ pc' \in [Actors -> PCs] /\ c' \in [Requests -> CacheType]
  BY RequestMoves
<1>2. NodesOK
  BY DEF TypeOK, NodesOK
<1>3. \A q \in Requests : c'[q].node = c[q].node
  BY DEF TypeOK
<1>4. \A i : Refs(i)' = Refs(i)
  BY <1>3, RefsSame
<1>5. CASE UNCHANGED <<node, queue>>
  <2>1. NodesOK' /\ QueueInv' /\ queue' \in Seq(Places)
    BY <1>5, NodesKept
  <2>2. CountInv'
    BY <1>4, <1>5 DEF CountInv
  <2>3. UpdatingOwned'
    <3>1. \A i \in Places : node'[i].present /\ node'[i].updating =>
            \/ i = x.node /\ x.updating
            \/ /\ node[i].present /\ node[i].updating
               /\ c[r].node = i /\ c[r].updating => x.node = i /\ x.updating
      BY <1>5
    <3> QED BY <3>1, MarksMove
  <2>4. TypeOK'
    BY <1>1, <2>1, TypeFrom DEF TypeOK, VictimType, loader
  <2> QED BY <1>1, <2>1, <2>2, <2>3, <2>4
<1>6. ASSUME c[r].node # None, UNCHANGED queue \/ ToHead(c[r].node),
             NEW n \in NodeType, node' = [node EXCEPT ![c[r].node] = n],
             n.count = node[c[r].node].count,
             n.updating => x.updating \/ node[c[r].node].updating
      PROVE  IInv' /\ UpdatingOwned'
  <2> DEFINE i == c[r].node
  <2>1. i \in Places /\ node[i].present /\ i \in Present
    BY <1>6, Held DEF Present
  <2>2. /\ NodesOK' /\ QueueInv' /\ queue' \in Seq(Places)
        /\ node'[i] = n /\ n.present
        /\ \A j \in Places : j # i => node'[j] = node[j]
    BY <1>2, <1>6, <2>1, NodeUpdated
  <2>3. CountInv'
    BY <1>4, <1>6, <2>1, <2>2 DEF CountInv
  <2>4. UpdatingOwned'
    <3>1. \A j \in Places : node'[j].present /\ node'[j].updating =>
            \/ j = x.node /\ x.updating
            \/ /\ node[j].present /\ node[j].updating
               /\ c[r].node = j /\ c[r].updating => x.node = j /\ x.updating
      BY <1>6, <2>1, <2>2
    <3> QED BY <3>1, MarksMove
  <2>5. TypeOK'
    BY <1>1, <2>2, TypeFrom DEF TypeOK, VictimType, loader
  <2> QED BY <1>1, <2>2, <2>3, <2>4, <2>5
<1> QED BY <1>5, <1>6

(* A request that had no node has found one, or made one. *)
LEMMA RequestJoins ==
  ASSUME IInv, UpdatingOwned, NEW r \in Requests, NEW l, NEW x \in CacheType,
         NEW i \in Places, NEW n \in NodeType,
         pc[r] \notin Deleting, Fits(l, x), Goto(r, l), c' = [c EXCEPT ![r] = x],
         c[r].node = None, ~c[r].updating, x.node = i,
         \/ /\ i \in Present /\ node' = [node EXCEPT ![i] = n] /\ ToHead(i)
            /\ n.count = node[i].count + 1
            /\ n.updating => node[i].updating
         \/ i \in Room /\ Insert(i, n) /\ n.count = 1 /\ ~n.updating,
         size' \in Int, UNCHANGED <<file, loader, victim, lost>>
  PROVE  IInv' /\ UpdatingOwned'
<1> USE DEF IInv
<1>1. PcInv' /\ pc' \in [Actors -> PCs] /\ c' \in [Requests -> CacheType]
  BY RequestMoves
<1>2. NodesOK
  BY DEF TypeOK, NodesOK
<1>3. \A j \in Places : Refs(j) \in Nat /\ Refs(j)' = Refs(j) + IF j = i THEN 1 ELSE 0
  BY RefsJoin
<1>4. /\ NodesOK' /\ QueueInv' /\ queue' \in Seq(Places)
      /\ node'[i] = n /\ n.present
      /\ \A j \in Places : j # i => node'[j] = node[j]
  BY <1>2, NodeUpdated, NodeInserted
<1>5. CountInv'
  <2>1. n.count = Refs(i) + 1
    BY DEF CountInv, Present, Room
  <2> QED BY <1>3, <1>4, <2>1 DEF CountInv
<1>6. UpdatingOwned'
  <2>1. \A j \in Places : node'[j].present /\ node'[j].updating =>
          \/ j = x.node /\ x.updating
          \/ /\ node[j].present /\ node[j].updating
             /\ c[r].node = j /\ c[r].updating => x.node = j /\ x.updating
    BY <1>4 DEF Present
  <2> QED BY <2>1, MarksMove
<1>7. TypeOK'
  BY <1>1, <1>4, TypeFrom DEF TypeOK, VictimType, loader
<1> QED BY <1>1, <1>4, <1>5, <1>6, <1>7

(* What a request is made of when it has ended. *)
LEMMA NoCacheType ==
  NoCache \in CacheType /\ NoCache.node = None /\ ~NoCache.updating /\ Fits("idle", NoCache)
<1>1. NoCache \in CacheType /\ NoCache.node = None /\ NoCache.updating = FALSE
  BY OptionsAssumption DEF NoCache, CacheType
<1> QED BY <1>1 DEF Fits, Outside, Using

(* A request gives its node back, which is freed if that was the last      *)
(* reference and nothing else is to be kept.                               *)
LEMMA RequestLeaves ==
  ASSUME IInv, UpdatingOwned, NEW r \in Requests, pc[r] \in Using,
         Goto(r, "idle"), c' = [c EXCEPT ![r] = NoCache],
         \/ /\ UNCHANGED queue
            /\ \E n \in NodeType : /\ node' = [node EXCEPT ![c[r].node] = n]
                                   /\ n.count = node[c[r].node].count - 1
                                   /\ n.updating => node[c[r].node].updating /\ ~c[r].updating
         \/ FreeNode(c[r].node) /\ node[c[r].node].count = 1,
         size' \in Int, UNCHANGED <<file, loader, victim, lost>>
  PROVE  IInv' /\ UpdatingOwned'
<1> USE DEF IInv
<1> DEFINE i == c[r].node
<1>1. pc[r] \notin Deleting /\ i # None
  BY DEF PcInv, RequestInv, Using, Deleting
<1>2. i \in Places /\ node[i].present /\ i \in Present
  BY <1>1, Held DEF Present
<1>3. PcInv' /\ pc' \in [Actors -> PCs] /\ c' \in [Requests -> CacheType]
  BY <1>1, RequestMoves, NoCacheType
<1>4. NodesOK
  BY DEF TypeOK, NodesOK
<1>5. \A j \in Places : Refs(j) \in Nat /\ Refs(j)' = Refs(j) - IF j = i THEN 1 ELSE 0
  BY <1>1, RefsLeave, NoCacheType
<1>6. /\ NodesOK' /\ QueueInv' /\ queue' \in Seq(Places)
      /\ node'[i].present => /\ node'[i].count = node[i].count - 1
                             /\ node'[i].updating => node[i].updating /\ ~c[r].updating
      /\ ~node'[i].present => node[i].count = 1
      /\ \A j \in Places : j # i => node'[j] = node[j]
  <2>1. CASE FreeNode(i) /\ node[i].count = 1
    BY <1>2, <1>4, <2>1, NodeFreed
  <2>2. ASSUME UNCHANGED queue, NEW n \in NodeType, node' = [node EXCEPT ![i] = n],
               n.count = node[i].count - 1, n.updating => node[i].updating /\ ~c[r].updating
        PROVE  <1>6!1 /\ <1>6!2 /\ <1>6!3 /\ <1>6!4
    <3>1. /\ NodesOK' /\ QueueInv' /\ queue' \in Seq(Places)
          /\ node'[i] = n /\ n.present
          /\ \A j \in Places : j # i => node'[j] = node[j]
      BY <1>2, <1>4, <2>2, NodeUpdated
    <3> QED BY <2>2, <3>1
  <2> QED BY <2>1, <2>2
<1>7. CountInv'
  BY <1>2, <1>5, <1>6 DEF CountInv
<1>8. UpdatingOwned'
  <2>1. \A j \in Places : node'[j].present /\ node'[j].updating =>
          \/ j = NoCache.node /\ NoCache.updating
          \/ /\ node[j].present /\ node[j].updating
             /\ c[r].node = j /\ c[r].updating => NoCache.node = j /\ NoCache.updating
    BY <1>2, <1>6
  <2> QED BY <2>1, MarksMove, NoCacheType
<1>9. TypeOK'
  BY <1>3, <1>6, TypeFrom DEF TypeOK, VictimType, loader
<1> QED BY <1>3, <1>6, <1>7, <1>8, <1>9

-----------------------------------------------------------------------------
(* Steps that leave the requests' ngx_http_cache_t alone. *)

(* What a process may be about to do, with v to be deleted. *)
FitsActor(a, l, v) ==
  /\ l \in Deleting <=> v.node # None
  /\ a \in Requests => /\ pc[a] \in Without \ {"idle"}
                       /\ l \in Without \ {"idle"}
                       /\ l \in Deleting => v.next = "alloc"
  /\ a = Manager => /\ l \in {"idle", "expire", "size"} \cup Deleting
                    /\ l \in Deleting => v.next \in {"expire", "size"}
  /\ a = Loader => l \in {"idle", "add", "discard"}

(* A process that may delete nodes goes on, with victim v. *)
LEMMA ActorMoves ==
  ASSUME TypeOK, PcInv, NEW a \in Actors, NEW l, NEW v \in VictimType,
         FitsActor(a, l, v), Goto(a, l), victim' = [victim EXCEPT ![a] = v],
         todo' \subseteq Keys, pc'[Loader] # "idle" => found' \in Keys, UNCHANGED c
  PROVE  /\ PcInv'
         /\ pc' \in [Actors -> PCs]
         /\ victim' \in [Actors -> VictimType]
<1>1. Manager \in Actors /\ Loader \in Actors /\ Requests \subseteq Actors
      /\ Manager # Loader /\ Manager \notin Requests /\ Loader \notin Requests
  BY ActorsAssumption DEF Actors
<1>2. l \in PCs
  BY DEF FitsActor, Actors, PCs, RequestPCs, Without, Deleting
<1>3. /\ pc' \in [Actors -> PCs] /\ pc'[a] = l
      /\ \A b \in Actors : b # a => pc'[b] = pc[b]
  BY <1>2 DEF TypeOK, Goto
<1>4. /\ victim' \in [Actors -> VictimType] /\ victim'[a] = v
      /\ \A b \in Actors : b # a => victim'[b] = victim[b]
  BY DEF TypeOK, VictimType
<1>5. RequestInv'
  <2> SUFFICES ASSUME NEW q \in Requests
               PROVE  /\ pc'[q] \in {"exists"} \cup Using \cup Without
                      /\ pc'[q] \in Using => c'[q].node # None
                      /\ pc'[q] \in Without => c'[q].node = None
                      /\ pc'[q] # "idle" => c'[q].key \in Keys
                      /\ c'[q].updating => pc'[q] \in Marking
                      /\ pc'[q] \in Deleting => victim'[q].next = "alloc"
    BY DEF RequestInv
  <2>1. CASE q = a
    <3>1. /\ pc[q] \in Without \ {"idle"}
          /\ pc'[q] \in Without \ {"idle"}
          /\ pc'[q] \in Deleting => victim'[q].next = "alloc"
      BY <1>3, <1>4, <2>1 DEF FitsActor
    <3>2. c'[q].node = None /\ c'[q].key \in Keys /\ ~c'[q].updating
      BY <3>1 DEF PcInv, RequestInv, Without, Marking, Deleting
    <3> QED BY <3>1, <3>2 DEF Without, Using, Deleting
  <2>2. CASE q # a
    BY <1>1, <1>3, <1>4, <2>2 DEF PcInv, RequestInv
  <2> QED BY <2>1, <2>2
<1>6. \A b \in Actors : pc'[b] \in Deleting <=> victim'[b].node # None
  BY <1>3, <1>4 DEF PcInv, FitsActor
<1>7. /\ pc'[Manager] \in {"idle", "expire", "size"} \cup Deleting
      /\ pc'[Manager] \in Deleting => victim'[Manager].next \in {"expire", "size"}
  BY <1>1, <1>3, <1>4 DEF PcInv, FitsActor
<1>8. pc'[Loader] \in {"idle", "add", "discard"}
  BY <1>1, <1>3 DEF PcInv, FitsActor
<1> QED BY <1>3, <1>4, <1>5, <1>6, <1>7, <1>8 DEF PcInv

(* No mark appears. *)
LEMMA MarksKept ==
  ASSUME UpdatingOwned, UNCHANGED <<c, lost>>,
         \A i \in Places : node'[i].present /\ node'[i].updating =>
                             node[i].present /\ node[i].updating
  PROVE  UpdatingOwned'
BY DEF UpdatingOwned, Holders

(* A process goes on and changes nothing that is counted: nodes are only   *)
(* used again, put into the queue or marked as inactive.                   *)
LEMMA ActorStays ==
  ASSUME IInv, UpdatingOwned, NEW a \in Actors, NEW l, FitsActor(a, l, victim[a]), Goto(a, l),
         NodesOK', QueueInv', queue' \in Seq(Places),
         \A i \in Places : /\ node'[i].present => /\ node'[i].count = Refs(i)
                                                  /\ node'[i].updating =>
                                                       node[i].present /\ node[i].updating
                           /\ ~node'[i].present => Refs(i) = 0,
         size' \in Int, cold' \in BOOLEAN, file' \in [Keys -> {"none", "valid", "stale"}],
         todo' \subseteq Keys, pc'[Loader] # "idle" => found' \in Keys,
         UNCHANGED <<victim, c, lost>>
  PROVE  IInv' /\ UpdatingOwned'
<1> USE DEF IInv
<1>1. victim[a] \in VictimType /\ victim' = [victim EXCEPT ![a] = victim[a]]
  BY DEF TypeOK, VictimType
<1>2. PcInv' /\ pc' \in [Actors -> PCs] /\ victim' \in [Actors -> VictimType]
  BY <1>1, ActorMoves
<1>3. CountInv'
  <2>1. \A i : Refs(i)' = Refs(i)
    BY RefsSame
  <2> QED BY <2>1 DEF CountInv
<1>4. UpdatingOwned'
  BY MarksKept
<1>5. TypeOK'
  BY <1>2, TypeFrom DEF TypeOK, CacheType
<1> QED BY <1>2, <1>3, <1>4, <1>5

(* ngx_http_file_cache_delete of a node that nobody uses. *)
LEMMA DeleteKeeps ==
  ASSUME IInv, UpdatingOwned, NEW a \in Requests \cup {Manager}, NEW i \in Present,
         node[i].count = 0, NEW next, DeleteEntry(a, i, next),
         a \in Requests => pc[a] = "force" /\ next = "alloc",
         a = Manager => pc[a] \in {"expire", "size"} /\ next \in {"expire", "size"},
         UNCHANGED <<loader, file, c, lost>>
  PROVE  IInv' /\ UpdatingOwned'
<1> USE DEF IInv
<1>1. a \in Actors /\ a # Loader /\ Loader \in Actors
  BY ActorsAssumption DEF Actors
<1>2. i \in Places /\ node[i] \in NodeType
  BY PresentType DEF Present
<1>3. NodesOK /\ node[i].present
  BY DEF TypeOK, NodesOK, Present
<1>4. pc[a] \notin Deleting /\ victim[a].node = None
  BY <1>1 DEF PcInv, Deleting
<1>5. next \in PCs /\ next \notin Deleting
  BY DEF PCs, RequestPCs, Deleting
<1>6. todo' \subseteq Keys /\ (pc'[Loader] # "idle" => found' \in Keys)
  BY <1>1 DEF PcInv, loader, TypeOK, DeleteEntry, Goto
<1>7. Refs(i) = 0
  BY <1>2, <1>3 DEF CountInv
<1>8. CASE node[i].exists
  <2> DEFINE n1 == [node[i] EXCEPT !.count = @ + 1]
             n == [n1 EXCEPT !.deleting = TRUE]
             v == [node |-> i, next |-> next]
  <2>1. n1 \in NodeType /\ n1.count = node[i].count + 1 /\ n1.updating = node[i].updating
    <3>1. PICK k \in Nat : k = node[i].count + 1
      BY <1>2 DEF NodeType
    <3>2. n1 = [node[i] EXCEPT !.count = k]
      BY <3>1
    <3> QED BY <1>2, <3>1, <3>2 DEF NodeType
  <2>2. n \in NodeType /\ n.count = node[i].count + 1 /\ n.updating = node[i].updating
    <3> HIDE DEF n1
    <3> QED BY <2>1 DEF NodeType
  <2>3. node' = [node EXCEPT ![i] = n]
    BY <1>8 DEF DeleteEntry
  <2>4. v \in VictimType /\ v.node = i /\ v.next = next /\ i # None
    BY <1>2, <1>5 DEF VictimType, None, Places
  <2>5. /\ victim' = [victim EXCEPT ![a] = v] /\ Goto(a, "unlink") /\ UNCHANGED queue
        /\ size' = size - node[i].fs_size
    BY <1>8 DEF DeleteEntry
  <2> HIDE DEF n1, n, v
  <2>6. /\ NodesOK' /\ QueueInv' /\ queue' \in Seq(Places)
        /\ node'[i] = n /\ n.present
        /\ \A j \in Places : j # i => node'[j] = node[j]
    BY <1>3, <2>2, <2>3, <2>5, NodeUpdated
  <2>7. FitsActor(a, "unlink", v)
    BY <1>1, <2>4, ActorsAssumption DEF FitsActor, Without, Deleting
  <2>8. PcInv' /\ pc' \in [Actors -> PCs] /\ victim' \in [Actors -> VictimType]
    BY <1>1, <1>6, <2>4, <2>5, <2>7, ActorMoves
  <2>9. \A j \in Places : Refs(j) \in Nat /\ Refs(j)' = Refs(j) + IF j = i THEN 1 ELSE 0
    BY <1>1, <1>2, <1>4, <2>4, <2>5, RefsDelete
  <2>10. CountInv'
    BY <1>2, <1>7, <2>2, <2>6, <2>9 DEF CountInv
  <2>11. UpdatingOwned'
    BY <1>3, <2>2, <2>6, MarksKept
  <2>12. TypeOK'
    <3>1. size' \in Int
      BY <1>2, <2>5 DEF TypeOK, NodeType
    <3> QED BY <2>6, <2>8, <3>1, TypeFrom DEF TypeOK, CacheType, loader
  <2> QED BY <2>6, <2>8, <2>10, <2>11, <2>12
<1>9. CASE ~node[i].exists
  <2>1. FreeNode(i) /\ Goto(a, next) /\ UNCHANGED <<size, victim>>
    BY <1>9 DEF DeleteEntry
  <2>2. /\ NodesOK' /\ QueueInv' /\ queue' \in Seq(Places)
        /\ ~node'[i].present
        /\ \A j \in Places : j # i => node'[j] = node[j]
    BY <1>3, <2>1, NodeFreed
  <2>3. FitsActor(a, next, victim[a])
    BY <1>1, <1>4, <1>5, ActorsAssumption DEF FitsActor, Without, Deleting
  <2>4. \A j \in Places : /\ node'[j].present => /\ node'[j].count = Refs(j)
                                                 /\ node'[j].updating =>
                                                      node[j].present /\ node[j].updating
                          /\ ~node'[j].present => Refs(j) = 0
    BY <1>7, <2>2 DEF CountInv
  <2> QED BY <1>1, <1>6, <2>1, <2>2, <2>3, <2>4, ActorStays DEF TypeOK, loader
<1> QED BY <1>8, <1>9

(* Forced expiry deletes such a node, or finds none and goes on. *)
LEMMA ForcedKeeps ==
  ASSUME IInv, UpdatingOwned, NEW a \in Requests \cup {Manager}, NEW next, NEW none,
         ForcedExpire(a, next, none),
         a \in Requests => pc[a] = "force" /\ next = "alloc" /\ none = "alloc",
         a = Manager => pc[a] = "size" /\ next = "size" /\ none = "idle",
         UNCHANGED <<loader, file, c, lost>>
  PROVE  IInv' /\ UpdatingOwned'
<1> USE DEF IInv
<1>1. CASE Unused # {}
  <2>1. queue[Max(Unused)] \in Present /\ node[queue[Max(Unused)]].count = 0
    BY <1>1, ForcedPicks
  <2>2. DeleteEntry(a, queue[Max(Unused)], next)
    BY <1>1 DEF ForcedExpire
  <2> QED BY <2>1, <2>2, DeleteKeeps
<1>2. CASE Unused = {}
  <2>1. Goto(a, none) /\ UNCHANGED <<shared, victim>>
    BY <1>2 DEF ForcedExpire
  <2>2. a \in Actors /\ a # Loader /\ Loader \in Actors
    BY ActorsAssumption DEF Actors
  <2>3. victim[a].node = None
    BY <2>2 DEF PcInv, Deleting
  <2>4. FitsActor(a, none, victim[a])
    BY <2>2, <2>3, ActorsAssumption DEF FitsActor, Without, Deleting
  <2>5. todo' \subseteq Keys /\ (pc'[Loader] # "idle" => found' \in Keys)
    BY <2>1, <2>2 DEF PcInv, loader, TypeOK, Goto
  <2>6. NodesOK' /\ QueueInv' /\ queue' \in Seq(Places)
    BY <2>1, NodesKept DEF shared
  <2>7. \A j \in Places : /\ node'[j].present => /\ node'[j].count = Refs(j)
                                                 /\ node'[j].updating =>
                                                      node[j].present /\ node[j].updating
                          /\ ~node'[j].present => Refs(j) = 0
    BY <2>1 DEF CountInv, shared
  <2> QED BY <2>1, <2>2, <2>4, <2>5, <2>6, <2>7, ActorStays DEF TypeOK, loader, shared
<1> QED BY <1>1, <1>2

-----------------------------------------------------------------------------
(* The actions. *)

(* ngx_http_upstream_cache makes a cache context without a node. *)
LEMMA StartKeeps ==
  ASSUME IInv, UpdatingOwned, NEW r \in Requests, Start(r)
  PROVE  IInv' /\ UpdatingOwned'
<1>1. PICK k \in Keys : c' = [c EXCEPT ![r] = [NoCache EXCEPT !.key = k]]
  BY DEF Start
<1> DEFINE x == [NoCache EXCEPT !.key = k]
<1>2. x \in CacheType /\ x.node = None /\ x.key = k /\ ~x.updating
  <2>1. NoCache \in CacheType /\ NoCache.node = None /\ ~NoCache.updating
    BY NoCacheType
  <2> QED BY <2>1 DEF CacheType
<1>3. c[r].node = None /\ ~c[r].updating /\ pc[r] \notin Deleting
  BY DEF Start, IInv, PcInv, RequestInv, Without, Deleting, Marking
<1> HIDE DEF x
<1>4. Fits("exists", x)
  BY <1>2 DEF Fits, Using, Outside
<1>5. c' = [c EXCEPT ![r] = x]
  BY <1>1 DEF x
<1> QED BY <1>2, <1>3, <1>4, <1>5, RequestStays DEF Start, shared, IInv, TypeOK

(* A request that is at work is not deleting anything, has a key and, past *)
(* the lookup, a node.                                                     *)
LEMMA AtWork ==
  ASSUME IInv, NEW r \in Requests, pc[r] \in {"exists"} \cup Using
  PROVE  /\ c[r] \in CacheType
         /\ pc[r] \notin Deleting
         /\ c[r].key \in Keys
         /\ pc[r] \notin Marking => ~c[r].updating
         /\ pc[r] \in Using => /\ c[r].node # None
                               /\ c[r].node \in Places
                               /\ c[r].node \in Present
                               /\ node[c[r].node] \in NodeType
                               /\ node[c[r].node].count > 0
<1> USE DEF IInv
<1>1. c[r] \in CacheType
  BY DEF TypeOK, CacheType
<1>2. pc[r] \notin Deleting /\ c[r].key \in Keys /\ (pc[r] \notin Marking => ~c[r].updating)
  BY DEF PcInv, RequestInv, Using, Deleting
<1>3. ASSUME pc[r] \in Using
      PROVE  /\ c[r].node # None
             /\ c[r].node \in Places
             /\ c[r].node \in Present
             /\ node[c[r].node] \in NodeType
             /\ node[c[r].node].count > 0
  <2>1. c[r].node # None
    BY <1>3 DEF PcInv, RequestInv
  <2> QED BY <2>1, Held DEF Present
<1> QED BY <1>1, <1>2, <1>3

(* Opening the file and reading its header moves no reference. *)
LEMMA OpenFileKeeps ==
  ASSUME IInv, UpdatingOwned, NEW r \in Requests, OpenFile(r)
  PROVE  IInv' /\ UpdatingOwned'
<1> DEFINE k == c[r].key
           x1 == [c[r] EXCEPT !.opened = file[k]]
           x == [x1 EXCEPT !.cacheable = c[r].cacheable \/ file[k] # "none"]
<1>1. pc[r] = "open" /\ pc[r] \in Using /\ pc[r] \notin Marking
  BY DEF OpenFile, Using, Marking
<1>2. /\ c[r] \in CacheType /\ pc[r] \notin Deleting /\ k \in Keys /\ ~c[r].updating
      /\ c[r].node # None
  BY <1>1, AtWork
<1>3. file[k] \in {"none", "valid", "stale"}
  BY <1>2 DEF IInv, TypeOK
<1>4. x1 \in CacheType /\ x1.node = c[r].node /\ x1.key = k /\ ~x1.updating
  BY <1>2, <1>3 DEF CacheType
<1>5. x \in CacheType /\ x.node = c[r].node /\ x.key = k /\ ~x.updating
  <2> HIDE DEF x1
  <2> QED BY <1>4 DEF CacheType
<1>6. c' = [c EXCEPT ![r] = x]
  BY DEF OpenFile
<1>7. PICK l \in {"lock", "fetch", "mark", "stale"} : Goto(r, l)
  BY DEF OpenFile
<1> HIDE DEF x1, x
<1>8. Fits(l, x)
  BY <1>2, <1>5 DEF Fits, Using, Outside
<1> QED BY <1>2, <1>5, <1>6, <1>7, <1>8, RequestStays
        DEF OpenFile, shared, IInv, TypeOK

(* ngx_http_file_cache_read tells the node of its file and counts nothing. *)
LEMMA MarkExistsKeeps ==
  ASSUME IInv, UpdatingOwned, NEW r \in Requests, MarkExists(r)
  PROVE  IInv' /\ UpdatingOwned'
<1> DEFINE i == c[r].node
           n1 == [node[i] EXCEPT !.uses = 1]
           n2 == [n1 EXCEPT !.exists = TRUE]
           n == [n2 EXCEPT !.fs_size = 1]
<1>1. pc[r] = "mark" /\ pc[r] \in Using /\ pc[r] \notin Marking
  BY DEF MarkExists, Using, Marking
<1>2. /\ c[r] \in CacheType /\ pc[r] \notin Deleting /\ c[r].key \in Keys /\ ~c[r].updating
      /\ i # None /\ i \in Places /\ node[i] \in NodeType
  BY <1>1, AtWork
<1>3. n1 \in NodeType /\ n1.count = node[i].count /\ n1.updating = node[i].updating
  <2>1. 1 \in 1 .. MinUses
    BY BoundAssumption
  <2> QED BY <1>2, <2>1 DEF NodeType
<1>4. n2 \in NodeType /\ n2.count = node[i].count /\ n2.updating = node[i].updating
  <2> HIDE DEF n1
  <2> QED BY <1>3 DEF NodeType
<1>5. n \in NodeType /\ n.count = node[i].count /\ n.updating = node[i].updating
  <2> HIDE DEF n1, n2
  <2> QED BY <1>4 DEF NodeType
<1>6. UNCHANGED node \/ node' = [node EXCEPT ![i] = n]
  BY DEF MarkExists
<1>7. size' \in Int
  BY DEF MarkExists, IInv, TypeOK
<1>8. c' = [c EXCEPT ![r] = c[r]]
  BY DEF MarkExists, IInv, TypeOK
<1> HIDE DEF n1, n2, n
<1>9. Fits("stale", c[r])
  BY <1>2 DEF Fits, Using, Outside
<1>10. \/ UNCHANGED <<node, queue>>
       \/ /\ i # None
          /\ UNCHANGED queue \/ ToHead(i)
          /\ \E m \in NodeType : /\ node' = [node EXCEPT ![i] = m]
                                 /\ m.count = node[i].count
                                 /\ m.updating => c[r].updating \/ node[i].updating
  BY <1>2, <1>5, <1>6 DEF MarkExists
<1> QED BY <1>2, <1>7, <1>8, <1>9, <1>10, RequestStays DEF MarkExists, IInv, TypeOK

(* The mark of a node is set by the request that finds it clear. *)
LEMMA MarkSet ==
  ASSUME NEW n \in NodeType
  PROVE  /\ [n EXCEPT !.updating = TRUE] \in NodeType
         /\ [n EXCEPT !.updating = TRUE].count = n.count
BY DEF NodeType

(* The request that finds a stale file first owns the mark it sets. *)
LEMMA ReadStaleKeeps ==
  ASSUME IInv, UpdatingOwned, NEW r \in Requests, ReadStale(r)
  PROVE  IInv' /\ UpdatingOwned'
<1> DEFINE i == c[r].node
           mine == c[r].opened = "stale" /\ ~node[i].updating
           x1 == [c[r] EXCEPT !.updating = mine]
           x == [x1 EXCEPT !.opened = "none"]
           n == [node[i] EXCEPT !.updating = TRUE]
<1>1. pc[r] = "stale" /\ pc[r] \in Using /\ pc[r] \notin Marking
  BY DEF ReadStale, Using, Marking
<1>2. /\ c[r] \in CacheType /\ pc[r] \notin Deleting /\ c[r].key \in Keys /\ ~c[r].updating
      /\ i # None /\ i \in Places /\ node[i] \in NodeType
  BY <1>1, AtWork
<1>3. x1 \in CacheType /\ x1.node = i /\ x1.key = c[r].key /\ x1.updating = mine
  BY <1>2 DEF CacheType
<1>4. x \in CacheType /\ x.node = i /\ x.key = c[r].key /\ x.updating = mine
  <2> HIDE DEF x1, mine
  <2> QED BY <1>3 DEF CacheType
<1>5. n \in NodeType /\ n.count = node[i].count
  BY <1>2, MarkSet
<1>6. c' = [c EXCEPT ![r] = x] /\ node' = IF mine THEN [node EXCEPT ![i] = n] ELSE node
  BY DEF ReadStale
<1>7. PICK l \in {"end", "fetch"} : Goto(r, l)
  BY DEF ReadStale
<1> HIDE DEF x1, x, n, mine
<1>8. Fits(l, x)
  BY <1>2, <1>4 DEF Fits, Using, Outside, Marking
<1>9. \/ UNCHANGED <<node, queue>>
      \/ /\ i # None
         /\ UNCHANGED queue \/ ToHead(i)
         /\ \E m \in NodeType : /\ node' = [node EXCEPT ![i] = m]
                                /\ m.count = node[i].count
                                /\ m.updating => x.updating \/ node[i].updating
  BY <1>2, <1>4, <1>5, <1>6 DEF ReadStale
<1> QED BY <1>2, <1>4, <1>6, <1>7, <1>8, <1>9, RequestStays DEF ReadStale, IInv, TypeOK

(* ngx_http_file_cache_lock: whoever sets the mark owns it. *)
LEMMA LockKeeps ==
  ASSUME IInv, UpdatingOwned, NEW r \in Requests, Lock(r)
  PROVE  IInv' /\ UpdatingOwned'
<1> DEFINE i == c[r].node
           mine == c[r].lock /\ ~node[i].updating
           x == [c[r] EXCEPT !.updating = c[r].updating \/ mine]
           n == [node[i] EXCEPT !.updating = TRUE]
           l == IF c[r].lock /\ ~mine /\ ~c[r].updating THEN "wait" ELSE "fetch"
<1>1. pc[r] = "lock" /\ pc[r] \in Using /\ pc[r] \notin Marking
  BY DEF Lock, Using, Marking
<1>2. /\ c[r] \in CacheType /\ pc[r] \notin Deleting /\ c[r].key \in Keys /\ ~c[r].updating
      /\ i # None /\ i \in Places /\ node[i] \in NodeType
  BY <1>1, AtWork
<1>3. x \in CacheType /\ x.node = i /\ x.key = c[r].key /\ x.updating = mine
  BY <1>2 DEF CacheType
<1>4. n \in NodeType /\ n.count = node[i].count
  BY <1>2, MarkSet
<1>5. /\ c' = [c EXCEPT ![r] = x] /\ node' = IF mine THEN [node EXCEPT ![i] = n] ELSE node
      /\ Goto(r, l)
  BY DEF Lock
<1>6. l \in {"wait", "fetch"} /\ (mine => l = "fetch")
  OBVIOUS
<1> HIDE DEF x, n, mine, l
<1>7. Fits(l, x)
  BY <1>2, <1>3, <1>6 DEF Fits, Using, Outside, Marking
<1>8. \/ UNCHANGED <<node, queue>>
      \/ /\ i # None
         /\ UNCHANGED queue \/ ToHead(i)
         /\ \E m \in NodeType : /\ node' = [node EXCEPT ![i] = m]
                                /\ m.count = node[i].count
                                /\ m.updating => x.updating \/ node[i].updating
  BY <1>2, <1>3, <1>4, <1>5 DEF Lock
<1> QED BY <1>2, <1>3, <1>5, <1>7, <1>8, RequestStays DEF Lock, IInv, TypeOK

(* A request that waits for the lock keeps its node. *)
LEMMA LockWaitKeeps ==
  ASSUME IInv, UpdatingOwned, NEW r \in Requests, LockWait(r)
  PROVE  IInv' /\ UpdatingOwned'
<1>1. pc[r] = "wait" /\ pc[r] \in Using /\ pc[r] \notin Marking
  BY DEF LockWait, Using, Marking
<1>2. /\ c[r] \in CacheType /\ pc[r] \notin Deleting /\ c[r].key \in Keys /\ ~c[r].updating
  BY <1>1, AtWork
<1>3. PICK x \in CacheType : /\ c' = [c EXCEPT ![r] = x] /\ x.node = c[r].node
                             /\ x.key \in Keys /\ ~x.updating
  <2>1. CASE UNCHANGED c
    <3>1. c' = [c EXCEPT ![r] = c[r]]
      BY <2>1 DEF IInv, TypeOK
    <3> QED BY <1>2, <3>1
  <2>2. CASE c' = [c EXCEPT ![r].lock = FALSE]
    <3> DEFINE y == [c[r] EXCEPT !.lock = FALSE]
    <3>1. y \in CacheType /\ y.node = c[r].node /\ y.key = c[r].key /\ ~y.updating
      BY <1>2 DEF CacheType
    <3>2. c' = [c EXCEPT ![r] = y]
      BY <2>2
    <3> HIDE DEF y
    <3> QED BY <1>2, <3>1, <3>2
  <2> QED BY <2>1, <2>2 DEF LockWait
<1>4. Fits("exists", x)
  BY <1>3 DEF Fits, Using, Outside
<1> QED BY <1>2, <1>3, <1>4, RequestStays DEF LockWait, shared, IInv, TypeOK

(* The answer of the upstream moves no reference. *)
LEMMA FetchKeeps ==
  ASSUME IInv, UpdatingOwned, NEW r \in Requests, Fetch(r)
  PROVE  IInv' /\ UpdatingOwned'
<1>1. pc[r] = "fetch" /\ pc[r] \in Using
  BY DEF Fetch, Using
<1>2. c[r] \in CacheType /\ pc[r] \notin Deleting /\ c[r].key \in Keys /\ c[r].node # None
  BY <1>1, AtWork
<1>3. PICK x \in CacheType : /\ c' = [c EXCEPT ![r] = x] /\ x.node = c[r].node
                             /\ x.key \in Keys /\ x.updating = c[r].updating
  <2>1. CASE UNCHANGED c
    <3>1. c' = [c EXCEPT ![r] = c[r]]
      BY <2>1 DEF IInv, TypeOK
    <3> QED BY <1>2, <3>1
  <2>2. CASE c' = [c EXCEPT ![r].error = "new"]
    <3> DEFINE y == [c[r] EXCEPT !.error = "new"]
    <3>1. y \in CacheType /\ y.node = c[r].node /\ y.key = c[r].key
          /\ y.updating = c[r].updating
      BY <1>2 DEF CacheType
    <3>2. c' = [c EXCEPT ![r] = y]
      BY <2>2
    <3> HIDE DEF y
    <3> QED BY <1>2, <3>1, <3>2
  <2> QED BY <2>1, <2>2 DEF Fetch
<1>4. PICK l \in {"rename", "end"} : Goto(r, l)
  BY DEF Fetch
<1>5. Fits(l, x)
  BY <1>2, <1>3 DEF Fits, Using, Outside, Marking
<1> QED BY <1>2, <1>3, <1>4, <1>5, RequestStays DEF Fetch, shared, IInv, TypeOK

(* Renaming the temporary file moves no reference. *)
LEMMA RenameKeeps ==
  ASSUME IInv, UpdatingOwned, NEW r \in Requests, Rename(r)
  PROVE  IInv' /\ UpdatingOwned'
<1>1. pc[r] = "rename" /\ pc[r] \in Using
  BY DEF Rename, Using
<1>2. c[r] \in CacheType /\ pc[r] \notin Deleting /\ c[r].key \in Keys /\ c[r].node # None
  BY <1>1, AtWork
<1>3. PICK o \in {"valid", "none"} : c' = [c EXCEPT ![r].opened = o]
  BY DEF Rename
<1> DEFINE x == [c[r] EXCEPT !.opened = o]
<1>4. x \in CacheType /\ x.node = c[r].node /\ x.key = c[r].key /\ x.updating = c[r].updating
  BY <1>2 DEF CacheType
<1>5. c' = [c EXCEPT ![r] = x]
  BY <1>3
<1>6. file' \in [Keys -> {"none", "valid", "stale"}]
  BY <1>2 DEF Rename, IInv, TypeOK
<1> HIDE DEF x
<1>7. Fits("update", x)
  BY <1>2, <1>4 DEF Fits, Using, Outside, Marking
<1> QED BY <1>2, <1>4, <1>5, <1>6, <1>7, RequestStays DEF Rename, shared, IInv, TypeOK

(* ngx_http_file_cache_update gives the node back and clears the mark. *)
LEMMA UpdateKeeps ==
  ASSUME IInv, UpdatingOwned, NEW r \in Requests, Update(r)
  PROVE  IInv' /\ UpdatingOwned'
<1> DEFINE i == c[r].node
           ok == c[r].opened = "valid"
           fs_size == IF ok THEN 1 ELSE 0
           n1 == [node[i] EXCEPT !.count = node[i].count - 1]
           n2 == [n1 EXCEPT !.fs_size = fs_size]
           n3 == [n2 EXCEPT !.exists = node[i].exists \/ ok]
           n == [n3 EXCEPT !.updating = FALSE]
<1>1. pc[r] = "update" /\ pc[r] \in Using
  BY DEF Update, Using
<1>2. i # None /\ i \in Places /\ node[i] \in NodeType /\ node[i].count > 0
  BY <1>1, AtWork
<1>3. n1 \in NodeType /\ n1.count = node[i].count - 1
  <2>1. PICK k \in Nat : k = node[i].count - 1
    <3>1. node[i].count \in Nat
      BY <1>2 DEF NodeType
    <3> QED BY <1>2, <3>1
  <2>2. n1 = [node[i] EXCEPT !.count = k]
    BY <2>1
  <2> QED BY <1>2, <2>1, <2>2 DEF NodeType
<1>4. n2 \in NodeType /\ n2.count = node[i].count - 1
  <2>1. fs_size \in {0, 1}
    OBVIOUS
  <2> HIDE DEF n1, fs_size
  <2> QED BY <1>3, <2>1 DEF NodeType
<1>5. n3 \in NodeType /\ n3.count = node[i].count - 1
  <2> HIDE DEF n2
  <2> QED BY <1>4 DEF NodeType
<1>6. n \in NodeType /\ n.count = node[i].count - 1 /\ ~n.updating
  <2> HIDE DEF n3
  <2> QED BY <1>5 DEF NodeType
<1>7. node' = [node EXCEPT ![i] = n]
  BY DEF Update
<1>8. size' \in Int
  <2>1. node[i].fs_size \in {0, 1} /\ fs_size \in {0, 1}
    BY <1>2 DEF NodeType
  <2> QED BY <2>1 DEF Update, IInv, TypeOK
<1> HIDE DEF n1, n2, n3, n
<1> QED BY <1>1, <1>6, <1>7, <1>8, RequestLeaves DEF Update

(* ngx_http_file_cache_free gives the node back, and frees one of no use. *)
LEMMA FreeCacheKeeps ==
  ASSUME IInv, UpdatingOwned, NEW r \in Requests, FreeCache(r)
  PROVE  IInv' /\ UpdatingOwned'
<1> DEFINE i == c[r].node
           n1 == [node[i] EXCEPT !.count = node[i].count - 1]
           n2 == [n1 EXCEPT !.updating = node[i].updating /\ ~c[r].updating]
           n3 == [n2 EXCEPT !.error = node[i].error \/ c[r].error # "none"]
           n == [n3 EXCEPT !.over = node[i].over /\ c[r].error # "new"]
<1>1. pc[r] = "end" /\ pc[r] \in Using
  BY DEF FreeCache, Using
<1>2. i # None /\ i \in Places /\ node[i] \in NodeType /\ node[i].count > 0
  BY <1>1, AtWork
<1>3. n1 \in NodeType /\ n1.count = node[i].count - 1
  <2>1. PICK k \in Nat : k = node[i].count - 1
    <3>1. node[i].count \in Nat
      BY <1>2 DEF NodeType
    <3> QED BY <1>2, <3>1
  <2>2. n1 = [node[i] EXCEPT !.count = k]
    BY <2>1
  <2> QED BY <1>2, <2>1, <2>2 DEF NodeType
<1>4. n2 \in NodeType /\ n2.count = node[i].count - 1
      /\ (n2.updating => node[i].updating /\ ~c[r].updating)
  <2> HIDE DEF n1
  <2> QED BY <1>3 DEF NodeType
<1>5. n3 \in NodeType /\ n3.count = node[i].count - 1
      /\ (n3.updating => node[i].updating /\ ~c[r].updating)
  <2> HIDE DEF n2
  <2> QED BY <1>4 DEF NodeType
<1>6. n \in NodeType /\ n.count = node[i].count - 1
      /\ (n.updating => node[i].updating /\ ~c[r].updating)
  <2> HIDE DEF n3
  <2> QED BY <1>5 DEF NodeType
<1>7. \/ FreeNode(i) /\ n.count = 0
      \/ node' = [node EXCEPT ![i] = n] /\ UNCHANGED queue
  BY DEF FreeCache
<1> HIDE DEF n1, n2, n3, n
<1>8. node[i].count \in Nat
  BY <1>2 DEF NodeType
<1>9. \/ /\ UNCHANGED queue
         /\ \E m \in NodeType : /\ node' = [node EXCEPT ![i] = m]
                                /\ m.count = node[i].count - 1
                                /\ m.updating => node[i].updating /\ ~c[r].updating
      \/ FreeNode(i) /\ node[i].count = 1
  BY <1>6, <1>7, <1>8
<1> QED BY <1>1, <1>9, RequestLeaves DEF FreeCache, IInv, TypeOK

(* ngx_http_file_cache_exists makes a node, with the first reference. *)
LEMMA ExistsNewKeeps ==
  ASSUME IInv, UpdatingOwned, NEW r \in Requests, ExistsNew(r)
  PROVE  IInv' /\ UpdatingOwned'
<1>1. /\ c[r] \in CacheType /\ c[r].node = None /\ ~c[r].updating /\ c[r].key \in Keys
      /\ pc[r] \in {"exists", "alloc"} /\ pc[r] \notin Deleting
  BY DEF ExistsNew, IInv, PcInv, RequestInv, TypeOK, CacheType, Without, Marking, Deleting
<1>2. CASE Room # {} /\ LET i == Min(Room)
                        IN  /\ Insert(i, NewNode(c[r].key))
                            /\ c' = [c EXCEPT ![r].node = i, ![r].cacheable = MinUses = 1]
                            /\ Goto(r, AfterDeclined)
  <2> DEFINE i == Min(Room)
             x1 == [c[r] EXCEPT !.node = i]
             x == [x1 EXCEPT !.cacheable = (MinUses = 1)]
             n == NewNode(c[r].key)
  <2>1. i \in Room
    <3>1. Room \in SUBSET Nat
      BY BoundAssumption DEF Room, Places
    <3> QED BY <1>2, <3>1, MinIn
  <2>2. i \in Places /\ i # None
    BY <2>1 DEF Room, Places, None
  <2>3. x1 \in CacheType /\ x1.node = i /\ x1.key = c[r].key /\ ~x1.updating
    <3> HIDE DEF i
    <3> QED BY <1>1, <2>2 DEF CacheType
  <2>4. x \in CacheType /\ x.node = i /\ x.key = c[r].key /\ ~x.updating
    <3> HIDE DEF x1, i
    <3> QED BY <2>3 DEF CacheType
  <2>5. n \in NodeType /\ n.count = 1 /\ ~n.updating
    <3>1. 1 \in 1 .. MinUses
      BY BoundAssumption
    <3> QED BY <1>1, <3>1 DEF NewNode, NodeType
  <2>6. c' = [c EXCEPT ![r] = x] /\ Insert(i, n) /\ Goto(r, AfterDeclined)
    BY <1>2
  <2>7. AfterDeclined \in {"open", "fetch", "lock"}
    BY DEF AfterDeclined
  <2> HIDE DEF x1, x, n, i
  <2>8. Fits(AfterDeclined, x)
    BY <1>1, <2>2, <2>4, <2>7 DEF Fits, Using, Outside
  <2> QED BY <1>1, <2>1, <2>2, <2>4, <2>5, <2>6, <2>8, RequestJoins
          DEF ExistsNew, IInv, TypeOK
<1>3. CASE /\ Room = {}
           /\ IF pc[r] = "exists" THEN Goto(r, "force") /\ UNCHANGED c
              ELSE Goto(r, "idle") /\ c' = [c EXCEPT ![r] = NoCache]
           /\ UNCHANGED <<node, queue>>
  <2>1. CASE pc[r] = "exists"
    <3>1. Goto(r, "force") /\ c' = [c EXCEPT ![r] = c[r]]
      BY <1>3, <2>1 DEF IInv, TypeOK
    <3>2. Fits("force", c[r])
      BY <1>1 DEF Fits, Using, Outside
    <3> QED BY <1>1, <1>3, <3>1, <3>2, RequestStays DEF ExistsNew, IInv, TypeOK
  <2>2. CASE pc[r] # "exists"
    <3>1. Goto(r, "idle") /\ c' = [c EXCEPT ![r] = NoCache]
      BY <1>3, <2>2
    <3> QED BY <1>1, <1>3, <3>1, NoCacheType, RequestStays DEF ExistsNew, IInv, TypeOK
  <2> QED BY <2>1, <2>2
<1> QED BY <1>2, <1>3 DEF ExistsNew

(* A node that is used again is no longer inactive; it may be renewed when *)
(* an error that was remembered is over.                                   *)
LEMMA TouchedType ==
  ASSUME NEW n \in NodeType
  PROVE  /\ Touched(n) \in NodeType
         /\ Touched(n).count = n.count
         /\ Touched(n).updating = n.updating
         /\ Touched(n).uses = n.uses
BY DEF Touched, NodeType

(* A node whose error is over keeps its references and its mark. *)
LEMMA RenewedType ==
  ASSUME NEW n \in NodeType
  PROVE  /\ Renewed(n) \in NodeType
         /\ Renewed(n).count = n.count
         /\ Renewed(n).updating = n.updating
<1> DEFINE n1 == [n EXCEPT !.error = FALSE]
           n2 == [n1 EXCEPT !.over = TRUE]
           n3 == [n2 EXCEPT !.exists = FALSE]
           n4 == [n3 EXCEPT !.fs_size = 0]
<1>1. n1 \in NodeType /\ n1.count = n.count /\ n1.updating = n.updating
  BY DEF NodeType
<1>2. n2 \in NodeType /\ n2.count = n.count /\ n2.updating = n.updating
  <2> HIDE DEF n1
  <2> QED BY <1>1 DEF NodeType
<1>3. n3 \in NodeType /\ n3.count = n.count /\ n3.updating = n.updating
  <2> HIDE DEF n2
  <2> QED BY <1>2 DEF NodeType
<1>4. n4 \in NodeType /\ n4.count = n.count /\ n4.updating = n.updating
  <2> HIDE DEF n3
  <2> QED BY <1>3 DEF NodeType
<1> QED BY <1>4 DEF Renewed

(* The node that ngx_http_file_cache_exists leaves when the request did    *)
(* not have it yet.                                                        *)
Counted(m) == [Touched(m) EXCEPT !.count = @ + 1, !.uses = IF @ < MinUses THEN @ + 1 ELSE @]

(* A node that is found counts one reference more. *)
LEMMA CountedType ==
  ASSUME NEW m \in NodeType
  PROVE  /\ Counted(m) \in NodeType
         /\ Counted(m).count = m.count + 1
         /\ Counted(m).updating = m.updating
<1> DEFINE t == Touched(m)
           u == IF t.uses < MinUses THEN t.uses + 1 ELSE t.uses
           n1 == [t EXCEPT !.count = t.count + 1]
           n2 == [n1 EXCEPT !.uses = u]
<1>1. t \in NodeType /\ t.count = m.count /\ t.updating = m.updating
  BY TouchedType
<1>2. t.count \in Nat /\ t.uses \in 1 .. MinUses
  <2> HIDE DEF t
  <2> QED BY <1>1 DEF NodeType
<1>3. t.count + 1 \in Nat /\ u \in 1 .. MinUses
  <2> HIDE DEF t
  <2> QED BY <1>2, BoundAssumption
<1>4. n1 \in NodeType /\ n1.count = m.count + 1 /\ n1.updating = m.updating
  <2>1. PICK k \in Nat : k = t.count + 1
    BY <1>3
  <2>2. n1 = [t EXCEPT !.count = k]
    BY <2>1
  <2> HIDE DEF t
  <2> QED BY <1>1, <2>1, <2>2 DEF NodeType
<1>5. n2 \in NodeType /\ n2.count = m.count + 1 /\ n2.updating = m.updating
  <2> HIDE DEF n1, u
  <2> QED BY <1>3, <1>4 DEF NodeType
<1>6. Counted(m) = n2
  BY DEF Counted
<1> HIDE DEF t, n1, n2
<1> QED BY <1>5, <1>6

(* ngx_http_file_cache_exists finds the node and counts itself once. *)
LEMMA ExistsFoundKeeps ==
  ASSUME IInv, UpdatingOwned, NEW r \in Requests, ExistsFound(r)
  PROVE  IInv' /\ UpdatingOwned'
<1>1. pc[r] = "exists" /\ pc[r] \notin Marking /\ pc[r] \notin Using
  BY DEF ExistsFound, Marking, Using
<1>2. c[r] \in CacheType /\ pc[r] \notin Deleting /\ c[r].key \in Keys /\ ~c[r].updating
  BY SMTT(30), <1>1, AtWork
<1>3. PICK i \in IF c[r].node # None THEN {c[r].node} ELSE Lookup(c[r].key) :
        LET n == IF c[r].node # None THEN Touched(node[i])
                 ELSE [Touched(node[i]) EXCEPT !.count = @ + 1,
                                               !.uses = IF @ < MinUses THEN @ + 1 ELSE @]
            renew == n.error /\ n.over
            scarce == ~n.error /\ ~n.exists /\ n.uses < MinUses
        IN  /\ node' = [node EXCEPT ![i] = IF renew THEN Renewed(n) ELSE n]
            /\ ToHead(i)
            /\ c' = [c EXCEPT ![r].node = i,
                              ![r].error = IF n.error /\ ~renew THEN "old" ELSE "none",
                              ![r].cacheable = ~scarce /\ ~(renew /\ MinUses > 1)]
            /\ Goto(r, IF renew THEN AfterDeclined
                       ELSE IF scarce THEN "fetch" ELSE AfterFound(n))
  BY DEF ExistsFound
<1> DEFINE has == c[r].node # None
           n == IF has THEN Touched(node[i])
                ELSE [Touched(node[i]) EXCEPT !.count = @ + 1,
                                              !.uses = IF @ < MinUses THEN @ + 1 ELSE @]
           renew == n.error /\ n.over
           scarce == ~n.error /\ ~n.exists /\ n.uses < MinUses
           e == IF n.error /\ ~renew THEN "old" ELSE "none"
           m == IF renew THEN Renewed(n) ELSE n
           x1 == [c[r] EXCEPT !.node = i]
           x2 == [x1 EXCEPT !.error = e]
           x == [x2 EXCEPT !.cacheable = ~scarce /\ ~(renew /\ MinUses > 1)]
           l == IF renew THEN AfterDeclined ELSE IF scarce THEN "fetch" ELSE AfterFound(n)
<1>4. i \in Places /\ i \in Present /\ node[i] \in NodeType /\ i # None
  <2>1. CASE has
    BY <2>1, <1>3, Held DEF IInv, Present
  <2>2. CASE ~has
    BY <2>2, <1>3, PresentType DEF IInv, Lookup, Present, Places, None
  <2> QED BY <2>1, <2>2
<1>5. /\ n \in NodeType /\ n.updating = node[i].updating
      /\ n.count = IF has THEN node[i].count ELSE node[i].count + 1
  <2>1. CASE has
    <3>1. n = Touched(node[i])
      BY <2>1
    <3> HIDE DEF n
    <3> QED BY <1>4, <2>1, <3>1, TouchedType
  <2>2. CASE ~has
    <3>1. n = Counted(node[i])
      BY <2>2 DEF Counted
    <3> HIDE DEF n
    <3> QED BY <1>4, <2>2, <3>1, CountedType
  <2> QED BY <2>1, <2>2
<1>6. /\ c' = [c EXCEPT ![r] = x]
      /\ node' = [node EXCEPT ![i] = m] /\ ToHead(i) /\ Goto(r, l)
  BY <1>3
<1> HIDE DEF n
<1>7. /\ m \in NodeType /\ m.updating = node[i].updating
      /\ m.count = IF has THEN node[i].count ELSE node[i].count + 1
  BY <1>5, RenewedType
<1>8. x1 \in CacheType /\ x1.node = i /\ x1.key = c[r].key /\ ~x1.updating
  BY <1>2, <1>4 DEF CacheType
<1>9. e \in {"none", "old", "new"}
  OBVIOUS
<1>10. x2 \in CacheType /\ x2.node = i /\ x2.key = c[r].key /\ ~x2.updating
  <2> HIDE DEF x1, e
  <2> QED BY <1>8, <1>9 DEF CacheType
<1>11. x \in CacheType /\ x.node = i /\ x.key = c[r].key /\ ~x.updating
  <2> HIDE DEF x2, scarce, renew
  <2> QED BY <1>10 DEF CacheType
<1>12. l \in {"open", "fetch", "lock", "end"}
  BY DEF AfterDeclined, AfterFound
<1> HIDE DEF m, x1, x2, x, l, e, renew, scarce
<1>13. Fits(l, x)
  BY <1>2, <1>4, <1>11, <1>12 DEF Fits, Using, Outside
<1>14. CASE has
  <2>1. i = c[r].node
    BY <1>3, <1>14
  <2> QED BY ZenonT(40), <1>2, <1>6, <1>7, <1>11, <1>13, <1>14, <2>1, RequestStays
          DEF ExistsFound, IInv, TypeOK
<1>15. CASE ~has
  BY <1>2, <1>4, <1>6, <1>7, <1>11, <1>13, <1>15, RequestJoins
     DEF ExistsFound, IInv, TypeOK
<1> QED BY <1>14, <1>15

(* A process goes on and touches no node. *)
LEMMA ActorOnly ==
  ASSUME IInv, UpdatingOwned, NEW a \in Actors, NEW l, FitsActor(a, l, victim[a]), Goto(a, l),
         cold' \in BOOLEAN, file' \in [Keys -> {"none", "valid", "stale"}],
         todo' \subseteq Keys, pc'[Loader] # "idle" => found' \in Keys,
         UNCHANGED <<shared, victim, c, lost>>
  PROVE  IInv' /\ UpdatingOwned'
<1>1. NodesOK' /\ QueueInv' /\ queue' \in Seq(Places)
  BY NodesKept DEF IInv, shared
<1>2. \A j \in Places : /\ node'[j].present => /\ node'[j].count = Refs(j)
                                               /\ node'[j].updating =>
                                                    node[j].present /\ node[j].updating
                        /\ ~node'[j].present => Refs(j) = 0
  BY DEF IInv, CountInv, shared
<1>3. size' \in Int
  BY DEF IInv, TypeOK, shared
<1> QED BY <1>1, <1>2, <1>3, ActorStays

(* The files and the loader are left alone by the others. *)
LEMMA LoaderKept ==
  ASSUME IInv, NEW a \in Actors, a # Loader, NEW l, Goto(a, l), UNCHANGED loader
  PROVE  cold' \in BOOLEAN /\ todo' \subseteq Keys /\ (pc'[Loader] # "idle" => found' \in Keys)
<1>1. Loader \in Actors
  BY DEF Actors
<1> QED BY <1>1 DEF IInv, PcInv, TypeOK, Goto, loader

(* The file is unlinked outside the mutex: the node is still counted. *)
LEMMA UnlinkKeeps ==
  ASSUME IInv, UpdatingOwned, NEW a \in Requests \cup {Manager}, Unlink(a)
  PROVE  IInv' /\ UpdatingOwned'
<1> USE DEF IInv
<1>1. a \in Actors /\ a # Loader
  BY ActorsAssumption DEF Actors
<1>2. pc[a] = "unlink" /\ pc[a] \in Deleting /\ victim[a].node # None
  BY <1>1 DEF Unlink, PcInv, Deleting
<1>3. node[victim[a].node] \in NodeType
  BY <1>1, <1>2, Deleted
<1>4. file' \in [Keys -> {"none", "valid", "stale"}]
  <2>1. node[victim[a].node].key \in Keys
    BY <1>3 DEF NodeType
  <2> QED BY <2>1 DEF Unlink, TypeOK
<1>5. FitsActor(a, "unlinked", victim[a])
  BY <1>1, <1>2, ActorsAssumption DEF FitsActor, PcInv, RequestInv, Without, Deleting
<1> QED BY <1>1, <1>4, <1>5, LoaderKept, ActorOnly DEF Unlink

(* After the unlink the node is given back, and freed if nobody has it. *)
LEMMA UnlinkedKeeps ==
  ASSUME IInv, UpdatingOwned, NEW a \in Requests \cup {Manager}, Unlinked(a)
  PROVE  IInv' /\ UpdatingOwned'
<1> USE DEF IInv
<1> DEFINE i == victim[a].node
           n1 == [node[i] EXCEPT !.count = node[i].count - 1]
           n == [n1 EXCEPT !.deleting = FALSE]
<1>1. a \in Actors /\ a # Loader
  BY ActorsAssumption DEF Actors
<1>2. pc[a] = "unlinked" /\ pc[a] \in Deleting /\ i # None
  BY <1>1 DEF Unlinked, PcInv, Deleting
<1>3. i \in Places /\ i \in Present /\ node[i].present /\ node[i] \in NodeType /\ node[i].count > 0
  BY <1>1, <1>2, Deleted DEF Present
<1>4. node[i].count \in Nat
  BY <1>3 DEF NodeType
<1>5. n1 \in NodeType /\ n1.count = node[i].count - 1 /\ n1.updating = node[i].updating
  <2>1. PICK k \in Nat : k = node[i].count - 1
    BY <1>3, <1>4
  <2>2. n1 = [node[i] EXCEPT !.count = k]
    BY <2>1
  <2> QED BY <1>3, <2>1, <2>2 DEF NodeType
<1>6. n \in NodeType /\ n.count = node[i].count - 1 /\ n.updating = node[i].updating
  <2> HIDE DEF n1
  <2> QED BY <1>5 DEF NodeType
<1>7. \/ FreeNode(i) /\ n.count = 0
      \/ node' = [node EXCEPT ![i] = n] /\ UNCHANGED queue
  BY DEF Unlinked
<1> HIDE DEF n1, n
<1>8. NoVictim \in VictimType /\ NoVictim.node = None
  BY DEF NoVictim, VictimType, PCs
<1>9. victim[a].next \notin Deleting
      /\ (a \in Requests => victim[a].next = "alloc")
      /\ (a = Manager => victim[a].next \in {"expire", "size"})
  BY <1>2 DEF PcInv, RequestInv, Deleting
<1>10. FitsActor(a, victim[a].next, NoVictim)
  BY <1>1, <1>2, <1>8, <1>9, ActorsAssumption DEF FitsActor, Without, Deleting
<1>11. PcInv' /\ pc' \in [Actors -> PCs] /\ victim' \in [Actors -> VictimType]
  BY <1>1, <1>8, <1>10, LoaderKept, ActorMoves DEF Unlinked
<1>12. NodesOK
  BY DEF TypeOK, NodesOK
<1>13. /\ NodesOK' /\ QueueInv' /\ queue' \in Seq(Places)
       /\ node'[i].present => /\ node'[i].count = node[i].count - 1
                              /\ node'[i].updating = node[i].updating
       /\ ~node'[i].present => node[i].count = 1
       /\ \A j \in Places : j # i => node'[j] = node[j]
  <2>1. CASE FreeNode(i) /\ n.count = 0
    BY <1>3, <1>4, <1>6, <1>12, <2>1, NodeFreed
  <2>2. CASE node' = [node EXCEPT ![i] = n] /\ UNCHANGED queue
    BY <1>3, <1>6, <1>12, <2>2, NodeUpdated
  <2> QED BY <1>7, <2>1, <2>2
<1>14. \A j \in Places : Refs(j) \in Nat /\ Refs(j)' = Refs(j) - IF j = i THEN 1 ELSE 0
  BY <1>1, <1>2, <1>8, RefsDeleted DEF Unlinked
<1>15. CountInv'
  BY <1>3, <1>13, <1>14 DEF CountInv
<1>16. UpdatingOwned'
  BY <1>3, <1>13, MarksKept DEF Unlinked
<1>17. TypeOK'
  BY <1>11, <1>13, TypeFrom DEF TypeOK, CacheType, Unlinked, loader
<1> QED BY <1>11, <1>13, <1>15, <1>16, <1>17

(* The manager deletes only what nobody uses. *)
LEMMA ManagerKeeps ==
  ASSUME IInv, UpdatingOwned, ManagerWakes \/ Expire \/ CheckSize
  PROVE  IInv' /\ UpdatingOwned'
<1> USE DEF IInv
<1>1. Manager \in Actors /\ Manager # Loader /\ Manager \notin Requests
  BY ActorsAssumption DEF Actors
<1>2. victim[Manager].node = None
  BY <1>1 DEF ManagerWakes, Expire, CheckSize, PcInv, Deleting
<1>3. \A l \in {"idle", "expire", "size"} : FitsActor(Manager, l, victim[Manager])
  BY <1>1, <1>2 DEF FitsActor, Deleting
<1>4. file \in [Keys -> {"none", "valid", "stale"}]
  BY DEF TypeOK
<1>5. ASSUME NEW l \in {"idle", "expire", "size"}, Goto(Manager, l), UNCHANGED <<shared, victim>>
      PROVE  IInv' /\ UpdatingOwned'
  BY <1>1, <1>3, <1>4, <1>5, LoaderKept, ActorOnly DEF ManagerWakes, Expire, CheckSize
<1>6. CASE ManagerWakes
  BY <1>5, <1>6 DEF ManagerWakes
<1>7. CASE CheckSize
  BY <1>1, <1>5, <1>7, ForcedKeeps DEF CheckSize
<1>8. CASE Expire
  <2> DEFINE i == Last(queue)
  <2>1. CASE Goto(Manager, "size") /\ UNCHANGED <<shared, victim>>
    BY <1>5, <2>1
  <2>2. ASSUME queue # <<>> PROVE i \in Present
    <3>1. queue \in Seq(Present) /\ Len(queue) \in Nat
      BY DEF QueueInv, Holds
    <3>2. Len(queue) \in 1 .. Len(queue)
      BY <2>2, <3>1, EmptySeq
    <3> QED BY <3>1, <3>2, ElementOfSeq DEF Last
  <2>3. CASE queue # <<>> /\ node[i].count = 0 /\ DeleteEntry(Manager, i, "expire")
    BY <1>1, <1>8, <2>2, <2>3, DeleteKeeps DEF Expire
  <2>4. CASE queue # <<>> /\ node' = [node EXCEPT ![i] = Touched(@)] /\ ToHead(i)
             /\ UNCHANGED <<size, victim, pc>>
    <3>1. i \in Places /\ node[i] \in NodeType /\ node[i].present
      BY <2>2, <2>4, PresentType DEF Present
    <3>2. /\ Touched(node[i]) \in NodeType /\ Touched(node[i]).count = node[i].count
          /\ Touched(node[i]).updating = node[i].updating
      BY <3>1, TouchedType
    <3>3. node' = [node EXCEPT ![i] = Touched(node[i])]
      BY <2>4
    <3> HIDE DEF i
    <3>4. /\ NodesOK' /\ QueueInv' /\ queue' \in Seq(Places)
          /\ node'[i] = Touched(node[i]) /\ node'[i].present
          /\ \A j \in Places : j # i => node'[j] = node[j]
      BY ZenonT(40), <2>2, <2>4, <3>2, <3>3, NodeUpdated DEF TypeOK, NodesOK
    <3>5. Goto(Manager, "expire")
      BY <1>1, <1>8, <2>4 DEF Expire, Goto, TypeOK
    <3>6. \A j \in Places : /\ node'[j].present => /\ node'[j].count = Refs(j)
                                                   /\ node'[j].updating =>
                                                        node[j].present /\ node[j].updating
                            /\ ~node'[j].present => Refs(j) = 0
      BY <3>1, <3>2, <3>4 DEF CountInv
    <3>7. size' \in Int /\ UNCHANGED <<file, victim, c, lost, loader>>
      BY <1>8, <2>4 DEF Expire, TypeOK
    <3> QED BY <1>1, <1>3, <1>4, <3>4, <3>5, <3>6, <3>7, LoaderKept, ActorStays
  <2> QED BY <1>8, <2>1, <2>3, <2>4 DEF Expire
<1> QED BY <1>6, <1>7, <1>8

(* The loader adds nodes that nobody refers to. *)
LEMMA LoaderKeeps ==
  ASSUME IInv, UpdatingOwned, LoaderStep
  PROVE  IInv' /\ UpdatingOwned'
<1> USE DEF IInv
<1>1. Loader \in Actors /\ Manager # Loader /\ Loader \notin Requests
  BY ActorsAssumption DEF Actors
<1>2. pc[Loader] \notin Deleting /\ victim[Loader].node = None
  BY <1>1 DEF PcInv, Deleting
<1>3. \A l \in {"idle", "add", "discard"} : FitsActor(Loader, l, victim[Loader])
  BY <1>1, <1>2 DEF FitsActor, Deleting
<1>4. /\ file \in [Keys -> {"none", "valid", "stale"}] /\ cold \in BOOLEAN /\ size \in Int
      /\ todo \subseteq Keys /\ (pc[Loader] # "idle" => found \in Keys)
  BY DEF TypeOK, PcInv
<1>5. \A l : Goto(Loader, l) => pc'[Loader] = l
  BY <1>1 DEF Goto, TypeOK
<1>6. CASE LoaderFinds
  <2>1. ASSUME NEW k \in todo, found' = (IF file[k] = "none" THEN NoKey ELSE k),
               todo' = todo \ {k}, Goto(Loader, IF file[k] = "none" THEN "idle" ELSE "add"),
               UNCHANGED cold
        PROVE  IInv' /\ UpdatingOwned'
    <3>1. todo' \subseteq Keys /\ (pc'[Loader] # "idle" => found' \in Keys)
      BY <1>4, <1>5, <2>1
    <3>2. PICK l \in {"idle", "add"} : Goto(Loader, l)
      BY <2>1
    <3> QED BY <1>1, <1>3, <1>4, <1>6, <2>1, <3>1, <3>2, ActorOnly DEF LoaderFinds
  <2>2. CASE cold' = FALSE /\ UNCHANGED <<todo, found, pc>>
    <3>1. Goto(Loader, "idle")
      BY <1>1, <1>6, <2>2 DEF LoaderFinds, Goto, TypeOK
    <3>2. todo' \subseteq Keys /\ (pc'[Loader] # "idle" => found' \in Keys)
      BY <1>4, <2>2
    <3> QED BY <1>1, <1>3, <1>4, <1>6, <2>2, <3>1, <3>2, ActorOnly DEF LoaderFinds
  <2> QED BY <1>6, <2>1, <2>2 DEF LoaderFinds
<1>7. CASE LoaderAdds
  <2>1. found \in Keys
    BY <1>4, <1>7 DEF LoaderAdds
  <2>2. ASSUME NEW i \in Lookup(found), node' = [node EXCEPT ![i] = Touched(@)], ToHead(i),
               Goto(Loader, "idle"), UNCHANGED size
        PROVE  IInv' /\ UpdatingOwned'
    <3>1. i \in Present /\ i \in Places /\ node[i] \in NodeType /\ node[i].present
      BY PresentType DEF Lookup, Present
    <3>2. /\ Touched(node[i]) \in NodeType /\ Touched(node[i]).count = node[i].count
          /\ Touched(node[i]).updating = node[i].updating
      BY <3>1, TouchedType
    <3>3. node' = [node EXCEPT ![i] = Touched(node[i])]
      BY <2>2
    <3>4. /\ NodesOK' /\ QueueInv' /\ queue' \in Seq(Places)
          /\ node'[i] = Touched(node[i]) /\ node'[i].present
          /\ \A j \in Places : j # i => node'[j] = node[j]
      BY <2>2, <3>1, <3>2, <3>3, NodeUpdated DEF TypeOK, NodesOK
    <3>5. \A j \in Places : /\ node'[j].present => /\ node'[j].count = Refs(j)
                                                   /\ node'[j].updating =>
                                                        node[j].present /\ node[j].updating
                            /\ ~node'[j].present => Refs(j) = 0
      BY <3>1, <3>2, <3>4 DEF CountInv
    <3>6. /\ size' \in Int /\ UNCHANGED <<cold, todo, file, victim, c, lost>>
          /\ pc'[Loader] = "idle"
      BY <1>4, <1>5, <1>7, <2>2 DEF LoaderAdds
    <3>7. FitsActor(Loader, "idle", victim[Loader])
      BY <1>3
    <3> QED BY <1>1, <1>4, <2>2, <3>4, <3>5, <3>6, <3>7, ActorStays
  <2>3. CASE /\ Room # {}
             /\ Insert(Min(Room), [NewNode(found) EXCEPT !.count = 0, !.exists = TRUE,
                                                         !.fs_size = 1])
             /\ size' = size + 1
             /\ Goto(Loader, "idle")
    <3> DEFINE i == Min(Room)
               n0 == NewNode(found)
               n1 == [n0 EXCEPT !.count = 0]
               n2 == [n1 EXCEPT !.exists = TRUE]
               n == [n2 EXCEPT !.fs_size = 1]
    <3>1. i \in Room /\ i \in Places /\ ~node[i].present
      <4>1. Room \in SUBSET Nat
        BY BoundAssumption DEF Room, Places
      <4>2. i \in Room
        BY <2>3, <4>1, MinIn
      <4> QED BY <4>2 DEF Room, Present
    <3>2. n0 \in NodeType /\ ~n0.updating
      <4>1. 1 \in 1 .. MinUses
        BY BoundAssumption
      <4> QED BY <2>1, <4>1 DEF NewNode, NodeType
    <3>3. n1 \in NodeType /\ n1.count = 0 /\ ~n1.updating
      <4> HIDE DEF n0
      <4> QED BY <3>2 DEF NodeType
    <3>4. n2 \in NodeType /\ n2.count = 0 /\ ~n2.updating
      <4> HIDE DEF n1
      <4> QED BY <3>3 DEF NodeType
    <3>5. n \in NodeType /\ n.count = 0 /\ ~n.updating
      <4> HIDE DEF n2
      <4> QED BY <3>4 DEF NodeType
    <3>6. Insert(i, n)
      BY <2>3
    <3> HIDE DEF i, n0, n1, n2, n
    <3>7. /\ NodesOK' /\ QueueInv' /\ queue' \in Seq(Places)
          /\ node'[i] = n /\ n.present
          /\ \A j \in Places : j # i => node'[j] = node[j]
      BY <3>1, <3>5, <3>6, NodeInserted DEF TypeOK, NodesOK
    <3>8. \A j \in Places : /\ node'[j].present => /\ node'[j].count = Refs(j)
                                                   /\ node'[j].updating =>
                                                        node[j].present /\ node[j].updating
                            /\ ~node'[j].present => Refs(j) = 0
      BY <3>1, <3>5, <3>7 DEF CountInv
    <3>9. /\ size' \in Int /\ UNCHANGED <<cold, todo, file, victim, c, lost>>
          /\ pc'[Loader] = "idle"
      BY <1>4, <1>5, <1>7, <2>3 DEF LoaderAdds
    <3>10. FitsActor(Loader, "idle", victim[Loader])
      BY <1>3
    <3> QED BY <1>1, <1>4, <2>3, <3>7, <3>8, <3>9, <3>10, ActorStays
  <2>4. CASE Goto(Loader, "discard") /\ UNCHANGED shared
    <3>1. pc'[Loader] = "discard"
      BY <1>5, <2>4
    <3>2. found' \in Keys /\ UNCHANGED <<cold, todo, file, victim, c, lost>>
      BY <1>7, <2>1, <3>1 DEF LoaderAdds
    <3>3. FitsActor(Loader, "discard", victim[Loader])
      BY <1>3
    <3> QED BY <1>1, <1>4, <2>4, <3>1, <3>2, <3>3, ActorOnly
  <2> QED BY <1>7, <2>2, <2>3, <2>4 DEF LoaderAdds
<1>8. CASE LoaderDiscards
  <2>1. found \in Keys /\ pc'[Loader] = "idle" /\ Goto(Loader, "idle")
    BY <1>4, <1>5, <1>8 DEF LoaderDiscards
  <2>2. file' \in [Keys -> {"none", "valid", "stale"}]
    BY <1>4, <1>8, <2>1 DEF LoaderDiscards
  <2>3. FitsActor(Loader, "idle", victim[Loader])
    BY <1>3
  <2> QED BY <1>1, <1>4, <1>8, <2>1, <2>2, <2>3, ActorOnly DEF LoaderDiscards
<1> QED BY <1>6, <1>7, <1>8 DEF LoaderStep

(* What a process that is killed referred to stays counted. *)
LEMMA KilledKeeps ==
  ASSUME IInv, UpdatingOwned, NEW a \in Requests \cup {Manager}, Killed(a)
  PROVE  IInv' /\ UpdatingOwned'
<1> USE DEF IInv
<1>1. a \in Actors /\ a # Loader /\ Loader \in Actors /\ Manager \in Actors
      /\ Requests \subseteq Actors /\ Manager \notin Requests
  BY ActorsAssumption DEF Actors
<1>2. NoVictim \in VictimType /\ NoVictim.node = None
  BY DEF NoVictim, VictimType, PCs
<1>3. /\ pc' \in [Actors -> PCs] /\ pc'[a] = "idle"
      /\ \A b \in Actors : b # a => pc'[b] = pc[b]
  BY <1>1 DEF Killed, Goto, TypeOK, PCs
<1>4. /\ victim' \in [Actors -> VictimType] /\ victim'[a].node = None
      /\ \A b \in Actors : b # a => victim'[b] = victim[b]
  BY <1>1, <1>2 DEF Killed, TypeOK, VictimType
<1>5. /\ c' \in [Requests -> CacheType]
      /\ \A q \in Requests : IF q = a THEN c'[q] = NoCache ELSE c'[q] = c[q]
  BY NoCacheType DEF Killed, TypeOK, CacheType
<1>6. /\ \A i : References(a, i) \in Nat
      /\ lost' = [i \in Places |-> lost[i] + References(a, i)]
      /\ lost' \in [Places -> Nat]
  BY DEF Killed, References, TypeOK
<1>7. RequestInv'
  <2> SUFFICES ASSUME NEW q \in Requests
               PROVE  /\ pc'[q] \in {"exists"} \cup Using \cup Without
                      /\ pc'[q] \in Using => c'[q].node # None
                      /\ pc'[q] \in Without => c'[q].node = None
                      /\ pc'[q] # "idle" => c'[q].key \in Keys
                      /\ c'[q].updating => pc'[q] \in Marking
                      /\ pc'[q] \in Deleting => victim'[q].next = "alloc"
    BY DEF RequestInv
  <2>1. CASE q = a
    BY <1>3, <1>5, <2>1, NoCacheType DEF Without, Using, Deleting
  <2>2. CASE q # a
    BY <1>1, <1>3, <1>4, <1>5, <2>2 DEF PcInv, RequestInv
  <2> QED BY <2>1, <2>2
<1>8. PcInv'
  <2>1. \A b \in Actors : pc'[b] \in Deleting <=> victim'[b].node # None
    BY <1>3, <1>4 DEF PcInv, Deleting
  <2>2. /\ pc'[Manager] \in {"idle", "expire", "size"} \cup Deleting
        /\ pc'[Manager] \in Deleting => victim'[Manager].next \in {"expire", "size"}
    BY <1>1, <1>3, <1>4 DEF PcInv, Deleting
  <2>3. pc'[Loader] = pc[Loader] /\ UNCHANGED <<found, todo>>
    BY <1>1, <1>3 DEF Killed, loader
  <2> QED BY <1>7, <2>1, <2>2, <2>3 DEF PcInv
<1>9. NodesOK' /\ QueueInv' /\ queue' \in Seq(Places) /\ node' = node
  BY NodesKept DEF Killed, shared
<1>10. TypeOK'
  BY <1>3, <1>4, <1>5, <1>6, <1>9, TypeFrom DEF TypeOK, Killed, shared, loader
<1>11. ASSUME NEW i \in Places PROVE Refs(i)' = Refs(i)
  <2> DEFINE held == a \in Requests /\ c[a].node = i
             deletes == victim[a].node = i
  <2>1. i # None /\ lost[i] \in Nat /\ lost'[i] = lost[i] + References(a, i)
    BY <1>6 DEF Places, None, TypeOK
  <2>2. Cardinality(Holders(i)') = Cardinality(Holders(i)) - IF held THEN 1 ELSE 0
    <3>1. CASE held
      <4>1. Holders(i)' = Holders(i) \ {a} /\ a \in Holders(i)
        BY <1>5, <2>1, <3>1, NoCacheType DEF Holders
      <4> QED BY ZenonT(40), <3>1, <4>1, FiniteRefs, FS_RemoveElement
    <3>2. CASE ~held
      <4>1. Holders(i)' = Holders(i)
        BY <1>5, <2>1, <3>2, NoCacheType DEF Holders
      <4> QED BY <3>2, <4>1, FiniteRefs
    <3> QED BY <3>1, <3>2
  <2>3. Cardinality(Deleters(i)') = Cardinality(Deleters(i)) - IF deletes THEN 1 ELSE 0
    <3>1. CASE deletes
      <4>1. Deleters(i)' = Deleters(i) \ {a} /\ a \in Deleters(i)
        BY <1>1, <1>4, <2>1, <3>1 DEF Deleters
      <4>2. Cardinality(Deleters(i)') = Cardinality(Deleters(i)) - 1
        BY <4>1, FiniteRefs, FS_RemoveElement
      <4> HIDE DEF deletes
      <4> QED BY <3>1, <4>2
    <3>2. CASE ~deletes
      <4>1. Deleters(i)' = Deleters(i)
        BY <1>1, <1>4, <2>1, <3>2 DEF Deleters
      <4> HIDE DEF deletes
      <4> QED BY <3>2, <4>1, FiniteRefs
    <3> HIDE DEF deletes
    <3> QED BY <3>1, <3>2
  <2>4. References(a, i) = (IF held THEN 1 ELSE 0) + (IF deletes THEN 1 ELSE 0)
    BY DEF References
  <2> HIDE DEF held, deletes
  <2> QED BY <2>1, <2>2, <2>3, <2>4, FiniteRefs DEF Refs
<1>12. CountInv'
  BY <1>9, <1>11 DEF CountInv
<1>13. UpdatingOwned'
  <2> SUFFICES ASSUME NEW i \in Places, node[i].present /\ node[i].updating
               PROVE  lost'[i] > 0 \/ \E q \in Requests : c'[q].node = i /\ c'[q].updating
    BY <1>9 DEF UpdatingOwned, Holders
  <2>1. lost[i] \in Nat /\ lost'[i] = lost[i] + References(a, i) /\ References(a, i) \in Nat
    BY <1>6 DEF TypeOK
  <2>2. CASE lost[i] > 0
    BY <2>1, <2>2
  <2>3. ASSUME NEW q \in Requests, c[q].node = i, c[q].updating
        PROVE  lost'[i] > 0 \/ \E p \in Requests : c'[p].node = i /\ c'[p].updating
    <3>1. CASE q = a
      <4>1. References(a, i) > 0
        BY <2>3, <3>1 DEF References
      <4> QED BY <2>1, <4>1
    <3>2. CASE q # a
      BY <1>5, <2>3, <3>2
    <3> QED BY <3>1, <3>2
  <2> QED BY <2>2, <2>3 DEF UpdatingOwned, Holders
<1> QED BY <1>8, <1>9, <1>10, <1>12, <1>13

(* Times run out: no reference, no mark and no place changes. *)
LEMMA TimeKeeps ==
  ASSUME IInv, UpdatingOwned, TimePasses
  PROVE  IInv' /\ UpdatingOwned'
<1> USE DEF IInv
<1>1. /\ UNCHANGED <<queue, size, cold, found, todo, pc, victim, c, lost>>
  BY DEF TimePasses, loader
<1>2. /\ file' \in [Keys -> {"none", "valid", "stale"}]
      /\ NodesOK'
      /\ \A i \in Places : node'[i].present = node[i].present
      /\ \A i \in Places : node[i].present => /\ node'[i].count = node[i].count
                                              /\ node'[i].updating = node[i].updating
  <2>1. CASE \E k \in Keys : file' = [file EXCEPT ![k] = "stale"] /\ UNCHANGED node
    BY <2>1 DEF TypeOK, NodesOK
  <2>2. ASSUME NEW i \in Present, node' = [node EXCEPT ![i].over = TRUE]
        PROVE  /\ NodesOK'
               /\ \A j \in Places : node'[j].present = node[j].present
               /\ \A j \in Places : node[j].present => /\ node'[j].count = node[j].count
                                                       /\ node'[j].updating = node[j].updating
    <3> DEFINE n == [node[i] EXCEPT !.over = TRUE]
    <3>1. i \in Places /\ node[i] \in NodeType /\ NodesOK
      BY PresentType DEF Present, TypeOK, NodesOK
    <3>2. n \in NodeType /\ n.present = node[i].present /\ n.count = node[i].count
          /\ n.updating = node[i].updating
      BY <3>1 DEF NodeType
    <3>3. node' = [node EXCEPT ![i] = n]
      BY <2>2
    <3> HIDE DEF n
    <3> QED BY <3>1, <3>2, <3>3, NodePut
  <2>3. ASSUME node' = [i \in Places |-> IF node[i].present
                                         THEN [node[i] EXCEPT !.inactive = TRUE] ELSE NoNode]
        PROVE  /\ NodesOK'
               /\ \A j \in Places : node'[j].present = node[j].present
               /\ \A j \in Places : node[j].present => /\ node'[j].count = node[j].count
                                                       /\ node'[j].updating = node[j].updating
    <3>1. ASSUME NEW j \in Places, node[j].present
          PROVE  /\ node'[j] \in NodeType
                 /\ node'[j].present = node[j].present
                 /\ node'[j].count = node[j].count
                 /\ node'[j].updating = node[j].updating
      <4>1. node[j] \in NodeType /\ node'[j] = [node[j] EXCEPT !.inactive = TRUE]
        BY <2>3, <3>1, PresentType
      <4> QED BY ZenonT(40), <4>1 DEF NodeType
    <3>2. ASSUME NEW j \in Places, ~node[j].present
          PROVE  node'[j] = NoNode /\ node'[j].present = node[j].present
      <4>1. node[j] = NoNode
        BY <3>2 DEF TypeOK, NodeType
      <4> QED BY <2>3, <3>2, <4>1 DEF NoNode
    <3>3. DOMAIN node' = Places
      BY <2>3
    <3>4. \A j \in Places : node'[j] \in NodeType \cup {NoNode}
      BY <3>1, <3>2
    <3>5. NodesOK'
      BY <2>3, <3>4 DEF NodesOK
    <3> QED BY <3>1, <3>2, <3>5
  <2>4. file \in [Keys -> {"none", "valid", "stale"}]
    BY DEF TypeOK
  <2> QED BY <2>1, <2>2, <2>3, <2>4 DEF TimePasses
<1>3. Present' = Present
  BY <1>2 DEF Present
<1>4. TypeOK'
  BY <1>1, <1>2, TypeFrom DEF TypeOK, VictimType, CacheType
<1>5. PcInv'
  BY <1>1 DEF PcInv, RequestInv
<1>6. CountInv'
  BY <1>1, <1>2, RefsSame DEF CountInv
<1>7. QueueInv'
  BY <1>1, <1>3 DEF QueueInv
<1>8. UpdatingOwned'
  BY <1>1, <1>2, RefsSame DEF UpdatingOwned
<1> QED BY <1>4, <1>5, <1>6, <1>7, <1>8

(* A request that found the zone full expires an entry by force. *)
LEMMA ForceRoomKeeps ==
  ASSUME IInv, UpdatingOwned, NEW r \in Requests, ForceRoom(r)
  PROVE  IInv' /\ UpdatingOwned'
<1>1. r \in Actors /\ r # Manager /\ r # Loader
  BY ActorsAssumption DEF Actors
<1> QED BY <1>1, ForcedKeeps DEF ForceRoom

-----------------------------------------------------------------------------
(* The zone starts empty, and nobody refers to anything. *)
LEMMA InvInit ==
  ASSUME Init
  PROVE  IInv /\ UpdatingOwned
<1>1. Manager \in Actors /\ Loader \in Actors /\ Requests \subseteq Actors
  BY DEF Actors
<1>2. NoVictim \in VictimType /\ NoVictim.node = None
  BY DEF NoVictim, VictimType, PCs
<1>3. TypeOK
  <2>1. c \in [Requests -> CacheType] /\ victim \in [Actors -> VictimType]
    BY <1>2, NoCacheType DEF Init
  <2>2. file \in [Keys -> {"none", "valid", "stale"}]
    BY OptionsAssumption DEF Init
  <2>3. queue \in Seq(Places) /\ pc \in [Actors -> PCs] /\ lost \in [Places -> Nat]
        /\ node \in [Places -> NodeType \cup {NoNode}]
    BY DEF Init, PCs
  <2> QED BY <2>1, <2>2, <2>3 DEF Init, TypeOK, CacheType, VictimType
<1>4. PcInv
  <2>1. RequestInv
    BY <1>1, NoCacheType DEF Init, RequestInv, Without, Using, Deleting
  <2> QED BY <1>1, <1>2, <2>1 DEF Init, PcInv, Deleting
<1>5. ASSUME NEW i \in Places PROVE Refs(i) = 0 /\ ~node[i].present
  <2>1. Holders(i) = {} /\ Deleters(i) = {}
    BY <1>2, NoCacheType DEF Init, Holders, Deleters, Places, None
  <2> QED BY <2>1, FS_EmptySet DEF Init, Refs, NoNode
<1>6. Present = {}
  BY <1>5 DEF Present
<1>7. QueueInv
  BY <1>6, HoldsEmpty DEF Init, QueueInv
<1> QED BY <1>3, <1>4, <1>5, <1>7 DEF IInv, CountInv, UpdatingOwned

(* Every step of every process keeps the invariant. *)
LEMMA InvNext ==
  ASSUME IInv, UpdatingOwned, [Next]_vars
  PROVE  IInv' /\ UpdatingOwned'
<1>1. ASSUME NEW r \in Requests, Start(r) PROVE IInv' /\ UpdatingOwned'
  BY <1>1, StartKeeps
<1>2. ASSUME NEW r \in Requests, RequestStep(r) PROVE IInv' /\ UpdatingOwned'
  <2>1. r \in Requests \cup {Manager}
    OBVIOUS
  <2> QED BY <1>2, <2>1, ExistsFoundKeeps, ExistsNewKeeps, ForceRoomKeeps, UnlinkKeeps,
             UnlinkedKeeps, OpenFileKeeps, MarkExistsKeeps, ReadStaleKeeps, LockKeeps,
             LockWaitKeeps, FetchKeeps, RenameKeeps, UpdateKeeps, FreeCacheKeeps
          DEF RequestStep
<1>3. CASE UNCHANGED vars
  <2>1. UNCHANGED <<node, queue, size, cold, file, pc, victim, found, c, lost, todo>>
    BY <1>3 DEF vars
  <2>2. Present' = Present
    BY <2>1 DEF Present
  <2>3. TypeOK'
    BY <2>1 DEF IInv, TypeOK
  <2>4. PcInv'
    BY <2>1 DEF IInv, PcInv, RequestInv
  <2>5. CountInv' /\ UpdatingOwned'
    BY <2>1, RefsSame DEF IInv, CountInv, UpdatingOwned
  <2> QED BY <2>1, <2>2, <2>3, <2>4, <2>5 DEF IInv, QueueInv
<1>4. CASE ManagerStep
  <2>1. Manager \in Requests \cup {Manager}
    OBVIOUS
  <2> QED BY <1>4, <2>1, ManagerKeeps, UnlinkKeeps, UnlinkedKeeps DEF ManagerStep
<1> QED BY <1>1, <1>2, <1>3, <1>4, LoaderKeeps, KilledKeeps, TimeKeeps DEF Next

-----------------------------------------------------------------------------
(* The inductive invariant, of every reachable state. *)
THEOREM Inductive == Spec => [](IInv /\ UpdatingOwned)
<1>1. Init => IInv /\ UpdatingOwned
  BY InvInit
<1>2. IInv /\ UpdatingOwned /\ [Next]_vars => (IInv /\ UpdatingOwned)'
  BY InvNext
<1> QED BY <1>1, <1>2, PTL DEF Spec

(* The queue has every node of the tree once, and nothing else. *)
LEMMA QueueExact ==
  ASSUME IInv, NEW i \in Places
  PROVE  Cardinality({n \in DOMAIN queue : queue[n] = i})
           = IF node[i].present THEN 1 ELSE 0
BY HoldsLen DEF IInv, QueueInv, Present

(* ngx_http_file_cache_exists, _update, _free, _delete and the loader keep *)
(* the count of a node equal to the requests that use it, the processes    *)
(* that unlink its file and what killed processes left, whatever runs      *)
(* between their sections; no node is freed under anyone.                  *)
THEOREM CountCorrect == Spec => []CountExact
<1>1. IInv => CountExact
  BY QueueExact DEF IInv, CountInv, CountExact, Refs
<1> QED BY <1>1, Inductive, PTL

(* The updating mark of an entry belongs to a request that is going to     *)
(* clear it, or to one that was killed.                                    *)
THEOREM MarksOwned == Spec => []UpdatingOwned
BY Inductive, PTL

=============================================================================

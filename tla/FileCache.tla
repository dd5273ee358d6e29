----------------------------- MODULE FileCache ------------------------------
(***************************************************************************)
(* The shared cache of upstream responses (http/ngx_http_file_cache.c, and *)
(* ngx_http_upstream_cache of http/ngx_http_upstream.c): nodes in a shared *)
(* zone, files on disk, the requests of all workers, the cache manager     *)
(* that expires entries and the loader that finds the files of an earlier  *)
(* run.                                                                    *)
(*                                                                         *)
(* One action is one section under the zone's mutex (Shmtx) or one         *)
(* operation on a file; between two of them any other process may run, and *)
(* a process may be killed.  Nodes are numbered places of the zone, so     *)
(* that a place can be freed and used again.                               *)
(*                                                                         *)
(* Times are abstracted to flags: an entry is inactive when its expire     *)
(* time has passed, a file is stale when its valid_sec has, an error is    *)
(* over when its valid_sec has.  A file counts as one unit of size.        *)
(***************************************************************************)
EXTENDS Integers, FiniteSets, Queue

CONSTANTS
  Requests,     \* requests, each in a worker of its own
  Manager,      \* the cache manager process
  Loader,       \* the cache loader process
  Keys,         \* cache keys
  NoKey,        \* no key
  MaxNodes,     \* nodes the shared zone has room for
  MaxSize,      \* max_size of the cache
  MinUses,      \* proxy_cache_min_uses
  UseLock,      \* proxy_cache_lock
  UseStale,     \* proxy_cache_use_stale updating
  CacheErrors,  \* proxy_cache_valid names 502 or 504
  InitialFiles, \* files an earlier run may have left
  CrashPoints,  \* program points at which a process may be killed
  MaxStarts,    \* bound: requests started in all
  MaxCrashes,   \* bound: processes killed
  MaxTicks      \* bound: times that run out

Actors == Requests \cup {Manager, Loader}

Deleting == {"unlink", "unlinked"}
RequestPCs == {"exists", "force", "alloc", "open", "mark", "stale", "lock", "wait",
               "fetch", "rename", "update", "end"}
PCs == {"idle", "expire", "size", "load", "add", "discard"} \cup Deleting \cup RequestPCs

ASSUME ActorsAssumption == /\ IsFiniteSet(Requests)
                           /\ Manager \notin Requests
                           /\ Loader \notin Requests
                           /\ Manager # Loader
                           /\ NoKey \notin Keys
ASSUME OptionsAssumption == /\ UseLock \in BOOLEAN
                            /\ UseStale \in BOOLEAN
                            /\ CacheErrors \in BOOLEAN
                            /\ CrashPoints \subseteq PCs
                            /\ InitialFiles \subseteq [Keys -> {"none", "valid", "stale"}]
ASSUME BoundAssumption == /\ MaxNodes \in Nat
                          /\ MaxSize \in Nat
                          /\ MinUses \in Nat \ {0}
                          /\ MaxStarts \in Nat
                          /\ MaxCrashes \in Nat
                          /\ MaxTicks \in Nat

VARIABLES
  node,    \* the nodes of the zone's tree
  queue,   \* the inactive queue, most recently used first
  size,    \* sh->size
  cold,    \* sh->cold: the loader has not finished
  file,    \* the files on disk: "none", "valid" or "stale"
  pc,      \* where each process is
  victim,  \* the node a process is deleting, and where it goes on
  found,   \* the file the loader is adding
  c,       \* the ngx_http_cache_t of each request
  lost,    \* per node, references of processes that were killed
  todo,    \* files the loader has still to visit
  starts, crashes, ticks

shared == <<node, queue, size>>
bounds == <<starts, crashes, ticks>>
vars == <<node, queue, size, cold, file, pc, victim, found, c, lost, todo, starts,
          crashes, ticks>>

loader == <<cold, found, todo>>

Places == 1 .. MaxNodes
None == 0

NoNode == [present |-> FALSE]

NewNode(k) == [present |-> TRUE, key |-> k, uses |-> 1, count |-> 1, exists |-> FALSE,
               updating |-> FALSE, deleting |-> FALSE, error |-> FALSE, over |-> TRUE,
               fs_size |-> 0, inactive |-> FALSE]

NoCache == [key |-> NoKey, node |-> None, updating |-> FALSE, lock |-> UseLock,
            error |-> "none", cacheable |-> TRUE, opened |-> "none"]

NoVictim == [node |-> None, next |-> "idle"]

Present == {i \in Places : node[i].present}

(* ngx_http_file_cache_lookup *)
Lookup(k) == {i \in Present : node[i].key = k}

Room == Places \ Present

Goto(a, l) == pc' = [pc EXCEPT ![a] = l]

(* A node is put at the head of the queue with a new expire time. *)
Touched(n) == [n EXCEPT !.inactive = FALSE]
ToHead(i) == queue' = QueueToHead(queue, i)

Insert(i, n) == /\ node' = [node EXCEPT ![i] = n]
                /\ queue' = <<i>> \o queue

FreeNode(i) == /\ node' = [node EXCEPT ![i] = NoNode]
               /\ queue' = QueueRemove(queue, i)

-----------------------------------------------------------------------------
(* ngx_http_upstream_cache for a new request. *)
Start(r) ==
  /\ pc[r] = "idle"
  /\ starts < MaxStarts
  /\ starts' = starts + 1
  /\ \E k \in Keys : c' = [c EXCEPT ![r] = [NoCache EXCEPT !.key = k]]
  /\ Goto(r, "exists")
  /\ UNCHANGED <<shared, loader, file, victim, lost, crashes, ticks>>

(* Where ngx_http_file_cache_open goes after ngx_http_file_cache_exists:   *)
(* rc = NGX_OK with a node n; NGX_DECLINED for a new or a renewed node.    *)
AfterFound(n) == IF n.error THEN "end" ELSE IF n.exists THEN "open" ELSE "lock"
AfterDeclined == IF cold THEN "open" ELSE IF MinUses > 1 THEN "fetch" ELSE "lock"

Renewed(n) == [n EXCEPT !.error = FALSE, !.over = TRUE, !.exists = FALSE, !.fs_size = 0]

(* Mutant: a request that comes back from waiting counts itself again. *)
ExistsCountsAgain(r) ==
  /\ pc[r] = "exists"
  /\ \E i \in IF c[r].node # None THEN {c[r].node} ELSE Lookup(c[r].key) :
       LET n == [Touched(node[i]) EXCEPT !.count = @ + 1]
       IN  /\ node' = [node EXCEPT ![i] = n]
           /\ ToHead(i)
           /\ c' = [c EXCEPT ![r].node = i]
           /\ Goto(r, AfterFound(n))
  /\ UNCHANGED <<size, loader, file, victim, lost, bounds>>

(* ngx_http_file_cache_exists has the node already, or finds it. *)
ExistsFound(r) ==
  /\ pc[r] = "exists"
  /\ \E i \in IF c[r].node # None THEN {c[r].node} ELSE Lookup(c[r].key) :
       LET n == IF c[r].node # None THEN Touched(node[i])
                ELSE [Touched(node[i]) EXCEPT !.count = @ + 1,
                                              !.uses = IF @ < MinUses THEN @ + 1 ELSE @]
           renew == n.error /\ n.over
           scarce == ~n.error /\ ~n.exists /\ n.uses < MinUses
       IN  /\ node' = [node EXCEPT ![i] = IF renew THEN Renewed(n) ELSE n]
           /\ ToHead(i)
           /\ c' = [c EXCEPT ![r].node = i,
                             ![r].error = IF n.error /\ ~renew THEN "old" ELSE "none",
                             ![r].cacheable = ~scarce /\ ~(renew /\ MinUses > 1)]
           /\ Goto(r, IF renew THEN AfterDeclined
                      ELSE IF scarce THEN "fetch" ELSE AfterFound(n))
  /\ UNCHANGED <<size, loader, file, victim, lost, bounds>>

(* ... or makes one.  Without room it tries once more after a forced       *)
(* expiry, and does not look the key up again.                             *)
ExistsNew(r) ==
  /\ \/ pc[r] = "exists" /\ c[r].node = None /\ Lookup(c[r].key) = {}
     \/ pc[r] = "alloc"
  /\ \/ /\ Room # {}
        /\ LET i == Min(Room)
           IN  /\ Insert(i, NewNode(c[r].key))
               /\ c' = [c EXCEPT ![r].node = i, ![r].cacheable = MinUses = 1]
        /\ Goto(r, AfterDeclined)
     \/ /\ Room = {}
        /\ IF pc[r] = "exists" THEN Goto(r, "force") /\ UNCHANGED c
           ELSE Goto(r, "idle") /\ c' = [c EXCEPT ![r] = NoCache]
        /\ UNCHANGED <<node, queue>>
  /\ UNCHANGED <<size, loader, file, victim, lost, bounds>>

-----------------------------------------------------------------------------
(* The file is opened and its header read; without a file the request      *)
(* wants the entry's lock.  A file that is damaged, or of another key, or  *)
(* whose response cannot be parsed, is as good as none, without a lock.    *)
OpenFile(r) ==
  /\ pc[r] = "open"
  /\ LET k == c[r].key
     IN  /\ c' = [c EXCEPT ![r].opened = file[k],
                           ![r].cacheable = @ \/ file[k] # "none"]
         /\ \/ file[k] = "none" /\ Goto(r, IF c[r].cacheable THEN "lock" ELSE "fetch")
            \/ file[k] # "none" /\ Goto(r, IF cold THEN "mark" ELSE "stale")
            \/ file[k] # "none" /\ Goto(r, "fetch")
  /\ UNCHANGED <<shared, loader, file, victim, lost, bounds>>

(* ngx_http_file_cache_read in a cold cache: the node learns of its file.  *)
MarkExists(r) ==
  /\ pc[r] = "mark"
  /\ LET i == c[r].node
     IN  IF node[i].exists THEN UNCHANGED <<node, size>>
         ELSE /\ node' = [node EXCEPT ![i].uses = 1, ![i].exists = TRUE, ![i].fs_size = 1]
              /\ size' = size + 1
  /\ Goto(r, "stale")
  /\ UNCHANGED <<queue, loader, file, victim, c, lost, bounds>>

(* The end of ngx_http_file_cache_read: a valid file is served; of the     *)
(* requests that find it stale the first is to update it, and the others   *)
(* serve it with "use_stale updating" and fetch it as well without.        *)
ReadStale(r) ==
  /\ pc[r] = "stale"
  /\ LET i == c[r].node
         mine == c[r].opened = "stale" /\ ~node[i].updating
     IN  /\ node' = IF mine THEN [node EXCEPT ![i].updating = TRUE] ELSE node
         /\ c' = [c EXCEPT ![r].updating = mine, ![r].opened = "none"]
         /\ Goto(r, IF c[r].opened = "valid" \/ (~mine /\ UseStale) THEN "end" ELSE "fetch")
  /\ UNCHANGED <<queue, size, loader, file, victim, lost, bounds>>

(* ngx_http_file_cache_lock *)
Lock(r) ==
  /\ pc[r] = "lock"
  /\ LET i == c[r].node
         mine == c[r].lock /\ ~node[i].updating
     IN  /\ node' = IF mine THEN [node EXCEPT ![i].updating = TRUE] ELSE node
         /\ c' = [c EXCEPT ![r].updating = @ \/ mine]
         /\ Goto(r, IF c[r].lock /\ ~mine /\ ~c[r].updating THEN "wait" ELSE "fetch")
  /\ UNCHANGED <<queue, size, loader, file, victim, lost, bounds>>

(* ngx_http_file_cache_lock_wait_handler: on the timeout the request goes  *)
(* on without a lock, otherwise when the entry is no longer updated.       *)
LockWait(r) ==
  /\ pc[r] = "wait"
  /\ \/ c' = [c EXCEPT ![r].lock = FALSE]
     \/ ~node[c[r].node].updating /\ UNCHANGED c
  /\ Goto(r, "exists")
  /\ UNCHANGED <<shared, loader, file, victim, lost, bounds>>

(* The response of the upstream: it is cached; or not; or it is an error   *)
(* to be remembered.                                                       *)
Fetch(r) ==
  /\ pc[r] = "fetch"
  /\ \/ c[r].cacheable /\ Goto(r, "rename") /\ UNCHANGED c
     \/ Goto(r, "end") /\ UNCHANGED c
     \/ /\ CacheErrors /\ c[r].cacheable
        /\ c' = [c EXCEPT ![r].error = "new"]
        /\ Goto(r, "end")
  /\ UNCHANGED <<shared, loader, file, victim, lost, bounds>>

(* ngx_http_file_cache_update: the temporary file is renamed, which may    *)
(* fail, then the node is brought up to date.                              *)
Rename(r) ==
  /\ pc[r] = "rename"
  /\ \/ /\ file' = [file EXCEPT ![c[r].key] = "valid"]
        /\ c' = [c EXCEPT ![r].opened = "valid"]
     \/ /\ c' = [c EXCEPT ![r].opened = "none"]
        /\ UNCHANGED file
  /\ Goto(r, "update")
  /\ UNCHANGED <<shared, loader, victim, lost, bounds>>

Update(r) ==
  /\ pc[r] = "update"
  /\ LET i == c[r].node
         ok == c[r].opened = "valid"
         fs_size == IF ok THEN 1 ELSE 0
     IN  /\ node' = [node EXCEPT ![i].count = @ - 1,
                                 ![i].fs_size = fs_size,
                                 ![i].exists = @ \/ ok,
                                 ![i].updating = FALSE]
         /\ size' = size + fs_size - node[i].fs_size
  /\ c' = [c EXCEPT ![r] = NoCache]
  /\ Goto(r, "idle")
  /\ UNCHANGED <<queue, loader, file, victim, lost, bounds>>

(* Mutant: the mark of the request that was to update the entry stays. *)
FreeKeepsMark(r) ==
  /\ pc[r] = "end"
  /\ node' = [node EXCEPT ![c[r].node].count = @ - 1]
  /\ c' = [c EXCEPT ![r] = NoCache]
  /\ Goto(r, "idle")
  /\ UNCHANGED <<queue, size, loader, file, victim, lost, bounds>>

(* ngx_http_file_cache_free, at the end of a request that cached nothing.  *)
FreeCache(r) ==
  /\ pc[r] = "end"
  /\ LET i == c[r].node
         n == [node[i] EXCEPT !.count = @ - 1,
                              !.updating = @ /\ ~c[r].updating,
                              !.error = @ \/ c[r].error # "none",
                              !.over = @ /\ c[r].error # "new"]
     IN  IF c[r].error = "none" /\ ~n.exists /\ n.count = 0 /\ MinUses = 1
         THEN FreeNode(i)
         ELSE node' = [node EXCEPT ![i] = n] /\ UNCHANGED queue
  /\ c' = [c EXCEPT ![r] = NoCache]
  /\ Goto(r, "idle")
  /\ UNCHANGED <<size, loader, file, victim, lost, bounds>>

-----------------------------------------------------------------------------
(* ngx_http_file_cache_delete, called with the mutex held: an entry with a *)
(* file is marked and its file unlinked with the mutex released.           *)
DeleteEntry(a, i, next) ==
  IF node[i].exists
  THEN /\ size' = size - node[i].fs_size
       /\ node' = [node EXCEPT ![i].count = @ + 1, ![i].deleting = TRUE]
       /\ victim' = [victim EXCEPT ![a] = [node |-> i, next |-> next]]
       /\ Goto(a, "unlink")
       /\ UNCHANGED queue
  ELSE /\ FreeNode(i)
       /\ Goto(a, next)
       /\ UNCHANGED <<size, victim>>

Unlink(a) ==
  /\ pc[a] = "unlink"
  /\ file' = [file EXCEPT ![node[victim[a].node].key] = "none"]
  /\ Goto(a, "unlinked")
  /\ UNCHANGED <<shared, loader, victim, c, lost, bounds>>

Unlinked(a) ==
  /\ pc[a] = "unlinked"
  /\ LET i == victim[a].node
         n == [node[i] EXCEPT !.count = @ - 1, !.deleting = FALSE]
     IN  IF n.count = 0 THEN FreeNode(i)
         ELSE node' = [node EXCEPT ![i] = n] /\ UNCHANGED queue
  /\ victim' = [victim EXCEPT ![a] = NoVictim]
  /\ Goto(a, victim[a].next)
  /\ UNCHANGED <<size, loader, file, c, lost, bounds>>

(* ngx_http_file_cache_forced_expire: the least recently used entry that   *)
(* nobody uses.  The bound of 20 entries looked at is left out.            *)
Unused == {n \in DOMAIN queue : node[queue[n]].count = 0}

ForcedExpire(a, next, none) ==
  IF Unused # {} THEN DeleteEntry(a, queue[Max(Unused)], next)
  ELSE Goto(a, none) /\ UNCHANGED <<shared, victim>>

ForceRoom(r) ==
  /\ pc[r] = "force"
  /\ ForcedExpire(r, "alloc", "alloc")
  /\ UNCHANGED <<loader, file, c, lost, bounds>>

-----------------------------------------------------------------------------
(* ngx_http_file_cache_manager: first ngx_http_file_cache_expire, here one *)
(* turn of its loop ...                                                    *)
ManagerWakes ==
  /\ pc[Manager] = "idle"
  /\ \/ queue # <<>> /\ node[Last(queue)].inactive
     \/ size >= MaxSize
  /\ Goto(Manager, "expire")
  /\ UNCHANGED <<shared, loader, file, victim, c, lost, bounds>>

(* Mutant: the manager stops at an entry that is in use. *)
ExpireStops ==
  /\ pc[Manager] = "expire"
  /\ LET i == Last(queue)
     IN  IF queue = <<>> THEN Goto(Manager, "size") /\ UNCHANGED <<shared, victim>>
         ELSE IF node[i].inactive /\ node[i].count = 0 THEN DeleteEntry(Manager, i, "expire")
         ELSE Goto(Manager, "size") /\ UNCHANGED <<shared, victim>>
  /\ UNCHANGED <<loader, file, c, lost, bounds>>

Expire ==
  /\ pc[Manager] = "expire"
  /\ LET i == Last(queue)
     IN  IF queue = <<>> THEN Goto(Manager, "size") /\ UNCHANGED <<shared, victim>>
         ELSE IF ~node[i].inactive THEN Goto(Manager, "size") /\ UNCHANGED <<shared, victim>>
         ELSE IF node[i].count = 0 THEN DeleteEntry(Manager, i, "expire")
         ELSE IF node[i].deleting THEN Goto(Manager, "size") /\ UNCHANGED <<shared, victim>>
         ELSE /\ node' = [node EXCEPT ![i] = Touched(@)]
              /\ ToHead(i)
              /\ UNCHANGED <<size, victim, pc>>
  /\ UNCHANGED <<loader, file, c, lost, bounds>>

(* ... then forced expiry until the cache is small enough. *)
CheckSize ==
  /\ pc[Manager] = "size"
  /\ IF size < MaxSize THEN Goto(Manager, "idle") /\ UNCHANGED <<shared, victim>>
     ELSE ForcedExpire(Manager, "size", "idle")
  /\ UNCHANGED <<loader, file, c, lost, bounds>>

(* ngx_http_file_cache_loader: it walks through the files, adds each, or   *)
(* deletes it when the zone is full, and ends the cold state.              *)
LoaderFinds ==
  /\ pc[Loader] = "idle"
  /\ cold
  /\ \/ \E k \in todo : /\ found' = IF file[k] = "none" THEN NoKey ELSE k
                        /\ todo' = todo \ {k}
                        /\ Goto(Loader, IF file[k] = "none" THEN "idle" ELSE "add")
                        /\ UNCHANGED cold
     \/ /\ todo = {}
        /\ cold' = FALSE
        /\ UNCHANGED <<todo, found, pc>>
  /\ UNCHANGED <<shared, file, victim, c, lost, bounds>>

LoaderAdds ==
  /\ pc[Loader] = "add"
  /\ \/ \E i \in Lookup(found) : /\ node' = [node EXCEPT ![i] = Touched(@)]
                                 /\ ToHead(i)
                                 /\ Goto(Loader, "idle")
                                 /\ UNCHANGED size
     \/ /\ Lookup(found) = {}
        /\ Room # {}
        /\ Insert(Min(Room), [NewNode(found) EXCEPT !.count = 0, !.exists = TRUE,
                                                    !.fs_size = 1])
        /\ size' = size + 1
        /\ Goto(Loader, "idle")
     \/ /\ Lookup(found) = {}
        /\ Room = {}
        /\ Goto(Loader, "discard")
        /\ UNCHANGED shared
  /\ found' = IF pc'[Loader] = "discard" THEN found ELSE NoKey
  /\ UNCHANGED <<cold, todo, file, victim, c, lost, bounds>>

LoaderDiscards ==
  /\ pc[Loader] = "discard"
  /\ file' = [file EXCEPT ![found] = "none"]
  /\ found' = NoKey
  /\ Goto(Loader, "idle")
  /\ UNCHANGED <<shared, cold, todo, victim, c, lost, bounds>>

-----------------------------------------------------------------------------
(* A worker or the manager is killed; the master starts another.  What it  *)
(* had counted in a node stays counted.                                    *)
References(a, i) == (IF a \in Requests /\ c[a].node = i THEN 1 ELSE 0)
                    + (IF victim[a].node = i THEN 1 ELSE 0)

Killed(a) ==
  /\ crashes < MaxCrashes
  /\ pc[a] \in CrashPoints
  /\ crashes' = crashes + 1
  /\ lost' = [i \in Places |-> lost[i] + References(a, i)]
  /\ c' = IF a \in Requests THEN [c EXCEPT ![a] = NoCache] ELSE c
  /\ victim' = [victim EXCEPT ![a] = NoVictim]
  /\ Goto(a, "idle")
  /\ UNCHANGED <<shared, loader, file, starts, ticks>>

(* Time passes. *)
TimePasses ==
  /\ ticks < MaxTicks
  /\ ticks' = ticks + 1
  /\ \/ \E k \in Keys : /\ file[k] = "valid"
                        /\ file' = [file EXCEPT ![k] = "stale"]
                        /\ UNCHANGED node
     \/ \E i \in Present : /\ node[i].error /\ ~node[i].over
                           /\ node' = [node EXCEPT ![i].over = TRUE]
                           /\ UNCHANGED file
     \/ /\ \E i \in Present : ~node[i].inactive
        /\ node' = [i \in Places |-> IF node[i].present
                                     THEN [node[i] EXCEPT !.inactive = TRUE] ELSE NoNode]
        /\ UNCHANGED file
  /\ UNCHANGED <<queue, size, loader, pc, victim, c, lost, starts, crashes>>

-----------------------------------------------------------------------------
Init ==
  /\ node = [i \in Places |-> NoNode]
  /\ queue = <<>>
  /\ size = 0
  /\ cold = TRUE
  /\ file \in InitialFiles
  /\ pc = [a \in Actors |-> "idle"]
  /\ victim = [a \in Actors |-> NoVictim]
  /\ c = [r \in Requests |-> NoCache]
  /\ lost = [i \in Places |-> 0]
  /\ found = NoKey
  /\ todo = Keys
  /\ starts = 0
  /\ crashes = 0
  /\ ticks = 0

RequestStep(r) ==
  \/ ExistsFound(r) \/ ExistsNew(r) \/ ForceRoom(r) \/ Unlink(r) \/ Unlinked(r)
  \/ OpenFile(r) \/ MarkExists(r) \/ ReadStale(r) \/ Lock(r) \/ LockWait(r)
  \/ Fetch(r) \/ Rename(r) \/ Update(r) \/ FreeCache(r)

ManagerStep == ManagerWakes \/ Expire \/ CheckSize \/ Unlink(Manager) \/ Unlinked(Manager)

LoaderStep == LoaderFinds \/ LoaderAdds \/ LoaderDiscards

Next ==
  \/ \E r \in Requests : Start(r) \/ RequestStep(r)
  \/ ManagerStep
  \/ LoaderStep
  \/ \E a \in Requests \cup {Manager} : Killed(a)
  \/ TimePasses

Spec == Init /\ [][Next]_vars

(* The processes run: every upstream answers or times out, the manager is  *)
(* called again and again by its timer and the loader walks to the end.    *)
Fairness == /\ \A r \in Requests : WF_vars(RequestStep(r))
            /\ WF_vars(ManagerStep)
            /\ WF_vars(LoaderStep)

FairSpec == Spec /\ Fairness

-----------------------------------------------------------------------------
(* Properties. *)

NodeType == [present : {TRUE}, key : Keys, uses : 1 .. MinUses, count : Nat,
             exists : BOOLEAN, updating : BOOLEAN, deleting : BOOLEAN,
             error : BOOLEAN, over : BOOLEAN, fs_size : {0, 1}, inactive : BOOLEAN]

(* The types of the variables; no reference count goes below zero. *)
TypeOK ==
  /\ node \in [Places -> NodeType \cup {NoNode}]
  /\ queue \in Seq(Places)
  /\ size \in Int
  /\ cold \in BOOLEAN
  /\ file \in [Keys -> {"none", "valid", "stale"}]
  /\ pc \in [Actors -> PCs]
  /\ victim \in [Actors -> [node : Places \cup {None}, next : PCs]]
  /\ c \in [Requests -> [key : Keys \cup {NoKey}, node : Places \cup {None},
                         updating : BOOLEAN, lock : BOOLEAN,
                         error : {"none", "old", "new"}, cacheable : BOOLEAN,
                         opened : {"none", "valid", "stale"}]]
  /\ lost \in [Places -> Nat]

Holders(i) == {r \in Requests : c[r].node = i}
Deleters(i) == {a \in Actors : victim[a].node = i}

(* A node counts exactly the requests that use it, the processes that      *)
(* delete its file and what killed processes left; so it is never freed    *)
(* under anyone, though the mutex is released between any two steps.  The  *)
(* queue holds every node once.                                            *)
CountExact ==
  /\ TypeOK
  /\ \A i \in Places :
       Cardinality(Holders(i)) + Cardinality(Deleters(i)) + lost[i]
         = IF node[i].present THEN node[i].count ELSE 0
  /\ \A i \in Places : Cardinality({n \in DOMAIN queue : queue[n] = i})
                           = IF node[i].present THEN 1 ELSE 0

(* While an entry is marked as being updated somebody is going to clear    *)
(* the mark: a request that set it, unless that one was killed.  A mark    *)
(* nobody owns would make the others wait or serve the old file for ever.  *)
UpdatingOwned ==
  \A i \in Places : node[i].present /\ node[i].updating =>
    lost[i] > 0 \/ \E r \in Holders(i) : c[r].updating

(* "abnormally exited workers may leave locked cache entries ... we prefer *)
(* to just move them to the top of the inactive queue": they do not keep   *)
(* the manager from the other entries, and one that is inactive and unused *)
(* is removed, unless it is used again.                                    *)
Idle(i) == node[i].present /\ node[i].inactive /\ node[i].count = 0

InactiveExpires == \A i \in Places : Idle(i) ~> ~Idle(i)

=============================================================================

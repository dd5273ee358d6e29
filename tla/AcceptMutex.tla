---------------------------- MODULE AcceptMutex ----------------------------
(***************************************************************************)
(* How nginx workers share their listening sockets: the accept mutex, the  *)
(* lazy registration of the listening events and the back-off of a worker  *)
(* that runs out of connections (event/ngx_event.c,                        *)
(* ngx_process_events_and_timers; event/ngx_event_accept.c).               *)
(*                                                                         *)
(* A worker's iteration is: take the mutex or not, poll, run the accept    *)
(* handlers, release the mutex, run the other handlers.  Only the lock     *)
(* word and the listen queues of the kernel are shared, so what a worker   *)
(* does to its own state between two accesses to them is one step.  The    *)
(* event method is epoll; the accept mutex never sleeps (spin = -1).       *)
(***************************************************************************)
EXTENDS Integers, FiniteSets

CONSTANTS
  Workers, NoPid,
  NListeners,   \* cycle->listening.nelts
  ConnectionN,  \* cycle->connection_n
  InitFree,     \* connections a worker has left for new clients at start
  MultiAccept,  \* the multi_accept directive
  Quitters,     \* workers told to shut down gracefully during the behaviour
  MaxArrivals,  \* bound: connections clients open, per listening socket
  MaxCrashes,   \* bound: workers killed
  MaxErrors     \* bound: system calls that fail

Listeners == 1..NListeners
Modes == {"owner",  \* NGX_POST_EVENTS: accept handlers run under the mutex
          "delay",  \* the mutex is another's: poll for accept_mutex_delay
          "plain"}  \* the mutex was not asked for
LivePCs == {"loop", "undo", "poll", "accept", "unlock", "events"}
PCs == LivePCs \cup {"dead", "reaped", "exited"}

ASSUME WorkersAssumption == NoPid \notin Workers
ASSUME ConstAssumption == /\ NListeners \in Nat
                          /\ ConnectionN \in Nat
                          /\ InitFree \in 0..ConnectionN
                          /\ MultiAccept \in BOOLEAN
                          /\ Quitters \subseteq Workers
ASSUME BoundAssumption == /\ MaxArrivals \in Nat
                          /\ MaxCrashes \in Nat
                          /\ MaxErrors \in Nat

VARIABLES
  lock,     \* *ngx_accept_mutex.lock
  backlog,  \* connections waiting in each listen queue
  pc,
  held,     \* ngx_accept_mutex_held
  use,      \* ngx_use_accept_mutex
  disabled, \* ngx_accept_disabled
  active,   \* listening sockets whose read event is registered
  mode,     \* how this iteration polls
  todo,     \* accept events to handle in this iteration
  free,     \* ngx_cycle->free_connection_n
  quit,     \* the worker was told to shut down
  exiting,  \* ngx_exiting
  arrivals, crashes, errors

own == <<held, use, disabled, active, mode, todo, free, quit, exiting>>
bounds == <<arrivals, crashes, errors>>
vars == <<lock, backlog, pc, own, bounds>>

TypeOK ==
  /\ lock \in Workers \cup {NoPid}
  /\ backlog \in [Listeners -> Nat]
  /\ pc \in [Workers -> PCs]
  /\ held \in [Workers -> BOOLEAN]
  /\ use \in [Workers -> BOOLEAN]
  /\ disabled \in [Workers -> Int]
  /\ active \in [Workers -> SUBSET Listeners]
  /\ mode \in [Workers -> Modes]
  /\ todo \in [Workers -> SUBSET Listeners]
  /\ free \in [Workers -> 0..InitFree]
  /\ quit \in [Workers -> BOOLEAN]
  /\ exiting \in [Workers -> BOOLEAN]
  /\ arrivals \in [Listeners -> Nat]
  /\ crashes \in Nat
  /\ errors \in Nat

-----------------------------------------------------------------------------
(* ngx_event_process_init with several workers and accept_mutex on. *)
Init ==
  /\ lock = NoPid
  /\ backlog = [l \in Listeners |-> 0]
  /\ pc = [w \in Workers |-> "loop"]
  /\ held = [w \in Workers |-> FALSE]
  /\ use = [w \in Workers |-> TRUE]
  /\ disabled = [w \in Workers |-> 0]
  /\ active = [w \in Workers |-> {}]
  /\ mode = [w \in Workers |-> "plain"]
  /\ todo = [w \in Workers |-> {}]
  /\ free = [w \in Workers |-> InitFree]
  /\ quit = [w \in Workers |-> FALSE]
  /\ exiting = [w \in Workers |-> FALSE]
  /\ arrivals = [l \in Listeners |-> 0]
  /\ crashes = 0
  /\ errors = 0

Goto(w, l) == pc' = [pc EXCEPT ![w] = l]
Fail == errors < MaxErrors /\ errors' = errors + 1 /\ UNCHANGED <<arrivals, crashes>>
PollAs(w, m) == Goto(w, "poll") /\ mode' = [mode EXCEPT ![w] = m]

(* A worker that was told to quit shuts its listening sockets at the top   *)
(* of its loop, whatever events were registered.                           *)
CloseListening(w) ==
  /\ pc[w] = "loop" /\ quit[w] /\ ~exiting[w]
  /\ exiting' = [exiting EXCEPT ![w] = TRUE]
  /\ held' = [held EXCEPT ![w] = FALSE]
  /\ use' = [use EXCEPT ![w] = FALSE]
  /\ active' = [active EXCEPT ![w] = {}]
  /\ UNCHANGED <<lock, backlog, pc, disabled, mode, todo, free, quit, bounds>>

(* An exiting worker leaves when its last connection is closed. *)
Exit(w) ==
  /\ pc[w] = "loop" /\ exiting[w] /\ free[w] = InitFree
  /\ Goto(w, "exited")
  /\ UNCHANGED <<lock, backlog, own, bounds>>

(* The head of ngx_process_events_and_timers may be reached. *)
Iterating(w) == /\ pc[w] = "loop"
                /\ quit[w] => exiting[w]
                /\ exiting[w] => free[w] < InitFree

(* Without the mutex, or short of connections: the mutex is not asked for. *)
SkipMutex(w) ==
  /\ Iterating(w)
  /\ \/ ~use[w] /\ UNCHANGED disabled
     \/ use[w] /\ disabled[w] > 0 /\ disabled' = [disabled EXCEPT ![w] = @ - 1]
  /\ PollAs(w, "plain")
  /\ UNCHANGED <<lock, backlog, held, use, active, todo, free, quit, exiting, bounds>>

(* Mutant: a worker that backs off asks all the same. *)
AskingAlways(w) == Iterating(w) /\ use[w]

Asking(w) == Iterating(w) /\ use[w] /\ disabled[w] <= 0

(* ngx_trylock_accept_mutex succeeds and the events are still registered   *)
(* from an earlier turn.                                                   *)
TakeAgain(w) ==
  /\ Asking(w) /\ lock = NoPid /\ held[w]
  /\ lock' = w
  /\ PollAs(w, "owner")
  /\ UNCHANGED <<backlog, held, use, disabled, active, todo, free, quit, exiting, bounds>>

(* ngx_trylock_accept_mutex succeeds; ngx_enable_accept_events registers   *)
(* every listening socket.  epoll refuses one that is registered already.  *)
TakeAndEnable(w) ==
  /\ Asking(w) /\ lock = NoPid /\ ~held[w]
  /\ active[w] = {}
  /\ lock' = w
  /\ active' = [active EXCEPT ![w] = Listeners]
  /\ held' = [held EXCEPT ![w] = TRUE]
  /\ PollAs(w, "owner")
  /\ UNCHANGED <<backlog, use, disabled, todo, free, quit, exiting, bounds>>

(* ... or fails at listening socket l, leaving those before it registered. *)
EnableFails(w, l) ==
  /\ Asking(w) /\ lock = NoPid /\ ~held[w]
  /\ \A k \in active[w] : k >= l
  /\ IF l \in active[w] THEN UNCHANGED bounds ELSE Fail
  /\ lock' = w
  /\ active' = [active EXCEPT ![w] = @ \cup 1..(l - 1)]
  /\ Goto(w, "undo")
  /\ UNCHANGED <<backlog, held, use, disabled, mode, todo, free, quit, exiting>>

(* The compare-and-swap of ngx_shmtx_unlock. *)
Release(w) == lock' = IF lock = w THEN NoPid ELSE lock

(* Mutant: the failed attempt keeps the mutex. *)
UndoNothing(w) ==
  /\ pc[w] = "undo"
  /\ Goto(w, "loop")
  /\ UNCHANGED <<lock, backlog, own, bounds>>

(* ... the mutex is given back and the iteration abandoned. *)
Undo(w) ==
  /\ pc[w] = "undo"
  /\ Release(w)
  /\ Goto(w, "loop")
  /\ UNCHANGED <<backlog, own, bounds>>

(* Mutant: the flag is not cleared with the events. *)
LoseTurnKeepsFlag(w) ==
  /\ Asking(w) /\ lock # NoPid
  /\ IF held[w] THEN active' = [active EXCEPT ![w] = {}] ELSE UNCHANGED active
  /\ PollAs(w, "delay")
  /\ UNCHANGED <<lock, backlog, held, use, disabled, todo, free, quit, exiting, bounds>>

(* ngx_trylock_accept_mutex fails: the events registered for an earlier    *)
(* turn are removed only now.                                              *)
LoseTurn(w) ==
  /\ Asking(w) /\ lock # NoPid
  /\ IF held[w] THEN active' = [active EXCEPT ![w] = {}] ELSE UNCHANGED active
  /\ held' = [held EXCEPT ![w] = FALSE]
  /\ PollAs(w, "delay")
  /\ UNCHANGED <<lock, backlog, use, disabled, todo, free, quit, exiting, bounds>>

(* ... or ngx_disable_accept_events fails at listening socket l, and the   *)
(* iteration is abandoned with the flag still set.                         *)
DisableFails(w, l) ==
  /\ Asking(w) /\ lock # NoPid /\ held[w]
  /\ l \in active[w]
  /\ Fail
  /\ active' = [active EXCEPT ![w] = {k \in @ : k >= l}]
  /\ UNCHANGED <<lock, backlog, pc, held, use, disabled, mode, todo, free, quit, exiting>>

(* epoll_wait() returns: there is an accept event; the timer of an open    *)
(* connection or accept_mutex_delay bounds the wait; or a signal arrived.  *)
Poll(w) ==
  LET ready == {l \in active[w] : backlog[l] > 0}
  IN /\ pc[w] = "poll"
     /\ ready # {} \/ free[w] < InitFree \/ mode[w] = "delay" \/ quit[w]
     /\ todo' = [todo EXCEPT ![w] = ready]
     /\ Goto(w, "accept")
     /\ UNCHANGED <<lock, backlog, held, use, disabled, active, mode, free, quit,
                    exiting, bounds>>

(* The end of ngx_event_accept, or its next round under multi_accept. *)
Return(w, l) == todo' = [todo EXCEPT ![w] = @ \ {l}]
Repeat(w, l) == IF MultiAccept THEN UNCHANGED todo ELSE Return(w, l)

Accepting(w, l) == /\ pc[w] = "accept" /\ l \in todo[w]
                   /\ UNCHANGED <<lock, pc, held, use, active, mode, quit, exiting>>

(* accept() has nothing: another worker was faster. *)
AcceptAgain(w, l) ==
  /\ Accepting(w, l) /\ backlog[l] = 0
  /\ Return(w, l)
  /\ UNCHANGED <<backlog, disabled, free, bounds>>

(* accept() fails: ECONNABORTED drops the connection and may go on, any    *)
(* other error leaves it in the queue and returns.                         *)
AcceptError(w, l) ==
  /\ Accepting(w, l) /\ backlog[l] > 0
  /\ Fail
  /\ \/ backlog' = [backlog EXCEPT ![l] = @ - 1] /\ Repeat(w, l)
     \/ UNCHANGED backlog /\ Return(w, l)
  /\ UNCHANGED <<disabled, free>>

(* ngx_get_connection: with no free connection up to 32 reusable ones are  *)
(* closed first.  The result is what free_connection_n may then be.        *)
Drained(w) ==
  IF free[w] > 0 THEN {free[w]}
  ELSE 0..(IF InitFree < 32 THEN InitFree ELSE 32)

(* accept() succeeds; the back-off is computed before the connection is    *)
(* taken; without a connection the socket is closed; setting up the        *)
(* connection may fail, and it is then given back.                         *)
AcceptOne(w, l) ==
  /\ Accepting(w, l) /\ backlog[l] > 0
  /\ backlog' = [backlog EXCEPT ![l] = @ - 1]
  /\ disabled' = [disabled EXCEPT ![w] = ConnectionN \div 8 - free[w]]
  /\ \E f \in Drained(w) :
       \/ /\ f = 0
          /\ Return(w, l)
          /\ UNCHANGED <<free, bounds>>
       \/ /\ f > 0
          /\ free' = [free EXCEPT ![w] = f - 1]
          /\ Repeat(w, l)
          /\ UNCHANGED bounds
       \/ /\ f > 0
          /\ Fail
          /\ free' = [free EXCEPT ![w] = f]
          /\ Return(w, l)

(* While events are not postponed, the handlers of client connections run  *)
(* between the accept handlers and may close connections.                  *)
CloseInline(w) ==
  /\ pc[w] = "accept" /\ mode[w] # "owner" /\ free[w] < InitFree
  /\ free' = [free EXCEPT ![w] = @ + 1]
  /\ UNCHANGED <<lock, backlog, pc, held, use, disabled, active, mode, todo, quit,
                 exiting, bounds>>

AcceptsDone(w) ==
  /\ pc[w] = "accept" /\ todo[w] = {}
  /\ Goto(w, "unlock")
  /\ UNCHANGED <<lock, backlog, own, bounds>>

(* if (ngx_accept_mutex_held) ngx_shmtx_unlock(): the flag stays set. *)
Unlock(w) ==
  /\ pc[w] = "unlock"
  /\ IF held[w] THEN Release(w) ELSE UNCHANGED lock
  /\ Goto(w, "events")
  /\ UNCHANGED <<backlog, own, bounds>>

(* Expired timers and posted events run and may close connections. *)
RunEvents(w) ==
  /\ pc[w] = "events"
  /\ \E f \in free[w]..InitFree : free' = [free EXCEPT ![w] = f]
  /\ Goto(w, "loop")
  /\ UNCHANGED <<lock, backlog, held, use, disabled, active, mode, todo, quit, exiting,
                 bounds>>

(* Clients, signals, deaths, the master. *)
Arrive(l) ==
  /\ arrivals[l] < MaxArrivals
  /\ arrivals' = [arrivals EXCEPT ![l] = @ + 1]
  /\ backlog' = [backlog EXCEPT ![l] = @ + 1]
  /\ UNCHANGED <<lock, pc, own, crashes, errors>>

QuitSignal(w) ==
  /\ w \in Quitters /\ ~quit[w] /\ pc[w] \in LivePCs
  /\ quit' = [quit EXCEPT ![w] = TRUE]
  /\ UNCHANGED <<lock, backlog, pc, held, use, disabled, active, mode, todo, free,
                 exiting, bounds>>

Crash(w) ==
  /\ pc[w] \in LivePCs /\ crashes < MaxCrashes
  /\ crashes' = crashes + 1
  /\ Goto(w, "dead")
  /\ UNCHANGED <<lock, backlog, own, arrivals, errors>>

(* Mutant: the mutex of the dead worker is not broken. *)
ReapOnly(w) ==
  /\ pc[w] = "dead"
  /\ Goto(w, "reaped")
  /\ UNCHANGED <<lock, backlog, own, bounds>>

(* ngx_unlock_mutexes on behalf of the dead worker. *)
Reap(w) ==
  /\ pc[w] = "dead"
  /\ Release(w)
  /\ Goto(w, "reaped")
  /\ UNCHANGED <<backlog, own, bounds>>

(* A worker that was not shutting down is started again, from scratch. *)
Respawn(w) ==
  /\ pc[w] = "reaped" /\ ~quit[w]
  /\ Goto(w, "loop")
  /\ held' = [held EXCEPT ![w] = FALSE]
  /\ use' = [use EXCEPT ![w] = TRUE]
  /\ disabled' = [disabled EXCEPT ![w] = 0]
  /\ active' = [active EXCEPT ![w] = {}]
  /\ mode' = [mode EXCEPT ![w] = "plain"]
  /\ todo' = [todo EXCEPT ![w] = {}]
  /\ free' = [free EXCEPT ![w] = InitFree]
  /\ exiting' = [exiting EXCEPT ![w] = FALSE]
  /\ UNCHANGED <<lock, backlog, quit, bounds>>

WorkerStep(w) ==
  \/ CloseListening(w) \/ Exit(w)
  \/ SkipMutex(w) \/ TakeAgain(w) \/ TakeAndEnable(w) \/ LoseTurn(w) \/ Undo(w)
  \/ \E l \in Listeners : \/ EnableFails(w, l) \/ DisableFails(w, l)
                          \/ AcceptAgain(w, l) \/ AcceptOne(w, l)
                          \/ AcceptError(w, l)
  \/ Poll(w) \/ AcceptsDone(w) \/ Unlock(w) \/ RunEvents(w)

MasterStep(w) == Reap(w) \/ Respawn(w)

Next == \/ \E w \in Workers : \/ WorkerStep(w) \/ MasterStep(w)
                              \/ CloseInline(w) \/ QuitSignal(w) \/ Crash(w)
        \/ \E l \in Listeners : Arrive(l)

Spec == Init /\ [][Next]_vars

(* Every live worker goes on running its loop, the master is told of a     *)
(* dead worker and restarts it.  Clients and connections owe nothing.      *)
Fairness == \A w \in Workers : /\ WF_vars(WorkerStep(w))
                               /\ WF_vars(MasterStep(w))

FairSpec == Spec /\ Fairness

-----------------------------------------------------------------------------
(* Properties *)

(* The mutex is owned only by a worker in the part of its iteration that   *)
(* may hold it, with the flag set and its other events postponed, or that  *)
(* died there: nobody runs client handlers, waits for accept_mutex_delay   *)
(* or starts an iteration as the owner, however registrations failed.      *)
(* Conversely a worker only postpones its accept events while it owns the  *)
(* mutex, so at most one worker does.                                      *)
OwnerInv ==
  \A w \in Workers :
    /\ lock = w =>
         \/ pc[w] \in {"undo", "dead"}
         \/ pc[w] \in {"poll", "accept", "unlock"} /\ held[w] /\ mode[w] = "owner"
    /\ pc[w] \in {"poll", "accept", "unlock"} /\ mode[w] = "owner" => lock = w /\ held[w]

(* As long as no registration failed, the flag ngx_accept_mutex_held tells *)
(* exactly whether the listening events are registered, in every worker,   *)
(* though it is only brought up to date when the next attempt is made.     *)
HeldMeansListening ==
  errors = 0 => \A w \in Workers :
    pc[w] \in LivePCs => active[w] = IF held[w] THEN Listeners ELSE {}

(* A worker that backs off (ngx_accept_disabled > 0) does not ask for the  *)
(* mutex; it is never also deaf: its listening events are still there, so  *)
(* it cannot sleep in epoll_wait() with clients queued and nobody else     *)
(* polling.                                                                *)
BackOffIsNotDeaf ==
  errors = 0 => \A w \in Workers :
    pc[w] \in LivePCs /\ use[w] /\ disabled[w] > 0 => active[w] = Listeners

(* Every connection that reaches a listen queue is taken out of it, by     *)
(* some worker, while workers compete for the mutex, back off, shut down,  *)
(* die as its owner and are replaced: the queues are empty again and       *)
(* again (the connections that arrive are bounded).  Epoll must not fail:  *)
(* a worker that could not register every listening socket is deaf to the  *)
(* others from then on.                                                    *)
EveryConnectionTaken ==
  []<>(errors > 0 \/ \A l \in Listeners : backlog[l] = 0)

=============================================================================

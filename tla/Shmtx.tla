------------------------------- MODULE Shmtx -------------------------------
(***************************************************************************)
(* The shared-memory mutex of nginx (core/ngx_shmtx.c), the lock of the    *)
(* slab pools and of every shared zone: a word holding the owner's pid,    *)
(* taken by compare-and-swap after some spinning, and a counter and a      *)
(* POSIX semaphore on which contenders sleep.  Workers lock and unlock it; *)
(* the master breaks it when it reaps a worker that died as its owner      *)
(* (os/unix/ngx_process.c, ngx_unlock_mutexes).                            *)
(*                                                                         *)
(* One action is one access to shared memory or one system call.  The test *)
(* "*mtx->lock == 0 && ngx_atomic_cmp_set(...)" is one action: when either *)
(* half fails the caller has changed nothing and goes the same way.        *)
(***************************************************************************)
EXTENDS Integers, FiniteSets

CONSTANTS
  Procs,         \* worker slots; the slot stands for the pid of its process
  Master,        \* the master process
  NoPid,         \* the value 0 of the lock word
  SpinRounds,    \* rounds of the spin loop: 11 with several CPUs, 0 with one
  CrashPoints,   \* program points at which a worker may be killed
  MaxOps,        \* bound: mutex calls started in one slot
  MaxCrashes,    \* bound: workers killed
  MaxSemErrors   \* bound: sem_wait() calls failing with other than EINTR

Waking == {"wakeread", "wakecas", "post"}
Contending == {"try", "spin", "addwait", "recheck"}
Gone == {"dead", "reaped"}
PCs == {"idle", "sleep", "cs"} \cup Contending \cup Waking \cup Gone

ASSUME ProcsAssumption == /\ IsFiniteSet(Procs)
                          /\ Master \notin Procs
                          /\ NoPid \notin Procs
ASSUME CrashAssumption == CrashPoints \subseteq PCs \ Gone
ASSUME BoundAssumption == /\ SpinRounds \in Nat
                          /\ MaxOps \in Nat
                          /\ MaxCrashes \in Nat
                          /\ MaxSemErrors \in Nat

VARIABLES
  lock,      \* *mtx->lock
  wait,      \* *mtx->wait
  sem,       \* the value of mtx->sem
  semaphore, \* mtx->semaphore: sem_init() succeeded at creation
  pc,        \* where each process is in a mutex call
  rounds,    \* spin rounds left in the loop of ngx_shmtx_lock
  seen,      \* the local variable wait of ngx_shmtx_wakeup
  ops,       \* mutex calls started in each slot
  killed, semErrors

shared == <<lock, wait, sem, semaphore>>
shmtxBounds == <<ops, killed, semErrors>>
shmtxVars == <<lock, wait, sem, semaphore, pc, rounds, seen, ops, killed, semErrors>>

Actors == Procs \cup {Master}

ShmtxTypeOK ==
  /\ lock \in Procs \cup {NoPid}
  /\ wait \in Nat
  /\ sem \in Nat
  /\ semaphore \in BOOLEAN
  /\ pc \in [Actors -> PCs]
  /\ rounds \in [Procs -> Nat]
  /\ seen \in [Actors -> Nat]
  /\ ops \in [Procs -> Nat]
  /\ killed \in Nat
  /\ semErrors \in Nat

-----------------------------------------------------------------------------
(* ngx_shmtx_create: sem_init() may fail, and the mutex then never sleeps. *)
ShmtxInit ==
  /\ lock = NoPid
  /\ wait = 0
  /\ sem = 0
  /\ semaphore \in BOOLEAN
  /\ pc = [a \in Actors |-> "idle"]
  /\ rounds = [p \in Procs |-> 0]
  /\ seen = [a \in Actors |-> 0]
  /\ ops = [p \in Procs |-> 0]
  /\ killed = 0
  /\ semErrors = 0

MoveTo(a, l) == pc' = [pc EXCEPT ![a] = l]

Begin(p) == /\ pc[p] = "idle"
            /\ ops[p] < MaxOps
            /\ ops' = [ops EXCEPT ![p] = @ + 1]
            /\ UNCHANGED <<killed, semErrors>>

(* The compare-and-swap 0 -> ngx_pid that every acquisition goes through. *)
Acquire(p) == /\ lock = NoPid
              /\ lock' = p
              /\ MoveTo(p, "cs")
              /\ UNCHANGED <<wait, sem, semaphore>>

(* ngx_shmtx_trylock *)
TryLock(p) == /\ Begin(p)
              /\ \/ Acquire(p)
                 \/ lock # NoPid /\ UNCHANGED <<shared, pc>>
              /\ UNCHANGED <<rounds, seen>>

(* ngx_shmtx_lock is called. *)
LockCall(p) == /\ Begin(p)
               /\ MoveTo(p, "try")
               /\ UNCHANGED <<shared, rounds, seen>>

(* Where ngx_shmtx_lock goes after spinning: to the semaphore, or round    *)
(* again after ngx_sched_yield().                                          *)
AfterSpin == IF semaphore THEN "addwait" ELSE "try"

(* The first test of the loop. *)
LockTry(p) ==
  /\ pc[p] = "try"
  /\ \/ Acquire(p) /\ UNCHANGED rounds
     \/ /\ lock # NoPid
        /\ rounds' = [rounds EXCEPT ![p] = SpinRounds]
        /\ MoveTo(p, IF SpinRounds > 0 THEN "spin" ELSE AfterSpin)
        /\ UNCHANGED shared
  /\ UNCHANGED <<seen, shmtxBounds>>

(* One round of the spin loop. *)
LockSpin(p) ==
  /\ pc[p] = "spin"
  /\ \/ /\ Acquire(p)
        /\ rounds' = [rounds EXCEPT ![p] = 0]
     \/ /\ lock # NoPid
        /\ rounds' = [rounds EXCEPT ![p] = @ - 1]
        /\ MoveTo(p, IF rounds[p] > 1 THEN "spin" ELSE AfterSpin)
        /\ UNCHANGED shared
  /\ UNCHANGED <<seen, shmtxBounds>>

(* Mutant: the contender is not counted. *)
LockForgetsWait(p) ==
  /\ pc[p] = "addwait"
  /\ MoveTo(p, "recheck")
  /\ UNCHANGED <<shared, rounds, seen, shmtxBounds>>

(* ngx_atomic_fetch_add(mtx->wait, 1) *)
LockAddWait(p) ==
  /\ pc[p] = "addwait"
  /\ wait' = wait + 1
  /\ MoveTo(p, "recheck")
  /\ UNCHANGED <<lock, sem, semaphore, rounds, seen, shmtxBounds>>

(* Mutant: the contender sleeps without looking at the lock again. *)
LockNoRecheck(p) ==
  /\ pc[p] = "recheck"
  /\ MoveTo(p, "sleep")
  /\ UNCHANGED <<shared, rounds, seen, shmtxBounds>>

(* The test after the counter went up.  A success leaves the counter as it *)
(* is: one more than there are sleepers.                                   *)
LockRecheck(p) ==
  /\ pc[p] = "recheck"
  /\ \/ Acquire(p)
     \/ lock # NoPid /\ MoveTo(p, "sleep") /\ UNCHANGED shared
  /\ UNCHANGED <<rounds, seen, shmtxBounds>>

(* sem_wait() returns; EINTR only repeats the call. *)
LockWake(p) ==
  /\ pc[p] = "sleep"
  /\ sem > 0
  /\ sem' = sem - 1
  /\ MoveTo(p, "try")
  /\ UNCHANGED <<lock, wait, semaphore, rounds, seen, shmtxBounds>>

(* sem_wait() fails with another error: the loop goes on, no token taken. *)
LockWaitError(p) ==
  /\ pc[p] = "sleep"
  /\ semErrors < MaxSemErrors
  /\ semErrors' = semErrors + 1
  /\ MoveTo(p, "try")
  /\ UNCHANGED <<shared, rounds, seen, ops, killed>>

(* Mutant: the lock word is cleared whoever owns it. *)
ReleaseBlindly(a, pid, next) ==
  /\ lock' = NoPid
  /\ pc' = [next EXCEPT ![a] = "wakeread"]
  /\ UNCHANGED <<wait, sem, semaphore>>

(* The compare-and-swap pid -> 0 of ngx_shmtx_unlock and                   *)
(* ngx_shmtx_force_unlock, made by process a: it does nothing when pid is  *)
(* not the owner, and is followed by ngx_shmtx_wakeup when it is.          *)
ReleaseAs(a, pid, next) ==
  \/ /\ lock = pid
     /\ lock' = NoPid
     /\ pc' = [next EXCEPT ![a] = "wakeread"]
     /\ UNCHANGED <<wait, sem, semaphore>>
  \/ /\ lock # pid
     /\ pc' = next
     /\ UNCHANGED shared

(* ngx_shmtx_unlock by a caller that holds the mutex. *)
Unlock(p) ==
  /\ pc[p] = "cs"
  /\ ReleaseAs(p, p, [pc EXCEPT ![p] = "idle"])
  /\ UNCHANGED <<rounds, seen, shmtxBounds>>

(* ngx_shmtx_unlock by a caller that does not own the mutex, as the event  *)
(* loop does with the accept mutex.                                        *)
UnlockUnowned(p) ==
  /\ Begin(p)
  /\ ReleaseAs(p, p, pc)
  /\ UNCHANGED <<rounds, seen>>

(* ngx_shmtx_wakeup reads the counter. *)
WakeRead(a) ==
  /\ pc[a] = "wakeread"
  /\ \/ (~semaphore \/ wait = 0) /\ MoveTo(a, "idle") /\ UNCHANGED seen
     \/ /\ semaphore /\ wait # 0
        /\ seen' = [seen EXCEPT ![a] = wait]
        /\ MoveTo(a, "wakecas")
  /\ UNCHANGED <<shared, rounds, shmtxBounds>>

(* ngx_atomic_cmp_set(mtx->wait, wait, wait - 1) *)
WakeCas(a) ==
  /\ pc[a] = "wakecas"
  /\ \/ wait = seen[a] /\ wait' = wait - 1 /\ MoveTo(a, "post")
     \/ wait # seen[a] /\ UNCHANGED wait /\ MoveTo(a, "wakeread")
  /\ seen' = [seen EXCEPT ![a] = 0]
  /\ UNCHANGED <<lock, sem, semaphore, rounds, shmtxBounds>>

(* sem_post() *)
WakePost(a) ==
  /\ pc[a] = "post"
  /\ sem' = sem + 1
  /\ MoveTo(a, "idle")
  /\ UNCHANGED <<lock, wait, semaphore, rounds, seen, shmtxBounds>>

(* A worker is killed. *)
Kill(p) ==
  /\ pc[p] \in CrashPoints
  /\ killed < MaxCrashes
  /\ killed' = killed + 1
  /\ MoveTo(p, "dead")
  /\ rounds' = [rounds EXCEPT ![p] = 0]
  /\ seen' = [seen EXCEPT ![p] = 0]
  /\ UNCHANGED <<shared, ops, semErrors>>

(* Mutant: the master does not break the dead worker's lock. *)
ReapOnly(p) ==
  /\ pc[Master] = "idle"
  /\ pc[p] = "dead"
  /\ MoveTo(p, "reaped")
  /\ UNCHANGED <<shared, rounds, seen, shmtxBounds>>

(* The master reaps it: ngx_process_get_status calls ngx_unlock_mutexes.   *)
(* It runs in the signal handler, one child after the other.               *)
Reap(p) ==
  /\ pc[Master] = "idle"
  /\ pc[p] = "dead"
  /\ ReleaseAs(Master, p, [pc EXCEPT ![p] = "reaped"])
  /\ UNCHANGED <<rounds, seen, shmtxBounds>>

(* Later the master loop starts a new process in the slot. *)
Respawn(p) ==
  /\ pc[Master] = "idle"
  /\ pc[p] = "reaped"
  /\ MoveTo(p, "idle")
  /\ UNCHANGED <<shared, rounds, seen, shmtxBounds>>

(* What a process does by itself once it is inside a mutex call. *)
ProcessStep(p) ==
  \/ LockTry(p) \/ LockSpin(p) \/ LockAddWait(p) \/ LockRecheck(p)
  \/ LockWake(p) \/ Unlock(p)
  \/ WakeRead(p) \/ WakeCas(p) \/ WakePost(p)

MasterStep == \/ WakeRead(Master) \/ WakeCas(Master) \/ WakePost(Master)
              \/ \E p \in Procs : Reap(p) \/ Respawn(p)

ShmtxNext ==
  \/ MasterStep
  \/ \E p \in Procs : \/ ProcessStep(p)
                      \/ TryLock(p) \/ LockCall(p) \/ UnlockUnowned(p)
                      \/ LockWaitError(p) \/ Kill(p)

ShmtxSpec == ShmtxInit /\ [][ShmtxNext]_shmtxVars

(* The operating system runs every live process again and again, critical  *)
(* sections are finite, and the master is told of a dead child.  Nothing   *)
(* obliges a worker to start a call, to fail or to die.                    *)
Fairness == /\ \A p \in Procs : WF_shmtxVars(ProcessStep(p))
            /\ WF_shmtxVars(MasterStep)

FairSpec == ShmtxSpec /\ Fairness

-----------------------------------------------------------------------------
(* Properties *)

Sleepers == {p \in Procs : pc[p] = "sleep"}
Rechecking == {p \in Procs : pc[p] = "recheck"}
Posting == {a \in Actors : pc[a] = "post"}

(* A process inside its critical section owns the lock word, so two never  *)
(* are inside at once; and the word only ever names a process that is      *)
(* inside or that died inside (ngx_shmtx_unlock, ngx_shmtx_force_unlock).  *)
LockInv == /\ \A p \in Procs : pc[p] = "cs" => lock = p
           /\ \A p \in Procs : lock = p => pc[p] \in {"cs", "dead"}

(* Every process asleep in sem_wait(), or about to be, is owed a wake-up:  *)
(* it is still counted in *mtx->wait, or its sem_post() is on its way, or  *)
(* the token is in the semaphore.  Otherwise no later unlock can wake it   *)
(* (the counter of ngx_shmtx_lock against that of ngx_shmtx_wakeup).       *)
SleepersCounted ==
  Cardinality(Sleepers) + Cardinality(Rechecking)
    <= wait + sem + Cardinality(Posting)

(* The mutex is never left free with processes asleep on it and nobody on  *)
(* the way: a token, a waker, or a contender is there (the order of the    *)
(* fetch-add, the recheck and the sem_wait() in ngx_shmtx_lock against     *)
(* that of the release and the wake-up).                                   *)
NoLostWakeup ==
  lock = NoPid /\ Sleepers # {} =>
    \/ sem > 0
    \/ \E a \in Actors : pc[a] \in Waking
    \/ \E p \in Procs : pc[p] \in Contending

(* Every ngx_shmtx_lock call returns, if its caller lives, as long as the  *)
(* other workers' calls are finitely many (MaxOps): no deadlock between    *)
(* sleepers, wakers and the master breaking a dead owner's lock.           *)
LockReturns ==
  \A p \in Procs : pc[p] = "try" ~> pc[p] \in {"cs"} \cup Gone

(* The abstract view: what each process is doing with the mutex. *)
StOf(l) == CASE l \in Contending \cup {"sleep"} -> "want"
             [] l = "cs" -> "in"
             [] l \in Gone -> "dead"
             [] OTHER -> "out"

Abstract == INSTANCE Mutex WITH owner <- lock,
                                st <- [p \in Procs |-> StOf(pc[p])]

(* The mutex implements the abstract one: whatever the interleaving of     *)
(* spinning, sleeping, waking, dying and breaking.                         *)
ImplementsMutex == Abstract!MSpec

=============================================================================

------------------------- MODULE SharedMemoryProofs -------------------------
(***************************************************************************)
(* Proofs about what workers share through memory.                         *)
(*                                                                         *)
(* First the mutex, for any number of workers and any bounds.  Then the    *)
(* limits kept in zones under it, for every number of workers, requests,   *)
(* zones and nodes, every list of limits and every change of the time of   *)
(* day.                                                                    *)
(***************************************************************************)
EXTENDS Shmtx, Limits, Lemmas

(* The counters stay natural numbers because they are positive wherever    *)
(* they are decremented: a round is left in the spin loop, and the value   *)
(* read by ngx_shmtx_wakeup was not 0.                                     *)
LocalInv == /\ \A p \in Procs : pc[p] = "spin" => rounds[p] > 0
            /\ \A a \in Actors : pc[a] = "wakecas" => seen[a] > 0

TInv == ShmtxTypeOK /\ LocalInv

(* The types hold at the beginning. *)
LEMMA TypeInit == ShmtxInit => TInv
BY DEF ShmtxInit, TInv, ShmtxTypeOK, LocalInv, PCs, Actors

(* Every step keeps the types. *)
LEMMA TypeNext == TInv /\ [ShmtxNext]_shmtxVars => TInv'
<1> SUFFICES ASSUME TInv, [ShmtxNext]_shmtxVars PROVE TInv'
  OBVIOUS
<1> USE ProcsAssumption, BoundAssumption DEF TInv, ShmtxTypeOK, LocalInv, PCs, Contending, Waking, Gone
<1>1. ASSUME NEW a \in Actors, WakeRead(a) PROVE TInv'
  BY <1>1 DEF WakeRead, MoveTo, shared, shmtxBounds, Actors
<1>2. ASSUME NEW a \in Actors, WakeCas(a) PROVE TInv'
  <2>1. wait' \in Nat
    BY <1>2 DEF WakeCas
  <2> QED
    BY <1>2, <2>1 DEF WakeCas, MoveTo, shmtxBounds, Actors
<1>3. ASSUME NEW a \in Actors, WakePost(a) PROVE TInv'
  BY <1>3 DEF WakePost, MoveTo, shmtxBounds
<1>4. ASSUME NEW p \in Procs, Reap(p) PROVE TInv'
  BY <1>4 DEF Reap, ReleaseAs, shared, shmtxBounds, Actors
<1>5. ASSUME NEW p \in Procs, Respawn(p) PROVE TInv'
  BY <1>5 DEF Respawn, MoveTo, shared, shmtxBounds, Actors
<1>6. ASSUME NEW p \in Procs, LockTry(p) PROVE TInv'
  BY <1>6 DEF LockTry, Acquire, AfterSpin, MoveTo, shared, shmtxBounds, Actors
<1>7. ASSUME NEW p \in Procs, LockSpin(p) PROVE TInv'
  BY <1>7 DEF LockSpin, Acquire, AfterSpin, MoveTo, shared, shmtxBounds, Actors
<1>8. ASSUME NEW p \in Procs, LockAddWait(p) PROVE TInv'
  BY <1>8 DEF LockAddWait, MoveTo, shmtxBounds, Actors
<1>9. ASSUME NEW p \in Procs, LockRecheck(p) PROVE TInv'
  BY <1>9 DEF LockRecheck, Acquire, MoveTo, shared, shmtxBounds, Actors
<1>10. ASSUME NEW p \in Procs, LockWake(p) PROVE TInv'
  BY <1>10 DEF LockWake, MoveTo, shmtxBounds, Actors
<1>11. ASSUME NEW p \in Procs, Unlock(p) PROVE TInv'
  BY <1>11 DEF Unlock, ReleaseAs, shared, shmtxBounds, Actors
<1>12. ASSUME NEW p \in Procs, TryLock(p) PROVE TInv'
  BY <1>12 DEF TryLock, Begin, Acquire, MoveTo, shared, Actors
<1>13. ASSUME NEW p \in Procs, LockCall(p) PROVE TInv'
  BY <1>13 DEF LockCall, Begin, MoveTo, shared, Actors
<1>14. ASSUME NEW p \in Procs, UnlockUnowned(p) PROVE TInv'
  BY <1>14 DEF UnlockUnowned, Begin, ReleaseAs, shared, Actors
<1>15. ASSUME NEW p \in Procs, LockWaitError(p) PROVE TInv'
  BY <1>15 DEF LockWaitError, MoveTo, shared, Actors
<1>16. ASSUME NEW p \in Procs, Kill(p) PROVE TInv'
  BY <1>16 DEF Kill, MoveTo, shared, Actors
<1>17. CASE UNCHANGED shmtxVars
  BY <1>17 DEF shmtxVars
<1> QED
  BY <1>1, <1>2, <1>3, <1>4, <1>5, <1>6, <1>7, <1>8, <1>9, <1>10, <1>11,
     <1>12, <1>13, <1>14, <1>15, <1>16, <1>17
     DEF ShmtxNext, MasterStep, ProcessStep, Actors

(* Every state variable of the mutex keeps its type; no counter of         *)
(* ngx_shmtx.c ever drops below zero.                                      *)
THEOREM TypeCorrect == ShmtxSpec => []ShmtxTypeOK
<1>1. TInv => ShmtxTypeOK
  BY DEF TInv
<1> QED
  BY <1>1, TypeInit, TypeNext, PTL DEF ShmtxSpec

-----------------------------------------------------------------------------
(* Mutual exclusion.  LockInv is inductive by itself, given the types.     *)

(* Every step keeps the lock word and its owner in agreement. *)
LEMMA LockInvNext == TInv /\ LockInv /\ [ShmtxNext]_shmtxVars => LockInv'
<1> SUFFICES ASSUME TInv, LockInv, [ShmtxNext]_shmtxVars PROVE LockInv'
  OBVIOUS
<1> USE ProcsAssumption DEF TInv, ShmtxTypeOK, LockInv, Actors
<1>1. ASSUME NEW a \in Actors, WakeRead(a) \/ WakeCas(a) \/ WakePost(a)
      PROVE LockInv'
  BY <1>1 DEF WakeRead, WakeCas, WakePost, MoveTo, shared
<1>2. ASSUME NEW p \in Procs, Reap(p) PROVE LockInv'
  BY <1>2 DEF Reap, ReleaseAs, shared
<1>3. ASSUME NEW p \in Procs, Respawn(p) PROVE LockInv'
  BY <1>3 DEF Respawn, MoveTo, shared
<1>4. ASSUME NEW p \in Procs,
             LockTry(p) \/ LockSpin(p) \/ LockRecheck(p) \/ TryLock(p)
      PROVE LockInv'
  BY <1>4 DEF LockTry, LockSpin, LockRecheck, TryLock, Begin, Acquire,
              AfterSpin, MoveTo, shared
<1>5. ASSUME NEW p \in Procs,
             LockAddWait(p) \/ LockWake(p) \/ LockWaitError(p) \/ LockCall(p)
      PROVE LockInv'
  BY <1>5 DEF LockAddWait, LockWake, LockWaitError, LockCall, Begin, MoveTo,
              shared
<1>6. ASSUME NEW p \in Procs, Unlock(p) \/ UnlockUnowned(p) PROVE LockInv'
  BY <1>6 DEF Unlock, UnlockUnowned, Begin, ReleaseAs, shared
<1>7. ASSUME NEW p \in Procs, Kill(p) PROVE LockInv'
  BY <1>7 DEF Kill, MoveTo, shared
<1>8. CASE UNCHANGED shmtxVars
  BY <1>8 DEF shmtxVars
<1> QED
  BY <1>1, <1>2, <1>3, <1>4, <1>5, <1>6, <1>7, <1>8
     DEF ShmtxNext, MasterStep, ProcessStep

(* Only the owner is in the critical section, and the lock word never      *)
(* names a process that is neither in it nor dead: wherever workers die,   *)
(* ngx_shmtx_force_unlock takes the mutex from nobody alive.               *)
THEOREM MutualExclusion == ShmtxSpec => []LockInv
<1>1. ShmtxInit => LockInv
  BY ProcsAssumption DEF ShmtxInit, LockInv, Actors
<1> QED
  BY <1>1, LockInvNext, TypeInit, TypeNext, PTL DEF ShmtxSpec

-----------------------------------------------------------------------------
(* Refinement: every step is a step of the abstract mutex, or stutters.    *)

(* Every step is a step of the abstract mutex, or stutters. *)
LEMMA StepRefines ==
  TInv /\ LockInv /\ [ShmtxNext]_shmtxVars => [Abstract!MNext]_Abstract!mutexVars
<1> DEFINE ST == [p \in Procs |-> StOf(pc[p])]
<1> SUFFICES ASSUME TInv, LockInv, [ShmtxNext]_shmtxVars
             PROVE  Abstract!MNext \/ (lock' = lock /\ ST' = ST)
  BY DEF Abstract!mutexVars
<1> USE ProcsAssumption, CrashAssumption
    DEF TInv, ShmtxTypeOK, Actors, StOf, Contending, Waking, Gone, PCs
<1>1. ASSUME NEW a \in Actors, WakeRead(a) \/ WakeCas(a) \/ WakePost(a)
      PROVE  lock' = lock /\ ST' = ST
  BY <1>1 DEF WakeRead, WakeCas, WakePost, MoveTo, shared
<1>2. ASSUME NEW p \in Procs, Reap(p)
      PROVE  Abstract!Recover(p) \/ (lock' = lock /\ ST' = ST)
  BY <1>2 DEF Reap, ReleaseAs, shared, Abstract!Recover
<1>3. ASSUME NEW p \in Procs, Respawn(p) PROVE Abstract!Restart(p)
  BY <1>3 DEF Respawn, MoveTo, shared, LockInv, Abstract!Restart
<1>4. ASSUME NEW p \in Procs,
             LockTry(p) \/ LockSpin(p) \/ LockRecheck(p) \/ TryLock(p)
      PROVE  Abstract!Enter(p) \/ (lock' = lock /\ ST' = ST)
  <2>1. CASE Acquire(p)
    BY <1>4, <2>1 DEF LockTry, LockSpin, LockRecheck, TryLock, Begin, Acquire,
                      MoveTo, Abstract!Enter
  <2>2. CASE ~Acquire(p)
    BY <1>4, <2>2 DEF LockTry, LockSpin, LockRecheck, TryLock, AfterSpin,
                      MoveTo, shared
  <2> QED
    BY <2>1, <2>2
<1>5. ASSUME NEW p \in Procs,
             LockAddWait(p) \/ LockWake(p) \/ LockWaitError(p)
      PROVE  lock' = lock /\ ST' = ST
  BY <1>5 DEF LockAddWait, LockWake, LockWaitError, MoveTo, shared
<1>6. ASSUME NEW p \in Procs, LockCall(p) PROVE Abstract!Request(p)
  BY <1>6 DEF LockCall, Begin, MoveTo, shared, Abstract!Request
<1>7. ASSUME NEW p \in Procs, Unlock(p) PROVE Abstract!Exit(p)
  BY <1>7 DEF Unlock, ReleaseAs, LockInv, Abstract!Exit
<1>8. ASSUME NEW p \in Procs, UnlockUnowned(p)
      PROVE  lock' = lock /\ ST' = ST
  BY <1>8 DEF UnlockUnowned, Begin, ReleaseAs, LockInv, shared
<1>9. ASSUME NEW p \in Procs, Kill(p) PROVE Abstract!Die(p)
  BY <1>9 DEF Kill, MoveTo, shared, Abstract!Die
<1>10. CASE UNCHANGED shmtxVars
  BY <1>10 DEF shmtxVars
<1> QED
  BY <1>1, <1>2, <1>3, <1>4, <1>5, <1>6, <1>7, <1>8, <1>9, <1>10
     DEF ShmtxNext, MasterStep, ProcessStep, Abstract!MNext

(* The mutex of ngx_shmtx.c implements the abstract one.                   *)
THEOREM Refinement == ShmtxSpec => ImplementsMutex
<1>1. ShmtxInit => Abstract!MInit
  BY ProcsAssumption DEF ShmtxInit, Abstract!MInit, Actors, StOf, Contending, Gone
<1>2. ShmtxSpec => Abstract!MInit /\ [][Abstract!MNext]_Abstract!mutexVars
  BY <1>1, StepRefines, TypeInit, TypeNext, MutualExclusion, PTL DEF ShmtxSpec
<1> QED
  BY <1>2 DEF ImplementsMutex, Abstract!MSpec

-----------------------------------------------------------------------------
(* Every sleeper is owed a wake-up, unless a process is killed between its *)
(* decrement of the counter and its sem_post().                            *)

(* The sets of processes that are counted are finite. *)
LEMMA Finite == /\ IsFiniteSet(Sleepers) /\ Cardinality(Sleepers) \in Nat
                /\ IsFiniteSet(Rechecking) /\ Cardinality(Rechecking) \in Nat
                /\ IsFiniteSet(Posting) /\ Cardinality(Posting) \in Nat
<1>1. IsFiniteSet(Actors)
  BY ProcsAssumption, FS_AddElement DEF Actors
<1>2. Sleepers \subseteq Procs /\ Rechecking \subseteq Procs /\ Posting \subseteq Actors
  BY DEF Sleepers, Rechecking, Posting
<1>3. IsFiniteSet(Sleepers) /\ IsFiniteSet(Rechecking) /\ IsFiniteSet(Posting)
  BY <1>1, <1>2, ProcsAssumption, FS_Subset
<1> QED
  BY <1>3, FS_CardinalityType

(* Every step keeps the sleepers counted. *)
LEMMA CountedNext ==
  ASSUME "post" \notin CrashPoints
  PROVE  TInv /\ SleepersCounted /\ [ShmtxNext]_shmtxVars => SleepersCounted'
<1> SUFFICES ASSUME TInv, SleepersCounted, [ShmtxNext]_shmtxVars PROVE SleepersCounted'
  OBVIOUS
<1> DEFINE S == Cardinality(Sleepers)
           R == Cardinality(Rechecking)
           P == Cardinality(Posting)
<1>0. S + R <= wait + sem + P /\ S \in Nat /\ R \in Nat /\ P \in Nat
  BY Finite DEF SleepersCounted
<1>t. pc \in [Actors -> PCs] /\ wait \in Nat /\ sem \in Nat
  BY DEF TInv, ShmtxTypeOK
<1>s. SUFFICES S' + R' <= wait' + sem' + P'
  BY DEF SleepersCounted
<1> USE <1>t, ProcsAssumption DEF Actors
<1>1. ASSUME NEW a \in Actors, WakeRead(a) PROVE S' + R' <= wait' + sem' + P'
  <2>1. Sleepers' = Sleepers /\ Rechecking' = Rechecking /\ Posting' = Posting
    BY <1>1 DEF WakeRead, MoveTo, Sleepers, Rechecking, Posting
  <2> QED
    BY <1>0, <1>1, <2>1 DEF WakeRead, shared
<1>2. ASSUME NEW a \in Actors, WakeCas(a) PROVE S' + R' <= wait' + sem' + P'
  <2>1. Sleepers' = Sleepers /\ Rechecking' = Rechecking
    BY <1>2 DEF WakeCas, MoveTo, Sleepers, Rechecking
  <2>2. CASE wait' = wait - 1 /\ MoveTo(a, "post")
    <3>1. Posting' = Posting \cup {a} /\ a \notin Posting
      BY <1>2, <2>2 DEF WakeCas, MoveTo, Posting
    <3>2. P' = P + 1
      BY <3>1, Finite, FS_AddElement
    <3> QED
      BY <1>0, <1>2, <2>1, <2>2, <3>2 DEF WakeCas
  <2>3. CASE wait' = wait /\ MoveTo(a, "wakeread")
    <3>1. Posting' = Posting
      BY <1>2, <2>3 DEF WakeCas, MoveTo, Posting
    <3> QED
      BY <1>0, <1>2, <2>1, <2>3, <3>1 DEF WakeCas
  <2> QED
    BY <1>2, <2>2, <2>3 DEF WakeCas
<1>3. ASSUME NEW a \in Actors, WakePost(a) PROVE S' + R' <= wait' + sem' + P'
  <2>1. Sleepers' = Sleepers /\ Rechecking' = Rechecking
    BY <1>3 DEF WakePost, MoveTo, Sleepers, Rechecking
  <2>2. Posting' = Posting \ {a} /\ a \in Posting
    BY <1>3 DEF WakePost, MoveTo, Posting
  <2>3. P' = P - 1
    BY <2>2, Finite, FS_RemoveElement
  <2> QED
    BY <1>0, <1>3, <2>1, <2>3 DEF WakePost
<1>4. ASSUME NEW p \in Procs,
             \/ LockTry(p) \/ LockSpin(p) \/ TryLock(p) \/ LockCall(p)
             \/ Unlock(p) \/ UnlockUnowned(p) \/ Reap(p) \/ Respawn(p)
      PROVE  S' + R' <= wait' + sem' + P'
  <2>1. Sleepers' = Sleepers /\ Rechecking' = Rechecking /\ Posting' = Posting
    <3>1. CASE LockTry(p) \/ LockSpin(p) \/ TryLock(p) \/ LockCall(p) \/ Respawn(p)
      BY <3>1 DEF LockTry, LockSpin, TryLock, LockCall, Respawn, Begin, Acquire,
                  AfterSpin, MoveTo, Sleepers, Rechecking, Posting
    <3>2. CASE Unlock(p) \/ UnlockUnowned(p) \/ Reap(p)
      BY <3>2 DEF Unlock, UnlockUnowned, Reap, Begin, ReleaseAs,
                  Sleepers, Rechecking, Posting
    <3> QED
      BY <1>4, <3>1, <3>2
  <2>2. wait' = wait /\ sem' = sem
    BY <1>4 DEF LockTry, LockSpin, TryLock, LockCall, Unlock, UnlockUnowned,
                Reap, Respawn, Acquire, ReleaseAs, shared
  <2> QED
    BY <1>0, <2>1, <2>2
<1>5. ASSUME NEW p \in Procs, LockAddWait(p) PROVE S' + R' <= wait' + sem' + P'
  <2>1. Sleepers' = Sleepers /\ Posting' = Posting
    BY <1>5 DEF LockAddWait, MoveTo, Sleepers, Posting
  <2>2. Rechecking' = Rechecking \cup {p} /\ p \notin Rechecking
    BY <1>5 DEF LockAddWait, MoveTo, Rechecking
  <2>3. R' = R + 1
    BY <2>2, Finite, FS_AddElement
  <2> QED
    BY <1>0, <1>5, <2>1, <2>3 DEF LockAddWait
<1>6. ASSUME NEW p \in Procs, LockRecheck(p) PROVE S' + R' <= wait' + sem' + P'
  <2>1. Rechecking' = Rechecking \ {p} /\ p \in Rechecking /\ Posting' = Posting
    BY <1>6 DEF LockRecheck, Acquire, MoveTo, shared, Rechecking, Posting
  <2>2. R' = R - 1
    BY <2>1, Finite, FS_RemoveElement
  <2>3. \/ Sleepers' = Sleepers
        \/ Sleepers' = Sleepers \cup {p} /\ p \notin Sleepers
    BY <1>6 DEF LockRecheck, Acquire, MoveTo, Sleepers
  <2>4. S' = S \/ S' = S + 1
    BY <2>3, Finite, FS_AddElement
  <2>5. wait' = wait /\ sem' = sem
    BY <1>6 DEF LockRecheck, Acquire, shared
  <2> QED
    BY <1>0, <2>1, <2>2, <2>4, <2>5
<1>7. ASSUME NEW p \in Procs, LockWake(p) \/ LockWaitError(p)
      PROVE  S' + R' <= wait' + sem' + P'
  <2>1. Sleepers' = Sleepers \ {p} /\ p \in Sleepers
    BY <1>7 DEF LockWake, LockWaitError, MoveTo, Sleepers
  <2>2. Rechecking' = Rechecking /\ Posting' = Posting
    BY <1>7 DEF LockWake, LockWaitError, MoveTo, Rechecking, Posting
  <2>3. S' = S - 1
    BY <2>1, Finite, FS_RemoveElement
  <2>4. wait' = wait /\ sem' \in {sem, sem - 1}
    BY <1>7 DEF LockWake, LockWaitError, shared
  <2> QED
    BY <1>0, <2>2, <2>3, <2>4
<1>8. ASSUME NEW p \in Procs, Kill(p) PROVE S' + R' <= wait' + sem' + P'
  <2>1. Posting' = Posting
    BY <1>8 DEF Kill, MoveTo, Posting
  <2>2. Sleepers' \subseteq Sleepers /\ Rechecking' \subseteq Rechecking
    BY <1>8 DEF Kill, MoveTo, Sleepers, Rechecking
  <2>3. /\ S' \in Nat /\ S' <= S
        /\ R' \in Nat /\ R' <= R
    BY <2>2, Finite, FS_Subset, FS_CardinalityType
  <2> QED
    BY <1>0, <1>8, <2>1, <2>3 DEF Kill, shared
<1>9. CASE UNCHANGED shmtxVars
  BY <1>0, <1>9 DEF shmtxVars, Sleepers, Rechecking, Posting
<1> QED
  BY <1>1, <1>2, <1>3, <1>4, <1>5, <1>6, <1>7, <1>8, <1>9
     DEF ShmtxNext, MasterStep, ProcessStep

(* No process goes to sleep, or is about to, without a wake-up being due   *)
(* to it, wherever else workers die.                                       *)
THEOREM EverySleeperCounted ==
  ASSUME "post" \notin CrashPoints
  PROVE  ShmtxSpec => []SleepersCounted
<1>1. ShmtxInit => SleepersCounted
  <2> SUFFICES ASSUME ShmtxInit PROVE SleepersCounted
    OBVIOUS
  <2>1. Sleepers = {} /\ Rechecking = {}
    BY ProcsAssumption DEF ShmtxInit, Sleepers, Rechecking, Actors
  <2>2. Cardinality(Sleepers) = 0 /\ Cardinality(Rechecking) = 0
    BY <2>1, FS_EmptySet
  <2> QED
    BY <2>2, Finite DEF ShmtxInit, SleepersCounted
<1> QED
  BY <1>1, CountedNext, TypeInit, TypeNext, PTL DEF ShmtxSpec

-----------------------------------------------------------------------------
(* No wake-up is lost while workers are killed only outside the hand-over: *)
(* not between a release and its sem_post(), nor between sem_wait() and    *)
(* the next test of the lock.                                              *)

(* Without a semaphore nobody reaches it. *)
SemInv == ~semaphore => \A p \in Procs : pc[p] \notin {"addwait", "recheck", "sleep"}

(* Every step keeps the facts about the semaphore. *)
LEMMA SemInvNext == TInv /\ SemInv /\ [ShmtxNext]_shmtxVars => SemInv'
<1> SUFFICES ASSUME TInv, SemInv, [ShmtxNext]_shmtxVars PROVE SemInv'
  OBVIOUS
<1> USE ProcsAssumption DEF TInv, ShmtxTypeOK, SemInv, Actors
<1>1. ASSUME NEW a \in Actors, WakeRead(a) \/ WakeCas(a) \/ WakePost(a)
      PROVE SemInv'
  BY <1>1 DEF WakeRead, WakeCas, WakePost, MoveTo, shared
<1>2. ASSUME NEW p \in Procs, Unlock(p) \/ UnlockUnowned(p) \/ Reap(p)
      PROVE SemInv'
  BY <1>2 DEF Unlock, UnlockUnowned, Reap, Begin, ReleaseAs, shared
<1>3. ASSUME NEW p \in Procs,
             LockTry(p) \/ LockSpin(p) \/ LockRecheck(p) \/ TryLock(p)
      PROVE SemInv'
  BY <1>3 DEF LockTry, LockSpin, LockRecheck, TryLock, Acquire, AfterSpin,
              MoveTo, shared
<1>4. ASSUME NEW p \in Procs,
             \/ LockAddWait(p) \/ LockWake(p) \/ LockWaitError(p)
             \/ LockCall(p) \/ Respawn(p) \/ Kill(p)
      PROVE SemInv'
  BY <1>4 DEF LockAddWait, LockWake, LockWaitError, LockCall, Respawn, Kill,
              MoveTo, shared
<1>5. CASE UNCHANGED shmtxVars
  BY <1>5 DEF shmtxVars
<1> QED
  BY <1>1, <1>2, <1>3, <1>4, <1>5 DEF ShmtxNext, MasterStep, ProcessStep

(* A sleeper that meets an empty counter is owed a token or a post. *)
LEMMA CountedSleeper ==
  ASSUME ShmtxTypeOK, SleepersCounted, Sleepers # {}, wait = 0
  PROVE  sem > 0 \/ \E a \in Actors : pc[a] = "post"
<1>1. Cardinality(Sleepers) > 0
  BY Finite, FS_EmptySet
<1>2. sem > 0 \/ Cardinality(Posting) > 0
  BY <1>1, Finite DEF SleepersCounted, ShmtxTypeOK
<1>3. Cardinality(Posting) > 0 => Posting # {}
  BY FS_EmptySet
<1> QED
  BY <1>2, <1>3 DEF Posting

(* No step loses a wakeup, when no process dies between waking steps. *)
LEMMA NoLostWakeupNext ==
  ASSUME CrashPoints \subseteq {"idle", "sleep", "cs"}
  PROVE  /\ TInv /\ SemInv /\ SleepersCounted /\ NoLostWakeup
         /\ [ShmtxNext]_shmtxVars
         => NoLostWakeup'
<1> SUFFICES ASSUME TInv, SemInv, SleepersCounted, NoLostWakeup, [ShmtxNext]_shmtxVars,
                    (lock = NoPid)', (Sleepers # {})'
             PROVE  \/ sem' > 0
                    \/ \E a \in Actors : pc'[a] \in Waking
                    \/ \E p \in Procs : pc'[p] \in Contending
  BY DEF NoLostWakeup
<1> DEFINE Goal == \/ sem' > 0
                   \/ \E a \in Actors : pc'[a] \in Waking
                   \/ \E p \in Procs : pc'[p] \in Contending
<1> USE ProcsAssumption DEF TInv, ShmtxTypeOK, Actors, Waking, Contending
<1>1. ASSUME NEW a \in Actors, WakeRead(a) PROVE Goal
  <2>1. Sleepers # {}
    BY <1>1 DEF WakeRead, MoveTo, Sleepers
  <2>2. semaphore
    BY <2>1 DEF SemInv, Sleepers
  <2>3. CASE wait = 0
    <3>1. sem > 0 \/ \E b \in Actors : pc[b] = "post"
      BY <2>1, <2>3, CountedSleeper
    <3> QED
      BY <1>1, <3>1 DEF WakeRead, MoveTo, shared
  <2>4. CASE wait # 0
    BY <1>1, <2>2, <2>4 DEF WakeRead, MoveTo
  <2> QED
    BY <2>3, <2>4
<1>2. ASSUME NEW a \in Actors, WakeCas(a) PROVE Goal
  BY <1>2 DEF WakeCas, MoveTo
<1>3. ASSUME NEW a \in Actors, WakePost(a) PROVE Goal
  BY <1>3 DEF WakePost
<1>4. ASSUME NEW p \in Procs,
             LockTry(p) \/ LockSpin(p) \/ LockRecheck(p) \/ TryLock(p)
      PROVE  Goal
  <2>1. (lock' = lock /\ lock # NoPid) \/ lock' = p
    BY <1>4 DEF LockTry, LockSpin, LockRecheck, TryLock, Acquire, shared
  <2> QED
    BY <2>1
<1>5. ASSUME NEW p \in Procs, LockAddWait(p) PROVE Goal
  BY <1>5 DEF LockAddWait, MoveTo
<1>6. ASSUME NEW p \in Procs, LockWake(p) \/ LockWaitError(p) \/ LockCall(p)
      PROVE  Goal
  BY <1>6 DEF LockWake, LockWaitError, LockCall, MoveTo
<1>7. ASSUME NEW p \in Procs, Unlock(p) \/ UnlockUnowned(p) \/ Reap(p)
      PROVE  Goal
  <2>1. CASE lock # NoPid
    BY <1>7, <2>1 DEF Unlock, UnlockUnowned, Reap, ReleaseAs, shared
  <2>2. CASE lock = NoPid
    BY <1>7, <2>2 DEF Unlock, UnlockUnowned, Reap, Begin, ReleaseAs, shared,
                      NoLostWakeup, Sleepers
  <2> QED
    BY <2>1, <2>2
<1>8. ASSUME NEW p \in Procs, Kill(p) \/ Respawn(p) PROVE Goal
  BY <1>8 DEF Kill, Respawn, MoveTo, shared, NoLostWakeup, Sleepers
<1>9. CASE UNCHANGED shmtxVars
  BY <1>9 DEF shmtxVars, NoLostWakeup, Sleepers
<1> QED
  BY <1>1, <1>2, <1>3, <1>4, <1>5, <1>6, <1>7, <1>8, <1>9
     DEF ShmtxNext, MasterStep, ProcessStep

(* The mutex is never free with a sleeper and nobody to wake it.           *)
THEOREM WakeupNeverLost ==
  ASSUME CrashPoints \subseteq {"idle", "sleep", "cs"}
  PROVE  ShmtxSpec => []NoLostWakeup
<1>1. ShmtxInit => SemInv /\ NoLostWakeup
  BY ProcsAssumption DEF ShmtxInit, SemInv, NoLostWakeup, Sleepers, Actors
<1>2. "post" \notin CrashPoints
  OBVIOUS
<1>3. ShmtxSpec => []SleepersCounted
  BY <1>2, EverySleeperCounted
<1> QED
  BY <1>1, <1>3, NoLostWakeupNext, SemInvNext, TypeInit, TypeNext, PTL DEF ShmtxSpec

-----------------------------------------------------------------------------
(* The limits. *)

Limiting == {"lookup", "undo", "account"}

ReqType == [state : {"new", "limiting", "delayed", "serving", "done"},
            worker : Workers \cup {NoWorker}, visit : Visits \cup {<<>>},
            held : Seq([zone : ConnZones, node : Ids]), charged : [ReqZones -> Nat],
            passed : BOOLEAN]

HandlerType == [pc : {"idle", "lookup", "undo", "account", "conn", "cleanup"},
                req : Requests \cup {NoReq}, n : Nat, late : BOOLEAN, time : Int,
                rc : {"DECLINED", "AGAIN", "OK", "BUSY", "ERROR"}]

(* The handlers and their requests: a worker has its own. *)
Owned ==
  /\ \A w \in Workers : h[w].pc # "idle" =>
       /\ h[w].req \in Requests
       /\ req[h[w].req].state = "limiting"
       /\ req[h[w].req].worker = w
       /\ req[h[w].req].visit \in Visits
       /\ h[w].pc \in {"lookup", "conn"} => h[w].n >= 1
       /\ h[w].pc \in Limiting => h[w].time >= Start
  /\ \A r \in Requests : req[r].state \in {"delayed", "serving"} => req[r].visit \in Visits

(* A zone applies to a request that has a limit and a value for it. *)
Applies(v, z) == /\ \E j \in DOMAIN v.limit_req : v.limit_req[j].zone = z
                 /\ v.value[z] # NoKey
                 /\ KeyLen[v.value[z]] <= 65535

(* A pin is one of a zone the worker has looked at and not yet charged,    *)
(* never the last, and its node is there.                                  *)
PinnedBy(w, z) ==
  /\ h[w].pc \in Limiting
  /\ Applies(req[h[w].req].visit, z)
  /\ \E j \in DOMAIN Limits(w) : /\ Limits(w)[j].zone = z
                                 /\ j < Len(Limits(w))
                                 /\ h[w].pc = "lookup" => j < h[w].n
  /\ h[w].pc = "lookup" => h[w].rc # "DECLINED"
  /\ lr[z][node[w][z]] # Free
  /\ lr[z][node[w][z]].key = Value(w, z)

PinInv == \A w \in Workers, z \in ReqZones : node[w][z] # NoNode => PinnedBy(w, z)

CountInv ==
  \A z \in ReqZones : \A i \in Ids : lr[z][i] # Free =>
    /\ lr[z][i].count >= Cardinality(Pins(z, i))
    /\ crashes = 0 => lr[z][i].count = Cardinality(Pins(z, i))

QueueInv == \A z \in ReqZones : Holds(queue[z], Allocated(lr[z]))

(* What a request has been charged, at each point of the handler. *)
ChargedSoFar(w) ==
  LET r == req[h[w].req]
  IN  /\ h[w].pc \in Limiting => ~r.passed
      /\ h[w].pc \in {"lookup", "undo"} => \A z \in ReqZones : r.charged[z] = 0
      /\ h[w].pc = "lookup" =>
           \A j \in DOMAIN Limits(w) :
             j < h[w].n /\ Applies(r.visit, Limits(w)[j].zone) =>
               node[w][Limits(w)[j].zone] # NoNode
      /\ h[w].pc = "account" =>
           \A z \in ReqZones :
             r.charged[z] = IF Applies(r.visit, z) /\ node[w][z] = NoNode THEN 1 ELSE 0

ChargeInv ==
  /\ \A w \in Workers : ChargedSoFar(w)
  /\ \A r \in Requests :
       /\ req[r].state = "new" => ~req[r].passed /\ \A z \in ReqZones : req[r].charged[z] = 0
       /\ req[r].passed =>
            \A z \in ReqZones : req[r].charged[z] = IF Applies(req[r].visit, z) THEN 1 ELSE 0

-----------------------------------------------------------------------------
(* What a request holds in the limit_conn zones. *)
HeldInv ==
  /\ \A r \in Requests :
       /\ req[r].state \in {"new", "delayed", "done"} => req[r].held = <<>>
       /\ \A m, n \in DOMAIN req[r].held :
            req[r].held[m].zone = req[r].held[n].zone => m = n
       /\ \A m \in DOMAIN req[r].held :
            LET c == req[r].held[m]
            IN  lc[c.zone][c.node] # Free /\ lc[c.zone][c.node].key = req[r].visit.value[c.zone]
  /\ \A w \in Workers :
       /\ h[w].pc \in Limiting => req[h[w].req].held = <<>>
       /\ h[w].pc = "conn" =>
            \A m \in DOMAIN req[h[w].req].held :
              \E j \in DOMAIN ConnLimits(w) :
                j < h[w].n /\ ConnLimits(w)[j].zone = req[h[w].req].held[m].zone

ConnInv ==
  \A z \in ConnZones : \A i \in Ids : lc[z][i] # Free =>
    /\ lc[z][i].conn >= Cardinality(Holders(z, i))
    /\ crashes + faults = 0 => lc[z][i].conn = Cardinality(Holders(z, i))
    /\ lc[z][i].conn <= MaxConn[z]

-----------------------------------------------------------------------------
(* The node of a key is found again. *)
KeyInv ==
  \A z \in ReqZones : \A i, j \in Allocated(lr[z]) :
    /\ lr[z][i].len = KeyLen[lr[z][i].key] % 256
    /\ lr[z][i].key = lr[z][j].key /\ KeyLen[lr[z][i].key] <= 255 => i = j

(* The workers that have pinned a node and will charge more than k beyond  *)
(* the burst.                                                              *)
Beyond(z, i, k) ==
  {w \in Pins(z, i) : Excess(z, lr[z][i], h[w].time) > MaxBurst[z] + 1001 * k}

N == Cardinality(Workers)

(* What a node has in excess, and how many workers can still make it more: *)
(* of those that will go k beyond the burst there are fewer than N - k.    *)
BurstInv ==
  \A z \in ReqZones : \A i \in Allocated(lr[z]) :
    /\ lr[z][i].excess <= MaxBurst[z] + IF z \in Shared THEN 1001 * (N - 1) ELSE 0
    /\ \A k \in 0 .. N - 1 : Cardinality(Beyond(z, i, k)) < N - k

MoreTypes ==
  /\ req \in [Requests -> ReqType]
  /\ now \in Nat
  /\ now >= Start
  /\ crashes \in Nat
  /\ faults \in Nat

LrInv == PinInv /\ CountInv /\ QueueInv /\ KeyInv /\ BurstInv

IInv == TypeOK /\ MoreTypes /\ Owned /\ LrInv /\ ChargeInv /\ HeldInv /\ ConnInv

-----------------------------------------------------------------------------
(* A step of one worker. *)

(* A worker works on the request of its handler; without one, on a new     *)
(* request or on one of its own that waits.                                *)
Mine(w, r) ==
  \/ h[w].pc # "idle" /\ r = h[w].req
  \/ h[w].pc = "idle" /\ req[r].state = "new"
  \/ h[w].pc = "idle" /\ req[r].state \in {"delayed", "serving"} /\ req[r].worker = w

(* The step changes nothing of the other workers and requests. *)
Only(w, r) ==
  /\ h' \in [Workers -> HandlerType]
  /\ \A v \in Workers : v # w => h'[v] = h[v]
  /\ req' \in [Requests -> ReqType]
  /\ \A q \in Requests : q # r => req'[q] = req[q]

(* What the handler of the worker is when the step has been made. *)
Continues(w, r) ==
  /\ h'[w].pc # "idle" =>
       /\ h'[w].req = r
       /\ req'[r].state = "limiting"
       /\ req'[r].worker = w
       /\ req'[r].visit \in Visits
       /\ h'[w].pc \in {"lookup", "conn"} => h'[w].n >= 1
       /\ h'[w].pc \in Limiting => h'[w].time >= Start
  /\ req'[r].state \in {"delayed", "serving"} => req'[r].visit \in Visits
  /\ req'[r].state # "new"

(* Another worker that is in a handler is at another request. *)
LEMMA Others ==
  ASSUME Owned, NEW w \in Workers, NEW r \in Requests, Mine(w, r), Only(w, r),
         NEW v \in Workers, v # w, h[v].pc # "idle"
  PROVE  /\ h[v].req \in Requests /\ h[v].req # r
         /\ h'[v] = h[v]
         /\ req'[h[v].req] = req[h[v].req]
         /\ Limits(v)' = Limits(v)
         /\ ConnLimits(v)' = ConnLimits(v)
         /\ \A z : Value(v, z)' = Value(v, z)
<1>1. h[v].req \in Requests /\ h[v].req # r
  BY DEF Owned, Mine
<1>2. h'[v] = h[v] /\ req'[h[v].req] = req[h[v].req]
  BY <1>1 DEF Only
<1> QED BY <1>1, <1>2 DEF Limits, ConnLimits, Value

(* The workers keep what they have. *)
LEMMA OwnedKept ==
  ASSUME Owned, NEW w \in Workers, NEW r \in Requests, Mine(w, r), Only(w, r),
         Continues(w, r)
  PROVE  Owned'
<1>1. ASSUME NEW v \in Workers, h'[v].pc # "idle"
      PROVE  /\ h'[v].req \in Requests
             /\ req'[h'[v].req].state = "limiting"
             /\ req'[h'[v].req].worker = v
             /\ req'[h'[v].req].visit \in Visits
             /\ h'[v].pc \in {"lookup", "conn"} => h'[v].n >= 1
             /\ h'[v].pc \in Limiting => h'[v].time >= Start
  <2>1. CASE v = w
    BY <1>1, <2>1 DEF Continues
  <2>2. CASE v # w
    <3>1. h'[v] = h[v] /\ h[v].pc # "idle"
      BY <1>1, <2>2 DEF Only
    <3>2. h[v].req # r /\ req'[h[v].req] = req[h[v].req]
      BY <2>2, <3>1, Others
    <3> QED BY <3>1, <3>2 DEF Owned
  <2> QED BY <2>1, <2>2
<1>2. \A q \in Requests : req'[q].state \in {"delayed", "serving"} => req'[q].visit \in Visits
  BY DEF Owned, Only, Continues
<1> QED BY <1>1, <1>2 DEF Owned

-----------------------------------------------------------------------------
(* Steps that leave the nodes of the limit_req zones alone. *)

(* The pins of the worker that moves are still pins. *)
LEMMA PinsSame ==
  ASSUME TypeOK, Owned, LrInv, NEW w \in Workers, NEW r \in Requests, Mine(w, r), Only(w, r),
         UNCHANGED <<lr, queue, node, crashes>>,
         \A z \in ReqZones : node[w][z] # NoNode => /\ PinnedBy(w, z)'
                                                    /\ h'[w].time = h[w].time
  PROVE  LrInv'
<1>1. PinInv'
  <2> SUFFICES ASSUME NEW v \in Workers, NEW z \in ReqZones, node[v][z] # NoNode
               PROVE  PinnedBy(v, z)'
    BY DEF PinInv
  <2>1. CASE v = w
    BY <2>1
  <2>2. CASE v # w
    <3>1. PinnedBy(v, z) /\ h[v].pc # "idle"
      BY DEF LrInv, PinInv, PinnedBy, Limiting
    <3>2. /\ h'[v] = h[v] /\ req'[h[v].req] = req[h[v].req]
          /\ Limits(v)' = Limits(v) /\ Value(v, z)' = Value(v, z)
      BY <2>2, <3>1, Others
    <3> QED BY <3>1, <3>2 DEF PinnedBy
  <2> QED BY <2>1, <2>2
<1>2. \A z \in ReqZones, i \in Ids : Pins(z, i)' = Pins(z, i)
  BY DEF Pins
<1>3. CountInv' /\ QueueInv' /\ KeyInv'
  BY <1>2 DEF LrInv, CountInv, QueueInv, KeyInv
<1>4. ASSUME NEW z \in ReqZones, NEW i \in Ids, NEW k
      PROVE  Beyond(z, i, k)' = Beyond(z, i, k)
  <2>1. NoNode \notin Ids
    BY DEF NoNode, Ids
  <2>2. \A v \in Pins(z, i) : h'[v].time = h[v].time
    BY <2>1 DEF Pins, Only
  <2> QED BY <1>2, <2>2 DEF Beyond
<1>5. BurstInv'
  <2>1. \A z \in ReqZones : Allocated(lr[z]) \subseteq Ids
    BY DEF Allocated
  <2> QED BY <1>4, <2>1 DEF LrInv, BurstInv
<1> QED BY <1>1, <1>3, <1>5 DEF LrInv

-----------------------------------------------------------------------------
(* What is charged. *)

(* What is to be shown of the worker that moves and of its request. *)
Charges(w, r) ==
  /\ ChargedSoFar(w)'
  /\ req'[r].passed =>
       \A z \in ReqZones : req'[r].charged[z] = IF Applies(req'[r].visit, z) THEN 1 ELSE 0

(* The others are charged what they were. *)
LEMMA ChargeKept ==
  ASSUME Owned, ChargeInv, NEW w \in Workers, NEW r \in Requests, Mine(w, r), Only(w, r),
         Continues(w, r), Charges(w, r),
         \A v \in Workers : v # w => node'[v] = node[v]
  PROVE  ChargeInv'
<1>1. ASSUME NEW v \in Workers PROVE ChargedSoFar(v)'
  <2>1. CASE v = w
    BY <2>1 DEF Charges
  <2>2. CASE v # w /\ h[v].pc # "idle"
    <3>1. /\ h'[v] = h[v] /\ req'[h[v].req] = req[h[v].req]
          /\ Limits(v)' = Limits(v) /\ node'[v] = node[v]
      BY <2>2, Others
    <3>2. ChargedSoFar(v)
      BY DEF ChargeInv
    <3> QED BY <3>1, <3>2 DEF ChargedSoFar
  <2>3. CASE v # w /\ h[v].pc = "idle"
    <3>1. h'[v].pc = "idle"
      BY <2>3 DEF Only
    <3> QED BY <3>1 DEF ChargedSoFar, Limiting
  <2> QED BY <2>1, <2>2, <2>3
<1>2. ASSUME NEW q \in Requests
      PROVE  /\ req'[q].state = "new" =>
                  ~req'[q].passed /\ \A z \in ReqZones : req'[q].charged[z] = 0
             /\ req'[q].passed =>
                  \A z \in ReqZones :
                    req'[q].charged[z] = IF Applies(req'[q].visit, z) THEN 1 ELSE 0
  <2>1. CASE q = r
    BY <2>1 DEF Charges, Continues
  <2>2. CASE q # r
    <3>1. req'[q] = req[q]
      BY <2>2 DEF Only
    <3> QED BY <3>1 DEF ChargeInv
  <2> QED BY <2>1, <2>2
<1> QED BY <1>1, <1>2 DEF ChargeInv

-----------------------------------------------------------------------------
(* Steps that leave the nodes of the limit_conn zones alone. *)

(* The request holds what it held; one that begins or waits, nothing. *)
Holding(w, r) ==
  /\ req'[r].held = req[r].held
  /\ req[r].held = <<>> \/ req'[r].visit = req[r].visit
  /\ req'[r].state \in {"delayed", "done"} => req[r].held = <<>>
  /\ h'[w].pc \in {"lookup", "undo", "account", "conn"} => req[r].held = <<>>

(* What is held in the limit_conn zones, and counted, stays. *)
LEMMA HeldKept ==
  ASSUME Owned, HeldInv, ConnInv, NEW w \in Workers, NEW r \in Requests, Mine(w, r),
         Only(w, r), Continues(w, r), Holding(w, r), UNCHANGED <<lc, crashes, faults>>
  PROVE  HeldInv' /\ ConnInv'
<1>1. \A q \in Requests : req'[q].held = req[q].held
  BY DEF Only, Holding
<1>2. \A z, i : Holders(z, i)' = Holders(z, i)
  BY <1>1 DEF Holders
<1>3. ConnInv'
  BY SMTT(30), <1>2 DEF ConnInv
<1>4. ASSUME NEW q \in Requests
      PROVE  /\ req'[q].state \in {"new", "delayed", "done"} => req'[q].held = <<>>
             /\ \A m, n \in DOMAIN req'[q].held :
                  req'[q].held[m].zone = req'[q].held[n].zone => m = n
             /\ \A m \in DOMAIN req'[q].held :
                  LET c == req'[q].held[m]
                  IN  /\ lc'[c.zone][c.node] # Free
                      /\ lc'[c.zone][c.node].key = req'[q].visit.value[c.zone]
  <2>1. CASE q # r
    <3>1. req'[q] = req[q]
      BY <2>1 DEF Only
    <3> QED BY <3>1 DEF HeldInv
  <2>2. CASE q = r /\ req[r].held = <<>>
    BY SMTT(30), <2>2 DEF Holding
  <2>3. CASE q = r /\ req[r].held # <<>>
    <3>1. req'[r].held = req[r].held /\ req'[r].visit = req[r].visit
      BY <2>3 DEF Holding
    <3>2. req'[r].state \notin {"new", "delayed", "done"}
      BY <2>3 DEF Holding, Continues
    <3> QED BY <2>3, <3>1, <3>2 DEF HeldInv
  <2> QED BY SMTT(30), <2>1, <2>2, <2>3
<1>5. ASSUME NEW v \in Workers
      PROVE  /\ h'[v].pc \in Limiting => req'[h'[v].req].held = <<>>
             /\ h'[v].pc = "conn" =>
                  \A m \in DOMAIN req'[h'[v].req].held :
                    \E j \in DOMAIN ConnLimits(v)' :
                      /\ j < h'[v].n
                      /\ ConnLimits(v)'[j].zone = req'[h'[v].req].held[m].zone
  <2>1. CASE v = w
    <3>1. h'[w].pc \in {"lookup", "undo", "account", "conn"} =>
            h'[w].req = r /\ req'[r].held = <<>>
      BY DEF Continues, Holding
    <3> QED BY <2>1, <3>1 DEF Limiting
  <2>2. CASE v # w /\ h[v].pc # "idle"
    <3>1. /\ h'[v] = h[v] /\ req'[h[v].req] = req[h[v].req]
          /\ ConnLimits(v)' = ConnLimits(v)
      BY <2>2, Others
    <3> QED BY <3>1 DEF HeldInv
  <2>3. CASE v # w /\ h[v].pc = "idle"
    <3>1. h'[v].pc = "idle"
      BY SMTT(30), <2>3 DEF Only
    <3> QED BY <3>1 DEF Limiting
  <2> QED BY <2>1, <2>2, <2>3
<1>6. HeldInv'
  BY <1>4, <1>5 DEF HeldInv
<1> QED BY <1>3, <1>6

-----------------------------------------------------------------------------
(* Steps that leave both kinds of zones alone. *)

(* A step that leaves the nodes alone keeps the whole invariant. *)
LEMMA PlainKeeps ==
  ASSUME IInv, NEW w \in Workers, NEW r \in Requests, Mine(w, r), Only(w, r),
         Continues(w, r), Charges(w, r), Holding(w, r),
         UNCHANGED <<lr, queue, lc, node, now, crashes, faults>>,
         \A z \in ReqZones : node[w][z] # NoNode => /\ PinnedBy(w, z)'
                                                    /\ h'[w].time = h[w].time
  PROVE  IInv'
<1> USE DEF IInv
<1>1. TypeOK' /\ MoreTypes'
  <2>1. \A q \in Requests : req'[q].worker \in Workers \cup {NoWorker}
    BY DEF Only, ReqType
  <2> QED BY <2>1 DEF TypeOK, MoreTypes, Only, HandlerType
<1>2. Owned'
  BY OwnedKept
<1>3. LrInv'
  BY PinsSame
<1>4. ChargeInv'
  BY ChargeKept
<1>5. HeldInv' /\ ConnInv'
  BY HeldKept
<1> QED BY <1>1, <1>2, <1>3, <1>4, <1>5

(* Only a worker in the handler of limit_req has pins, and none when it    *)
(* has none in the zones of its limits.                                    *)
LEMMA NoPins ==
  ASSUME TypeOK, LrInv, NEW w \in Workers, h[w].pc \notin Limiting \/ Pinned(w) = {}
  PROVE  \A z \in ReqZones : node[w][z] = NoNode
BY DEF LrInv, PinInv, PinnedBy, Pinned

(* A worker outside its handler has an idle one. *)
LEMMA IdleType ==
  /\ Idle \in HandlerType
  /\ Idle.pc = "idle" /\ Idle.n = 0 /\ Idle.rc = "DECLINED" /\ Idle.late = FALSE
  /\ NewReq \in ReqType /\ Done \in ReqType
  /\ NewReq.state = "new" /\ NewReq.passed = FALSE /\ NewReq.held = <<>>
  /\ NewReq.charged = [z \in ReqZones |-> 0]
  /\ Done.state = "done" /\ Done.passed = FALSE /\ Done.held = <<>>
  /\ Done.worker = NoWorker
<1>1. /\ Idle \in HandlerType
      /\ Idle.pc = "idle" /\ Idle.n = 0 /\ Idle.rc = "DECLINED" /\ Idle.late = FALSE
  BY DEF Idle, HandlerType
<1>2. /\ NewReq \in ReqType
      /\ NewReq.state = "new" /\ NewReq.passed = FALSE /\ NewReq.held = <<>>
      /\ NewReq.charged = [z \in ReqZones |-> 0] /\ NewReq.worker = NoWorker
  <2>1. <<>> \in Seq([zone : ConnZones, node : Ids])
    OBVIOUS
  <2>2. [z \in ReqZones |-> 0] \in [ReqZones -> Nat]
    OBVIOUS
  <2> QED BY <2>1, <2>2 DEF NewReq, ReqType
<1>3. /\ Done \in ReqType /\ Done.worker = NoWorker
      /\ Done.state = "done" /\ Done.passed = FALSE /\ Done.held = <<>>
  <2> HIDE DEF NewReq
  <2> QED BY <1>2 DEF Done, ReqType
<1> QED BY <1>1, <1>2, <1>3

(* A handler begins with an idle one. *)
LEMMA Begins ==
  ASSUME NEW w \in Workers, NEW r \in Requests, NEW t \in Int,
         h \in [Workers -> HandlerType]
  PROVE  /\ h' = [h EXCEPT ![w] = [Idle EXCEPT !.pc = "cleanup", !.req = r]] =>
              /\ h' \in [Workers -> HandlerType]
              /\ \A v \in Workers : v # w => h'[v] = h[v]
              /\ h'[w].pc = "cleanup" /\ h'[w].req = r
         /\ h' = [h EXCEPT ![w] = [Idle EXCEPT !.pc = "conn", !.req = r, !.n = 1]] =>
              /\ h' \in [Workers -> HandlerType]
              /\ \A v \in Workers : v # w => h'[v] = h[v]
              /\ h'[w].pc = "conn" /\ h'[w].req = r /\ h'[w].n = 1
         /\ h' = [h EXCEPT ![w] = [Idle EXCEPT !.pc = "lookup", !.req = r, !.n = 1,
                                               !.time = t]] =>
              /\ h' \in [Workers -> HandlerType]
              /\ \A v \in Workers : v # w => h'[v] = h[v]
              /\ h'[w].pc = "lookup" /\ h'[w].req = r /\ h'[w].n = 1 /\ h'[w].time = t
<1> DEFINE x0(l) == [Idle EXCEPT !.pc = l]
           x(l) == [x0(l) EXCEPT !.req = r]
           y(l) == [x(l) EXCEPT !.n = 1]
           u(l) == [y(l) EXCEPT !.time = t]
<1>0. ASSUME NEW l \in {"lookup", "conn", "cleanup"}
      PROVE  /\ x(l) \in HandlerType /\ x(l).pc = l /\ x(l).req = r
             /\ y(l) \in HandlerType /\ y(l).pc = l /\ y(l).req = r /\ y(l).n = 1
             /\ u(l) \in HandlerType /\ u(l).pc = l /\ u(l).req = r /\ u(l).n = 1
             /\ u(l).time = t
  <2>1. x0(l) \in HandlerType /\ x0(l).pc = l
    <3> HIDE DEF Idle
    <3> QED BY IdleType DEF HandlerType
  <2>2. x(l) \in HandlerType /\ x(l).pc = l /\ x(l).req = r
    <3> HIDE DEF x0
    <3> QED BY <2>1 DEF HandlerType
  <2>3. y(l) \in HandlerType /\ y(l).pc = l /\ y(l).req = r /\ y(l).n = 1
    <3> HIDE DEF x
    <3> QED BY <2>2 DEF HandlerType
  <2>4. /\ u(l) \in HandlerType /\ u(l).pc = l /\ u(l).req = r /\ u(l).n = 1
        /\ u(l).time = t
    <3> HIDE DEF y
    <3> QED BY <2>3 DEF HandlerType
  <2> HIDE DEF x, y, u
  <2> QED BY <2>2, <2>3, <2>4
<1>1. /\ x("cleanup") = [Idle EXCEPT !.pc = "cleanup", !.req = r]
      /\ y("conn") = [Idle EXCEPT !.pc = "conn", !.req = r, !.n = 1]
      /\ u("lookup") = [Idle EXCEPT !.pc = "lookup", !.req = r, !.n = 1, !.time = t]
  OBVIOUS
<1> HIDE DEF x, y, u
<1>2. /\ x("cleanup") \in HandlerType /\ x("cleanup").pc = "cleanup"
      /\ x("cleanup").req = r
      /\ y("conn") \in HandlerType /\ y("conn").pc = "conn" /\ y("conn").req = r
      /\ y("conn").n = 1
      /\ u("lookup") \in HandlerType /\ u("lookup").pc = "lookup"
      /\ u("lookup").req = r /\ u("lookup").n = 1 /\ u("lookup").time = t
  BY <1>0
<1>3. ASSUME NEW a \in HandlerType, h' = [h EXCEPT ![w] = a]
      PROVE  /\ h' \in [Workers -> HandlerType]
             /\ \A v \in Workers : v # w => h'[v] = h[v]
             /\ h'[w] = a
  BY <1>3
<1>4. ASSUME h' = [h EXCEPT ![w] = x("cleanup")]
      PROVE  /\ h' \in [Workers -> HandlerType]
             /\ \A v \in Workers : v # w => h'[v] = h[v]
             /\ h'[w].pc = "cleanup" /\ h'[w].req = r
  BY <1>2, <1>3, <1>4
<1>5. ASSUME h' = [h EXCEPT ![w] = y("conn")]
      PROVE  /\ h' \in [Workers -> HandlerType]
             /\ \A v \in Workers : v # w => h'[v] = h[v]
             /\ h'[w].pc = "conn" /\ h'[w].req = r /\ h'[w].n = 1
  BY <1>2, <1>3, <1>5
<1>6. ASSUME h' = [h EXCEPT ![w] = u("lookup")]
      PROVE  /\ h' \in [Workers -> HandlerType]
             /\ \A v \in Workers : v # w => h'[v] = h[v]
             /\ h'[w].pc = "lookup" /\ h'[w].req = r /\ h'[w].n = 1 /\ h'[w].time = t
  BY <1>2, <1>3, <1>6
<1> QED BY <1>1, <1>4, <1>5, <1>6

(* One field of a request changes. *)
LEMMA SetState ==
  ASSUME NEW y \in ReqType, NEW s \in {"new", "limiting", "delayed", "serving", "done"}
  PROVE  /\ [y EXCEPT !.state = s] \in ReqType
         /\ [y EXCEPT !.state = s].state = s
         /\ [y EXCEPT !.state = s].worker = y.worker
         /\ [y EXCEPT !.state = s].visit = y.visit
         /\ [y EXCEPT !.state = s].held = y.held
         /\ [y EXCEPT !.state = s].charged = y.charged
         /\ [y EXCEPT !.state = s].passed = y.passed
BY DEF ReqType

(* A request marked as passed is otherwise the same. *)
LEMMA SetPassed ==
  ASSUME NEW y \in ReqType
  PROVE  /\ [y EXCEPT !.passed = TRUE] \in ReqType
         /\ [y EXCEPT !.passed = TRUE].state = y.state
         /\ [y EXCEPT !.passed = TRUE].worker = y.worker
         /\ [y EXCEPT !.passed = TRUE].visit = y.visit
         /\ [y EXCEPT !.passed = TRUE].held = y.held
         /\ [y EXCEPT !.passed = TRUE].charged = y.charged
         /\ [y EXCEPT !.passed = TRUE].passed = TRUE
BY DEF ReqType

(* The worker goes on in its handler. *)
LEMMA Goes ==
  ASSUME IInv, NEW w \in Workers, Goto(w, "conn", 1) \/ Goto(w, "account", 1)
                                  \/ Goto(w, "cleanup", 1)
  PROVE  /\ h' \in [Workers -> HandlerType]
         /\ \A v \in Workers : v # w => h'[v] = h[v]
         /\ h'[w].n = 1 /\ h'[w].req = h[w].req /\ h'[w].time = h[w].time
         /\ Goto(w, "conn", 1) => h'[w].pc = "conn"
         /\ Goto(w, "account", 1) => h'[w].pc = "account"
         /\ Goto(w, "cleanup", 1) => h'[w].pc = "cleanup"
<1>1. h[w] \in HandlerType /\ h \in [Workers -> HandlerType]
  BY DEF IInv, TypeOK, HandlerType
<1>2. ASSUME NEW l \in {"conn", "account", "cleanup"}, Goto(w, l, 1)
      PROVE  /\ h' \in [Workers -> HandlerType]
             /\ \A v \in Workers : v # w => h'[v] = h[v]
             /\ h'[w].n = 1 /\ h'[w].req = h[w].req /\ h'[w].time = h[w].time
             /\ h'[w].pc = l
  <2> DEFINE x1 == [h[w] EXCEPT !.pc = l]
             x == [x1 EXCEPT !.n = 1]
  <2>1. x1 \in HandlerType /\ x1.pc = l /\ x1.req = h[w].req /\ x1.time = h[w].time
    BY <1>1 DEF HandlerType
  <2>2. x \in HandlerType /\ x.pc = l /\ x.req = h[w].req /\ x.time = h[w].time /\ x.n = 1
    <3> HIDE DEF x1
    <3> QED BY <2>1 DEF HandlerType
  <2>3. h' = [h EXCEPT ![w] = x]
    BY <1>1, <1>2 DEF Goto
  <2> HIDE DEF x
  <2> QED BY <1>1, <2>2, <2>3
<1> QED BY <1>2

(* What is known of the request a handler is at. *)
LEMMA MyRequest ==
  ASSUME IInv, NEW w \in Workers, h[w].pc # "idle"
  PROVE  /\ h[w].req \in Requests /\ Mine(w, h[w].req)
         /\ req[h[w].req] \in ReqType /\ req \in [Requests -> ReqType]
         /\ req[h[w].req].state = "limiting" /\ req[h[w].req].worker = w
         /\ req[h[w].req].visit \in Visits
         /\ h[w].pc \in Limiting => req[h[w].req].held = <<>> /\ h[w].time >= Start
BY DEF IInv, Owned, Mine, MoreTypes, HeldInv

(* A request arrives: it has been charged nothing and holds nothing. *)
LEMMA ArriveKeeps ==
  ASSUME IInv, NEW w \in Workers, NEW r \in Requests, NEW visit \in Visits, Arrive(w, r, visit)
  PROVE  IInv'
<1> DEFINE y1 == [req[r] EXCEPT !.state = "limiting"]
           y2 == [y1 EXCEPT !.worker = w]
           y == [y2 EXCEPT !.visit = visit]
<1>1. /\ h \in [Workers -> HandlerType] /\ req \in [Requests -> ReqType]
      /\ now \in Nat /\ now >= Start
      /\ h[w].pc = "idle" /\ req[r].state = "new"
  BY DEF IInv, TypeOK, HandlerType, MoreTypes, Arrive
<1>2. /\ h' \in [Workers -> HandlerType]
      /\ \A v \in Workers : v # w => h'[v] = h[v]
      /\ h'[w].pc = "lookup" /\ h'[w].req = r /\ h'[w].n = 1 /\ h'[w].time = now
  <2>1. now \in Int
    BY <1>1
  <2>2. h' = [h EXCEPT ![w] = [Idle EXCEPT !.pc = "lookup", !.req = r, !.n = 1, !.time = now]]
    BY DEF Arrive
  <2> QED BY <1>1, <2>1, <2>2, Begins
<1>3. /\ y1 \in ReqType /\ y1.state = "limiting" /\ y1.held = req[r].held
      /\ y1.charged = req[r].charged /\ y1.passed = req[r].passed
  BY <1>1, SetState
<1>4. /\ y2 \in ReqType /\ y2.state = "limiting" /\ y2.held = req[r].held
      /\ y2.charged = req[r].charged /\ y2.passed = req[r].passed /\ y2.worker = w
  <2> HIDE DEF y1
  <2> QED BY <1>3 DEF ReqType
<1>5. /\ y \in ReqType /\ y.state = "limiting" /\ y.held = req[r].held
      /\ y.charged = req[r].charged /\ y.passed = req[r].passed /\ y.worker = w
      /\ y.visit = visit
  <2> HIDE DEF y2
  <2> QED BY <1>4 DEF ReqType
<1>6. req' = [req EXCEPT ![r] = y]
  BY <1>1 DEF Arrive
<1> HIDE DEF y
<1>7. Only(w, r) /\ req'[r] = y
  BY <1>1, <1>2, <1>5, <1>6 DEF Only
<1>8. /\ req[r].held = <<>> /\ ~req[r].passed
      /\ \A z \in ReqZones : req[r].charged[z] = 0
  BY <1>1 DEF IInv, HeldInv, ChargeInv
<1>9. Mine(w, r) /\ Continues(w, r) /\ Holding(w, r)
  BY <1>1, <1>2, <1>5, <1>7, <1>8 DEF Mine, Continues, Holding
<1>10. Charges(w, r)
  <2>1. Limits(w)' = visit.limit_req
    BY <1>2, <1>5, <1>7 DEF Limits
  <2>2. \A j \in DOMAIN visit.limit_req : ~(j < 1)
    BY LimitsAssumption
  <2> QED BY <1>2, <1>5, <1>7, <1>8, <2>1, <2>2 DEF Charges, ChargedSoFar
<1>11. \A z \in ReqZones : node[w][z] = NoNode
  BY <1>1, NoPins DEF IInv, Limiting
<1> QED BY <1>7, <1>9, <1>10, <1>11, PlainKeeps DEF Arrive, bounds

(* When every limit has been looked at, what is left to charge is pinned. *)
LEMMA LookedKeeps ==
  ASSUME IInv, NEW w \in Workers, Looked(w)
  PROVE  IInv'
<1> DEFINE r == h[w].req
           v == req[r].visit
<1>1. /\ h[w].pc = "lookup" /\ ReqAhead(w) = {} /\ h[w].n \in Nat /\ h[w].n >= 1
      /\ UNCHANGED <<lr, queue, lc, node, now, crashes, faults>>
  BY DEF Looked, bounds, IInv, Owned, TypeOK
<1>2. /\ r \in Requests /\ Mine(w, r) /\ req[r] \in ReqType /\ req \in [Requests -> ReqType]
      /\ req[r].state = "limiting" /\ req[r].worker = w /\ v \in Visits
      /\ req[r].held = <<>> /\ h[w].time >= Start
  BY <1>1, MyRequest DEF Limiting
<1>3. /\ ~req[r].passed
      /\ \A z \in ReqZones : req[r].charged[z] = 0
      /\ \A j \in DOMAIN Limits(w) :
           j < h[w].n /\ Applies(v, Limits(w)[j].zone) => node[w][Limits(w)[j].zone] # NoNode
  BY <1>1 DEF IInv, ChargeInv, ChargedSoFar, Limiting
<1>4. \A z \in ReqZones : Applies(v, z) <=> node[w][z] # NoNode
  <2>1. ASSUME NEW z \in ReqZones, Applies(v, z) PROVE node[w][z] # NoNode
    <3>1. PICK j \in DOMAIN Limits(w) : Limits(w)[j].zone = z
      BY <2>1 DEF Applies, Limits
    <3>2. DOMAIN Limits(w) = 1 .. Len(Limits(w)) /\ Len(Limits(w)) \in Nat
      BY SMTT(30), <1>2, LimitsAssumption DEF Limits
    <3>3. Value(w, z) = v.value[z]
      BY DEF Value
    <3>4. ~(j >= h[w].n)
      BY <1>1, <2>1, <3>1, <3>2, <3>3 DEF ReqAhead, Ahead, Applies
    <3> QED BY <1>1, <1>3, <2>1, <3>1, <3>2, <3>4
  <2>2. \A z \in ReqZones : node[w][z] # NoNode => Applies(v, z)
    BY DEF IInv, LrInv, PinInv, PinnedBy
  <2> QED BY <2>1, <2>2
<1>5. CASE h[w].rc = "DECLINED"
  <2> DEFINE y == [req[r] EXCEPT !.passed = TRUE]
  <2>1. Goto(w, "conn", 1) /\ req' = [req EXCEPT ![r] = y]
    BY <1>5 DEF Looked
  <2>2. /\ y \in ReqType /\ y.state = "limiting" /\ y.held = <<>> /\ y.passed = TRUE
        /\ y.charged = req[r].charged /\ y.worker = w /\ y.visit = v
    BY <1>2, SetPassed
  <2> HIDE DEF y
  <2>3. /\ Only(w, r) /\ req'[r] = y
        /\ h'[w].pc = "conn" /\ h'[w].req = r /\ h'[w].n = 1
    BY <1>2, <2>1, <2>2, Goes DEF Only
  <2>4. \A z \in ReqZones : node[w][z] = NoNode
    BY <1>1, <1>5 DEF IInv, LrInv, PinInv, PinnedBy
  <2>5. Continues(w, r) /\ Holding(w, r)
    BY <1>2, <2>2, <2>3 DEF Continues, Holding, Limiting
  <2>6. Charges(w, r)
    BY <1>3, <1>4, <2>2, <2>3, <2>4 DEF Charges, ChargedSoFar, Limiting
  <2> HIDE DEF r
  <2> QED BY <1>1, <1>2, <2>3, <2>4, <2>5, <2>6, PlainKeeps
<1>6. CASE h[w].rc # "DECLINED"
  <2>1. Goto(w, "account", 1) /\ req' = req
    BY <1>6 DEF Looked
  <2>2. /\ Only(w, r) /\ req'[r] = req[r] /\ h'[w].time = h[w].time
        /\ h'[w].pc = "account" /\ h'[w].req = r /\ h'[w].n = 1
    BY <1>2, <2>1, Goes DEF Only
  <2>3. Continues(w, r) /\ Holding(w, r)
    BY <1>2, <2>2 DEF Continues, Holding
  <2>4. Charges(w, r)
    BY <1>3, <1>4, <2>2, <1>1 DEF Charges, ChargedSoFar
  <2>5. ASSUME NEW z \in ReqZones, node[w][z] # NoNode PROVE PinnedBy(w, z)'
    <3>1. PinnedBy(w, z)
      BY <2>5 DEF IInv, LrInv, PinInv
    <3>2. Limits(w)' = Limits(w) /\ Value(w, z)' = Value(w, z)
      BY <2>2 DEF Limits, Value
    <3> QED BY <1>1, <2>2, <3>1, <3>2 DEF PinnedBy, Limiting
  <2> HIDE DEF r
  <2> QED BY <1>1, <1>2, <2>2, <2>3, <2>4, <2>5, PlainKeeps
<1> QED BY <1>5, <1>6

(* The request ends: it holds nothing, and the worker has nothing pinned. *)
LEMMA EndKeeps ==
  ASSUME IInv, NEW w \in Workers, NEW r \in Requests, Mine(w, r), EndReq(r),
         Finish(w) \/ (h[w].pc = "idle" /\ UNCHANGED h),
         req[r].held = <<>>, \A z \in ReqZones : node[w][z] = NoNode,
         UNCHANGED <<lr, queue, lc, node, now, crashes, faults>>
  PROVE  IInv'
<1>1. h \in [Workers -> HandlerType] /\ req \in [Requests -> ReqType]
  BY DEF IInv, TypeOK, HandlerType, MoreTypes
<1>2. /\ h' \in [Workers -> HandlerType] /\ h'[w].pc = "idle"
      /\ \A v \in Workers : v # w => h'[v] = h[v]
  BY <1>1, IdleType DEF Finish
<1>3. req' = [req EXCEPT ![r] = Done]
  BY DEF EndReq
<1>4. Only(w, r) /\ req'[r] = Done
  BY <1>1, <1>2, <1>3, IdleType DEF Only
<1>5. Done.state = "done" /\ Done.held = <<>> /\ ~Done.passed
  BY IdleType
<1>6. Continues(w, r) /\ Holding(w, r)
  BY <1>2, <1>4, <1>5 DEF Continues, Holding
<1>7. Charges(w, r)
  BY <1>2, <1>4, <1>5 DEF Charges, ChargedSoFar, Limiting
<1> QED BY <1>4, <1>6, <1>7, PlainKeeps

(* The request changes its state, and the worker leaves its handler or     *)
(* begins the one of limit_conn or the cleanup.                            *)
LEMMA StateKeeps ==
  ASSUME IInv, NEW w \in Workers, NEW r \in Requests, Mine(w, r),
         NEW s \in {"limiting", "serving"}, req' = [req EXCEPT ![r].state = s],
         h' \in [Workers -> HandlerType], \A v \in Workers : v # w => h'[v] = h[v],
         h'[w].pc \in {"idle", "conn", "cleanup"},
         h'[w].pc # "idle" => h'[w].req = r /\ s = "limiting",
         h'[w].pc = "conn" => h'[w].n = 1 /\ req[r].held = <<>>,
         req[r].worker = w, req[r].visit \in Visits,
         \A z \in ReqZones : node[w][z] = NoNode,
         UNCHANGED <<lr, queue, lc, node, now, crashes, faults>>
  PROVE  IInv'
<1> DEFINE y == [req[r] EXCEPT !.state = s]
<1>1. req \in [Requests -> ReqType] /\ req' = [req EXCEPT ![r] = y]
  BY DEF IInv, MoreTypes
<1>2. /\ y \in ReqType /\ y.state = s /\ y.held = req[r].held /\ y.passed = req[r].passed
      /\ y.charged = req[r].charged /\ y.worker = w /\ y.visit = req[r].visit
  <2>1. req[r] \in ReqType /\ s \in {"new", "limiting", "delayed", "serving", "done"}
    BY <1>1
  <2> QED BY ZenonT(40), <2>1, SetState
<1> HIDE DEF y
<1>3. Only(w, r) /\ req'[r] = y
  BY <1>1, <1>2 DEF Only
<1>4. Continues(w, r) /\ Holding(w, r)
  BY <1>2, <1>3 DEF Continues, Holding, Limiting
<1>5. Charges(w, r)
  <2>1. ChargedSoFar(w)'
    BY DEF ChargedSoFar, Limiting
  <2>2. req[r].passed =>
          \A z \in ReqZones : req[r].charged[z] = IF Applies(req[r].visit, z) THEN 1 ELSE 0
    BY DEF IInv, ChargeInv
  <2> QED BY <1>2, <1>3, <2>1, <2>2 DEF Charges
<1> QED BY <1>3, <1>4, <1>5, PlainKeeps

(* The steps that end a request. *)
LEMMA EndsKeep ==
  ASSUME IInv, NEW w \in Workers
  PROVE  /\ Refuse(w) => IInv'
         /\ Closed(w) => IInv'
         /\ \A r \in Requests : ClientGone(w, r) => IInv'
<1>1. ASSUME Refuse(w) PROVE IInv'
  <2> DEFINE r == h[w].req
  <2>1. /\ h[w].pc = "undo" /\ Pinned(w) = {} /\ EndReq(r) /\ Finish(w)
        /\ UNCHANGED <<lr, queue, lc, node, now, crashes, faults>>
    BY <1>1 DEF Refuse, bounds
  <2>2. r \in Requests /\ Mine(w, r) /\ req[r].held = <<>>
    BY <2>1, MyRequest DEF Limiting
  <2>3. \A z \in ReqZones : node[w][z] = NoNode
    BY <2>1, NoPins DEF IInv
  <2> HIDE DEF r
  <2> QED BY <2>1, <2>2, <2>3, EndKeeps
<1>2. ASSUME Closed(w) PROVE IInv'
  <2> DEFINE r == h[w].req
  <2>1. /\ h[w].pc = "cleanup" /\ req[r].held = <<>> /\ EndReq(r) /\ Finish(w)
        /\ UNCHANGED <<lr, queue, lc, node, now, crashes, faults>>
    BY <1>2 DEF Closed, bounds
  <2>2. r \in Requests /\ Mine(w, r)
    BY <2>1, MyRequest
  <2>3. \A z \in ReqZones : node[w][z] = NoNode
    BY <2>1, NoPins DEF IInv, Limiting
  <2> HIDE DEF r
  <2> QED BY <2>1, <2>2, <2>3, EndKeeps
<1>3. ASSUME NEW r \in Requests, ClientGone(w, r) PROVE IInv'
  <2>1. /\ h[w].pc = "idle" /\ req[r].state = "delayed" /\ req[r].worker = w
        /\ EndReq(r) /\ UNCHANGED h
        /\ UNCHANGED <<lr, queue, lc, node, now, crashes, faults>>
    BY <1>3 DEF ClientGone, bounds
  <2>2. Mine(w, r) /\ req[r].held = <<>>
    BY <2>1 DEF Mine, IInv, HeldInv
  <2>3. \A z \in ReqZones : node[w][z] = NoNode
    BY <2>1, NoPins DEF IInv, Limiting
  <2> QED BY <2>1, <2>2, <2>3, EndKeeps
<1> QED BY <1>1, <1>2, <1>3

(* The steps that only change the state of a request. *)
LEMMA StatesKeep ==
  ASSUME IInv, NEW w \in Workers
  PROVE  /\ Serve(w) => IInv'
         /\ \A r \in Requests : Delayed(w, r) \/ Close(w, r) => IInv'
<1>0. h \in [Workers -> HandlerType] /\ 0 \in Int
  BY DEF IInv, TypeOK, HandlerType
<1>1. ASSUME Serve(w) PROVE IInv'
  <2> DEFINE r == h[w].req
  <2>1. /\ h[w].pc = "conn" /\ req' = [req EXCEPT ![r].state = "serving"] /\ Finish(w)
        /\ UNCHANGED <<lr, queue, lc, node, now, crashes, faults>>
    BY <1>1 DEF Serve, bounds
  <2>2. r \in Requests /\ Mine(w, r) /\ req[r].worker = w /\ req[r].visit \in Visits
    BY <2>1, MyRequest
  <2>3. \A z \in ReqZones : node[w][z] = NoNode
    BY <2>1, NoPins DEF IInv, Limiting
  <2>4. /\ h' \in [Workers -> HandlerType] /\ h'[w].pc = "idle"
        /\ \A v \in Workers : v # w => h'[v] = h[v]
    BY <1>0, <2>1, IdleType DEF Finish
  <2> HIDE DEF r
  <2> QED BY <2>1, <2>2, <2>3, <2>4, StateKeeps
<1>2. ASSUME NEW r \in Requests, Delayed(w, r) PROVE IInv'
  <2>1. /\ h[w].pc = "idle" /\ req[r].state = "delayed" /\ req[r].worker = w
        /\ req' = [req EXCEPT ![r].state = "limiting"]
        /\ h' = [h EXCEPT ![w] = [Idle EXCEPT !.pc = "conn", !.req = r, !.n = 1]]
        /\ UNCHANGED <<lr, queue, lc, node, now, crashes, faults>>
    BY <1>2 DEF Delayed, bounds
  <2>2. Mine(w, r) /\ req[r].held = <<>> /\ req[r].visit \in Visits
    BY <2>1 DEF Mine, IInv, HeldInv, Owned
  <2>3. \A z \in ReqZones : node[w][z] = NoNode
    BY <2>1, NoPins DEF IInv, Limiting
  <2>4. /\ h' \in [Workers -> HandlerType]
        /\ \A v \in Workers : v # w => h'[v] = h[v]
        /\ h'[w].pc = "conn" /\ h'[w].req = r /\ h'[w].n = 1
    BY <1>0, <2>1, Begins
  <2> QED BY <2>1, <2>2, <2>3, <2>4, StateKeeps
<1>3. ASSUME NEW r \in Requests, Close(w, r) PROVE IInv'
  <2>1. /\ h[w].pc = "idle" /\ req[r].state = "serving" /\ req[r].worker = w
        /\ req' = [req EXCEPT ![r].state = "limiting"]
        /\ h' = [h EXCEPT ![w] = [Idle EXCEPT !.pc = "cleanup", !.req = r]]
        /\ UNCHANGED <<lr, queue, lc, node, now, crashes, faults>>
    BY SMTT(30), <1>3 DEF Close, bounds
  <2>2. Mine(w, r) /\ req[r].visit \in Visits
    BY <2>1 DEF Mine, IInv, HeldInv, Owned
  <2>3. \A z \in ReqZones : node[w][z] = NoNode
    BY <2>1, NoPins DEF IInv, Limiting
  <2>4. /\ h' \in [Workers -> HandlerType]
        /\ \A v \in Workers : v # w => h'[v] = h[v]
        /\ h'[w].pc = "cleanup" /\ h'[w].req = r
    BY <1>0, <2>1, Begins
  <2> QED BY <2>1, <2>2, <2>3, <2>4, StateKeeps
<1> QED BY <1>1, <1>2, <1>3

(* A request that passes has been charged in every zone that applies. *)
LEMMA PassKeeps ==
  ASSUME IInv, NEW w \in Workers, Pass(w)
  PROVE  IInv'
<1> DEFINE r == h[w].req
           y1 == [req[r] EXCEPT !.passed = TRUE]
           y2 == [req[r] EXCEPT !.state = "delayed"]
           y3 == [y2 EXCEPT !.passed = TRUE]
<1>1. /\ h[w].pc = "account" /\ Pinned(w) = {} /\ h \in [Workers -> HandlerType]
      /\ UNCHANGED <<lr, queue, lc, node, now, crashes, faults>>
  BY DEF Pass, bounds, IInv, TypeOK, HandlerType
<1>2. /\ r \in Requests /\ Mine(w, r) /\ req[r] \in ReqType /\ req \in [Requests -> ReqType]
      /\ req[r].state = "limiting" /\ req[r].worker = w /\ req[r].visit \in Visits
      /\ req[r].held = <<>>
  BY <1>1, MyRequest DEF Limiting
<1>3. \A z \in ReqZones : node[w][z] = NoNode
  BY <1>1, NoPins DEF IInv
<1>4. \A z \in ReqZones : req[r].charged[z] = IF Applies(req[r].visit, z) THEN 1 ELSE 0
  BY <1>1, <1>3 DEF IInv, ChargeInv, ChargedSoFar
<1>5. \/ h[w].late /\ Finish(w) /\ req' = [req EXCEPT ![r] = y3]
      \/ ~h[w].late /\ Goto(w, "conn", 1) /\ req' = [req EXCEPT ![r] = y1]
  BY <1>2 DEF Pass
<1>6. /\ y1 \in ReqType /\ y1.state = "limiting" /\ y1.held = <<>> /\ y1.passed = TRUE
      /\ y1.charged = req[r].charged /\ y1.worker = w /\ y1.visit = req[r].visit
  BY <1>2, SetPassed
<1>7. /\ y2 \in ReqType /\ y2.state = "delayed" /\ y2.held = <<>>
      /\ y2.charged = req[r].charged /\ y2.worker = w /\ y2.visit = req[r].visit
  BY <1>2, SetState
<1>8. /\ y3 \in ReqType /\ y3.state = "delayed" /\ y3.held = <<>> /\ y3.passed = TRUE
      /\ y3.charged = req[r].charged /\ y3.worker = w /\ y3.visit = req[r].visit
  <2> HIDE DEF y2
  <2> QED BY <1>7, SetPassed
<1> HIDE DEF y1, y3
<1>9. PICK y \in {y1, y3} :
        /\ req' = [req EXCEPT ![r] = y]
        /\ h' \in [Workers -> HandlerType] /\ \A v \in Workers : v # w => h'[v] = h[v]
        /\ h'[w].pc \in {"idle", "conn"}
        /\ h'[w].pc = "conn" => y = y1 /\ h'[w].req = r /\ h'[w].n = 1
  <2>1. CASE Finish(w) /\ req' = [req EXCEPT ![r] = y3]
    BY <1>1, <2>1, IdleType DEF Finish
  <2>2. CASE Goto(w, "conn", 1) /\ req' = [req EXCEPT ![r] = y1]
    BY <2>2, Goes
  <2> QED BY <1>5, <2>1, <2>2
<1>10. /\ y \in ReqType /\ y.held = <<>> /\ y.passed = TRUE /\ y.state \in {"limiting", "delayed"}
       /\ y.charged = req[r].charged /\ y.worker = w /\ y.visit = req[r].visit
  BY <1>6, <1>8
<1>11. Only(w, r) /\ req'[r] = y
  BY <1>2, <1>9, <1>10 DEF Only
<1>12. Continues(w, r) /\ Holding(w, r)
  BY <1>2, <1>6, <1>9, <1>10, <1>11 DEF Continues, Holding, Limiting
<1>13. Charges(w, r)
  BY <1>4, <1>9, <1>10, <1>11 DEF Charges, ChargedSoFar, Limiting
<1> HIDE DEF r
<1> QED BY <1>1, <1>2, <1>3, <1>11, <1>12, <1>13, PlainKeeps

(* A refusal of limit_conn. *)
LEMMA ConnRefusedKeeps ==
  ASSUME IInv, NEW w \in Workers, ConnRefused(w)
  PROVE  IInv'
<1> DEFINE r == h[w].req
<1>1. /\ h[w].pc = "conn" /\ Goto(w, "cleanup", 1) /\ req' = req
      /\ UNCHANGED <<lr, queue, lc, node, now, crashes, faults>>
  BY DEF ConnRefused, bounds
<1>2. /\ r \in Requests /\ Mine(w, r) /\ req \in [Requests -> ReqType]
      /\ req[r].state = "limiting" /\ req[r].worker = w /\ req[r].visit \in Visits
  BY <1>1, MyRequest
<1>3. \A z \in ReqZones : node[w][z] = NoNode
  BY <1>1, NoPins DEF IInv, Limiting
<1>4. Only(w, r) /\ h'[w].pc = "cleanup" /\ h'[w].req = r
  BY <1>1, <1>2, Goes DEF Only
<1>5. Continues(w, r) /\ Holding(w, r)
  BY <1>1, <1>2, <1>4 DEF Continues, Holding, Limiting
<1>6. Charges(w, r)
  <2>1. ChargedSoFar(w)'
    BY <1>4 DEF ChargedSoFar, Limiting
  <2>2. req[r].passed =>
          \A z \in ReqZones : req[r].charged[z] = IF Applies(req[r].visit, z) THEN 1 ELSE 0
    BY <1>2 DEF IInv, ChargeInv
  <2> QED BY <1>1, <2>1, <2>2 DEF Charges
<1> HIDE DEF r
<1> QED BY <1>1, <1>2, <1>3, <1>4, <1>5, <1>6, PlainKeeps

-----------------------------------------------------------------------------
(* Steps that change the nodes of the limit_conn zones. *)

(* Smallest takes the least element. *)
LEMMA SmallestIn ==
  ASSUME NEW T \in SUBSET Nat, T # {}
  PROVE  Smallest(T) \in T /\ \A m \in T : Smallest(T) <= m
BY LeastNat DEF Smallest

(* An element put in front of a sequence, and taken away again. *)
LEMMA InFront ==
  ASSUME NEW T, NEW s \in Seq(T), NEW c \in T
  PROVE  /\ <<c>> \o s \in Seq(T)
         /\ DOMAIN (<<c>> \o s) = 1 .. Len(s) + 1
         /\ (<<c>> \o s)[1] = c
         /\ \A m \in 1 .. Len(s) + 1 : m # 1 => m - 1 \in DOMAIN s /\ (<<c>> \o s)[m] = s[m - 1]
         /\ Range(<<c>> \o s) = Range(s) \cup {c}
<1>1. Len(s) \in Nat /\ DOMAIN s = 1 .. Len(s) /\ <<c>> \in Seq(T) /\ Len(<<c>>) = 1
  OBVIOUS
<1> DEFINE p == <<c>> \o s
<1>2. /\ p \in Seq(T) /\ Len(p) = Len(s) + 1
      /\ \A m \in 1 .. Len(s) + 1 : p[m] = IF m <= 1 THEN <<c>>[m] ELSE s[m - 1]
  BY <1>1, ConcatProperties
<1>3. DOMAIN p = 1 .. Len(s) + 1
  BY <1>1, <1>2
<1> HIDE DEF p
<1>4. p[1] = c /\ \A m \in 1 .. Len(s) + 1 : m # 1 => m - 1 \in DOMAIN s /\ p[m] = s[m - 1]
  BY <1>1, <1>2
<1>5. \A m \in DOMAIN s : m + 1 \in DOMAIN p /\ p[m + 1] = s[m]
  BY <1>1, <1>3, <1>4
<1>6. Range(p) = Range(s) \cup {c}
  <2>1. 1 \in DOMAIN p
    BY <1>1, <1>3
  <2> QED BY <1>3, <1>4, <1>5, <2>1 DEF Range
<1> QED BY <1>2, <1>3, <1>4, <1>6 DEF p

(* The elements of a sequence without its first. *)
LEMMA FirstAway ==
  ASSUME NEW T, NEW s \in Seq(T), s # <<>>
  PROVE  /\ Head(s) \in T /\ 1 \in DOMAIN s /\ Head(s) = s[1]
         /\ Tail(s) \in Seq(T)
         /\ DOMAIN Tail(s) = 1 .. Len(s) - 1
         /\ \A m \in 1 .. Len(s) - 1 : m + 1 \in DOMAIN s /\ Tail(s)[m] = s[m + 1]
         /\ \A m \in DOMAIN s : m = 1 \/ (m - 1 \in 1 .. Len(s) - 1 /\ Tail(s)[m - 1] = s[m])
<1>1. Len(s) \in Nat /\ DOMAIN s = 1 .. Len(s) /\ Len(s) # 0
  BY EmptySeq
<1>2. Head(s) \in T /\ Head(s) = s[1] /\ Tail(s) \in Seq(T) /\ Len(Tail(s)) = Len(s) - 1
  BY HeadTailProperties
<1>3. \A m \in 1 .. Len(s) - 1 : Tail(s)[m] = s[m + 1]
  BY SMTT(30), HeadTailProperties
<1> QED BY <1>1, <1>2, <1>3

(* HeldInv, of one request and of one worker. *)
HeldBy(r) ==
  /\ req[r].state \in {"new", "delayed", "done"} => req[r].held = <<>>
  /\ \A m, n \in DOMAIN req[r].held :
       req[r].held[m].zone = req[r].held[n].zone => m = n
  /\ \A m \in DOMAIN req[r].held :
       LET c == req[r].held[m]
       IN  lc[c.zone][c.node] # Free /\ lc[c.zone][c.node].key = req[r].visit.value[c.zone]

HeldIn(w) ==
  /\ h[w].pc \in Limiting => req[h[w].req].held = <<>>
  /\ h[w].pc = "conn" =>
       \A m \in DOMAIN req[h[w].req].held :
         \E j \in DOMAIN ConnLimits(w) :
           j < h[w].n /\ ConnLimits(w)[j].zone = req[h[w].req].held[m].zone

(* Together they are HeldInv. *)
LEMMA HeldParts ==
  ASSUME \A r \in Requests : HeldBy(r)', \A w \in Workers : HeldIn(w)'
  PROVE  HeldInv'
BY SMTT(30) DEF HeldInv, HeldBy, HeldIn

(* What is held, when the node of one entry changes and the worker's       *)
(* request gets or gives back this entry.                                  *)
LEMMA HeldChanges ==
  ASSUME Owned, HeldInv, NEW w \in Workers, NEW r \in Requests, Mine(w, r), Only(w, r),
         Continues(w, r),
         req'[r].state \notin {"delayed", "done"},
         \A m, n \in DOMAIN req'[r].held :
           req'[r].held[m].zone = req'[r].held[n].zone => m = n,
         \A m \in DOMAIN req'[r].held :
           /\ lc'[req'[r].held[m].zone][req'[r].held[m].node] # Free
           /\ lc'[req'[r].held[m].zone][req'[r].held[m].node].key
                = req'[r].visit.value[req'[r].held[m].zone],
         \A q \in Requests : q # r =>
           \A m \in DOMAIN req[q].held :
             /\ lc'[req[q].held[m].zone][req[q].held[m].node] # Free
             /\ lc'[req[q].held[m].zone][req[q].held[m].node].key
                  = lc[req[q].held[m].zone][req[q].held[m].node].key,
         h'[w].pc \notin Limiting,
         h'[w].pc = "conn" =>
           \A m \in DOMAIN req'[r].held :
             \E j \in DOMAIN req'[r].visit.limit_conn :
               /\ j < h'[w].n
               /\ req'[r].visit.limit_conn[j].zone = req'[r].held[m].zone
  PROVE  HeldInv'
<1>1. ASSUME NEW q \in Requests
      PROVE  HeldBy(q)'
  <2>1. CASE q # r
    <3>1. req'[q] = req[q]
      BY SMTT(30), <2>1 DEF Only
    <3> QED BY SMTT(30), <2>1, <3>1 DEF HeldInv, HeldBy
  <2>2. CASE q = r
    <3>1. req'[r].state # "new"
      BY SMTT(30) DEF Continues
    <3> QED BY SMTT(30), <2>2, <3>1 DEF HeldBy
  <2> QED BY SMTT(30), <2>1, <2>2
<1>2. ASSUME NEW v \in Workers
      PROVE  HeldIn(v)'
  <2>1. CASE v = w
    <3>1. h'[w].pc = "conn" => h'[w].req = r /\ ConnLimits(w)' = req'[r].visit.limit_conn
      BY SMTT(30) DEF Continues, ConnLimits
    <3> QED BY SMTT(30), <2>1, <3>1 DEF HeldIn
  <2>2. CASE v # w /\ h[v].pc # "idle"
    <3>1. /\ h'[v] = h[v] /\ req'[h[v].req] = req[h[v].req]
          /\ ConnLimits(v)' = ConnLimits(v)
      BY SMTT(30), <2>2, Others
    <3> QED BY SMTT(30), <3>1 DEF HeldInv, HeldIn
  <2>3. CASE v # w /\ h[v].pc = "idle"
    <3>1. h'[v].pc = "idle"
      BY SMTT(30), <2>3 DEF Only
    <3> QED BY SMTT(30), <3>1 DEF Limiting, HeldIn
  <2> QED BY SMTT(30), <2>1, <2>2, <2>3
<1>3. (\A q \in Requests : HeldBy(q)') /\ (\A v \in Workers : HeldIn(v)')
  BY <1>1, <1>2
<1> QED BY SMTT(30), <1>3, HeldParts

LcType == [ConnZones -> [Ids -> [key : Keys, conn : Nat \ {0}] \cup {Free}]]

(* The rest of the invariant, in such a step. *)
LEMMA ConnKeeps ==
  ASSUME IInv, NEW w \in Workers, NEW r \in Requests, Mine(w, r), Only(w, r),
         Continues(w, r), h'[w].pc \notin Limiting, h[w].pc \notin Limiting,
         req'[r].passed = req[r].passed, req'[r].charged = req[r].charged,
         req'[r].visit = req[r].visit,
         lc' \in LcType, faults' \in Nat, HeldInv', ConnInv',
         UNCHANGED <<lr, queue, node, now, crashes>>
  PROVE  IInv'
<1>1. TypeOK' /\ MoreTypes'
  <2>1. \A q \in Requests : req'[q].worker \in Workers \cup {NoWorker}
    BY DEF Only, ReqType
  <2> QED BY <2>1 DEF IInv, TypeOK, MoreTypes, Only, HandlerType, LcType
<1>2. Owned'
  BY OwnedKept DEF IInv
<1>3. \A z \in ReqZones : node[w][z] = NoNode
  BY NoPins DEF IInv
<1>4. LrInv'
  BY <1>3, PinsSame DEF IInv
<1>5. Charges(w, r)
  <2>1. ChargedSoFar(w)'
    BY DEF ChargedSoFar, Limiting
  <2>2. req[r].passed =>
          \A z \in ReqZones : req[r].charged[z] = IF Applies(req[r].visit, z) THEN 1 ELSE 0
    BY DEF IInv, ChargeInv
  <2> QED BY <2>1, <2>2 DEF Charges
<1>6. ChargeInv'
  BY <1>5, ChargeKept DEF IInv
<1> QED BY <1>1, <1>2, <1>4, <1>6 DEF IInv

(* An entry is what is held of a node. *)
Entry(z, i) == [zone |-> z, node |-> i]

(* An entry of a request is known by its zone and its node. *)
LEMMA EntryIs ==
  ASSUME NEW c \in [zone : ConnZones, node : Ids], NEW z, NEW i
  PROVE  c = Entry(z, i) <=> c.zone = z /\ c.node = i
BY DEF Entry

(* Nothing is left of two counts that are nothing together. *)
LEMMA BothZero ==
  ASSUME NEW a \in Nat, NEW b \in Nat, a + b = 0
  PROVE  a = 0 /\ b = 0
OBVIOUS

(* The counts, when those of one node change with its holders. *)
LEMMA ConnChanges ==
  ASSUME TypeOK, ConnInv, NEW z \in ConnZones, NEW i \in Ids, lc' \in LcType,
         \A y \in ConnZones, j \in Ids : y # z \/ j # i =>
           lc'[y][j] = lc[y][j] /\ Holders(y, j)' = Holders(y, j),
         crashes' = crashes, crashes \in Nat, faults \in Nat, faults' \in Nat,
         faults' = 0 => faults = 0,
         lc'[z][i] # Free =>
           /\ lc'[z][i].conn >= Cardinality(Holders(z, i)')
           /\ crashes' + faults' = 0 => lc'[z][i].conn = Cardinality(Holders(z, i)')
           /\ lc'[z][i].conn <= MaxConn[z]
  PROVE  ConnInv'
<1> SUFFICES ASSUME NEW y \in ConnZones, NEW j \in Ids, lc'[y][j] # Free
             PROVE  /\ lc'[y][j].conn >= Cardinality(Holders(y, j)')
                    /\ crashes' + faults' = 0 => lc'[y][j].conn = Cardinality(Holders(y, j)')
                    /\ lc'[y][j].conn <= MaxConn[y]
  BY DEF ConnInv
<1>1. CASE y = z /\ j = i
  BY <1>1
<1>2. CASE y # z \/ j # i
  <2>1. lc'[y][j] = lc[y][j] /\ Holders(y, j)' = Holders(y, j)
    BY <1>2
  <2>2. crashes' + faults' = 0 => crashes + faults = 0
    <3>1. crashes \in Nat /\ faults' \in Nat /\ crashes' = crashes /\ (faults' = 0 => faults = 0)
      OBVIOUS
    <3>2. crashes + faults' = 0 => crashes = 0 /\ faults' = 0
      BY <3>1, BothZero
    <3> QED BY <3>1, <3>2
  <2> QED BY <2>1, <2>2 DEF ConnInv
<1> QED BY <1>1, <1>2

(* Who holds what, when the request of a step holds one entry more or less.*)
LEMMA HoldersChange ==
  ASSUME NEW r \in Requests, \A q \in Requests : q # r => req'[q].held = req[q].held,
         NEW z, NEW i
  PROVE  /\ (Entry(z, i) \in Range(req'[r].held) <=> Entry(z, i) \in Range(req[r].held)) =>
              Holders(z, i)' = Holders(z, i)
         /\ Entry(z, i) \in Range(req'[r].held) => Holders(z, i)' = Holders(z, i) \cup {r}
         /\ Entry(z, i) \notin Range(req'[r].held) => Holders(z, i)' = Holders(z, i) \ {r}
         /\ r \in Holders(z, i) <=> Entry(z, i) \in Range(req[r].held)
BY DEF Holders, Entry

(* The holders are finitely many. *)
LEMMA HoldersFinite ==
  ASSUME NEW z, NEW i
  PROVE  IsFiniteSet(Holders(z, i)) /\ Cardinality(Holders(z, i)) \in Nat
<1>1. Holders(z, i) \subseteq Requests /\ IsFiniteSet(Requests)
  BY ActorsAssumption DEF Holders
<1> QED BY <1>1, FS_Subset, FS_CardinalityType

(* What a request gives back is a count of its own: a node is freed with   *)
(* the last of its holders.                                                *)
LEMMA ConnCleanupKeeps ==
  ASSUME IInv, NEW w \in Workers, ConnCleanup(w)
  PROVE  IInv'
<1>a. PICK r : r = h[w].req
  OBVIOUS
<1> DEFINE held == req[r].held
           c == Head(held)
           y == [req[r] EXCEPT !.held = Tail(held)]
<1>b. PICK z, i : z = c.zone /\ i = c.node
  OBVIOUS
<1> DEFINE nd == lc[z][i]
<1>1. /\ h[w].pc = "cleanup" /\ held # <<>> /\ h' = h
      /\ lc' = [lc EXCEPT ![z][i] = IF nd.conn = 1 THEN Free ELSE [nd EXCEPT !.conn = nd.conn - 1]]
      /\ req' = [req EXCEPT ![r] = y]
      /\ UNCHANGED <<lr, queue, node, now, crashes, faults>>
  BY <1>a, <1>b DEF ConnCleanup, bounds
<1>2. /\ r \in Requests /\ Mine(w, r) /\ req[r] \in ReqType /\ req \in [Requests -> ReqType]
      /\ req[r].state = "limiting" /\ req[r].worker = w /\ req[r].visit \in Visits
  BY <1>a, <1>1, MyRequest
<1>3. held \in Seq([zone : ConnZones, node : Ids])
  BY <1>2 DEF ReqType
<1>4. /\ c \in [zone : ConnZones, node : Ids] /\ 1 \in DOMAIN held /\ c = held[1]
      /\ Tail(held) \in Seq([zone : ConnZones, node : Ids])
      /\ DOMAIN Tail(held) = 1 .. Len(held) - 1
      /\ \A m \in 1 .. Len(held) - 1 : m + 1 \in DOMAIN held /\ Tail(held)[m] = held[m + 1]
      /\ \A m \in DOMAIN held :
           m = 1 \/ (m - 1 \in 1 .. Len(held) - 1 /\ Tail(held)[m - 1] = held[m])
  <2> HIDE DEF held
  <2> QED BY <1>1, <1>3, FirstAway
<1>5. /\ y \in ReqType /\ y.held = Tail(held) /\ y.state = req[r].state
      /\ y.worker = req[r].worker /\ y.visit = req[r].visit /\ y.charged = req[r].charged
      /\ y.passed = req[r].passed
  <2> HIDE DEF held
  <2> QED BY <1>2, <1>4 DEF ReqType
<1> HIDE DEF y
<1>6. Only(w, r) /\ req'[r] = y /\ \A q \in Requests : q # r => req'[q].held = req[q].held
  BY <1>1, <1>2, <1>5 DEF Only, IInv, TypeOK, HandlerType
<1>7. Continues(w, r)
  BY SMTT(30), <1>a, <1>1, <1>2, <1>5, <1>6 DEF Continues, Limiting
<1>8. /\ \A m, n \in DOMAIN held : held[m].zone = held[n].zone => m = n
      /\ \A m \in DOMAIN held : /\ lc[held[m].zone][held[m].node] # Free
                                /\ lc[held[m].zone][held[m].node].key
                                     = req[r].visit.value[held[m].zone]
  BY <1>2 DEF IInv, HeldInv
<1>9. z \in ConnZones /\ i \in Ids /\ nd # Free
  BY <1>b, <1>4, <1>8
<1>10. lc \in LcType /\ nd \in [key : Keys, conn : Nat \ {0}]
  <2>1. lc \in LcType
    BY DEF IInv, TypeOK, LcType
  <2> QED BY <1>9, <2>1 DEF LcType
<1> DEFINE nd1 == [nd EXCEPT !.conn = nd.conn - 1]
           new == IF nd.conn = 1 THEN Free ELSE nd1
<1>11. /\ nd.conn # 1 => /\ nd1 \in [key : Keys, conn : Nat \ {0}]
                         /\ nd1.conn = nd.conn - 1 /\ nd1.key = nd.key
       /\ nd.conn \in Nat /\ nd.conn >= 1
  <2> HIDE DEF nd
  <2> QED BY <1>10
<1>11a. nd.conn # 1 => nd1 # Free
  <2>1. Free.key = NoKey
    BY DEF Free
  <2> HIDE DEF nd1
  <2> QED BY <1>11, <2>1, LimitsAssumption
<1> HIDE DEF nd1
<1>12. /\ lc'[z][i] = new
       /\ \A a \in ConnZones, j \in Ids : a # z \/ j # i => lc'[a][j] = lc[a][j]
       /\ lc' \in LcType
  <2>1. new \in [key : Keys, conn : Nat \ {0}] \cup {Free}
    BY <1>11
  <2>2. lc' = [lc EXCEPT ![z][i] = new]
    BY <1>1 DEF nd1
  <2> HIDE DEF new
  <2> QED BY <1>9, <1>10, <2>1, <2>2 DEF LcType
<1>13. /\ Entry(z, i) \in Range(held) /\ Entry(z, i) \notin Range(Tail(held))
       /\ \A a \in ConnZones, j \in Ids : a # z \/ j # i =>
            (Entry(a, j) \in Range(Tail(held)) <=> Entry(a, j) \in Range(held))
  <2>0. \A m \in DOMAIN held : held[m] \in [zone : ConnZones, node : Ids]
    <3> HIDE DEF held
    <3>1. DOMAIN held = 1 .. Len(held)
      BY <1>3
    <3> QED BY <1>3, <3>1, ElementOfSeq
  <2>1. c = Entry(z, i)
    BY <1>b, <1>4, EntryIs
  <2>2. Entry(z, i) \in Range(held)
    BY <1>4, <2>1 DEF Range
  <2>3. ASSUME NEW m \in DOMAIN Tail(held) PROVE Tail(held)[m] # Entry(z, i)
    <3>1. m + 1 \in DOMAIN held /\ Tail(held)[m] = held[m + 1] /\ m + 1 # 1
      BY <1>4
    <3>2. held[m + 1].zone # held[1].zone
      BY <1>4, <1>8, <3>1
    <3> QED BY <1>b, <1>4, <2>0, <3>1, <3>2, EntryIs
  <2>4. ASSUME NEW a \in ConnZones, NEW j \in Ids, a # z \/ j # i
        PROVE  Entry(a, j) \in Range(Tail(held)) <=> Entry(a, j) \in Range(held)
    <3>1. c # Entry(a, j)
      BY <1>b, <1>4, <2>4, EntryIs
    <3>2. Entry(a, j) \in Range(Tail(held)) => Entry(a, j) \in Range(held)
      BY <1>4 DEF Range
    <3>3. ASSUME Entry(a, j) \in Range(held) PROVE Entry(a, j) \in Range(Tail(held))
      <4> HIDE DEF held
      <4>1. PICK m \in DOMAIN held : held[m] = Entry(a, j)
        BY <3>3 DEF Range
      <4>2. m # 1
        BY <1>4, <3>1, <4>1
      <4>3. m - 1 \in DOMAIN Tail(held) /\ Tail(held)[m - 1] = Entry(a, j)
        BY <1>4, <4>1, <4>2
      <4> QED BY <4>3 DEF Range
    <3> QED BY <3>2, <3>3
  <2> QED BY <2>2, <2>3, <2>4 DEF Range
<1>14. /\ Holders(z, i)' = Holders(z, i) \ {r} /\ r \in Holders(z, i)
       /\ \A a \in ConnZones, j \in Ids : a # z \/ j # i => Holders(a, j)' = Holders(a, j)
  <2>1. req'[r].held = Tail(held)
    BY <1>5, <1>6
  <2>2. \A q \in Requests : q # r => req'[q].held = req[q].held
    BY <1>6
  <2>3. Holders(z, i)' = Holders(z, i) \ {r}
    BY <1>2, <1>13, <2>1, <2>2, HoldersChange
  <2>4. r \in Holders(z, i)
    BY <1>2, <1>13, <2>2, HoldersChange
  <2>5. ASSUME NEW a \in ConnZones, NEW j \in Ids, a # z \/ j # i
        PROVE  Holders(a, j)' = Holders(a, j)
    <3>1. Entry(a, j) \in Range(req'[r].held) <=> Entry(a, j) \in Range(req[r].held)
      BY <1>13, <2>1, <2>5
    <3> QED BY <1>2, <2>2, <3>1, HoldersChange
  <2> QED BY <2>3, <2>4, <2>5
<1>15. /\ Cardinality(Holders(z, i)') = Cardinality(Holders(z, i)) - 1
       /\ Cardinality(Holders(z, i)) \in Nat
  <2> QED BY <1>14, HoldersFinite, FS_RemoveElement
<1>16. nd.conn >= Cardinality(Holders(z, i)) /\ nd.conn <= MaxConn[z]
       /\ (crashes + faults = 0 => nd.conn = Cardinality(Holders(z, i)))
  BY <1>9 DEF IInv, ConnInv
<1>17. ConnInv'
  <2>1. new # Free => /\ new.conn >= Cardinality(Holders(z, i)')
                      /\ crashes' + faults' = 0 => new.conn = Cardinality(Holders(z, i)')
                      /\ new.conn <= MaxConn[z]
    <3>1. MaxConn[z] \in Nat
      BY <1>9, LimitsAssumption
    <3>2. new # Free => nd.conn # 1 /\ new = nd1 /\ new.conn = nd.conn - 1
      BY <1>11
    <3> HIDE DEF new, nd
    <3> QED BY <1>1, <1>11, <1>15, <1>16, <3>1, <3>2
  <2>2. TypeOK /\ ConnInv /\ crashes \in Nat /\ faults \in Nat /\ crashes' = crashes /\ faults' = faults
    BY <1>1 DEF IInv, MoreTypes
  <2>3. \A a \in ConnZones, j \in Ids : a # z \/ j # i =>
          lc'[a][j] = lc[a][j] /\ Holders(a, j)' = Holders(a, j)
    BY <1>12, <1>14
  <2>4. lc'[z][i] # Free =>
          /\ lc'[z][i].conn >= Cardinality(Holders(z, i)')
          /\ crashes' + faults' = 0 => lc'[z][i].conn = Cardinality(Holders(z, i)')
          /\ lc'[z][i].conn <= MaxConn[z]
    BY SMTT(30), <1>12, <2>1
  <2> HIDE DEF new, nd
  <2> QED BY <1>9, <1>12, <2>2, <2>3, <2>4, ConnChanges
<1>18. ASSUME NEW q \in Requests, NEW m \in DOMAIN req[q].held,
              q # r \/ m # 1
       PROVE  /\ lc'[req[q].held[m].zone][req[q].held[m].node] # Free
              /\ lc'[req[q].held[m].zone][req[q].held[m].node].key
                   = lc[req[q].held[m].zone][req[q].held[m].node].key
  <2> DEFINE d == req[q].held[m]
  <2>1. d \in [zone : ConnZones, node : Ids] /\ req[q].held \in Seq([zone : ConnZones, node : Ids])
    <3>1. req[q] \in ReqType
      BY <1>2
    <3>2. req[q].held \in Seq([zone : ConnZones, node : Ids])
      BY <3>1 DEF ReqType
    <3>3. m \in 1 .. Len(req[q].held)
      BY <3>2
    <3> QED BY <3>2, <3>3, ElementOfSeq
  <2>2. lc[d.zone][d.node] # Free
    BY DEF IInv, HeldInv
  <2>3. CASE d.zone # z \/ d.node # i
    BY SMTT(30), <1>12, <2>1, <2>2, <2>3
  <2>4. CASE d.zone = z /\ d.node = i
    <3>1. q # r
      BY <1>b, <1>4, <1>8, <1>18, <2>4
    <3>2. d = Entry(z, i) /\ q \in Holders(z, i)
      BY <2>1, <2>4, EntryIs DEF Holders, Entry, Range
    <3>3. nd.conn # 1
      <4>1. q \in Holders(z, i) \ {r}
        BY <3>1, <3>2
      <4>2. Cardinality(Holders(z, i) \ {r}) # 0 /\ Cardinality(Holders(z, i) \ {r}) \in Nat
        <5>1. IsFiniteSet(Holders(z, i) \ {r})
          BY HoldersFinite, FS_RemoveElement
        <5> QED BY <4>1, <5>1, FS_EmptySet, FS_CardinalityType
      <4>3. Cardinality(Holders(z, i) \ {r}) = Cardinality(Holders(z, i)) - 1
        BY <1>14, <1>15
      <4> HIDE DEF nd
      <4> QED BY <1>11, <1>15, <1>16, <4>2, <4>3
    <3>4. lc'[z][i] = nd1
      BY SMTT(30), <1>12, <3>3
    <3> QED BY SMTT(30), <1>11, <1>11a, <2>4, <3>3, <3>4
  <2> QED BY <2>3, <2>4
<1>19. HeldInv'
  <2>1. req'[r].held = Tail(held) /\ req'[r].visit = req[r].visit /\ req'[r].state = "limiting"
    BY <1>2, <1>5, <1>6
  <2>2. ASSUME NEW m \in DOMAIN Tail(held), NEW n \in DOMAIN Tail(held),
               Tail(held)[m].zone = Tail(held)[n].zone
        PROVE  m = n
    <3> HIDE DEF held
    <3>1. m + 1 \in DOMAIN held /\ n + 1 \in DOMAIN held /\ m \in Int /\ n \in Int
      BY <1>4
    <3>2. held[m + 1].zone = held[n + 1].zone
      BY <1>4, <2>2
    <3>3. m + 1 = n + 1
      BY <1>8, <3>1, <3>2
    <3> QED BY <3>1, <3>3
  <2>3. ASSUME NEW m \in DOMAIN Tail(held)
        PROVE  /\ lc'[Tail(held)[m].zone][Tail(held)[m].node] # Free
               /\ lc'[Tail(held)[m].zone][Tail(held)[m].node].key
                    = req[r].visit.value[Tail(held)[m].zone]
    <3>1. m + 1 \in DOMAIN held /\ Tail(held)[m] = held[m + 1] /\ m + 1 # 1
      BY <1>4
    <3>2. /\ lc'[held[m + 1].zone][held[m + 1].node] # Free
          /\ lc'[held[m + 1].zone][held[m + 1].node].key
               = lc[held[m + 1].zone][held[m + 1].node].key
      BY <1>2, <1>18, <3>1
    <3> HIDE DEF held
    <3> QED BY SMTT(30), <1>8, <3>1, <3>2
  <2>4. h'[w].pc = "cleanup" /\ h'[w].pc \notin Limiting
    BY <1>1 DEF Limiting
  <2>5. Owned /\ HeldInv
    BY SMTT(30) DEF IInv
  <2>6. \A q \in Requests : q # r =>
          \A m \in DOMAIN req[q].held :
            /\ lc'[req[q].held[m].zone][req[q].held[m].node] # Free
            /\ lc'[req[q].held[m].zone][req[q].held[m].node].key
                 = lc[req[q].held[m].zone][req[q].held[m].node].key
    BY <1>18
  <2> DEFINE hp == req'[r].held
  <2>7. \A m, n \in DOMAIN hp : hp[m].zone = hp[n].zone => m = n
    BY SMTT(30), <2>1, <2>2
  <2>8. \A m \in DOMAIN hp : /\ lc'[hp[m].zone][hp[m].node] # Free
                             /\ lc'[hp[m].zone][hp[m].node].key = req'[r].visit.value[hp[m].zone]
    BY <2>1, <2>3
  <2>9. req'[r].state \notin {"delayed", "done"} /\ h'[w].pc # "conn"
    BY <2>1, <2>4
  <2> HIDE DEF held
  <2> QED BY <1>2, <1>6, <1>7, <2>4, <2>5, <2>6, <2>7, <2>8, <2>9, HeldChanges
<1>20. /\ h'[w].pc \notin Limiting /\ h[w].pc \notin Limiting
       /\ req'[r].passed = req[r].passed /\ req'[r].charged = req[r].charged
       /\ req'[r].visit = req[r].visit /\ faults' \in Nat
  BY <1>1, <1>5, <1>6 DEF Limiting, IInv, MoreTypes
<1> QED BY <1>1, <1>2, <1>6, <1>7, <1>12, <1>17, <1>19, <1>20, ConnKeeps

(* The limit of limit_conn that is looked at: its zone applies, and none   *)
(* of those before it has the same.                                        *)
LEMMA NextConnLimit ==
  ASSUME IInv, NEW w \in Workers, h[w].pc = "conn", ConnAhead(w) # {}
  PROVE  \E n \in DOMAIN ConnLimits(w) :
           /\ n = Smallest(ConnAhead(w)) /\ n >= h[w].n /\ n \in Nat
           /\ ConnLimits(w)[n] \in [zone : ConnZones, conn : Nat]
           /\ ConnLimits(w)[n].conn \in Nat \ {0}
           /\ ConnLimits(w)[n].conn <= MaxConn[ConnLimits(w)[n].zone]
           /\ Value(w, ConnLimits(w)[n].zone) \in Keys
           /\ \A j \in DOMAIN ConnLimits(w) : j \in Nat
           /\ \A j \in DOMAIN ConnLimits(w) : j < n => ConnLimits(w)[j].zone # ConnLimits(w)[n].zone
<1> DEFINE v == req[h[w].req].visit
           n == Smallest(ConnAhead(w))
           L == ConnLimits(w)
<1>1. v \in Visits /\ h[w].n \in Nat /\ h[w].n >= 1 /\ L = v.limit_conn
  BY MyRequest DEF IInv, TypeOK, Owned, ConnLimits
<1> HIDE DEF v
<1>2. /\ L \in Seq([zone : ConnZones, conn : Nat])
      /\ v.value \in [ReqZones \cup ConnZones -> Keys \cup {NoKey}]
      /\ \A i \in DOMAIN L : /\ \A j \in 1 .. i - 1 : L[j].zone # L[i].zone
                             /\ L[i].conn \in 1 .. MaxConn[L[i].zone]
  BY <1>1, LimitsAssumption
<1> HIDE DEF L
<1>3. Len(L) \in Nat /\ DOMAIN L = 1 .. Len(L)
  BY <1>2
<1>4. ConnAhead(w) = {i \in h[w].n .. Len(L) : LET k == Value(w, L[i].zone)
                                               IN  k # NoKey /\ KeyLen[k] <= 255}
  BY DEF ConnAhead, Ahead, L
<1>5. n \in ConnAhead(w)
  <2>1. ConnAhead(w) \in SUBSET Nat
    BY <1>1, <1>3, <1>4
  <2> QED BY <2>1, SmallestIn
<1> HIDE DEF n
<1>6. n \in DOMAIN L /\ n \in Nat /\ n >= h[w].n /\ Value(w, L[n].zone) # NoKey
  BY <1>1, <1>3, <1>4, <1>5
<1>7. L[n] \in [zone : ConnZones, conn : Nat]
  BY <1>2, <1>3, <1>6, ElementOfSeq
<1>8. Value(w, L[n].zone) \in Keys
  <2>1. Value(w, L[n].zone) = v.value[L[n].zone]
    BY DEF Value, v
  <2>2. L[n].zone \in ReqZones \cup ConnZones
    BY <1>7
  <2> QED BY <1>2, <1>6, <2>1, <2>2
<1>9. L[n].conn \in Nat \ {0} /\ L[n].conn <= MaxConn[L[n].zone]
  <2>1. MaxConn[L[n].zone] \in Nat /\ L[n].conn \in 1 .. MaxConn[L[n].zone]
    BY <1>2, <1>6, <1>7, LimitsAssumption
  <2> QED BY <2>1
<1>10. \A j \in DOMAIN L : j \in Nat /\ (j < n => L[j].zone # L[n].zone)
  BY <1>2, <1>3, <1>6
<1> QED BY <1>6, <1>7, <1>8, <1>9, <1>10 DEF n, L

(* A connection is counted in the node of its key, within the limit.  When *)
(* memory runs out the count stays without a holder.                       *)
LEMMA ConnCountKeeps ==
  ASSUME IInv, NEW w \in Workers, NEW noMemory \in BOOLEAN, ConnCount(w, noMemory)
  PROVE  IInv'
<1>a. PICK r : r = h[w].req
  OBVIOUS
<1>b. PICK n \in DOMAIN ConnLimits(w) :
           /\ n = Smallest(ConnAhead(w)) /\ n >= h[w].n /\ n \in Nat
           /\ ConnLimits(w)[n] \in [zone : ConnZones, conn : Nat]
           /\ ConnLimits(w)[n].conn \in Nat \ {0}
           /\ ConnLimits(w)[n].conn <= MaxConn[ConnLimits(w)[n].zone]
           /\ Value(w, ConnLimits(w)[n].zone) \in Keys
           /\ \A j \in DOMAIN ConnLimits(w) : j \in Nat
           /\ \A j \in DOMAIN ConnLimits(w) : j < n => ConnLimits(w)[j].zone # ConnLimits(w)[n].zone
  BY NextConnLimit DEF ConnCount
<1>c. PICK z \in ConnZones : z = ConnLimits(w)[n].zone
  BY <1>b
<1>d. PICK k \in Keys : k = Value(w, z)
  BY <1>b, <1>c
<1> DEFINE found == ConnFound(z, k)
           places == IF found = {} THEN Ids \ Allocated(lc[z]) ELSE found
<1>e. PICK i : i = Smallest(places)
  OBVIOUS
<1>f. PICK new : new = [key |-> k, conn |-> IF found = {} THEN 1 ELSE lc[z][i].conn + 1]
  OBVIOUS
<1>1. /\ h[w].pc = "conn"
      /\ IF found = {} THEN Allocated(lc[z]) # Ids ELSE lc[z][i].conn < ConnLimits(w)[n].conn
      /\ lc' = [lc EXCEPT ![z][i] = new]
      /\ IF noMemory
         THEN faults' = faults + 1 /\ Goto(w, "cleanup", 1) /\ UNCHANGED req
         ELSE /\ req' = [req EXCEPT ![r].held = <<Entry(z, i)>> \o @]
              /\ Goto(w, "conn", n + 1)
              /\ UNCHANGED faults
      /\ UNCHANGED <<lr, queue, node, now, crashes>>
  BY <1>a, <1>b, <1>c, <1>d, <1>e, <1>f DEF ConnCount, Entry
<1>2. /\ r \in Requests /\ Mine(w, r) /\ req[r] \in ReqType /\ req \in [Requests -> ReqType]
      /\ req[r].state = "limiting" /\ req[r].worker = w /\ req[r].visit \in Visits
  BY <1>a, <1>1, MyRequest
<1>3. lc \in LcType /\ crashes \in Nat /\ faults \in Nat /\ k # NoKey
  BY LimitsAssumption DEF IInv, TypeOK, LcType, MoreTypes
<1>4. i \in places /\ places \subseteq Ids
  <2>1. places \in SUBSET Nat
    BY DEF ConnFound, Ids
  <2>2. places # {}
    BY <1>1 DEF Allocated
  <2>3. places \subseteq Ids
    BY DEF ConnFound
  <2> HIDE DEF places
  <2> QED BY <1>e, <2>1, <2>2, <2>3, SmallestIn
<1>5. i \in Ids /\ (found = {} => lc[z][i] = Free) /\ (found # {} => lc[z][i].key = k)
  BY <1>4 DEF ConnFound, Allocated
<1>6. found # {} => lc[z][i] # Free /\ lc[z][i] \in [key : Keys, conn : Nat \ {0}]
  <2>1. Free.key = NoKey
    BY DEF Free
  <2>2. lc[z][i] \in [key : Keys, conn : Nat \ {0}] \cup {Free}
    BY <1>3, <1>5 DEF LcType
  <2> QED BY <1>3, <1>5, <2>1, <2>2
<1>7. /\ new \in [key : Keys, conn : Nat \ {0}] /\ new.key = k /\ new # Free
      /\ new.conn = IF found = {} THEN 1 ELSE lc[z][i].conn + 1
  <2>1. PICK c \in Nat \ {0} : c = IF found = {} THEN 1 ELSE lc[z][i].conn + 1
    <3> HIDE DEF found
    <3> QED BY <1>6
  <2>2. new = [key |-> k, conn |-> c]
    BY <1>f, <2>1
  <2>3. Free.key = NoKey
    BY DEF Free
  <2> HIDE DEF found
  <2> QED BY <1>3, <2>1, <2>2, <2>3
<1>8. /\ lc'[z][i] = new
      /\ \A a \in ConnZones, j \in Ids : a # z \/ j # i => lc'[a][j] = lc[a][j]
      /\ lc' \in LcType
  BY <1>1, <1>3, <1>5, <1>7 DEF LcType
<1>9. /\ new.conn <= MaxConn[z]
  <2>1. MaxConn[z] \in Nat /\ ConnLimits(w)[n].conn \in Nat /\ ConnLimits(w)[n].conn >= 1
        /\ ConnLimits(w)[n].conn <= MaxConn[z]
    BY SMTT(30), <1>b, <1>c, LimitsAssumption
  <2> HIDE DEF found
  <2> QED BY <1>1, <1>6, <1>7, <2>1
<1>10. ASSUME NEW q \in Requests, NEW m \in DOMAIN req[q].held
       PROVE  /\ req[q].held[m] \in [zone : ConnZones, node : Ids]
              /\ lc'[req[q].held[m].zone][req[q].held[m].node] # Free
              /\ lc'[req[q].held[m].zone][req[q].held[m].node].key
                   = lc[req[q].held[m].zone][req[q].held[m].node].key
              /\ lc[req[q].held[m].zone][req[q].held[m].node].key
                   = req[q].visit.value[req[q].held[m].zone]
  <2> DEFINE d == req[q].held[m]
  <2>1. d \in [zone : ConnZones, node : Ids]
    <3>1. req[q] \in ReqType
      BY <1>2
    <3>2. req[q].held \in Seq([zone : ConnZones, node : Ids])
      BY <3>1 DEF ReqType
    <3>3. m \in 1 .. Len(req[q].held)
      BY <3>2
    <3> QED BY <3>2, <3>3, ElementOfSeq
  <2>2. lc[d.zone][d.node] # Free /\ lc[d.zone][d.node].key = req[q].visit.value[d.zone]
    BY SMTT(30) DEF IInv, HeldInv
  <2>3. CASE d.zone # z \/ d.node # i
    BY <1>8, <2>1, <2>2, <2>3
  <2>4. CASE d.zone = z /\ d.node = i
    <3>1. found # {}
      BY SMTT(30), <1>5, <2>2, <2>4
    <3> QED BY <1>5, <1>7, <1>8, <2>1, <2>2, <2>4, <3>1
  <2> QED BY <2>1, <2>2, <2>3, <2>4
<1>11. found = {} => Holders(z, i) = {}
  <2> SUFFICES ASSUME found = {}, NEW q \in Holders(z, i) PROVE FALSE
    OBVIOUS
  <2>1. PICK m \in DOMAIN req[q].held : req[q].held[m] = Entry(z, i)
    BY DEF Holders, Range, Entry
  <2>2. req[q].held[m].zone = z /\ req[q].held[m].node = i
    BY <2>1 DEF Entry
  <2> QED BY <1>5, <2>2 DEF IInv, HeldInv, Holders
<1>12. /\ Cardinality(Holders(z, i)) \in Nat /\ IsFiniteSet(Holders(z, i))
       /\ new.conn >= Cardinality(Holders(z, i)) + 1
       /\ crashes + faults = 0 => new.conn = Cardinality(Holders(z, i)) + 1
  <2>1. Cardinality(Holders(z, i)) \in Nat /\ IsFiniteSet(Holders(z, i))
    BY HoldersFinite
  <2>2. CASE found = {}
    <3>1. new.conn = 1 /\ Cardinality(Holders(z, i)) = 0
      BY <1>7, <1>11, <2>2, FS_EmptySet
    <3> QED BY <2>1, <3>1
  <2>3. CASE found # {}
    <3>1. /\ lc[z][i].conn >= Cardinality(Holders(z, i))
          /\ crashes + faults = 0 => lc[z][i].conn = Cardinality(Holders(z, i))
      BY <1>5, <1>6, <2>3 DEF IInv, ConnInv
    <3>2. lc[z][i].conn \in Nat /\ new.conn = lc[z][i].conn + 1
      BY <1>6, <1>7, <2>3
    <3> QED BY <2>1, <3>1, <3>2
  <2> QED BY <2>1, <2>2, <2>3
<1>13. CASE noMemory
  <2>1. /\ faults' = faults + 1 /\ Goto(w, "cleanup", 1) /\ req' = req
    BY <1>1, <1>13
  <2>2. Only(w, r) /\ h'[w].pc = "cleanup" /\ h'[w].req = r
    BY <1>a, <1>2, <2>1, Goes DEF Only
  <2>3. Continues(w, r)
    BY <1>2, <2>1, <2>2 DEF Continues, Limiting
  <2>4. \A a, j : Holders(a, j)' = Holders(a, j)
    BY <2>1 DEF Holders
  <2>5. faults' \in Nat /\ faults' # 0
    BY <1>3, <2>1
  <2>6. ConnInv'
    <3>1. /\ lc'[z][i].conn >= Cardinality(Holders(z, i)')
          /\ crashes' + faults' = 0 => lc'[z][i].conn = Cardinality(Holders(z, i)')
          /\ lc'[z][i].conn <= MaxConn[z]
      <4>1. crashes' + faults' # 0
        BY <1>1, <1>3, <2>5, BothZero
      <4>2. new.conn \in Nat
        BY <1>7
      <4> QED BY <1>8, <1>9, <1>12, <2>4, <4>1, <4>2
    <3>2. \A a \in ConnZones, j \in Ids : a # z \/ j # i =>
            lc'[a][j] = lc[a][j] /\ Holders(a, j)' = Holders(a, j)
      BY <1>8, <2>4
    <3>3. TypeOK /\ ConnInv /\ crashes' = crashes
      BY SMTT(30), <1>1 DEF IInv
    <3> QED BY <1>3, <1>5, <1>8, <2>5, <3>1, <3>2, <3>3, ConnChanges
  <2>7. HeldInv'
    <3> DEFINE hp == req'[r].held
    <3>1. \A m, l \in DOMAIN hp : hp[m].zone = hp[l].zone => m = l
      BY SMTT(30), <1>2, <2>1 DEF IInv, HeldInv
    <3>2. \A m \in DOMAIN hp : /\ lc'[hp[m].zone][hp[m].node] # Free
                             /\ lc'[hp[m].zone][hp[m].node].key = req'[r].visit.value[hp[m].zone]
      BY SMTT(30), <1>2, <1>10, <2>1
    <3>3. \A q \in Requests : q # r =>
            \A m \in DOMAIN req[q].held :
              /\ lc'[req[q].held[m].zone][req[q].held[m].node] # Free
              /\ lc'[req[q].held[m].zone][req[q].held[m].node].key
                   = lc[req[q].held[m].zone][req[q].held[m].node].key
      BY <1>10
    <3>4. /\ req'[r].state \notin {"delayed", "done"} /\ h'[w].pc # "conn"
          /\ h'[w].pc \notin Limiting /\ Owned /\ HeldInv
      BY <1>2, <2>1, <2>2 DEF Limiting, IInv
    <3> QED BY <1>2, <2>2, <2>3, <3>1, <3>2, <3>3, <3>4, HeldChanges
  <2>8. /\ h'[w].pc \notin Limiting /\ h[w].pc \notin Limiting
        /\ req'[r].passed = req[r].passed /\ req'[r].charged = req[r].charged
        /\ req'[r].visit = req[r].visit
    BY <1>1, <2>1, <2>2 DEF Limiting
  <2> QED BY <1>1, <1>2, <1>8, <2>2, <2>3, <2>5, <2>6, <2>7, <2>8, ConnKeeps
<1>14. CASE ~noMemory
  <2> DEFINE held == req[r].held
             e == Entry(z, i)
             held1 == <<e>> \o held
             y == [req[r] EXCEPT !.held = held1]
             x1 == [h[w] EXCEPT !.pc = "conn"]
             x == [x1 EXCEPT !.n = n + 1]
  <2>1. /\ faults' = faults /\ req' = [req EXCEPT ![r] = y]
        /\ h' = [h EXCEPT ![w] = x]
    <3>1. h \in [Workers -> HandlerType]
      BY DEF IInv, TypeOK, HandlerType
    <3> QED BY <1>1, <1>14, <3>1 DEF Goto
  <2>2. /\ h \in [Workers -> HandlerType] /\ x \in HandlerType /\ x.pc = "conn"
        /\ x.n = n + 1 /\ x.req = r
    <3>1. h \in [Workers -> HandlerType] /\ h[w] \in HandlerType
      BY DEF IInv, TypeOK, HandlerType
    <3>2. x1 \in HandlerType /\ x1.pc = "conn" /\ x1.req = r
      BY <1>a, <3>1 DEF HandlerType
    <3> HIDE DEF x1
    <3> QED BY <1>b, <3>1, <3>2 DEF HandlerType
  <2> HIDE DEF x
  <2>3. held \in Seq([zone : ConnZones, node : Ids]) /\ e \in [zone : ConnZones, node : Ids]
        /\ e.zone = z /\ e.node = i
    BY <1>2, <1>5 DEF ReqType, Entry
  <2> HIDE DEF e, held
  <2>4. /\ held1 \in Seq([zone : ConnZones, node : Ids])
        /\ DOMAIN held1 = 1 .. Len(held) + 1
        /\ held1[1] = e
        /\ \A m \in 1 .. Len(held) + 1 : m # 1 => m - 1 \in DOMAIN held /\ held1[m] = held[m - 1]
        /\ Range(held1) = Range(held) \cup {e}
    <3> DEFINE T == [zone : ConnZones, node : Ids]
    <3>1. held \in Seq(T) /\ e \in T
      BY <2>3
    <3> HIDE DEF T
    <3>2. /\ held1 \in Seq(T)
          /\ DOMAIN held1 = 1 .. Len(held) + 1
          /\ held1[1] = e
      BY <3>1, InFront
    <3>3. \A m \in 1 .. Len(held) + 1 : m # 1 => m - 1 \in DOMAIN held /\ held1[m] = held[m - 1]
      BY <3>1, InFront
    <3>4. Range(held1) = Range(held) \cup {e}
      BY <3>1, InFront
    <3> QED BY <3>2, <3>3, <3>4 DEF T
  <2> HIDE DEF held1
  <2>5. /\ y \in ReqType /\ y.held = held1 /\ y.state = req[r].state
        /\ y.worker = req[r].worker /\ y.visit = req[r].visit /\ y.charged = req[r].charged
        /\ y.passed = req[r].passed
    BY <1>2, <2>4 DEF ReqType
  <2> HIDE DEF y
  <2>6. /\ Only(w, r) /\ req'[r] = y /\ h'[w] = x
        /\ \A q \in Requests : q # r => req'[q].held = req[q].held
    BY <1>2, <2>1, <2>2, <2>5 DEF Only
  <2>7. Continues(w, r)
    BY <1>b, <1>2, <2>2, <2>5, <2>6 DEF Continues, Limiting
  <2>8. ConnLimits(w) = req[r].visit.limit_conn /\ Value(w, z) = req[r].visit.value[z]
    BY <1>a DEF ConnLimits, Value
  <2>9. ASSUME NEW m \in DOMAIN held
        PROVE  /\ held[m].zone # z
               /\ \E j \in DOMAIN ConnLimits(w) : j < n + 1 /\ ConnLimits(w)[j].zone = held[m].zone
    <3>1. PICK j \in DOMAIN ConnLimits(w) : j < h[w].n /\ ConnLimits(w)[j].zone = held[m].zone
      BY <1>a, <1>1, <2>9 DEF IInv, HeldInv, held
    <3>2. h[w].n \in Nat
      BY DEF IInv, TypeOK
    <3>3. j < n /\ j < n + 1
      BY <1>b, <3>1, <3>2
    <3> QED BY SMTT(30), <1>b, <1>c, <3>1, <3>3
  <2>10. e \notin Range(held)
    BY <2>3, <2>9 DEF Range
  <2>11. /\ Holders(z, i)' = Holders(z, i) \cup {r} /\ r \notin Holders(z, i)
         /\ \A a \in ConnZones, j \in Ids : a # z \/ j # i => Holders(a, j)' = Holders(a, j)
    <3>1. req'[r].held = held1 /\ req[r].held = held
      BY <2>5, <2>6 DEF held
    <3>2. Holders(z, i)' = Holders(z, i) \cup {r}
      <4>1. Entry(z, i) \in Range(req'[r].held)
        BY <2>4, <3>1 DEF e
      <4> QED BY <1>2, <2>6, <4>1, HoldersChange
    <3>3. r \notin Holders(z, i)
      <4>1. Entry(z, i) \notin Range(req[r].held)
        BY <2>10, <3>1 DEF e
      <4> QED BY <1>2, <2>6, <4>1, HoldersChange
    <3>4. ASSUME NEW a \in ConnZones, NEW j \in Ids, a # z \/ j # i
          PROVE  Holders(a, j)' = Holders(a, j)
      <4>1. e # Entry(a, j)
        BY <2>3, <3>4, EntryIs
      <4>2. Entry(a, j) \in Range(req'[r].held) <=> Entry(a, j) \in Range(req[r].held)
        BY <2>4, <3>1, <4>1
      <4> QED BY <1>2, <2>6, <4>2, HoldersChange
    <3> QED BY <3>2, <3>3, <3>4
  <2>12. Cardinality(Holders(z, i)') = Cardinality(Holders(z, i)) + 1
    BY <1>12, <2>11, FS_AddElement
  <2>13. ConnInv'
    <3>1. /\ lc'[z][i].conn >= Cardinality(Holders(z, i)')
          /\ crashes' + faults' = 0 => lc'[z][i].conn = Cardinality(Holders(z, i)')
          /\ lc'[z][i].conn <= MaxConn[z]
      <4>1. crashes' = crashes /\ faults' = faults
        BY <1>1, <2>1
      <4> QED BY <1>8, <1>9, <1>12, <2>12, <4>1
    <3>2. \A a \in ConnZones, j \in Ids : a # z \/ j # i =>
            lc'[a][j] = lc[a][j] /\ Holders(a, j)' = Holders(a, j)
      BY <1>8, <2>11
    <3>3. TypeOK /\ ConnInv /\ crashes' = crashes /\ faults' = faults
      BY SMTT(30), <1>1, <2>1 DEF IInv
    <3> QED BY <1>3, <1>5, <1>8, <3>1, <3>2, <3>3, ConnChanges
  <2>14. HeldInv'
    <3> DEFINE hp == req'[r].held
    <3>0. hp = held1 /\ req[r].held = held /\ Len(held) \in Nat
      BY <2>3, <2>5, <2>6 DEF held
    <3> HIDE DEF hp
    <3>1. ASSUME NEW m \in DOMAIN hp, NEW l \in DOMAIN hp, hp[m].zone = hp[l].zone
          PROVE  m = l
      <4>1. \A a, b \in DOMAIN held : held[a].zone = held[b].zone => a = b
        BY <1>2, <3>0 DEF IInv, HeldInv
      <4>2. m \in 1 .. Len(held) + 1 /\ l \in 1 .. Len(held) + 1
        BY <2>4, <3>0
      <4>3. CASE m = 1 /\ l # 1
        BY <2>3, <2>4, <2>9, <3>0, <3>1, <4>2, <4>3
      <4>4. CASE m # 1 /\ l = 1
        BY <2>3, <2>4, <2>9, <3>0, <3>1, <4>2, <4>4
      <4>5. CASE m # 1 /\ l # 1
        <5>1. m - 1 \in DOMAIN held /\ l - 1 \in DOMAIN held /\ held[m - 1].zone = held[l - 1].zone
          BY <2>4, <3>0, <3>1, <4>2, <4>5
        <5>2. m - 1 = l - 1
          BY <4>1, <5>1
        <5> QED BY <4>2, <5>2
      <4> QED BY <4>3, <4>4, <4>5
    <3>2. ASSUME NEW m \in DOMAIN hp
          PROVE  /\ lc'[hp[m].zone][hp[m].node] # Free
                 /\ lc'[hp[m].zone][hp[m].node].key = req'[r].visit.value[hp[m].zone]
      <4>1. CASE m = 1
        BY SMTT(30), <1>d, <1>7, <1>8, <2>3, <2>4, <2>5, <2>6, <2>8, <3>0, <4>1
      <4>2. CASE m # 1
        <5>1. m - 1 \in DOMAIN req[r].held /\ hp[m] = req[r].held[m - 1]
          BY SMTT(30), <2>4, <3>0, <4>2
        <5>2. /\ lc'[req[r].held[m - 1].zone][req[r].held[m - 1].node] # Free
              /\ lc'[req[r].held[m - 1].zone][req[r].held[m - 1].node].key
                   = req[r].visit.value[req[r].held[m - 1].zone]
          BY <1>2, <1>10, <5>1
        <5> QED BY <2>5, <2>6, <5>1, <5>2
      <4> QED BY <4>1, <4>2
    <3>3. \A q \in Requests : q # r =>
            \A m \in DOMAIN req[q].held :
              /\ lc'[req[q].held[m].zone][req[q].held[m].node] # Free
              /\ lc'[req[q].held[m].zone][req[q].held[m].node].key
                   = lc[req[q].held[m].zone][req[q].held[m].node].key
      BY <1>10
    <3>4. /\ req'[r].state \notin {"delayed", "done"} /\ h'[w].pc \notin Limiting
          /\ Owned /\ HeldInv
      BY <1>2, <2>2, <2>5, <2>6 DEF Limiting, IInv
    <3>5. ASSUME NEW m \in DOMAIN hp
          PROVE  \E j \in DOMAIN req'[r].visit.limit_conn :
                   /\ j < h'[w].n
                   /\ req'[r].visit.limit_conn[j].zone = hp[m].zone
      <4>0. req'[r].visit.limit_conn = ConnLimits(w) /\ h'[w].n = n + 1 /\ n < n + 1
        BY <1>b, <2>2, <2>5, <2>6, <2>8
      <4>1. CASE m = 1
        <5>1. ConnLimits(w)[n].zone = hp[m].zone
          BY <1>c, <2>3, <2>4, <3>0, <4>1
        <5> QED BY <4>0, <5>1
      <4>2. CASE m # 1
        <5>1. m - 1 \in DOMAIN held /\ hp[m] = held[m - 1]
          BY <2>4, <3>0, <4>2
        <5> QED BY <2>9, <4>0, <5>1
      <4> QED BY <4>1, <4>2
    <3> QED BY SMTT(30), <1>2, <2>6, <2>7, <3>1, <3>2, <3>3, <3>4, <3>5, HeldChanges DEF hp
  <2>15. /\ h'[w].pc \notin Limiting /\ h[w].pc \notin Limiting
         /\ req'[r].passed = req[r].passed /\ req'[r].charged = req[r].charged
         /\ req'[r].visit = req[r].visit /\ faults' \in Nat
    BY <1>1, <1>3, <2>1, <2>2, <2>5, <2>6 DEF Limiting
  <2> QED BY <1>1, <1>2, <1>8, <2>6, <2>7, <2>13, <2>14, <2>15, ConnKeeps
<1> QED BY <1>13, <1>14

-----------------------------------------------------------------------------
(* What leaks, and what a node has in excess. *)

Leak(z, ms) == (Rate[z] * ms) \div 1000

(* Division by a thousand rounds down. *)
LEMMA Thousandth ==
  ASSUME NEW x \in Nat
  PROVE  /\ x \div 1000 \in Nat
         /\ 1000 * (x \div 1000) <= x
         /\ x < 1000 * (x \div 1000) + 1000
OBVIOUS

(* In a time that two others cover, at most a thousandth more leaks than   *)
(* in both.                                                                *)
LEMMA LeakBound ==
  ASSUME NEW z \in ReqZones, NEW a \in Nat, NEW b \in Nat, NEW c \in Nat, c <= a + b
  PROVE  /\ Leak(z, a) \in Nat /\ Leak(z, b) \in Nat /\ Leak(z, c) \in Nat
         /\ Leak(z, c) <= Leak(z, a) + Leak(z, b) + 1
<1>1. PICK R \in Nat : R = Rate[z]
  BY LimitsAssumption
<1>2. PICK d \in Nat : a + b = c + d
  <2>1. a + b - c \in Nat /\ a + b = c + (a + b - c)
    OBVIOUS
  <2> QED BY <2>1
<1>3. R * a \in Nat /\ R * b \in Nat /\ R * c \in Nat /\ R * d \in Nat
  OBVIOUS
<1>4. R * a + R * b = R * c + R * d
  <2>1. R * (a + b) = R * a + R * b /\ R * (c + d) = R * c + R * d
    OBVIOUS
  <2> QED BY <1>2, <2>1
<1>5. R * c <= R * a + R * b
  BY <1>3, <1>4
<1> DEFINE qa == (R * a) \div 1000
           qb == (R * b) \div 1000
           qc == (R * c) \div 1000
<1>6. /\ qa \in Nat /\ R * a < 1000 * qa + 1000
      /\ qb \in Nat /\ R * b < 1000 * qb + 1000
      /\ qc \in Nat /\ 1000 * qc <= R * c
  BY <1>3, Thousandth
<1>7. qc <= qa + qb + 1
  <2> HIDE DEF qa, qb, qc
  <2> QED BY <1>3, <1>5, <1>6
<1> QED BY <1>1, <1>6, <1>7 DEF Leak

(* A distance in time. *)
LEMMA AbsIs ==
  ASSUME NEW x \in Int, NEW y \in Int, NEW t \in Int
  PROVE  /\ Abs(x - y) \in Nat /\ Abs(x - t) \in Nat /\ Abs(t - y) \in Nat
         /\ Abs(x - y) <= Abs(t - y) + Abs(x - t)
BY DEF Abs

(* What one request adds to a node that another has just been charged in:  *)
(* one request more than that one, at most, and one request and a          *)
(* thousandth more than it would have been before.                         *)
LEMMA ExcessBound ==
  ASSUME NEW z \in ReqZones, NEW n, n.excess \in Nat, n.last \in Int,
         NEW m, NEW t \in Int, NEW s \in Int,
         m.excess = Excess(z, n, t), m.last = t
  PROVE  /\ Excess(z, n, t) \in Nat /\ Excess(z, n, s) \in Nat /\ Excess(z, m, s) \in Nat
         /\ Excess(z, m, s) <= Excess(z, n, t) + 1000
         /\ Excess(z, m, s) <= Excess(z, n, s) + 1001
<1>1. PICK a \in Nat, b \in Nat, c \in Nat :
        /\ a = Abs(t - n.last) /\ b = Abs(s - t) /\ c = Abs(s - n.last) /\ c <= a + b
  BY AbsIs
<1>2. PICK la \in Nat, lb \in Nat, lc0 \in Nat :
        la = Leak(z, a) /\ lb = Leak(z, b) /\ lc0 = Leak(z, c) /\ lc0 <= la + lb + 1
  BY SMTT(30), <1>1, LeakBound
<1>3. PICK e \in Nat : e = n.excess
  OBVIOUS
<1>4. Excess(z, n, t) = AtLeast0(e - la + 1000)
  BY <1>1, <1>2, <1>3 DEF Excess, Leak
<1>5. Excess(z, n, s) = AtLeast0(e - lc0 + 1000)
  BY <1>1, <1>2, <1>3 DEF Excess, Leak
<1>6. Excess(z, m, s) = AtLeast0(AtLeast0(e - la + 1000) - lb + 1000)
  BY <1>1, <1>2, <1>4 DEF Excess, Leak
<1> QED BY <1>2, <1>4, <1>5, <1>6 DEF AtLeast0

(* A node that has just been made has been leaking since the beginning of  *)
(* time, which is long enough.                                             *)
LEMMA ExcessNew ==
  ASSUME NEW z \in ReqZones, NEW n, n.excess = 0, n.last = 0, NEW t \in Int, t >= Start
  PROVE  Excess(z, n, t) = 0
<1>1. PICK R \in Nat : R = Rate[z]
  BY LimitsAssumption
<1>2. Start \in Nat /\ R * Start >= 1000000
  BY <1>1, ClockAssumption
<1>3. Abs(t - 0) = t /\ t \in Nat
  BY <1>2 DEF Abs
<1>4. PICK d \in Nat : t = Start + d
  <2>1. t - Start \in Nat /\ t = Start + (t - Start)
    BY <1>2
  <2> QED BY <2>1
<1>5. R * t >= 1000000 /\ R * t \in Nat
  <2>1. R * (Start + d) = R * Start + R * d /\ R * d \in Nat /\ R * Start \in Nat
    BY <1>2
  <2> QED BY <1>2, <1>4, <2>1
<1>6. (R * t) \div 1000 >= 1000 /\ (R * t) \div 1000 \in Nat
  <2> DEFINE q == (R * t) \div 1000
  <2>1. q \in Nat /\ R * t < 1000 * q + 1000
    BY <1>5, Thousandth
  <2> HIDE DEF q
  <2> QED BY <1>5, <2>1 DEF q
<1>7. Excess(z, n, t) = AtLeast0(0 - (R * t) \div 1000 + 1000)
  BY <1>1, <1>3 DEF Excess
<1> QED BY <1>6, <1>7 DEF AtLeast0

-----------------------------------------------------------------------------
(* What is expired from a zone. *)

GoodZone(zn) == /\ zn.nodes \in [Ids -> NodeType \cup {Free}]
                /\ Holds(zn.queue, Allocated(zn.nodes))

(* Nodes that nobody has pinned may go. *)
Shrinks(a, b) ==
  \A j \in Ids : \/ b.nodes[j] = a.nodes[j]
                 \/ b.nodes[j] = Free /\ a.nodes[j] # Free /\ a.nodes[j].count = 0

(* Free is no node, and what is allocated is one. *)
LEMMA NodeIs ==
  /\ Free \notin NodeType
  /\ \A n \in NodeType : /\ n.key \in Keys /\ n.len \in 0 .. 255 /\ n.excess \in Nat
                         /\ n.last \in Int /\ n.count \in Nat /\ n # Free
<1>1. \A n \in NodeType : /\ n.key \in Keys /\ n.len \in 0 .. 255 /\ n.excess \in Nat
                          /\ n.last \in Int /\ n.count \in Nat
  BY DEF NodeType
<1>2. Free.key = NoKey
  BY DEF Free
<1>3. Free \notin NodeType
  BY <1>1, <1>2, LimitsAssumption
<1> QED BY <1>1, <1>3

(* One round of expiry takes the last of the queue, which is not pinned.   *)
LEMMA Drops ==
  ASSUME NEW z, NEW zn, GoodZone(zn), NEW time, NEW force
  PROVE  GoodZone(DropOldest(z, zn, time, force)) /\ Shrinks(zn, DropOldest(z, zn, time, force))
<1> DEFINE i == Last(zn.queue)
           d == DropOldest(z, zn, time, force)
           g == [nodes |-> [zn.nodes EXCEPT ![i] = Free], queue |-> Front(zn.queue)]
<1>1. CASE d = zn
  BY <1>1 DEF Shrinks
<1>2. CASE zn.queue # <<>> /\ ~(zn.nodes[i].count > 0) /\ d = g
  <2>1. i \in Allocated(zn.nodes) /\ Holds(Front(zn.queue), Allocated(zn.nodes) \ {i})
    BY <1>2, HoldsFront DEF GoodZone
  <2> HIDE DEF i
  <2>2. i \in Ids /\ zn.nodes[i] # Free /\ zn.nodes \in [Ids -> NodeType \cup {Free}]
    BY <2>1 DEF Allocated, GoodZone
  <2>3. zn.nodes[i].count = 0
    <3>1. zn.nodes[i].count \in Nat
      BY <2>2, NodeIs
    <3> QED BY <1>2, <3>1
  <2>4. g.nodes = [zn.nodes EXCEPT ![i] = Free] /\ g.queue = Front(zn.queue)
    OBVIOUS
  <2> HIDE DEF g, d
  <2>5. Allocated(g.nodes) = Allocated(zn.nodes) \ {i}
    BY <2>2, <2>4 DEF Allocated
  <2>6. g.nodes \in [Ids -> NodeType \cup {Free}]
    BY <2>2, <2>4
  <2>7. GoodZone(g)
    BY <2>1, <2>4, <2>5, <2>6 DEF GoodZone
  <2>8. Shrinks(zn, g)
    BY <2>2, <2>3, <2>4 DEF Shrinks
  <2> QED BY <1>2, <2>7, <2>8 DEF d
<1>3. d = zn \/ (zn.queue # <<>> /\ ~(zn.nodes[i].count > 0) /\ d = g)
  BY DEF DropOldest
<1> QED BY <1>1, <1>2, <1>3

(* Removals after removals are removals. *)
LEMMA ShrinksOn ==
  ASSUME NEW a, NEW b, NEW c, Shrinks(a, b), Shrinks(b, c)
  PROVE  Shrinks(a, c)
BY DEF Shrinks

(* Expiry, by force and not. *)
LEMMA Expires ==
  ASSUME NEW z, NEW zn, GoodZone(zn), NEW time, NEW force
  PROVE  GoodZone(Expire(z, zn, time, force)) /\ Shrinks(zn, Expire(z, zn, time, force))
<1> DEFINE a == IF force THEN DropOldest(z, zn, time, TRUE) ELSE zn
           b == DropOldest(z, a, time, FALSE)
           c == DropOldest(z, b, time, FALSE)
<1>1. GoodZone(a) /\ Shrinks(zn, a)
  <2>1. Shrinks(zn, zn)
    BY DEF Shrinks
  <2> QED BY <2>1, Drops
<1> HIDE DEF a
<1>2. GoodZone(b) /\ Shrinks(a, b)
  BY <1>1, Drops
<1> HIDE DEF b
<1>3. GoodZone(c) /\ Shrinks(b, c)
  BY <1>2, Drops
<1> HIDE DEF c
<1>4. Shrinks(zn, c)
  BY <1>1, <1>2, <1>3, ShrinksOn
<1> QED BY <1>3, <1>4 DEF Expire, a, b, c

(* Making room. *)
LEMMA Rooms ==
  ASSUME NEW z, NEW zn, GoodZone(zn), NEW time
  PROVE  GoodZone(Room(z, zn, time)) /\ Shrinks(zn, Room(z, zn, time))
<1> DEFINE a == Expire(z, zn, time, FALSE)
           b == Expire(z, a, time, TRUE)
<1>1. GoodZone(a) /\ Shrinks(zn, a)
  BY Expires
<1> HIDE DEF a
<1>2. GoodZone(b) /\ Shrinks(a, b)
  BY <1>1, Expires
<1> HIDE DEF b
<1>3. Shrinks(zn, b)
  BY <1>1, <1>2, ShrinksOn
<1>4. Room(z, zn, time) = a \/ Room(z, zn, time) = b
  BY DEF Room, a, b
<1> QED BY <1>1, <1>2, <1>3, <1>4

-----------------------------------------------------------------------------
(* Steps that change the nodes of a limit_req zone. *)

LrType == [ReqZones -> [Ids -> NodeType \cup {Free}]]

(* The step changes the zone z only: the node i (none, if it is NoNode),   *)
(* and others are freed that nobody has pinned.                            *)
NodeOnly(w, z, i) ==
  /\ lr' \in LrType
  /\ queue' \in [ReqZones -> Seq(Ids)]
  /\ \A y \in ReqZones : y # z =>
       lr'[y] = lr[y] /\ queue'[y] = queue[y] /\ node'[w][y] = node[w][y]
  /\ \A v \in Workers : v # w => node'[v] = node[v]
  /\ \A j \in Ids : j # i =>
       /\ Pins(z, j)' = Pins(z, j)
       /\ lr'[z][j] = lr[z][j] \/ (lr'[z][j] = Free /\ Pins(z, j) = {})
  /\ Holds(queue'[z], Allocated(lr'[z]))

(* What is to be shown of the node i. *)
NodeGood(z, i) ==
  /\ lr'[z][i] # Free
  /\ Pins(z, i) # {} => lr'[z][i].key = lr[z][i].key
  /\ lr'[z][i].count >= Cardinality(Pins(z, i)')
  /\ crashes = 0 => lr'[z][i].count = Cardinality(Pins(z, i)')
  /\ lr'[z][i].len = KeyLen[lr'[z][i].key] % 256
  /\ \A j \in Ids : j # i /\ lr'[z][j] # Free /\ lr'[z][j].key = lr'[z][i].key
                    => KeyLen[lr'[z][i].key] > 255
  /\ lr'[z][i].excess <= MaxBurst[z] + IF z \in Shared THEN 1001 * (N - 1) ELSE 0
  /\ \A k \in 0 .. N - 1 : Cardinality(Beyond(z, i, k)') < N - k

(* A step that changes one node, or drops nodes nobody has pinned. *)
LEMMA NodeKeeps ==
  ASSUME TypeOK, Owned, LrInv, NEW w \in Workers, NEW r \in Requests, Mine(w, r), Only(w, r),
         NEW z \in ReqZones, NEW i \in Ids \cup {NoNode}, NodeOnly(w, z, i),
         i \in Ids => NodeGood(z, i), crashes' = crashes,
         \A y \in ReqZones : node'[w][y] # NoNode => PinnedBy(w, y)',
         h'[w].time = h[w].time
  PROVE  LrInv'
<1>0. \A v \in Workers : h'[v].time = h[v].time
  BY DEF Only
<1>1. PinInv'
  <2> SUFFICES ASSUME NEW v \in Workers, NEW y \in ReqZones, node'[v][y] # NoNode
               PROVE  PinnedBy(v, y)'
    BY DEF PinInv
  <2>1. CASE v = w
    BY <2>1
  <2>2. CASE v # w
    <3>0. node'[v] = node[v]
      BY <2>2 DEF NodeOnly
    <3>1. PinnedBy(v, y) /\ h[v].pc # "idle"
      BY <3>0 DEF LrInv, PinInv, PinnedBy, Limiting
    <3>2. /\ h'[v] = h[v] /\ req'[h[v].req] = req[h[v].req]
          /\ Limits(v)' = Limits(v) /\ Value(v, y)' = Value(v, y)
      BY <2>2, <3>1, Others
    <3>3. lr'[y][node[v][y]] # Free /\ lr'[y][node[v][y]].key = lr[y][node[v][y]].key
      <4>0. lr[y][node[v][y]] # Free
        BY <3>1 DEF PinnedBy
      <4>1. CASE y # z
        BY <4>0, <4>1 DEF NodeOnly
      <4>2. CASE y = z
        <5>1. node[v][z] \in Ids /\ v \in Pins(z, node[v][z])
          BY <3>0, <4>2 DEF Pins, TypeOK
        <5>2. CASE node[v][z] = i
          BY <4>2, <5>1, <5>2 DEF NodeGood
        <5>3. CASE node[v][z] # i
          BY <4>0, <4>2, <5>1, <5>3 DEF NodeOnly
        <5> QED BY <5>2, <5>3
      <4> QED BY <4>1, <4>2
    <3> QED BY <3>0, <3>1, <3>2, <3>3 DEF PinnedBy
  <2> QED BY <2>1, <2>2
<1>2. \A y \in ReqZones : y # z => lr'[y] = lr[y] /\ \A j : Pins(y, j)' = Pins(y, j)
  BY DEF NodeOnly, Pins
<1>3. \A j \in Ids : j # i /\ lr'[z][j] # Free =>
        lr'[z][j] = lr[z][j] /\ Pins(z, j)' = Pins(z, j)
  BY DEF NodeOnly
<1>4. CountInv'
  <2> SUFFICES ASSUME NEW y \in ReqZones, NEW j \in Ids, lr'[y][j] # Free
               PROVE  /\ lr'[y][j].count >= Cardinality(Pins(y, j)')
                      /\ crashes' = 0 => lr'[y][j].count = Cardinality(Pins(y, j)')
    BY DEF CountInv
  <2>1. CASE y = z /\ j = i
    BY <2>1 DEF NodeGood
  <2>2. CASE y # z \/ j # i
    <3>1. lr'[y][j] = lr[y][j] /\ Pins(y, j)' = Pins(y, j)
      BY <1>2, <1>3, <2>2
    <3> QED BY <3>1 DEF LrInv, CountInv
  <2> QED BY <2>1, <2>2
<1>5. QueueInv'
  <2> SUFFICES ASSUME NEW y \in ReqZones PROVE Holds(queue'[y], Allocated(lr'[y]))
    BY DEF QueueInv
  <2>1. CASE y = z
    BY <2>1 DEF NodeOnly
  <2>2. CASE y # z
    BY <2>2 DEF NodeOnly, LrInv, QueueInv
  <2> QED BY <2>1, <2>2
<1>6. KeyInv'
  <2> SUFFICES ASSUME NEW y \in ReqZones, NEW a \in Ids, NEW b \in Ids,
                      lr'[y][a] # Free, lr'[y][b] # Free
               PROVE  /\ lr'[y][a].len = KeyLen[lr'[y][a].key] % 256
                      /\ lr'[y][a].key = lr'[y][b].key /\ KeyLen[lr'[y][a].key] <= 255 => a = b
    BY DEF KeyInv, Allocated
  <2>0. lr' \in LrType
    BY DEF NodeOnly
  <2>1. KeyLen[lr'[y][a].key] \in Nat
    <3>1. lr'[y][a] \in NodeType
      BY <2>0 DEF LrType
    <3> QED BY <3>1, NodeIs, LimitsAssumption
  <2>2. CASE y = z /\ a = i
    BY <2>1, <2>2 DEF NodeGood
  <2>3. CASE (y # z \/ a # i) /\ (y # z \/ b # i)
    <3>1. lr'[y][a] = lr[y][a] /\ lr'[y][b] = lr[y][b]
      BY <1>2, <1>3, <2>3
    <3> QED BY <3>1 DEF LrInv, KeyInv, Allocated
  <2>4. CASE y = z /\ a # i /\ b = i
    <3>1. lr'[y][a] = lr[y][a]
      BY <1>3, <2>4
    <3>2. lr'[y][a].len = KeyLen[lr'[y][a].key] % 256
      BY <3>1 DEF LrInv, KeyInv, Allocated
    <3>3. lr'[y][a].key = lr'[y][b].key => KeyLen[lr'[y][a].key] > 255
      BY <2>4 DEF NodeGood
    <3> QED BY <2>1, <3>2, <3>3
  <2> QED BY <2>2, <2>3, <2>4
<1>7. BurstInv'
  <2> SUFFICES ASSUME NEW y \in ReqZones, NEW j \in Ids, lr'[y][j] # Free
               PROVE  /\ lr'[y][j].excess <= MaxBurst[y] + IF y \in Shared THEN 1001 * (N - 1) ELSE 0
                      /\ \A k \in 0 .. N - 1 : Cardinality(Beyond(y, j, k)') < N - k
    BY DEF BurstInv, Allocated, N
  <2>1. CASE y = z /\ j = i
    BY <2>1 DEF NodeGood
  <2>2. CASE y # z \/ j # i
    <3>1. lr'[y][j] = lr[y][j] /\ Pins(y, j)' = Pins(y, j)
      BY <1>2, <1>3, <2>2
    <3>2. \A k : Beyond(y, j, k)' = Beyond(y, j, k)
      BY <1>0, <3>1 DEF Beyond, Pins
    <3> QED BY <3>1, <3>2 DEF LrInv, BurstInv, Allocated
  <2> QED BY <2>1, <2>2
<1> QED BY <1>1, <1>4, <1>5, <1>6, <1>7 DEF LrInv

(* The rest of the invariant, in such a step. *)
LEMMA NodeStep ==
  ASSUME IInv, NEW w \in Workers, NEW r \in Requests, Mine(w, r), Only(w, r),
         NEW z \in ReqZones, NEW i \in Ids \cup {NoNode}, NodeOnly(w, z, i),
         i \in Ids => NodeGood(z, i),
         \A y \in ReqZones : node'[w][y] # NoNode => PinnedBy(w, y)',
         node' \in [Workers -> [ReqZones -> Ids \cup {NoNode}]],
         h'[w].time = h[w].time, Continues(w, r), Charges(w, r), Holding(w, r),
         UNCHANGED <<lc, now, crashes, faults>>
  PROVE  IInv'
<1>1. TypeOK' /\ MoreTypes'
  <2>1. \A q \in Requests : req'[q].worker \in Workers \cup {NoWorker}
    BY DEF Only, ReqType
  <2> QED BY <2>1 DEF IInv, TypeOK, MoreTypes, Only, HandlerType, NodeOnly, LrType
<1>2. Owned'
  BY OwnedKept DEF IInv
<1>3. LrInv'
  BY NodeKeeps DEF IInv
<1>4. ChargeInv'
  <2>1. \A v \in Workers : v # w => node'[v] = node[v]
    BY DEF NodeOnly
  <2> QED BY <2>1, ChargeKept DEF IInv
<1>5. HeldInv' /\ ConnInv'
  BY HeldKept DEF IInv
<1> QED BY <1>1, <1>2, <1>3, <1>4, <1>5 DEF IInv

(* The pins of a node are finitely many, and a free node has none. *)
LEMMA PinsFinite ==
  ASSUME NEW z \in ReqZones, NEW i \in Ids
  PROVE  /\ Pins(z, i) \subseteq Workers
         /\ IsFiniteSet(Pins(z, i)) /\ Cardinality(Pins(z, i)) \in Nat
         /\ Cardinality(Pins(z, i)) = 0 => Pins(z, i) = {}
         /\ PinInv => (lr[z][i] = Free => Pins(z, i) = {})
         /\ N \in Nat
<1>1. Pins(z, i) \subseteq Workers /\ IsFiniteSet(Workers)
  BY ActorsAssumption DEF Pins
<1>2. IsFiniteSet(Pins(z, i)) /\ Cardinality(Pins(z, i)) \in Nat
  BY <1>1, FS_Subset, FS_CardinalityType
<1>3. Cardinality(Pins(z, i)) = 0 => Pins(z, i) = {}
  BY <1>2, FS_EmptySet
<1>4. PinInv => (lr[z][i] = Free => Pins(z, i) = {})
  BY DEF PinInv, PinnedBy, Pins, NoNode, Ids
<1>5. N \in Nat
  BY <1>1, FS_CardinalityType DEF N
<1> QED BY <1>1, <1>2, <1>3, <1>4, <1>5

-----------------------------------------------------------------------------
(* How far the excess of a node can grow. *)

(* The workers of P that will charge more than k beyond the burst. *)
BeyondOf(z, n, P, k) == {v \in P : Excess(z, n, h[v].time) > MaxBurst[z] + 1001 * k}

GoodBurst(z, n, P) ==
  /\ n.excess <= MaxBurst[z] + IF z \in Shared THEN 1001 * (N - 1) ELSE 0
  /\ \A k \in 0 .. N - 1 : Cardinality(BeyondOf(z, n, P, k)) < N - k

(* What the proofs below use of the numbers. *)
LEMMA BurstTypes ==
  ASSUME IInv, NEW z \in ReqZones, NEW n \in NodeType
  PROVE  /\ N \in Nat /\ MaxBurst[z] \in Nat /\ IsFiniteSet(Workers)
         /\ (Workers # {} => N >= 1)
         /\ \A v \in Workers : h[v].time \in Int /\ Excess(z, n, h[v].time) \in Nat
         /\ \A t \in Int : Excess(z, n, t) \in Nat
         /\ n.excess \in Nat /\ n.last \in Int
<1>1. N \in Nat /\ IsFiniteSet(Workers) /\ MaxBurst[z] \in Nat
  BY ActorsAssumption, LimitsAssumption, FS_CardinalityType DEF N
<1>2. Workers # {} => N >= 1
  <2>1. Workers # {} => N # 0
    BY <1>1, FS_EmptySet DEF N
  <2> QED BY <1>1, <2>1
<1>3. n.excess \in Nat /\ n.last \in Int
  BY NodeIs
<1>4. \A t \in Int : Excess(z, n, t) \in Nat
  <2> SUFFICES ASSUME NEW t \in Int PROVE Excess(z, n, t) \in Nat
    OBVIOUS
  <2>1. PICK a \in Nat : a = Abs(t - n.last)
    BY <1>3, AbsIs
  <2>2. Leak(z, a) \in Nat
    BY LeakBound
  <2> QED BY <1>3, <2>1, <2>2 DEF Excess, AtLeast0, Leak
<1>5. \A v \in Workers : h[v].time \in Int
  BY DEF IInv, TypeOK
<1> QED BY <1>1, <1>2, <1>3, <1>4, <1>5

(* A set of workers without one of them. *)
LEMMA NotAll ==
  ASSUME NEW w \in Workers, NEW T, T \subseteq Workers \ {w}
  PROVE  IsFiniteSet(T) /\ Cardinality(T) \in Nat /\ Cardinality(T) < N /\ N \in Nat
<1>1. IsFiniteSet(Workers) /\ N = Cardinality(Workers) /\ N \in Nat
  BY ActorsAssumption, FS_CardinalityType DEF N
<1>2. IsFiniteSet(Workers \ {w}) /\ Cardinality(Workers \ {w}) = N - 1
  BY <1>1, FS_RemoveElement
<1>3. IsFiniteSet(T) /\ Cardinality(T) <= Cardinality(Workers \ {w}) /\ Cardinality(T) \in Nat
  BY <1>2, FS_Subset, FS_CardinalityType
<1> QED BY <1>1, <1>2, <1>3

(* Neither excess nor time change; the pins are the same but for those of  *)
(* workers that stay within the burst.                                     *)
LEMMA BurstSame ==
  ASSUME IInv, NEW z \in ReqZones, NEW n \in NodeType, NEW m \in NodeType,
         NEW P \in SUBSET Workers, NEW Q \in SUBSET Workers,
         m.excess = n.excess, m.last = n.last, GoodBurst(z, n, P),
         \A v \in Q : v \in P \/ Excess(z, n, h[v].time) <= MaxBurst[z]
  PROVE  GoodBurst(z, m, Q)
<1>1. \A t : Excess(z, m, t) = Excess(z, n, t)
  BY DEF Excess
<1>2. ASSUME NEW k \in 0 .. N - 1 PROVE Cardinality(BeyondOf(z, m, Q, k)) < N - k
  <2>1. BeyondOf(z, m, Q, k) \subseteq BeyondOf(z, n, P, k)
    <3> SUFFICES ASSUME NEW v \in Q, Excess(z, m, h[v].time) > MaxBurst[z] + 1001 * k
                 PROVE  v \in P /\ Excess(z, n, h[v].time) > MaxBurst[z] + 1001 * k
      BY DEF BeyondOf
    <3>1. Excess(z, n, h[v].time) \in Nat /\ MaxBurst[z] \in Nat /\ k \in Nat
      BY BurstTypes
    <3>2. Excess(z, n, h[v].time) > MaxBurst[z] + 1001 * k
      BY <1>1
    <3>3. ~(Excess(z, n, h[v].time) <= MaxBurst[z])
      BY <3>1, <3>2
    <3> QED BY <3>2, <3>3
  <2>2. IsFiniteSet(BeyondOf(z, n, P, k))
    <3>1. BeyondOf(z, n, P, k) \subseteq Workers /\ IsFiniteSet(Workers)
      BY ActorsAssumption DEF BeyondOf
    <3> QED BY <3>1, FS_Subset
  <2>3. /\ Cardinality(BeyondOf(z, m, Q, k)) <= Cardinality(BeyondOf(z, n, P, k))
        /\ Cardinality(BeyondOf(z, m, Q, k)) \in Nat /\ Cardinality(BeyondOf(z, n, P, k)) \in Nat
    BY <2>1, <2>2, FS_Subset, FS_CardinalityType
  <2>4. Cardinality(BeyondOf(z, n, P, k)) < N - k /\ N \in Nat /\ k \in Nat
    BY BurstTypes DEF GoodBurst
  <2> QED BY <2>3, <2>4
<1> QED BY <1>2 DEF GoodBurst

(* A request is charged at once, within the burst: whoever has pinned the  *)
(* node will charge one request more.                                      *)
LEMMA BurstAtOnce ==
  ASSUME IInv, NEW z \in ReqZones, NEW n \in NodeType, NEW m \in NodeType,
         NEW w \in Workers, NEW P \in SUBSET (Workers \ {w}), NEW t \in Int,
         m.excess = Excess(z, n, t), m.last = t, m.excess <= MaxBurst[z]
  PROVE  GoodBurst(z, m, P)
<1>0. N \in Nat /\ N >= 1 /\ MaxBurst[z] \in Nat /\ m.excess \in Nat
  BY BurstTypes
<1>1. m.excess <= MaxBurst[z] + IF z \in Shared THEN 1001 * (N - 1) ELSE 0
  BY <1>0
<1>2. ASSUME NEW k \in 0 .. N - 1 PROVE Cardinality(BeyondOf(z, m, P, k)) < N - k
  <2>0. k \in Nat /\ k <= N - 1
    BY <1>0
  <2>1. CASE k = 0
    <3>1. BeyondOf(z, m, P, k) \subseteq Workers \ {w}
      BY DEF BeyondOf
    <3> QED BY <1>0, <2>1, <3>1, NotAll
  <2>2. CASE k # 0
    <3>1. ASSUME NEW v \in P PROVE ~(Excess(z, m, h[v].time) > MaxBurst[z] + 1001 * k)
      <4>1. v \in Workers /\ h[v].time \in Int
        BY BurstTypes
      <4>2. Excess(z, m, h[v].time) <= m.excess + 1000 /\ Excess(z, m, h[v].time) \in Nat
        <5>1. n.excess \in Nat /\ n.last \in Int /\ Excess(z, m, h[v].time) \in Nat
          BY <4>1, BurstTypes
        <5> QED BY <4>1, <5>1, ExcessBound
      <4> QED BY <1>0, <2>0, <2>2, <4>2
    <3>2. BeyondOf(z, m, P, k) = {}
      BY <3>1 DEF BeyondOf
    <3>3. Cardinality(BeyondOf(z, m, P, k)) = 0
      BY <3>2, FS_EmptySet
    <3> QED BY <1>0, <2>0, <3>3
  <2> QED BY <2>1, <2>2
<1> QED BY <1>1, <1>2 DEF GoodBurst

(* A worker that has pinned the node charges it: then it is not among      *)
(* those that will, and where it went beyond the burst the others go one   *)
(* request further than it did.                                            *)
LEMMA BurstCharged ==
  ASSUME IInv, NEW z \in Shared, z \in ReqZones, NEW n \in NodeType, NEW m \in NodeType,
         NEW P \in SUBSET Workers, NEW w \in P, GoodBurst(z, n, P),
         m.excess = Excess(z, n, h[w].time), m.last = h[w].time
  PROVE  GoodBurst(z, m, P \ {w})
<1>0. N \in Nat /\ N >= 1 /\ MaxBurst[z] \in Nat /\ m.excess \in Nat /\ h[w].time \in Int
  BY BurstTypes
<1>f. ASSUME NEW k
      PROVE  /\ IsFiniteSet(BeyondOf(z, n, P, k)) /\ Cardinality(BeyondOf(z, n, P, k)) \in Nat
  <2>1. BeyondOf(z, n, P, k) \subseteq Workers /\ IsFiniteSet(Workers)
    BY ActorsAssumption DEF BeyondOf
  <2> QED BY <2>1, FS_Subset, FS_CardinalityType
<1>1. m.excess <= MaxBurst[z] + 1001 * (N - 1)
  <2> SUFFICES ASSUME m.excess > MaxBurst[z] + 1001 * (N - 1) PROVE FALSE
    BY <1>0
  <2>1. w \in BeyondOf(z, n, P, N - 1)
    BY DEF BeyondOf
  <2>2. N - 1 \in 0 .. N - 1 /\ N - (N - 1) = 1
    BY <1>0
  <2>3. Cardinality(BeyondOf(z, n, P, N - 1)) < 1
    BY <2>2 DEF GoodBurst
  <2>4. Cardinality(BeyondOf(z, n, P, N - 1)) = 0
    BY <1>f, <2>3
  <2> QED BY <1>f, <2>1, <2>4, FS_EmptySet
<1>2. ASSUME NEW k \in 0 .. N - 1 PROVE Cardinality(BeyondOf(z, m, P \ {w}, k)) < N - k
  <2> DEFINE B == BeyondOf(z, m, P \ {w}, k)
  <2>0. k \in Nat /\ k <= N - 1
    BY <1>0
  <2>1. CASE k = 0
    <3>1. B \subseteq Workers \ {w}
      BY DEF BeyondOf
    <3> HIDE DEF B
    <3>2. w \in Workers /\ Cardinality(B) < N
      BY <3>1, NotAll
    <3> QED BY <1>0, <2>1, <3>2 DEF B
  <2>2. CASE k # 0 /\ B = {}
    <3>1. Cardinality(B) = 0
      BY <2>2, FS_EmptySet
    <3> HIDE DEF B
    <3>2. Cardinality(B) < N - k
      BY <1>0, <2>0, <3>1
    <3> QED BY <3>2 DEF B
  <2>3. CASE k # 0 /\ B # {}
    <3>0. k - 1 \in 0 .. N - 1 /\ N - (k - 1) = N - k + 1 /\ 1001 * (k - 1) = 1001 * k - 1001
      BY <1>0, <2>0, <2>3
    <3>1. ASSUME NEW v \in B
          PROVE  v \in BeyondOf(z, n, P, k - 1) /\ w \in BeyondOf(z, n, P, k - 1) /\ v # w
      <4>1. v \in P /\ v # w /\ Excess(z, m, h[v].time) > MaxBurst[z] + 1001 * k
        BY DEF BeyondOf
      <4>2. h[v].time \in Int /\ n.excess \in Nat /\ n.last \in Int
        BY <4>1, BurstTypes
      <4>3. /\ m.excess \in Nat /\ Excess(z, n, h[v].time) \in Nat
            /\ Excess(z, m, h[v].time) \in Nat
            /\ Excess(z, m, h[v].time) <= m.excess + 1000
            /\ Excess(z, m, h[v].time) <= Excess(z, n, h[v].time) + 1001
        BY <1>0, <4>2, ExcessBound
      <4>4. Excess(z, n, h[v].time) > MaxBurst[z] + 1001 * (k - 1)
        BY <1>0, <2>0, <3>0, <4>1, <4>3
      <4>5. Excess(z, n, h[w].time) > MaxBurst[z] + 1001 * (k - 1)
        BY <1>0, <2>0, <3>0, <4>1, <4>3
      <4> QED BY <4>1, <4>4, <4>5 DEF BeyondOf
    <3> HIDE DEF B
    <3>2. B \subseteq BeyondOf(z, n, P, k - 1) \ {w} /\ w \in BeyondOf(z, n, P, k - 1)
      BY <2>3, <3>1
    <3>3. PICK A : A = BeyondOf(z, n, P, k - 1)
      OBVIOUS
    <3>4. IsFiniteSet(A) /\ Cardinality(A) \in Nat /\ Cardinality(A) < N - k + 1
      <4>1. Cardinality(A) < N - (k - 1)
        BY <3>0, <3>3 DEF GoodBurst
      <4> QED BY <1>f, <3>0, <3>3, <4>1
    <3>5. IsFiniteSet(A \ {w}) /\ Cardinality(A \ {w}) = Cardinality(A) - 1
      BY SMTT(30), <3>2, <3>3, <3>4, FS_RemoveElement
    <3>6. Cardinality(B) <= Cardinality(A \ {w}) /\ Cardinality(B) \in Nat
      BY <3>2, <3>3, <3>5, FS_Subset, FS_CardinalityType
    <3>7. Cardinality(B) < N - k
      BY <1>0, <2>0, <3>4, <3>5, <3>6
    <3> QED BY <3>7 DEF B
  <2> QED BY <2>1, <2>2, <2>3
<1> QED BY <1>1, <1>2 DEF GoodBurst

(* A new node. *)
LEMMA BurstNew ==
  ASSUME IInv, NEW z \in ReqZones, NEW m \in NodeType, m.excess = 0,
         NEW P \in SUBSET Workers, Workers # {},
         \A v \in P : Excess(z, m, h[v].time) = 0
  PROVE  GoodBurst(z, m, P)
<1>0. N \in Nat /\ N >= 1 /\ MaxBurst[z] \in Nat
  BY BurstTypes
<1>1. m.excess <= MaxBurst[z] + IF z \in Shared THEN 1001 * (N - 1) ELSE 0
  BY <1>0
<1>2. ASSUME NEW k \in 0 .. N - 1 PROVE Cardinality(BeyondOf(z, m, P, k)) < N - k
  <2>0. k \in Nat /\ k <= N - 1 /\ ~(0 > MaxBurst[z] + 1001 * k)
    BY <1>0
  <2>1. BeyondOf(z, m, P, k) = {}
    BY <2>0 DEF BeyondOf
  <2>2. Cardinality(BeyondOf(z, m, P, k)) = 0
    BY <2>1, FS_EmptySet
  <2> QED BY <1>0, <2>0, <2>2
<1> QED BY <1>1, <1>2 DEF GoodBurst

(* The same of a node of a zone, before a step and after it. *)
LEMMA BurstOf ==
  ASSUME IInv, NEW w \in Workers, NEW r \in Requests, Only(w, r), h'[w].time = h[w].time,
         NEW z \in ReqZones, NEW i \in Ids
  PROVE  /\ lr[z][i] # Free => GoodBurst(z, lr[z][i], Pins(z, i))
         /\ GoodBurst(z, lr'[z][i], Pins(z, i)') =>
              /\ lr'[z][i].excess <= MaxBurst[z] + IF z \in Shared THEN 1001 * (N - 1) ELSE 0
              /\ \A k \in 0 .. N - 1 : Cardinality(Beyond(z, i, k)') < N - k
<1>1. \A v \in Workers : h'[v].time = h[v].time
  BY DEF Only
<1>2. \A k : Beyond(z, i, k) = BeyondOf(z, lr[z][i], Pins(z, i), k)
  BY DEF Beyond, BeyondOf
<1>3. \A k : Beyond(z, i, k)' = BeyondOf(z, lr'[z][i], Pins(z, i)', k)
  BY <1>1 DEF Beyond, BeyondOf, Pins
<1>4. lr[z][i] # Free => GoodBurst(z, lr[z][i], Pins(z, i))
  BY <1>2 DEF IInv, LrInv, BurstInv, GoodBurst, Allocated
<1> QED BY <1>3, <1>4 DEF GoodBurst

-----------------------------------------------------------------------------
(* A worker gives up a pin, or charges what it has pinned. *)

(* The pin that is taken first. *)
LEMMA LastPinnedIs ==
  ASSUME IInv, NEW w \in Workers, h[w].pc \in {"undo", "account"}, Pinned(w) # {}
  PROVE  \E z \in ReqZones, i \in Ids :
           /\ z = LastPinned(w).zone /\ i = node[w][z]
           /\ lr[z][i] \in NodeType /\ lr[z][i].count >= 1 /\ w \in Pins(z, i)
           /\ Applies(req[h[w].req].visit, z) /\ z \in Shared
           /\ LastPinned(w).nodelay \in BOOLEAN
<1> DEFINE L == Limits(w)
           m == CHOOSE i \in Pinned(w) : \A j \in Pinned(w) : i >= j
           z == LastPinned(w).zone
<1>1. req[h[w].req].visit \in Visits /\ L = req[h[w].req].visit.limit_req
  BY MyRequest DEF Limits
<1>2. /\ L \in Seq([zone : ReqZones, burst : Nat, nodelay : BOOLEAN])
      /\ \A i \in DOMAIN L : i < Len(L) => L[i].zone \in Shared
  BY <1>1, LimitsAssumption
<1> HIDE DEF L
<1>3. Len(L) \in Nat /\ DOMAIN L = 1 .. Len(L)
  BY <1>2
<1>4. Pinned(w) \in SUBSET Nat /\ \A i \in Pinned(w) : i <= Len(L) /\ i \in DOMAIN L
  BY <1>3 DEF Pinned, L
<1>5. \E i \in Pinned(w) : \A j \in Pinned(w) : i >= j
  <2>1. Max(Pinned(w)) \in Pinned(w) /\ \A j \in Pinned(w) : j <= Max(Pinned(w))
    BY <1>3, <1>4, MaxIn
  <2>2. \A j \in Pinned(w) : Max(Pinned(w)) >= j
    BY <1>4, <2>1
  <2> QED BY <2>1, <2>2
<1>6. m \in Pinned(w)
  BY <1>5
<1>7. LastPinned(w) = L[m] /\ L[m] \in [zone : ReqZones, burst : Nat, nodelay : BOOLEAN]
  <2>1. LastPinned(w) = L[m]
    BY DEF LastPinned, L
  <2> HIDE DEF m
  <2> QED BY <1>2, <1>3, <1>4, <1>6, <2>1, ElementOfSeq
<1>8. z \in ReqZones /\ node[w][z] # NoNode /\ LastPinned(w).nodelay \in BOOLEAN
  <2>1. node[w][L[m].zone] # NoNode
    BY <1>6 DEF Pinned, L
  <2> QED BY <1>7, <2>1
<1> HIDE DEF z
<1>9. PICK i \in Ids : i = node[w][z]
  BY <1>8 DEF IInv, TypeOK
<1>10. PinnedBy(w, z) /\ w \in Pins(z, i)
  BY <1>8, <1>9 DEF IInv, LrInv, PinInv, Pins
<1>11. lr[z][i] # Free /\ Applies(req[h[w].req].visit, z)
  BY <1>9, <1>10 DEF PinnedBy
<1>12. lr[z][i] \in NodeType /\ lr[z][i].count \in Nat
  BY <1>8, <1>11, NodeIs DEF IInv, TypeOK
<1>13. z \in Shared
  <2>1. PICK j \in DOMAIN L : L[j].zone = z /\ j < Len(L)
    BY <1>10 DEF PinnedBy, L
  <2> QED BY <1>2, <2>1
<1>14. lr[z][i].count >= 1
  <2>1. Cardinality(Pins(z, i)) \in Nat /\ Cardinality(Pins(z, i)) # 0
    BY <1>8, <1>10, PinsFinite
  <2>2. lr[z][i].count >= Cardinality(Pins(z, i))
    BY <1>8, <1>11 DEF IInv, LrInv, CountInv
  <2> QED BY <1>12, <2>1, <2>2
<1> QED BY <1>8, <1>9, <1>10, <1>11, <1>12, <1>13, <1>14 DEF z

GivesUp(w, z, i, m) ==
  /\ lr' = [lr EXCEPT ![z][i] = m]
  /\ node' = [node EXCEPT ![w][z] = NoNode]
  /\ queue' = queue

(* The node has one pin less, and its excess is what it was or what is     *)
(* charged.                                                                *)
LEMMA UnpinNode ==
  ASSUME IInv, NEW w \in Workers, NEW r \in Requests, Only(w, r), h'[w].time = h[w].time,
         NEW z \in ReqZones, NEW i \in Ids, lr[z][i] \in NodeType, w \in Pins(z, i),
         lr[z][i].count >= 1,
         NEW m \in NodeType, m.key = lr[z][i].key, m.len = lr[z][i].len,
         m.count = lr[z][i].count - 1, GoodBurst(z, m, Pins(z, i) \ {w}),
         GivesUp(w, z, i, m)
  PROVE  /\ NodeOnly(w, z, i) /\ NodeGood(z, i)
         /\ node' \in [Workers -> [ReqZones -> Ids \cup {NoNode}]]
         /\ node'[w][z] = NoNode
         /\ \A y \in ReqZones : node'[w][y] # NoNode =>
              /\ node[w][y] # NoNode /\ node'[w][y] = node[w][y]
              /\ lr'[y][node'[w][y]] = lr[y][node[w][y]]
<1>1. lr \in LrType /\ node \in [Workers -> [ReqZones -> Ids \cup {NoNode}]]
  BY DEF IInv, TypeOK, LrType
<1>2. /\ lr' \in LrType /\ lr'[z][i] = m
      /\ \A j \in Ids : j # i => lr'[z][j] = lr[z][j]
      /\ \A y \in ReqZones : y # z => lr'[y] = lr[y]
  BY <1>1 DEF LrType, GivesUp
<1>3. /\ node' \in [Workers -> [ReqZones -> Ids \cup {NoNode}]]
      /\ node'[w][z] = NoNode
      /\ \A y \in ReqZones : y # z => node'[w][y] = node[w][y]
      /\ \A v \in Workers : v # w => node'[v] = node[v]
  BY <1>1 DEF GivesUp
<1>4. NoNode \notin Ids /\ node[w][z] = i
  BY DEF NoNode, Ids, Pins
<1>5. /\ Pins(z, i)' = Pins(z, i) \ {w}
      /\ \A j \in Ids : j # i => Pins(z, j)' = Pins(z, j)
  BY <1>3, <1>4 DEF Pins
<1>6. lr[z][i] # Free /\ m # Free
  BY NodeIs
<1>7. Allocated(lr'[z]) = Allocated(lr[z])
  BY <1>2, <1>6 DEF Allocated
<1>8. NodeOnly(w, z, i)
  <2>1. Holds(queue'[z], Allocated(lr'[z]))
    BY <1>7 DEF IInv, LrInv, QueueInv, GivesUp
  <2>2. queue' = queue /\ queue' \in [ReqZones -> Seq(Ids)]
    BY DEF GivesUp, IInv, TypeOK
  <2> QED BY <1>2, <1>3, <1>5, <2>1, <2>2 DEF NodeOnly
<1>9. NodeGood(z, i)
  <2>1. Cardinality(Pins(z, i)') = Cardinality(Pins(z, i)) - 1 /\ Cardinality(Pins(z, i)) \in Nat
    BY ZenonT(40), <1>5, PinsFinite, FS_RemoveElement
  <2>2. /\ lr[z][i].count >= Cardinality(Pins(z, i))
        /\ crashes = 0 => lr[z][i].count = Cardinality(Pins(z, i))
    BY <1>6 DEF IInv, LrInv, CountInv
  <2>3. lr[z][i].count \in Nat /\ lr[z][i].key \in Keys
    BY NodeIs
  <2>4. /\ m.count >= Cardinality(Pins(z, i)')
        /\ crashes = 0 => m.count = Cardinality(Pins(z, i)')
    BY <2>1, <2>2, <2>3
  <2>5. KeyLen[m.key] \in Nat
    BY <2>3, LimitsAssumption
  <2>6. /\ m.len = KeyLen[m.key] % 256
        /\ \A j \in Ids : j # i /\ lr'[z][j] # Free /\ lr'[z][j].key = m.key => KeyLen[m.key] > 255
    <3>1. m.len = KeyLen[m.key] % 256
      BY <1>6 DEF IInv, LrInv, KeyInv, Allocated
    <3>2. ASSUME NEW j \in Ids, j # i, lr'[z][j] # Free, lr'[z][j].key = m.key
          PROVE  KeyLen[m.key] > 255
      <4>1. lr[z][j] # Free /\ lr[z][j].key = lr[z][i].key
        BY <1>2, <3>2
      <4>2. ~(KeyLen[m.key] <= 255)
        BY <1>6, <3>2, <4>1 DEF IInv, LrInv, KeyInv, Allocated
      <4> QED BY <2>5, <4>2
    <3> QED BY <3>1, <3>2
  <2>7. /\ m.excess <= MaxBurst[z] + IF z \in Shared THEN 1001 * (N - 1) ELSE 0
        /\ \A k \in 0 .. N - 1 : Cardinality(Beyond(z, i, k)') < N - k
    BY ZenonT(40), <1>2, <1>5, BurstOf
  <2> QED BY <1>2, <1>6, <2>4, <2>6, <2>7 DEF NodeGood
<1>10. ASSUME NEW y \in ReqZones, node'[w][y] # NoNode
       PROVE  /\ node[w][y] # NoNode /\ node'[w][y] = node[w][y]
              /\ lr'[y][node'[w][y]] = lr[y][node[w][y]]
  BY <1>2, <1>3, <1>10
<1> QED BY <1>3, <1>8, <1>9, <1>10

(* A refused request gives a pin back. *)
LEMMA UnpinKeeps ==
  ASSUME IInv, NEW w \in Workers, Unpin(w)
  PROVE  IInv'
<1>a. PICK r : r = h[w].req
  OBVIOUS
<1>b. h[w].pc = "undo" /\ Pinned(w) # {}
  BY DEF Unpin
<1>c. PICK z \in ReqZones, i \in Ids :
           /\ z = LastPinned(w).zone /\ i = node[w][z]
           /\ lr[z][i] \in NodeType /\ lr[z][i].count >= 1 /\ w \in Pins(z, i)
           /\ Applies(req[h[w].req].visit, z) /\ z \in Shared
           /\ LastPinned(w).nodelay \in BOOLEAN
  BY <1>b, LastPinnedIs
<1> DEFINE n == lr[z][i]
           m == [n EXCEPT !.count = n.count - 1]
<1>1. /\ lr' = [lr EXCEPT ![z][i].count = @ - 1]
      /\ node' = [node EXCEPT ![w][z] = NoNode]
      /\ queue' = queue /\ h' = h /\ req' = req
      /\ UNCHANGED <<lc, now, crashes, faults>>
  BY <1>c DEF Unpin, bounds
<1>2. lr' = [lr EXCEPT ![z][i] = m]
  BY <1>1
<1>3. /\ m \in NodeType /\ m.key = n.key /\ m.len = n.len /\ m.count = n.count - 1
      /\ m.excess = n.excess /\ m.last = n.last
  <2>1. n \in NodeType /\ n.count - 1 \in Nat
    BY <1>c, NodeIs
  <2> HIDE DEF n
  <2> QED BY <2>1 DEF NodeType
<1> HIDE DEF m, n
<1>4. /\ r \in Requests /\ Mine(w, r) /\ req \in [Requests -> ReqType]
      /\ req[r].state = "limiting" /\ req[r].worker = w /\ req[r].visit \in Visits
      /\ req[r].held = <<>> /\ h[w].time >= Start
  BY <1>a, <1>b, MyRequest DEF Limiting
<1>5. Only(w, r) /\ h'[w].time = h[w].time
  BY <1>1, <1>4 DEF Only, IInv, TypeOK, HandlerType
<1>6. GoodBurst(z, m, Pins(z, i) \ {w})
  <2>1. n \in NodeType /\ GoodBurst(z, n, Pins(z, i))
    BY <1>c, <1>4, <1>5, BurstOf, NodeIs DEF n
  <2>2. Pins(z, i) \in SUBSET Workers /\ Pins(z, i) \ {w} \in SUBSET Workers
    BY DEF Pins
  <2> QED BY <1>3, <2>1, <2>2, BurstSame
<1>7. /\ NodeOnly(w, z, i) /\ NodeGood(z, i)
      /\ node' \in [Workers -> [ReqZones -> Ids \cup {NoNode}]]
      /\ \A y \in ReqZones : node'[w][y] # NoNode =>
           /\ node[w][y] # NoNode /\ node'[w][y] = node[w][y]
           /\ lr'[y][node'[w][y]] = lr[y][node[w][y]]
  <2>1. GivesUp(w, z, i, m)
    BY <1>1, <1>2 DEF GivesUp
  <2>2. m.key = lr[z][i].key /\ m.len = lr[z][i].len /\ m.count = lr[z][i].count - 1
    BY <1>3 DEF n
  <2> QED BY <1>c, <1>3, <1>4, <1>5, <1>6, <2>1, <2>2, UnpinNode
<1>8. ASSUME NEW y \in ReqZones, node'[w][y] # NoNode PROVE PinnedBy(w, y)'
  <2>1. PinnedBy(w, y) /\ lr'[y][node'[w][y]] = lr[y][node[w][y]]
    BY <1>7, <1>8 DEF IInv, LrInv, PinInv
  <2>2. Limits(w)' = Limits(w) /\ Value(w, y)' = Value(w, y)
    BY <1>1 DEF Limits, Value
  <2> QED BY <1>1, <2>1, <2>2 DEF PinnedBy
<1>9. Continues(w, r) /\ Holding(w, r)
  BY <1>a, <1>b, <1>1, <1>4 DEF Continues, Holding
<1>10. Charges(w, r)
  <2>1. ~req[r].passed /\ \A y \in ReqZones : req[r].charged[y] = 0
    BY <1>a, <1>b DEF IInv, ChargeInv, ChargedSoFar, Limiting
  <2> QED BY <1>a, <1>b, <1>1, <2>1 DEF Charges, ChargedSoFar
<1> QED BY <1>1, <1>4, <1>5, <1>7, <1>8, <1>9, <1>10, NodeStep

(* A zone is charged once: the pin goes with it. *)
LEMMA ChargeKeeps ==
  ASSUME IInv, NEW w \in Workers, Charge(w)
  PROVE  IInv'
<1>a. PICK r : r = h[w].req
  OBVIOUS
<1>b. h[w].pc = "account" /\ Pinned(w) # {}
  BY DEF Charge
<1>c. PICK z \in ReqZones, i \in Ids :
           /\ z = LastPinned(w).zone /\ i = node[w][z]
           /\ lr[z][i] \in NodeType /\ lr[z][i].count >= 1 /\ w \in Pins(z, i)
           /\ Applies(req[h[w].req].visit, z) /\ z \in Shared
           /\ LastPinned(w).nodelay \in BOOLEAN
  BY <1>b, LastPinnedIs
<1>d. PICK n \in NodeType : n = lr[z][i]
  BY <1>c
<1>e. PICK e \in Nat : e = Excess(z, n, h[w].time)
  BY BurstTypes
<1>h. PICK f \in BOOLEAN : f = LastPinned(w).nodelay
  BY <1>c
<1>f. PICK late \in BOOLEAN : late = (h[w].late \/ (~f /\ e * 1000 >= Rate[z]))
  BY ZenonT(40)
<1>g. PICK c \in Nat : c = n.count - 1
  BY <1>c, <1>d, NodeIs
<1> DEFINE m1 == [n EXCEPT !.last = h[w].time]
           m2 == [m1 EXCEPT !.excess = e]
           m == [m2 EXCEPT !.count = c]
           x == [h[w] EXCEPT !.late = late]
           y == [req[r] EXCEPT !.charged[z] = req[r].charged[z] + 1]
<1>1. /\ lr' = [lr EXCEPT ![z][i] = m]
      /\ node' = [node EXCEPT ![w][z] = NoNode]
      /\ req' = [req EXCEPT ![r].charged[z] = @ + 1]
      /\ h' = [h EXCEPT ![w] = x]
      /\ queue' = queue
      /\ UNCHANGED <<lc, now, crashes, faults>>
  <2>1. m = [n EXCEPT !.last = h[w].time, !.excess = e, !.count = n.count - 1]
    BY <1>g
  <2>5. h' = [h EXCEPT ![w].late = @ \/ (/\ ~LastPinned(w).nodelay
                                        /\ Excess(LastPinned(w).zone,
                                                  lr[LastPinned(w).zone][node[w][LastPinned(w).zone]],
                                                  h[w].time) * 1000 >= Rate[LastPinned(w).zone])]
    BY Zenon DEF Charge
  <2>7. h' = [h EXCEPT ![w].late = @ \/ (~f /\ e * 1000 >= Rate[z])]
    BY <1>c, <1>d, <1>e, <1>h, <2>5
  <2>3. h' = [h EXCEPT ![w] = x]
    BY <1>f, <2>7, SMTT(30)
  <2>4. lr' = [lr EXCEPT ![z][i] = [n EXCEPT !.last = h[w].time, !.excess = e, !.count = n.count - 1]]
    BY <1>c, <1>d, <1>e DEF Charge
  <2>8. lr' = [lr EXCEPT ![z][i] = m]
    BY <2>1, <2>4, Zenon
  <2>9. /\ node' = [node EXCEPT ![w][z] = NoNode]
        /\ req' = [req EXCEPT ![r].charged[z] = @ + 1]
        /\ queue' = queue
        /\ UNCHANGED <<lc, now, crashes, faults>>
    BY <1>a, <1>c DEF Charge, bounds
  <2> QED BY <2>3, <2>8, <2>9, Zenon
<1>2. h \in [Workers -> HandlerType] /\ h[w].time \in Int
  BY DEF IInv, TypeOK, HandlerType
<1>3. m1 \in NodeType /\ m1.key = n.key /\ m1.len = n.len /\ m1.last = h[w].time
  BY <1>2 DEF NodeType
<1> HIDE DEF m1
<1>4. m2 \in NodeType /\ m2.key = n.key /\ m2.len = n.len /\ m2.last = h[w].time /\ m2.excess = e
  BY <1>3 DEF NodeType
<1> HIDE DEF m2
<1>5. /\ m \in NodeType /\ m.key = n.key /\ m.len = n.len /\ m.last = h[w].time
      /\ m.excess = e /\ m.count = c
  BY <1>4 DEF NodeType
<1> HIDE DEF m
<1>6. /\ x \in HandlerType /\ x.pc = "account" /\ x.req = r /\ x.time = h[w].time
  BY <1>a, <1>b, <1>2 DEF HandlerType
<1> HIDE DEF x
<1>7. /\ r \in Requests /\ Mine(w, r) /\ req \in [Requests -> ReqType] /\ req[r] \in ReqType
      /\ req[r].state = "limiting" /\ req[r].worker = w /\ req[r].visit \in Visits
      /\ req[r].held = <<>> /\ h[w].time >= Start
  BY <1>a, <1>b, MyRequest DEF Limiting
<1>8. /\ y \in ReqType /\ y.state = "limiting" /\ y.worker = w /\ y.visit = req[r].visit
      /\ y.held = <<>> /\ y.passed = req[r].passed
      /\ \A u \in ReqZones : y.charged[u] = IF u = z THEN req[r].charged[z] + 1 ELSE req[r].charged[u]
  <2> DEFINE ch == [req[r].charged EXCEPT ![z] = req[r].charged[z] + 1]
  <2>1. req[r].charged \in [ReqZones -> Nat]
    BY <1>7 DEF ReqType
  <2>2. /\ ch \in [ReqZones -> Nat]
        /\ \A u \in ReqZones : ch[u] = IF u = z THEN req[r].charged[z] + 1 ELSE req[r].charged[u]
    <3>1. req[r].charged[z] + 1 \in Nat
      BY <2>1
    <3> QED BY <2>1, <3>1
  <2>3. y = [req[r] EXCEPT !.charged = ch]
    OBVIOUS
  <2> HIDE DEF ch, y
  <2> QED BY <1>7, <2>2, <2>3 DEF ReqType
<1>9. req' = [req EXCEPT ![r] = y]
  BY <1>1, <1>7
<1> HIDE DEF y
<1>10. Only(w, r) /\ h'[w] = x /\ req'[r] = y /\ h'[w].time = h[w].time
  BY <1>1, <1>2, <1>6, <1>7, <1>8, <1>9 DEF Only
<1>11. GoodBurst(z, m, Pins(z, i) \ {w})
  <2>1. GoodBurst(z, n, Pins(z, i))
    BY <1>c, <1>d, <1>7, <1>10, BurstOf, NodeIs
  <2>2. Pins(z, i) \in SUBSET Workers
    BY SMTT(30) DEF Pins
  <2> QED BY <1>c, <1>e, <1>5, <2>1, <2>2, BurstCharged
<1>12. /\ NodeOnly(w, z, i) /\ NodeGood(z, i)
       /\ node' \in [Workers -> [ReqZones -> Ids \cup {NoNode}]]
       /\ node'[w][z] = NoNode
       /\ \A u \in ReqZones : node'[w][u] # NoNode =>
            /\ node[w][u] # NoNode /\ node'[w][u] = node[w][u]
            /\ lr'[u][node'[w][u]] = lr[u][node[w][u]]
  <2>1. GivesUp(w, z, i, m)
    BY <1>1 DEF GivesUp
  <2>2. m.key = lr[z][i].key /\ m.len = lr[z][i].len /\ m.count = lr[z][i].count - 1
    BY <1>d, <1>g, <1>5
  <2> QED BY <1>c, <1>5, <1>7, <1>10, <1>11, <2>1, <2>2, UnpinNode
<1>13. ASSUME NEW u \in ReqZones, node'[w][u] # NoNode PROVE PinnedBy(w, u)'
  <2>1. PinnedBy(w, u) /\ lr'[u][node'[w][u]] = lr[u][node[w][u]]
    BY <1>12, <1>13 DEF IInv, LrInv, PinInv
  <2>2. /\ Limits(w)' = Limits(w) /\ Value(w, u)' = Value(w, u)
        /\ req'[h'[w].req].visit = req[h[w].req].visit
    BY <1>a, <1>6, <1>8, <1>10 DEF Limits, Value
  <2> QED BY <1>b, <1>6, <1>10, <2>1, <2>2 DEF PinnedBy, Limiting
<1>14. Continues(w, r) /\ Holding(w, r)
  BY <1>6, <1>7, <1>8, <1>10 DEF Continues, Holding
<1>15. Charges(w, r)
  <2>1. /\ ~req[r].passed
        /\ \A u \in ReqZones :
             req[r].charged[u] = IF Applies(req[r].visit, u) /\ node[w][u] = NoNode THEN 1 ELSE 0
    BY <1>a, <1>b DEF IInv, ChargeInv, ChargedSoFar, Limiting
  <2>2. Applies(req[r].visit, z) /\ node[w][z] # NoNode
    BY <1>a, <1>c DEF NoNode, Ids
  <2>3. ASSUME NEW u \in ReqZones
        PROVE  y.charged[u] = IF Applies(y.visit, u) /\ node'[w][u] = NoNode THEN 1 ELSE 0
    <3>1. CASE u = z
      <4>1. req[r].charged[z] = 0 /\ y.charged[z] = 0 + 1
        BY <1>8, <2>1, <2>2
      <4> QED BY <1>8, <1>12, <2>2, <3>1, <4>1
    <3>2. CASE u # z
      <4>1. node'[w][u] = node[w][u]
        BY <1>12, <3>2 DEF NodeOnly
      <4> QED BY <1>8, <2>1, <3>2, <4>1
    <3> QED BY <3>1, <3>2
  <2>4. ~y.passed
    BY <1>8, <2>1
  <2> QED BY <1>6, <1>10, <2>3, <2>4 DEF Charges, ChargedSoFar
<1> QED BY <1>1, <1>7, <1>10, <1>12, <1>13, <1>14, <1>15, NodeStep

-----------------------------------------------------------------------------
(* The lookup in one zone. *)

(* The limit of limit_req that is looked at: its zone applies, none before *)
(* it that has not been looked at does, and none has the same zone.        *)
IsNext(w, n, z, k) ==
  /\ n = Smallest(ReqAhead(w)) /\ n >= h[w].n /\ n \in Nat /\ h[w].n \in Nat
  /\ n \in DOMAIN Limits(w)
  /\ Limits(w)[n].burst \in Nat /\ Limits(w)[n].nodelay \in BOOLEAN
  /\ z = Limits(w)[n].zone /\ k = Value(w, z)
  /\ Limits(w)[n].burst <= MaxBurst[z]
  /\ Applies(req[h[w].req].visit, z)
  /\ \A j \in DOMAIN Limits(w) : j \in Nat /\ j <= Len(Limits(w))
  /\ Len(Limits(w)) \in Nat
  /\ \A j \in DOMAIN Limits(w) : j # n => Limits(w)[j].zone # z
  /\ \A j \in DOMAIN Limits(w) :
       h[w].n <= j /\ j < n => ~Applies(req[h[w].req].visit, Limits(w)[j].zone)
  /\ node[w][z] = NoNode

(* There is one, as long as some limit is ahead. *)
LEMMA NextLimit ==
  ASSUME IInv, NEW w \in Workers, h[w].pc = "lookup", ReqAhead(w) # {}
  PROVE  \E n \in Nat, z \in ReqZones, k \in Keys : IsNext(w, n, z, k)
<1> DEFINE v == req[h[w].req].visit
           n == Smallest(ReqAhead(w))
           L == Limits(w)
<1>1. v \in Visits /\ h[w].n \in Nat /\ h[w].n >= 1 /\ L = v.limit_req
  BY MyRequest DEF IInv, TypeOK, Owned, Limits
<1>0. \A z : Value(w, z) = v.value[z]
  BY DEF Value
<1> HIDE DEF v
<1>2. /\ L \in Seq([zone : ReqZones, burst : Nat, nodelay : BOOLEAN])
      /\ v.value \in [ReqZones \cup ConnZones -> Keys \cup {NoKey}]
      /\ \A i \in DOMAIN L : /\ \A j \in 1 .. i - 1 : L[j].zone # L[i].zone
                             /\ L[i].burst <= MaxBurst[L[i].zone]
  BY <1>1, LimitsAssumption
<1>a. \A z : Applies(v, z) <=> /\ \E j \in DOMAIN L : L[j].zone = z
                               /\ Value(w, z) # NoKey
                               /\ KeyLen[Value(w, z)] <= 65535
  BY <1>0, <1>1 DEF Applies
<1> HIDE DEF L
<1>3. Len(L) \in Nat /\ DOMAIN L = 1 .. Len(L)
  BY <1>2
<1>4. ReqAhead(w) = {i \in h[w].n .. Len(L) : /\ Value(w, L[i].zone) # NoKey
                                              /\ KeyLen[Value(w, L[i].zone)] <= 65535}
  BY DEF ReqAhead, Ahead, L
<1>5. n \in ReqAhead(w) /\ \A j \in ReqAhead(w) : n <= j
  <2>1. ReqAhead(w) \in SUBSET Nat
    BY <1>1, <1>3, <1>4
  <2> QED BY <2>1, SmallestIn
<1> HIDE DEF n
<1>6. /\ n \in DOMAIN L /\ n \in Nat /\ n >= h[w].n /\ Value(w, L[n].zone) # NoKey
      /\ KeyLen[Value(w, L[n].zone)] <= 65535
  BY <1>1, <1>3, <1>4, <1>5
<1>7. L[n] \in [zone : ReqZones, burst : Nat, nodelay : BOOLEAN]
  <2> DEFINE T == [zone : ReqZones, burst : Nat, nodelay : BOOLEAN]
  <2>1. L \in Seq(T) /\ n \in 1 .. Len(L)
    BY <1>2, <1>3, <1>6
  <2> HIDE DEF T
  <2>2. L[n] \in T
    BY <2>1, ElementOfSeq
  <2> QED BY <2>2 DEF T
<1>8. PICK z \in ReqZones : z = L[n].zone
  BY <1>7
<1>9. PICK k \in Keys : k = Value(w, z)
  <2>1. v.value[z] \in Keys \cup {NoKey}
    BY <1>2
  <2> QED BY <1>0, <1>6, <1>8, <2>1
<1>10. Applies(v, z) /\ L[n].burst <= MaxBurst[z]
  BY <1>2, <1>6, <1>8, <1>a
<1>11. ASSUME NEW j \in DOMAIN L, j # n PROVE L[j].zone # z
  <2>1. j \in 1 .. n - 1 \/ n \in 1 .. j - 1
    BY <1>3, <1>6, <1>11
  <2> QED BY <1>2, <1>6, <1>8, <2>1
<1>12. ASSUME NEW j \in DOMAIN L, h[w].n <= j, j < n PROVE ~Applies(v, L[j].zone)
  <2>1. j \notin ReqAhead(w) /\ j \in h[w].n .. Len(L)
    BY <1>1, <1>3, <1>5, <1>6, <1>12
  <2> QED BY <1>4, <1>a, <2>1
<1>13. node[w][z] = NoNode
  <2> SUFFICES ASSUME node[w][z] # NoNode PROVE FALSE
    OBVIOUS
  <2>1. PICK j \in DOMAIN L : L[j].zone = z /\ j < h[w].n
    BY DEF IInv, LrInv, PinInv, PinnedBy, L
  <2>2. j # n
    BY <1>1, <1>3, <1>6, <2>1
  <2> QED BY <1>11, <2>1, <2>2
<1>14. \A j \in DOMAIN L : j \in Nat /\ j <= Len(L)
  BY <1>3
<1>15. L[n].burst \in Nat /\ L[n].nodelay \in BOOLEAN
  BY <1>7
<1>16. L = Limits(w) /\ v = req[h[w].req].visit /\ n = Smallest(ReqAhead(w))
  BY DEF L, v, n
<1>17. IsNext(w, n, z, k)
  BY <1>1, <1>3, <1>6, <1>8, <1>9, <1>10, <1>11, <1>12, <1>13, <1>14, <1>15, <1>16 DEF IsNext
<1> QED BY <1>6, <1>17

(* Who has pinned the node that was looked up, then. *)
PinsThen(w, z, i, rc) == IF rc = "AGAIN" THEN Pins(z, i) \cup {w} ELSE Pins(z, i)

(* What a lookup of the key k makes of the zone, and of its node i. *)
Outcome(w, z, k, account, rc, i, nodes, q) ==
  /\ rc \in {"BUSY", "ERROR", "OK", "AGAIN"}
  /\ i \in Ids \cup {NoNode}
  /\ rc \in {"OK", "AGAIN"} => i \in Ids
  /\ rc = "OK" => account
  /\ rc = "AGAIN" => ~account
  /\ nodes \in [Ids -> NodeType \cup {Free}]
  /\ Holds(q, Allocated(nodes))
  /\ \A j \in Ids : j # i => nodes[j] = lr[z][j] \/ (nodes[j] = Free /\ Pins(z, j) = {})
  /\ i \in Ids =>
       /\ nodes[i] \in NodeType
       /\ nodes[i].key = k
       /\ nodes[i].len = KeyLen[k] % 256
       /\ Pins(z, i) # {} => lr[z][i].key = k
       /\ \A j \in Ids : j # i /\ nodes[j] # Free /\ nodes[j].key = k => KeyLen[k] > 255
       /\ nodes[i].count >= Cardinality(PinsThen(w, z, i, rc))
       /\ crashes = 0 => nodes[i].count = Cardinality(PinsThen(w, z, i, rc))
       /\ GoodBurst(z, nodes[i], PinsThen(w, z, i, rc))

(* The number of the pins of a node, with one more. *)
LEMMA OnePinMore ==
  ASSUME NEW w \in Workers, NEW z \in ReqZones, node[w][z] = NoNode, NEW i \in Ids, NEW rc
  PROVE  /\ Cardinality(PinsThen(w, z, i, rc))
              = Cardinality(Pins(z, i)) + IF rc = "AGAIN" THEN 1 ELSE 0
         /\ PinsThen(w, z, i, rc) \in SUBSET Workers
         /\ Pins(z, i) \in SUBSET (Workers \ {w})
         /\ Cardinality(Pins(z, i)) \in Nat
<1>1. w \notin Pins(z, i) /\ Pins(z, i) \subseteq Workers
  BY DEF Pins, NoNode, Ids
<1>2. IsFiniteSet(Pins(z, i)) /\ Cardinality(Pins(z, i)) \in Nat
  BY PinsFinite
<1>3. Cardinality(Pins(z, i) \cup {w}) = Cardinality(Pins(z, i)) + 1
  BY <1>1, <1>2, FS_AddElement
<1> QED BY <1>1, <1>2, <1>3 DEF PinsThen

(* The node of the key is found. *)
LEMMA LookFound ==
  ASSUME IInv, NEW w \in Workers, NEW z \in ReqZones, NEW k \in Keys, node[w][z] = NoNode,
         NEW i \in Found(lr[z], k),
         NEW rc \in {"BUSY", "OK", "AGAIN"}, NEW account \in BOOLEAN,
         rc = "OK" => account, rc = "AGAIN" => ~account,
         NEW m \in NodeType, m.key = lr[z][i].key, m.len = lr[z][i].len,
         m.count = lr[z][i].count + IF rc = "AGAIN" THEN 1 ELSE 0,
         rc # "OK" => m.excess = lr[z][i].excess /\ m.last = lr[z][i].last,
         rc = "OK" => m.excess = Excess(z, lr[z][i], h[w].time) /\ m.last = h[w].time,
         rc # "BUSY" => Excess(z, lr[z][i], h[w].time) <= MaxBurst[z]
  PROVE  Outcome(w, z, k, account, rc, i, [lr[z] EXCEPT ![i] = m], QueueToHead(queue[z], i))
<1> DEFINE nodes == [lr[z] EXCEPT ![i] = m]
           q == QueueToHead(queue[z], i)
<1>1. /\ i \in Ids /\ lr[z][i] # Free /\ lr[z][i].key = k /\ lr[z][i].len = KeyLen[k]
      /\ lr[z] \in [Ids -> NodeType \cup {Free}]
  BY DEF Found, Allocated, IInv, TypeOK
<1>2. lr[z][i] \in NodeType /\ m # Free
  BY <1>1, NodeIs
<1>3. /\ nodes \in [Ids -> NodeType \cup {Free}] /\ nodes[i] = m
      /\ \A j \in Ids : j # i => nodes[j] = lr[z][j]
  BY <1>1
<1> HIDE DEF nodes
<1>4. Allocated(nodes) = Allocated(lr[z]) /\ i \in Allocated(lr[z])
  BY <1>1, <1>2, <1>3 DEF Allocated
<1>5. Holds(q, Allocated(nodes))
  BY <1>4, HoldsToHead DEF IInv, LrInv, QueueInv
<1> HIDE DEF q
<1>6. m.len = KeyLen[k] % 256
  BY <1>1, <1>4 DEF IInv, LrInv, KeyInv
<1>7. ASSUME NEW j \in Ids, j # i, nodes[j] # Free, nodes[j].key = k PROVE KeyLen[k] > 255
  <2>1. j \in Allocated(lr[z]) /\ lr[z][j].key = lr[z][i].key
    BY <1>1, <1>3, <1>7 DEF Allocated
  <2>2. ~(KeyLen[k] <= 255)
    BY <1>1, <1>4, <1>7, <2>1 DEF IInv, LrInv, KeyInv
  <2>3. KeyLen[k] \in Nat
    BY LimitsAssumption
  <2> QED BY <2>2, <2>3
<1> DEFINE P == PinsThen(w, z, i, rc)
<1>8. /\ m.count >= Cardinality(P)
      /\ crashes = 0 => m.count = Cardinality(P)
  <2>1. /\ lr[z][i].count >= Cardinality(Pins(z, i))
        /\ crashes = 0 => lr[z][i].count = Cardinality(Pins(z, i))
    BY <1>1 DEF IInv, LrInv, CountInv
  <2>2. /\ Cardinality(P) = Cardinality(Pins(z, i)) + IF rc = "AGAIN" THEN 1 ELSE 0
        /\ Cardinality(Pins(z, i)) \in Nat
    BY <1>1, OnePinMore
  <2>3. lr[z][i].count \in Nat
    BY <1>2, NodeIs
  <2> HIDE DEF P
  <2> QED BY <2>1, <2>2, <2>3
<1>9. GoodBurst(z, m, P)
  <2>0. P \in SUBSET Workers /\ Pins(z, i) \in SUBSET (Workers \ {w})
    BY <1>1, OnePinMore
  <2>1. CASE rc # "OK"
    <3>1. GoodBurst(z, lr[z][i], Pins(z, i))
      <4>1. \A u : Beyond(z, i, u) = BeyondOf(z, lr[z][i], Pins(z, i), u)
        BY DEF Beyond, BeyondOf
      <4> QED BY <1>1, <4>1 DEF IInv, LrInv, BurstInv, GoodBurst, Allocated
    <3>2. \A v \in P : v \in Pins(z, i) \/ Excess(z, lr[z][i], h[v].time) <= MaxBurst[z]
      BY DEF PinsThen
    <3>3. Pins(z, i) \in SUBSET Workers /\ m.excess = lr[z][i].excess /\ m.last = lr[z][i].last
      BY <2>0, <2>1
    <3> HIDE DEF P
    <3> QED BY <1>2, <2>0, <3>1, <3>2, <3>3, BurstSame
  <2>2. CASE rc = "OK"
    <3>1. P = Pins(z, i) /\ h[w].time \in Int
      BY <2>2 DEF PinsThen, IInv, TypeOK
    <3>2. m.excess <= MaxBurst[z]
      BY <2>2
    <3> HIDE DEF P
    <3> QED BY <1>2, <2>0, <2>2, <3>1, <3>2, BurstAtOnce
  <2> QED BY <2>1, <2>2
<1> HIDE DEF P
<1>10. Outcome(w, z, k, account, rc, i, nodes, q)
  BY <1>1, <1>3, <1>5, <1>6, <1>7, <1>8, <1>9 DEF Outcome, P
<1> QED BY <1>10 DEF nodes, q

(* There is no node of the key: one is made, if there is room. *)
LEMMA LookNew ==
  ASSUME IInv, NEW w \in Workers, NEW z \in ReqZones, NEW k \in Keys, node[w][z] = NoNode,
         Found(lr[z], k) = {}, NEW account \in BOOLEAN, NEW t \in Int, t = h[w].time, t >= Start
  PROVE  LET l == LookupNew(z, k, account, t)
         IN  Outcome(w, z, k, account, l.rc, l.node, l.nodes, l.queue)
<1> DEFINE zn == [nodes |-> lr[z], queue |-> queue[z]]
           zone == Room(z, zn, t)
           i == Smallest(Ids \ Allocated(zone.nodes))
           new == [key |-> k, len |-> KeyLen[k] % 256, excess |-> 0,
                   last |-> IF account THEN t ELSE 0, count |-> IF account THEN 0 ELSE 1]
           l == LookupNew(z, k, account, t)
<1>1. zn.nodes = lr[z] /\ zn.queue = queue[z]
  OBVIOUS
<1>2. GoodZone(zn)
  BY <1>1 DEF GoodZone, IInv, TypeOK, LrInv, QueueInv
<1>d. l = IF Full(zone)
          THEN [rc |-> "ERROR", excess |-> 0, node |-> NoNode,
                nodes |-> zone.nodes, queue |-> zone.queue]
          ELSE [rc |-> IF account THEN "OK" ELSE "AGAIN", excess |-> 0, node |-> i,
                nodes |-> [zone.nodes EXCEPT ![i] = new], queue |-> <<i>> \o zone.queue]
  BY DEF LookupNew
<1> HIDE DEF zn, l
<1>3. GoodZone(zone) /\ Shrinks(zn, zone)
  BY <1>2, Rooms
<1> HIDE DEF zone
<1>4. zone.nodes \in [Ids -> NodeType \cup {Free}] /\ Holds(zone.queue, Allocated(zone.nodes))
  BY <1>3 DEF GoodZone
<1>5. ASSUME NEW j \in Ids
      PROVE  zone.nodes[j] = lr[z][j] \/ (zone.nodes[j] = Free /\ Pins(z, j) = {})
  <2>1. CASE zone.nodes[j] = Free /\ lr[z][j] # Free /\ lr[z][j].count = 0
    <3>1. 0 >= Cardinality(Pins(z, j))
      BY <2>1 DEF IInv, LrInv, CountInv
    <3>2. Cardinality(Pins(z, j)) = 0
      BY <3>1, PinsFinite
    <3> QED BY <2>1, <3>2, PinsFinite
  <2> QED BY <1>1, <1>3, <2>1 DEF Shrinks
<1>6. CASE Full(zone)
  <2>1. /\ l.rc = "ERROR" /\ l.node = NoNode /\ l.nodes = zone.nodes /\ l.queue = zone.queue
    BY <1>6, <1>d
  <2>2. NoNode \notin Ids
    BY DEF NoNode, Ids
  <2>3. Outcome(w, z, k, account, l.rc, l.node, l.nodes, l.queue)
    BY <1>4, <1>5, <2>1, <2>2 DEF Outcome
  <2> QED BY <2>3 DEF l
<1>7. CASE ~Full(zone)
  <2>0. PICK rc \in {"OK", "AGAIN"} : rc = IF account THEN "OK" ELSE "AGAIN"
    OBVIOUS
  <2> DEFINE nodes == [zone.nodes EXCEPT ![i] = new]
             q == <<i>> \o zone.queue
  <2>1. l.rc = rc /\ l.node = i /\ l.nodes = nodes /\ l.queue = q
    <3> HIDE DEF nodes, i, q
    <3>1. l = [rc |-> rc, excess |-> 0, node |-> i, nodes |-> nodes, queue |-> q]
      BY <1>7, <1>d, <2>0 DEF nodes, q
    <3> QED BY <3>1
  <2>2. i \in Ids /\ i \notin Allocated(zone.nodes)
    <3>1. Ids \ Allocated(zone.nodes) \in SUBSET Nat /\ Ids \ Allocated(zone.nodes) # {}
      BY <1>7 DEF Full, Allocated, Ids
    <3>2. Smallest(Ids \ Allocated(zone.nodes)) \in Ids \ Allocated(zone.nodes)
      BY <3>1, SmallestIn
    <3> QED BY <3>2
  <2> HIDE DEF i
  <2>3. zone.nodes[i] = Free /\ Pins(z, i) = {}
    <3>1. zone.nodes[i] = Free
      BY <2>2 DEF Allocated
    <3>2. lr[z][i] = Free => Pins(z, i) = {}
      BY <2>2, PinsFinite DEF IInv, LrInv
    <3> QED BY <1>5, <2>2, <3>1, <3>2
  <2>4. /\ new \in NodeType /\ new.key = k /\ new.len = KeyLen[k] % 256 /\ new.excess = 0
        /\ new.last = (IF account THEN t ELSE 0) /\ new.count = (IF account THEN 0 ELSE 1)
    <3>1. PICK len \in 0 .. 255 : len = KeyLen[k] % 256
      <4>1. KeyLen[k] \in Nat
        BY LimitsAssumption
      <4> QED BY <4>1
    <3>2. PICK last \in Int : last = IF account THEN t ELSE 0
      OBVIOUS
    <3>3. PICK count \in Nat : count = IF account THEN 0 ELSE 1
      OBVIOUS
    <3>4. new = [key |-> k, len |-> len, excess |-> 0, last |-> last, count |-> count]
      BY <3>1, <3>2, <3>3
    <3> HIDE DEF new
    <3> QED BY <3>1, <3>2, <3>3, <3>4 DEF NodeType
  <2> HIDE DEF new
  <2>5. /\ nodes \in [Ids -> NodeType \cup {Free}] /\ nodes[i] = new
        /\ \A j \in Ids : j # i => nodes[j] = zone.nodes[j]
    BY <1>4, <2>2, <2>4
  <2> HIDE DEF nodes
  <2>6. Allocated(nodes) = Allocated(zone.nodes) \cup {i}
    <3>1. new # Free
      BY <2>4, NodeIs
    <3> QED BY <2>2, <2>5, <3>1 DEF Allocated
  <2>7. Holds(q, Allocated(nodes))
    BY <1>4, <2>2, <2>6, HoldsInsert
  <2> HIDE DEF q
  <2>8. ASSUME NEW j \in Ids, j # i, nodes[j] # Free, nodes[j].key = k PROVE KeyLen[k] > 255
    <3>1. nodes[j] = lr[z][j] /\ j \in Allocated(lr[z])
      BY <1>5, <2>5, <2>8 DEF Allocated
    <3>2. lr[z][j].len = KeyLen[k] % 256
      BY <2>8, <3>1 DEF IInv, LrInv, KeyInv
    <3>3. lr[z][j].len # KeyLen[k]
      BY <2>8, <3>1 DEF Found
    <3>4. KeyLen[k] \in Nat
      BY LimitsAssumption
    <3> QED BY <3>2, <3>3, <3>4
  <2> DEFINE P == PinsThen(w, z, i, rc)
  <2>9. P = (IF account THEN {} ELSE {w}) /\ P \in SUBSET Workers
    BY <2>0, <2>3 DEF PinsThen
  <2>10. new.count = Cardinality(P) /\ new.count \in Nat
    <3>1. Cardinality({}) = 0 /\ Cardinality({w}) = 1
      BY FS_EmptySet, FS_Singleton
    <3>2. CASE account
      BY <2>4, <2>9, <3>1, <3>2
    <3>3. CASE ~account
      BY <2>4, <2>9, <3>1, <3>3
    <3> QED BY <3>2, <3>3
  <2>11. GoodBurst(z, new, P)
    <3>1. ~account => Excess(z, new, t) = 0
      BY <2>4, ExcessNew
    <3>2. \A v \in P : Excess(z, new, h[v].time) = 0
      BY <2>9, <3>1
    <3> HIDE DEF P
    <3> QED BY <2>4, <2>9, <3>2, BurstNew
  <2> HIDE DEF P
  <2>12. \A j \in Ids : j # i => nodes[j] = lr[z][j] \/ (nodes[j] = Free /\ Pins(z, j) = {})
    BY <1>5, <2>5
  <2>13. new.count >= Cardinality(P)
    BY <2>10
  <2>14. Outcome(w, z, k, account, rc, i, nodes, q)
    BY <2>0, <2>2, <2>3, <2>4, <2>5, <2>7, <2>8, <2>10, <2>11, <2>12, <2>13 DEF Outcome, P
  <2>15. Outcome(w, z, k, account, l.rc, l.node, l.nodes, l.queue)
    BY <2>1, <2>14
  <2> QED BY <2>15 DEF l
<1> QED BY <1>6, <1>7

(* Both together. *)
LEMMA Looks ==
  ASSUME IInv, NEW w \in Workers, NEW n \in Nat, NEW z \in ReqZones, NEW k \in Keys,
         IsNext(w, n, z, k), h[w].pc = "lookup"
  PROVE  LET l == LookupIn(z, k, Limits(w)[n], Account(w, n), h[w].time)
         IN  /\ Outcome(w, z, k, Account(w, n), l.rc, l.node, l.nodes, l.queue)
             /\ l.rc = "OK" => l.excess \in Nat
<1>1. PICK t \in Int : t = h[w].time
  BY DEF IInv, TypeOK
<1>2. PICK account \in BOOLEAN : account = Account(w, n)
  BY DEF Account
<1>3. PICK limit : limit = Limits(w)[n]
  OBVIOUS
<1>4. /\ limit.burst \in Nat /\ limit.burst <= MaxBurst[z] /\ node[w][z] = NoNode
      /\ t >= Start /\ MaxBurst[z] \in Nat
  BY <1>1, <1>3, LimitsAssumption, MyRequest DEF IsNext, Limiting
<1> DEFINE l == LookupIn(z, k, limit, account, t)
           found == Found(lr[z], k)
<1>5. CASE found = {}
  <2>1. l = LookupNew(z, k, account, t)
    BY <1>5 DEF LookupIn
  <2>2. Outcome(w, z, k, account, l.rc, l.node, l.nodes, l.queue)
    BY <1>1, <1>4, <1>5, <2>1, LookNew
  <2>3. l.excess = 0
    BY <2>1 DEF LookupNew
  <2> HIDE DEF l
  <2> QED BY <1>1, <1>2, <1>3, <2>2, <2>3 DEF l
<1>6. CASE found # {}
  <2>1. PICK i \in found : i = Smallest(found)
    <3>1. found \in SUBSET Nat
      BY DEF Found, Allocated, Ids
    <3> HIDE DEF found
    <3> QED BY <1>6, <3>1, SmallestIn
  <2>2. i \in Ids /\ lr[z][i] \in NodeType
    BY DEF Found, Allocated, IInv, TypeOK
  <2>3. PICK nd \in NodeType : nd = lr[z][i]
    BY <2>2
  <2>4. PICK e \in Nat : e = Excess(z, nd, t)
    BY BurstTypes
  <2> DEFINE nb == nd
             no1 == [nd EXCEPT !.excess = e]
             no == [no1 EXCEPT !.last = t]
             na == [nd EXCEPT !.count = nd.count + 1]
             q == QueueToHead(queue[z], i)
  <2>5. l = LookupFound(z, i, limit, account, t)
    BY <1>6, <2>1 DEF LookupIn
  <2>6. CASE e > limit.burst
    <3>1. /\ l.rc = "BUSY" /\ l.node = i /\ l.nodes = [lr[z] EXCEPT ![i] = nd] /\ l.queue = q
      BY <2>3, <2>4, <2>5, <2>6 DEF LookupFound
    <3>2. nd.count = lr[z][i].count + 0
      BY <2>3, NodeIs
    <3>3. Outcome(w, z, k, account, "BUSY", i, [lr[z] EXCEPT ![i] = nd], q)
      BY <1>4, <2>1, <2>3, <3>2, LookFound
    <3> HIDE DEF l, q
    <3> QED BY <1>1, <1>2, <1>3, <3>1, <3>3 DEF l
  <2>7. CASE ~(e > limit.burst) /\ account
    <3>1. /\ l.rc = "OK" /\ l.node = i /\ l.nodes = [lr[z] EXCEPT ![i] = no] /\ l.queue = q
          /\ l.excess = e
      BY <2>3, <2>4, <2>5, <2>7 DEF LookupFound
    <3>2. /\ no1 \in NodeType /\ no1.key = nd.key /\ no1.len = nd.len /\ no1.excess = e
          /\ no1.count = nd.count
      BY DEF NodeType
    <3>3. /\ no \in NodeType /\ no.key = nd.key /\ no.len = nd.len /\ no.excess = e
          /\ no.count = nd.count /\ no.last = t
      <4> HIDE DEF no1
      <4> QED BY <3>2 DEF NodeType
    <3> HIDE DEF no
    <3>4. no.count = lr[z][i].count + 0
      BY <2>3, <3>3, NodeIs
    <3>5. Excess(z, lr[z][i], h[w].time) <= MaxBurst[z]
      BY <1>1, <1>4, <2>3, <2>4, <2>7
    <3>6. /\ no.key = lr[z][i].key /\ no.len = lr[z][i].len
          /\ no.excess = Excess(z, lr[z][i], h[w].time) /\ no.last = h[w].time
      BY <1>1, <2>3, <2>4, <3>3
    <3>7. Outcome(w, z, k, account, "OK", i, [lr[z] EXCEPT ![i] = no], q)
      BY <1>4, <2>1, <2>7, <3>3, <3>4, <3>5, <3>6, LookFound
    <3> HIDE DEF l, q
    <3> QED BY <1>1, <1>2, <1>3, <3>1, <3>7 DEF l
  <2>8. CASE ~(e > limit.burst) /\ ~account
    <3>1. /\ l.rc = "AGAIN" /\ l.node = i /\ l.nodes = [lr[z] EXCEPT ![i] = na] /\ l.queue = q
      BY <2>3, <2>4, <2>5, <2>8 DEF LookupFound
    <3>2. nd.count \in Nat
      BY NodeIs
    <3>3. /\ na \in NodeType /\ na.key = nd.key /\ na.len = nd.len /\ na.excess = nd.excess
          /\ na.last = nd.last /\ na.count = nd.count + 1
      BY <3>2 DEF NodeType
    <3> HIDE DEF na
    <3>5. Excess(z, lr[z][i], h[w].time) <= MaxBurst[z]
      BY <1>1, <1>4, <2>3, <2>4, <2>8
    <3>6. /\ na.key = lr[z][i].key /\ na.len = lr[z][i].len /\ na.count = lr[z][i].count + 1
          /\ na.excess = lr[z][i].excess /\ na.last = lr[z][i].last
      BY <2>3, <3>3
    <3>7. Outcome(w, z, k, account, "AGAIN", i, [lr[z] EXCEPT ![i] = na], q)
      BY <1>4, <2>1, <2>8, <3>3, <3>5, <3>6, LookFound
    <3> HIDE DEF l, q
    <3> QED BY <1>1, <1>2, <1>3, <3>1, <3>7 DEF l
  <2> QED BY <2>6, <2>7, <2>8
<1> QED BY <1>5, <1>6

Sets(w, rc, point, n, late) ==
  h' = [h EXCEPT ![w].rc = rc, ![w].pc = point, ![w].n = n, ![w].late = late]

(* The handler, after the lookup. *)
LEMMA LookedUp ==
  ASSUME h \in [Workers -> HandlerType], NEW w \in Workers, NEW n \in Nat,
         NEW rc \in {"BUSY", "ERROR", "OK", "AGAIN"},
         NEW point \in {"undo", "lookup", "account"}, NEW late \in BOOLEAN,
         Sets(w, rc, point, n, late)
  PROVE  /\ h' \in [Workers -> HandlerType]
         /\ \A v \in Workers : v # w => h'[v] = h[v]
         /\ h'[w].rc = rc /\ h'[w].pc = point /\ h'[w].n = n
         /\ h'[w].req = h[w].req /\ h'[w].time = h[w].time
<1> DEFINE x1 == [h[w] EXCEPT !.rc = rc]
           x2 == [x1 EXCEPT !.pc = point]
           x3 == [x2 EXCEPT !.n = n]
           x == [x3 EXCEPT !.late = late]
<1>1. x1 \in HandlerType /\ x1.rc = rc /\ x1.req = h[w].req /\ x1.time = h[w].time
  BY DEF HandlerType
<1>6. h' = [h EXCEPT ![w] = x]
  BY DEF Sets
<1> HIDE DEF x1
<1>2. /\ x2 \in HandlerType /\ x2.rc = rc /\ x2.req = h[w].req /\ x2.time = h[w].time
      /\ x2.pc = point
  BY <1>1 DEF HandlerType
<1> HIDE DEF x2
<1>3. /\ x3 \in HandlerType /\ x3.rc = rc /\ x3.req = h[w].req /\ x3.time = h[w].time
      /\ x3.pc = point /\ x3.n = n
  BY <1>2 DEF HandlerType
<1> HIDE DEF x3
<1>4. /\ x \in HandlerType /\ x.rc = rc /\ x.req = h[w].req /\ x.time = h[w].time
      /\ x.pc = point /\ x.n = n
  BY <1>3 DEF HandlerType
<1> HIDE DEF x
<1> QED BY <1>4, <1>6

(* A lookup: the node found or made is pinned, or charged if the zone is   *)
(* the last; what expires is nobody's.                                     *)
LEMMA LookupKeeps ==
  ASSUME IInv, NEW w \in Workers, Lookup(w)
  PROVE  IInv'
<1>a. PICK r : r = h[w].req
  OBVIOUS
<1>b. h[w].pc = "lookup" /\ ReqAhead(w) # {}
  BY DEF Lookup
<1>c. PICK n \in Nat, z \in ReqZones, k \in Keys : IsNext(w, n, z, k)
  BY <1>b, NextLimit
<1>d. PICK l : l = LookupIn(z, k, Limits(w)[n], Account(w, n), h[w].time)
  OBVIOUS
<1>e. Outcome(w, z, k, Account(w, n), l.rc, l.node, l.nodes, l.queue)
  BY <1>b, <1>c, <1>d, Looks
<1>f. PICK rc \in {"BUSY", "ERROR", "OK", "AGAIN"} : rc = l.rc
  BY <1>e DEF Outcome
<1>g. PICK i \in Ids \cup {NoNode} : i = l.node
  BY <1>e DEF Outcome
<1>h. PICK nodes, q : nodes = l.nodes /\ q = l.queue
  OBVIOUS
<1>i. PICK point \in {"undo", "lookup", "account"} :
        /\ point = CASE rc \in {"BUSY", "ERROR"} -> "undo"
                  [] rc = "AGAIN" -> "lookup"
                  [] rc = "OK" -> "account"
        /\ rc \in {"BUSY", "ERROR"} => point = "undo"
        /\ rc = "AGAIN" => point = "lookup"
        /\ rc = "OK" => point = "account"
  OBVIOUS
<1> DEFINE late == /\ l.rc = "OK"
                   /\ ~Limits(w)[n].nodelay
                   /\ l.excess * 1000 >= Rate[z]
<1>j. late \in BOOLEAN
  OBVIOUS
<1>1. /\ lr' = [lr EXCEPT ![z] = nodes]
      /\ queue' = [queue EXCEPT ![z] = q]
      /\ node' = IF rc = "AGAIN" THEN [node EXCEPT ![w][z] = i] ELSE node
      /\ req' = IF rc = "OK" THEN [req EXCEPT ![r].charged[z] = @ + 1] ELSE req
      /\ Sets(w, rc, point, n + 1, late)
      /\ UNCHANGED <<lc, now, crashes, faults>>
  <2>1. n = Smallest(ReqAhead(w)) /\ z = Limits(w)[n].zone /\ k = Value(w, z)
    BY SMTT(30), <1>c DEF IsNext
  <2>2. lr' = [lr EXCEPT ![z] = nodes] /\ queue' = [queue EXCEPT ![z] = q]
    BY <1>d, <1>h, <2>1 DEF Lookup
  <2>3. node' = IF rc = "AGAIN" THEN [node EXCEPT ![w][z] = i] ELSE node
    BY ZenonT(40), <1>d, <1>f, <1>g, <2>1 DEF Lookup
  <2>4. req' = IF rc = "OK" THEN [req EXCEPT ![r].charged[z] = @ + 1] ELSE req
    BY <1>a, <1>d, <1>f, <2>1 DEF Lookup
  <2>5. Sets(w, rc, point, n + 1, late)
    <3> DEFINE p == CASE l.rc \in {"BUSY", "ERROR"} -> "undo"
                      [] l.rc = "AGAIN" -> "lookup"
                      [] l.rc = "OK" -> "account"
    <3>1. h' = [h EXCEPT ![w].rc = l.rc, ![w].pc = p, ![w].n = n + 1, ![w].late = late]
      BY ZenonT(40), <1>d, <2>1 DEF Lookup
    <3>2. p = point
      BY <1>f, <1>i
    <3> HIDE DEF p, late
    <3> QED BY <1>f, <3>1, <3>2 DEF Sets
  <2>6. UNCHANGED <<lc, now, crashes, faults>>
    BY DEF Lookup, bounds
  <2> QED BY ZenonT(40), <2>2, <2>3, <2>4, <2>5, <2>6
<1> HIDE DEF late
<1>2. /\ h' \in [Workers -> HandlerType]
      /\ \A v \in Workers : v # w => h'[v] = h[v]
      /\ h'[w].rc = rc /\ h'[w].pc = point /\ h'[w].n = n + 1
      /\ h'[w].req = r /\ h'[w].time = h[w].time
  <2>1. h \in [Workers -> HandlerType] /\ n + 1 \in Nat
    BY DEF IInv, TypeOK, HandlerType
  <2> QED BY <1>a, <1>j, <1>1, <2>1, LookedUp
<1>3. /\ r \in Requests /\ Mine(w, r) /\ req \in [Requests -> ReqType] /\ req[r] \in ReqType
      /\ req[r].state = "limiting" /\ req[r].worker = w /\ req[r].visit \in Visits
      /\ req[r].held = <<>> /\ h[w].time >= Start
  BY <1>a, <1>b, MyRequest DEF Limiting
<1>4. PICK y \in ReqType :
        /\ req' = [req EXCEPT ![r] = y]
        /\ y.state = "limiting" /\ y.worker = w /\ y.visit = req[r].visit
        /\ y.held = <<>> /\ y.passed = req[r].passed
        /\ \A u \in ReqZones :
             y.charged[u] = IF rc = "OK" /\ u = z THEN req[r].charged[z] + 1 ELSE req[r].charged[u]
  <2>1. CASE rc # "OK"
    <3>1. req' = [req EXCEPT ![r] = req[r]]
      BY <1>1, <1>3, <2>1
    <3> QED BY <1>3, <2>1, <3>1
  <2>2. CASE rc = "OK"
    <3> DEFINE ch == [req[r].charged EXCEPT ![z] = req[r].charged[z] + 1]
               y == [req[r] EXCEPT !.charged = ch]
    <3>1. req[r].charged \in [ReqZones -> Nat]
      BY <1>3 DEF ReqType
    <3>2. /\ ch \in [ReqZones -> Nat]
          /\ \A u \in ReqZones : ch[u] = IF u = z THEN req[r].charged[z] + 1 ELSE req[r].charged[u]
      <4>1. req[r].charged[z] + 1 \in Nat
        BY <3>1
      <4> QED BY <3>1, <4>1
    <3>3. req' = [req EXCEPT ![r] = y]
      BY <1>1, <1>3, <2>2
    <3> HIDE DEF ch
    <3>4. /\ y \in ReqType /\ y.charged = ch /\ y.state = req[r].state
          /\ y.worker = req[r].worker /\ y.visit = req[r].visit
          /\ y.held = req[r].held /\ y.passed = req[r].passed
      BY <1>3, <3>2 DEF ReqType
    <3> HIDE DEF y
    <3> QED BY <1>3, <2>2, <3>2, <3>3, <3>4
  <2> QED BY <2>1, <2>2
<1>5. Only(w, r) /\ req'[r] = y
  BY <1>2, <1>3, <1>4 DEF Only
<1>6. /\ rc \in {"OK", "AGAIN"} => i \in Ids
      /\ rc = "OK" => Account(w, n)
      /\ rc = "AGAIN" => ~Account(w, n)
      /\ nodes \in [Ids -> NodeType \cup {Free}]
      /\ Holds(q, Allocated(nodes))
      /\ \A j \in Ids : j # i => nodes[j] = lr[z][j] \/ (nodes[j] = Free /\ Pins(z, j) = {})
  BY <1>e, <1>f, <1>g, <1>h DEF Outcome
<1>7. i \in Ids =>
       /\ nodes[i] \in NodeType
       /\ nodes[i].key = k
       /\ nodes[i].len = KeyLen[k] % 256
       /\ Pins(z, i) # {} => lr[z][i].key = k
       /\ \A j \in Ids : j # i /\ nodes[j] # Free /\ nodes[j].key = k => KeyLen[k] > 255
       /\ nodes[i].count >= Cardinality(PinsThen(w, z, i, rc))
       /\ crashes = 0 => nodes[i].count = Cardinality(PinsThen(w, z, i, rc))
       /\ GoodBurst(z, nodes[i], PinsThen(w, z, i, rc))
  BY <1>e, <1>f, <1>g, <1>h DEF Outcome
<1>8. /\ n >= h[w].n /\ h[w].n \in Nat /\ n \in DOMAIN Limits(w) /\ node[w][z] = NoNode
      /\ z = Limits(w)[n].zone /\ k = Value(w, z) /\ Len(Limits(w)) \in Nat
      /\ Applies(req[r].visit, z)
      /\ \A j \in DOMAIN Limits(w) : j \in Nat /\ j <= Len(Limits(w))
      /\ \A j \in DOMAIN Limits(w) : j # n => Limits(w)[j].zone # z
      /\ \A j \in DOMAIN Limits(w) :
           h[w].n <= j /\ j < n => ~Applies(req[r].visit, Limits(w)[j].zone)
  BY <1>a, <1>c DEF IsNext
<1>9. lr \in LrType /\ node \in [Workers -> [ReqZones -> Ids \cup {NoNode}]]
  BY DEF IInv, TypeOK, LrType
<1>10. /\ node' \in [Workers -> [ReqZones -> Ids \cup {NoNode}]]
       /\ \A v \in Workers : v # w => node'[v] = node[v]
       /\ \A u \in ReqZones : u # z => node'[w][u] = node[w][u]
       /\ node'[w][z] = IF rc = "AGAIN" THEN i ELSE NoNode
  BY <1>1, <1>8, <1>9
<1>11. /\ lr' \in LrType /\ lr'[z] = nodes /\ \A u \in ReqZones : u # z => lr'[u] = lr[u]
  BY <1>1, <1>6, <1>9 DEF LrType
<1>12. queue' \in [ReqZones -> Seq(Ids)] /\ queue'[z] = q /\ \A u \in ReqZones : u # z => queue'[u] = queue[u]
  <2>1. queue \in [ReqZones -> Seq(Ids)]
    BY DEF IInv, TypeOK
  <2>2. q \in Seq(Ids)
    <3>1. q \in Seq(Allocated(nodes)) /\ Allocated(nodes) \subseteq Ids
      BY <1>6 DEF Holds, Allocated
    <3> QED BY <3>1, SeqMonotonic
  <2> QED BY <1>1, <2>1, <2>2
<1>13. NoNode \notin Ids
  BY DEF NoNode, Ids
<1>14. \A j \in Ids : Pins(z, j)' = IF j = i THEN PinsThen(w, z, i, rc) ELSE Pins(z, j)
  BY <1>8, <1>10, <1>13 DEF Pins, PinsThen
<1>15. NodeOnly(w, z, i)
  BY <1>6, <1>10, <1>11, <1>12, <1>14 DEF NodeOnly
<1>16. ASSUME i \in Ids PROVE NodeGood(z, i)
  <2>1. Pins(z, i)' = PinsThen(w, z, i, rc) /\ lr'[z][i] = nodes[i] /\ nodes[i] # Free
    BY <1>7, <1>11, <1>14, <1>16, NodeIs
  <2>2. GoodBurst(z, lr'[z][i], Pins(z, i)')
    BY <1>7, <1>16, <2>1
  <2>3. /\ lr'[z][i].excess <= MaxBurst[z] + IF z \in Shared THEN 1001 * (N - 1) ELSE 0
        /\ \A u \in 0 .. N - 1 : Cardinality(Beyond(z, i, u)') < N - u
    BY <1>2, <1>3, <1>5, <1>16, <2>2, BurstOf
  <2> QED BY <1>7, <1>11, <1>16, <2>1, <2>3 DEF NodeGood
<1>17. /\ Limits(w)' = Limits(w) /\ req'[h'[w].req].visit = req[h[w].req].visit
       /\ \A u : Value(w, u)' = Value(w, u)
  BY <1>a, <1>2, <1>4, <1>5 DEF Limits, Value
<1>18. ASSUME NEW u \in ReqZones, node'[w][u] # NoNode PROVE PinnedBy(w, u)'
  <2>0. point \in Limiting /\ (point = "lookup" => rc = "AGAIN")
    BY <1>i DEF Limiting
  <2>1. CASE u # z
    <3>1. node[w][u] # NoNode /\ node'[w][u] = node[w][u] /\ lr'[u] = lr[u]
      BY <1>10, <1>11, <1>18, <2>1
    <3>2. PinnedBy(w, u)
      BY <3>1 DEF IInv, LrInv, PinInv
    <3>3. PICK j \in DOMAIN Limits(w) : Limits(w)[j].zone = u /\ j < Len(Limits(w)) /\ j < h[w].n
      BY <1>b, <3>2 DEF PinnedBy
    <3>4. j < n + 1
      BY <1>8, <3>3
    <3> QED BY <1>2, <1>17, <2>0, <3>1, <3>2, <3>3, <3>4 DEF PinnedBy
  <2>2. CASE u = z
    <3>1. rc = "AGAIN" /\ i \in Ids /\ node'[w][z] = i /\ point = "lookup"
      BY <1>6, <1>10, <1>18, <1>i, <2>2
    <3>2. n < Len(Limits(w)) /\ n < n + 1
      BY <1>6, <1>8, <3>1 DEF Account
    <3>3. lr'[z][i] # Free /\ lr'[z][i].key = k
      BY <1>7, <1>11, <3>1, NodeIs
    <3>4. lr'[z][node'[w][z]] # Free /\ lr'[z][node'[w][z]].key = Value(w, z)
      BY <1>8, <3>1, <3>3
    <3>5. Applies(req[h[w].req].visit, z)
      BY <1>a, <1>8
    <3> QED BY <1>2, <1>8, <1>17, <2>0, <2>2, <3>1, <3>2, <3>4, <3>5 DEF PinnedBy
  <2> QED BY <2>1, <2>2
<1>19. Continues(w, r) /\ Holding(w, r)
  <2>1. n + 1 >= 1
    OBVIOUS
  <2>2. Continues(w, r)
    BY <1>2, <1>3, <1>4, <1>5, <2>1 DEF Continues
  <2> QED BY <1>3, <1>4, <1>5, <2>2 DEF Holding
<1>20. /\ ~req[r].passed /\ \A u \in ReqZones : req[r].charged[u] = 0
       /\ \A j \in DOMAIN Limits(w) :
            j < h[w].n /\ Applies(req[r].visit, Limits(w)[j].zone) =>
              node[w][Limits(w)[j].zone] # NoNode
  BY <1>a, <1>b DEF IInv, ChargeInv, ChargedSoFar, Limiting
<1>21. Charges(w, r)
  <2>0. ~y.passed /\ h'[w].req = r /\ y.visit = req[r].visit
    BY <1>2, <1>4, <1>20
  <2>1. CASE rc \in {"BUSY", "ERROR"}
    <3>1. point = "undo" /\ \A u \in ReqZones : y.charged[u] = 0
      BY <1>4, <1>20, <1>i, <2>1
    <3> QED BY <1>2, <1>5, <2>0, <3>1 DEF Charges, ChargedSoFar
  <2>2. CASE rc = "AGAIN"
    <3>1. point = "lookup" /\ \A u \in ReqZones : y.charged[u] = 0
      BY <1>4, <1>20, <1>i, <2>2
    <3>2. ASSUME NEW j \in DOMAIN Limits(w), j < n + 1, Applies(req[r].visit, Limits(w)[j].zone)
          PROVE  node'[w][Limits(w)[j].zone] # NoNode
      <4>1. Limits(w)[j].zone \in ReqZones
        <5>1. Limits(w) \in Seq([zone : ReqZones, burst : Nat, nodelay : BOOLEAN])
          BY <1>3, <1>a, LimitsAssumption DEF Limits
        <5> DEFINE T == [zone : ReqZones, burst : Nat, nodelay : BOOLEAN]
        <5>2. \A l0 \in T : l0.zone \in ReqZones
          OBVIOUS
        <5>3. Limits(w) \in Seq(T)
          BY <5>1
        <5> HIDE DEF T
        <5>4. j \in 1 .. Len(Limits(w))
          BY <5>3
        <5>5. Limits(w)[j] \in T
          BY <5>3, <5>4, ElementOfSeq
        <5> QED BY <5>2, <5>5
      <4>2. CASE j = n
        BY <1>6, <1>8, <1>10, <1>13, <2>2, <4>2
      <4>3. CASE j # n
        <5>1. j < h[w].n
          BY <1>8, <3>2, <4>3
        <5> QED BY <1>8, <1>10, <1>20, <3>2, <4>1, <4>3, <5>1
      <4> QED BY <4>2, <4>3
    <3> QED BY <1>2, <1>5, <1>17, <2>0, <3>1, <3>2 DEF Charges, ChargedSoFar
  <2>3. CASE rc = "OK"
    <3>1. point = "account" /\ n = Len(Limits(w))
      BY <1>6, <1>i, <2>3 DEF Account
    <3>2. ASSUME NEW u \in ReqZones
          PROVE  y.charged[u] = IF Applies(req[r].visit, u) /\ node'[w][u] = NoNode THEN 1 ELSE 0
      <4>1. CASE u = z
        BY <1>4, <1>8, <1>10, <1>20, <2>3, <4>1
      <4>2. CASE u # z
        <5>1. y.charged[u] = 0 /\ node'[w][u] = node[w][u]
          BY <1>4, <1>10, <1>20, <4>2
        <5>2. ASSUME Applies(req[r].visit, u) PROVE node[w][u] # NoNode
          <6>1. PICK j \in DOMAIN Limits(w) : Limits(w)[j].zone = u
            BY <1>a, <5>2 DEF Applies, Limits
          <6>2. j # n /\ j < n
            BY <1>8, <3>1, <4>2, <6>1
          <6>3. j < h[w].n
            BY <1>8, <5>2, <6>1, <6>2
          <6> QED BY <1>20, <5>2, <6>1, <6>3
        <5> QED BY <5>1, <5>2
      <4> QED BY <4>1, <4>2
    <3> QED BY <1>2, <1>5, <2>0, <3>1, <3>2 DEF Charges, ChargedSoFar
  <2> QED BY <2>1, <2>2, <2>3
<1> QED BY SMTT(30), <1>1, <1>2, <1>3, <1>5, <1>10, <1>15, <1>16, <1>18, <1>19, <1>21, NodeStep

-----------------------------------------------------------------------------
(* The time of day changes: only new handlers see it. *)
LEMMA TickKeeps ==
  ASSUME IInv, NEW d \in ClockSteps, Tick(d)
  PROVE  IInv'
<1>1. UNCHANGED <<lr, queue, lc, h, node, req, crashes, faults>>
  BY DEF Tick
<1>2. now' \in Nat /\ now' >= Start
  <2>1. d \in Int /\ Start \in Nat /\ now \in Nat
    BY ClockAssumption DEF IInv, MoreTypes
  <2> QED BY <2>1 DEF Tick
<1>3. TypeOK' /\ MoreTypes'
  BY <1>1, <1>2 DEF IInv, TypeOK, MoreTypes
<1>4. \A w \in Workers : /\ Limits(w)' = Limits(w) /\ ConnLimits(w)' = ConnLimits(w)
                         /\ \A z : Value(w, z)' = Value(w, z)
  BY <1>1 DEF Limits, ConnLimits, Value
<1>5. Owned' /\ ChargeInv'
  BY <1>1, <1>4 DEF IInv, Owned, ChargeInv, ChargedSoFar
<1>6. \A z, i : Pins(z, i)' = Pins(z, i) /\ Holders(z, i)' = Holders(z, i)
  BY SMTT(30), <1>1 DEF Pins, Holders
<1>7. HeldInv' /\ ConnInv'
  BY <1>1, <1>4, <1>6 DEF IInv, HeldInv, ConnInv
<1>8. PinInv' /\ CountInv' /\ QueueInv' /\ KeyInv'
  BY <1>1, <1>4, <1>6 DEF IInv, LrInv, PinInv, PinnedBy, CountInv, QueueInv, KeyInv
<1>9. \A z, i, k : Beyond(z, i, k)' = Beyond(z, i, k)
  BY <1>1, <1>6 DEF Beyond
<1>10. BurstInv'
  BY <1>1, <1>9 DEF IInv, LrInv, BurstInv
<1> QED BY <1>3, <1>5, <1>7, <1>8, <1>10 DEF IInv, LrInv

(* The other workers and their requests when a worker is killed. *)
LEMMA Survives ==
  ASSUME IInv, NEW w \in Workers, Crash(w), NEW v \in Workers, v # w, h[v].pc # "idle"
  PROVE  /\ h[v].req \in Requests /\ h'[v] = h[v]
         /\ req'[h[v].req] = req[h[v].req]
         /\ Limits(v)' = Limits(v)
         /\ ConnLimits(v)' = ConnLimits(v)
         /\ \A z : Value(v, z)' = Value(v, z)
<1>1. h[v].req \in Requests /\ req[h[v].req].worker = v
  BY DEF IInv, Owned
<1>2. h'[v] = h[v]
  BY DEF Crash, Finish, IInv, TypeOK
<1>3. req'[h[v].req] = req[h[v].req]
  BY <1>1 DEF Crash
<1> QED BY <1>1, <1>2, <1>3 DEF Limits, ConnLimits, Value

(* A worker is killed: its pins and the connections of its requests stay   *)
(* counted, and nothing of the other workers changes.                      *)
LEMMA CrashKeeps ==
  ASSUME IInv, NEW w \in Workers, Crash(w)
  PROVE  IInv'
<1>1. /\ UNCHANGED <<lr, queue, lc, now, faults>> /\ crashes' = crashes + 1
      /\ crashes \in Nat /\ faults \in Nat
  BY DEF Crash, IInv, MoreTypes
<1>2. /\ h' \in [Workers -> HandlerType] /\ h'[w] = Idle
      /\ \A v \in Workers : v # w => h'[v] = h[v]
  <2>1. Idle \in HandlerType
    BY DEF Idle, HandlerType
  <2>2. h \in [Workers -> HandlerType]
    BY DEF IInv, TypeOK, HandlerType
  <2> QED BY <2>1, <2>2 DEF Crash, Finish
<1>3. /\ node' \in [Workers -> [ReqZones -> Ids \cup {NoNode}]]
      /\ \A z \in ReqZones : node'[w][z] = NoNode
      /\ \A v \in Workers : v # w => node'[v] = node[v]
  BY DEF Crash, IInv, TypeOK
<1>4. /\ Done \in ReqType /\ Done.state = "done" /\ Done.held = <<>> /\ Done.passed = FALSE
      /\ \A z \in ReqZones : Done.charged[z] = 0
  <2> DEFINE c == [z \in ReqZones |-> 0]
             x == [state |-> "new", worker |-> NoWorker, visit |-> <<>>, held |-> <<>>,
                   charged |-> c, passed |-> FALSE]
  <2>1. c \in [ReqZones -> Nat] /\ \A z \in ReqZones : c[z] = 0
    OBVIOUS
  <2>2. Done = [x EXCEPT !.state = "done"]
    BY DEF Done, NewReq
  <2> HIDE DEF c
  <2>3. <<>> \in Seq([zone : ConnZones, node : Ids])
    OBVIOUS
  <2> QED BY <2>1, <2>2, <2>3 DEF ReqType
<1>5. ASSUME NEW q \in Requests
      PROVE  \/ req'[q] = Done
             \/ req'[q] = req[q]
  BY DEF Crash
<1>6. req' \in [Requests -> ReqType]
  <2>1. req \in [Requests -> ReqType]
    BY DEF IInv, MoreTypes
  <2>2. ASSUME NEW q \in Requests PROVE req'[q] \in ReqType
    BY <1>4, <1>5, <2>1
  <2>3. req' = [q \in Requests |-> req'[q]]
    BY DEF Crash
  <2> QED BY <2>2, <2>3
<1>7. TypeOK' /\ MoreTypes'
  <2>1. \A q \in Requests : req'[q].worker \in Workers \cup {NoWorker}
    BY <1>6 DEF ReqType
  <2> QED BY <1>1, <1>2, <1>3, <1>6, <2>1 DEF IInv, TypeOK, MoreTypes, HandlerType
<1>8. Owned'
  <2>1. ASSUME NEW v \in Workers, h'[v].pc # "idle"
        PROVE  /\ h'[v].req \in Requests
               /\ req'[h'[v].req].state = "limiting"
               /\ req'[h'[v].req].worker = v
               /\ req'[h'[v].req].visit \in Visits
               /\ h'[v].pc \in {"lookup", "conn"} => h'[v].n >= 1
               /\ h'[v].pc \in Limiting => h'[v].time >= Start
    <3>1. v # w /\ h'[v] = h[v] /\ h[v].pc # "idle"
      BY <1>2, <2>1 DEF Idle
    <3>2. h[v].req \in Requests /\ req'[h[v].req] = req[h[v].req]
      BY <3>1, Survives
    <3> QED BY <3>1, <3>2 DEF IInv, Owned
  <2>2. \A q \in Requests : req'[q].state \in {"delayed", "serving"} => req'[q].visit \in Visits
    BY <1>4, <1>5 DEF IInv, Owned
  <2> QED BY <2>1, <2>2 DEF Owned
<1>9. PinInv'
  <2> SUFFICES ASSUME NEW v \in Workers, NEW z \in ReqZones, node'[v][z] # NoNode
               PROVE  PinnedBy(v, z)'
    BY DEF PinInv
  <2>1. v # w /\ node'[v] = node[v]
    BY <1>3
  <2>2. PinnedBy(v, z) /\ h[v].pc # "idle"
    BY <2>1 DEF IInv, LrInv, PinInv, PinnedBy, Limiting
  <2>3. /\ h'[v] = h[v] /\ req'[h[v].req] = req[h[v].req]
        /\ Limits(v)' = Limits(v) /\ Value(v, z)' = Value(v, z)
    BY <2>1, <2>2, Survives
  <2> QED BY <1>1, <2>1, <2>2, <2>3 DEF PinnedBy
<1>10. ASSUME NEW z \in ReqZones, NEW i \in Ids
       PROVE  /\ Pins(z, i)' \subseteq Pins(z, i)
              /\ IsFiniteSet(Pins(z, i)) /\ Cardinality(Pins(z, i)) \in Nat
              /\ Cardinality(Pins(z, i)') \in Nat
              /\ Cardinality(Pins(z, i)') <= Cardinality(Pins(z, i))
  <2>1. Pins(z, i)' \subseteq Pins(z, i)
    <3>1. NoNode \notin Ids
      BY DEF NoNode, Ids
    <3> QED BY <1>3, <3>1 DEF Pins
  <2>2. IsFiniteSet(Pins(z, i)) /\ Cardinality(Pins(z, i)) \in Nat
    BY PinsFinite
  <2> QED BY <2>1, <2>2, FS_Subset, FS_CardinalityType
<1>11. CountInv' /\ QueueInv' /\ KeyInv'
  <2>1. ASSUME NEW z \in ReqZones, NEW i \in Ids, lr[z][i] # Free
        PROVE  lr[z][i].count >= Cardinality(Pins(z, i)')
    <3>1. lr[z][i] \in NodeType
      BY <2>1 DEF IInv, TypeOK
    <3>2. lr[z][i].count \in Nat /\ lr[z][i].count >= Cardinality(Pins(z, i))
      BY <2>1, <3>1 DEF IInv, LrInv, CountInv, NodeType
    <3> QED BY <1>10, <3>2
  <2>2. crashes' # 0
    BY <1>1
  <2>3. CountInv'
    BY <1>1, <2>1, <2>2 DEF CountInv
  <2> QED BY <1>1, <2>3 DEF IInv, LrInv, QueueInv, KeyInv
<1>12. BurstInv'
  <2>1. ASSUME NEW z \in ReqZones, NEW i \in Ids, NEW k \in 0 .. N - 1,
               Cardinality(Beyond(z, i, k)) < N - k
        PROVE  Cardinality(Beyond(z, i, k)') < N - k
    <3>1. Beyond(z, i, k)' \subseteq Beyond(z, i, k)
      <4>1. ASSUME NEW v \in Pins(z, i)' PROVE v \in Pins(z, i) /\ h'[v].time = h[v].time
        <5>1. NoNode \notin Ids
          BY DEF NoNode, Ids
        <5>2. v \in Workers /\ v # w
          BY <1>3, <5>1 DEF Pins
        <5> QED BY <1>2, <1>10, <5>2
      <4> QED BY <1>1, <4>1 DEF Beyond
    <3>2. IsFiniteSet(Beyond(z, i, k))
      BY <1>10, FS_Subset DEF Beyond
    <3>3. /\ Cardinality(Beyond(z, i, k)') <= Cardinality(Beyond(z, i, k))
          /\ Cardinality(Beyond(z, i, k)') \in Nat /\ Cardinality(Beyond(z, i, k)) \in Nat
      BY <3>1, <3>2, FS_Subset, FS_CardinalityType
    <3>4. N \in Nat
      BY PinsFinite
    <3> QED BY <2>1, <3>3, <3>4
  <2>2. \A z \in ReqZones : Allocated(lr[z]) \subseteq Ids
    BY DEF Allocated
  <2> QED BY <1>1, <2>1, <2>2 DEF IInv, LrInv, BurstInv
<1>13. ChargeInv'
  <2>1. ASSUME NEW v \in Workers PROVE ChargedSoFar(v)'
    <3>1. CASE h'[v].pc = "idle"
      BY <3>1 DEF ChargedSoFar, Limiting
    <3>2. CASE h'[v].pc # "idle"
      <4>1. v # w /\ h[v].pc # "idle" /\ node'[v] = node[v]
        BY <1>2, <1>3, <3>2 DEF Idle
      <4>2. h'[v] = h[v] /\ req'[h[v].req] = req[h[v].req] /\ Limits(v)' = Limits(v)
        BY <4>1, Survives
      <4>3. ChargedSoFar(v)
        BY DEF IInv, ChargeInv
      <4> QED BY <4>1, <4>2, <4>3 DEF ChargedSoFar
    <3> QED BY <3>1, <3>2
  <2>2. ASSUME NEW q \in Requests
        PROVE  /\ req'[q].state = "new" =>
                    ~req'[q].passed /\ \A z \in ReqZones : req'[q].charged[z] = 0
               /\ req'[q].passed =>
                    \A z \in ReqZones :
                      req'[q].charged[z] = IF Applies(req'[q].visit, z) THEN 1 ELSE 0
    <3>1. CASE req'[q] = Done
      BY <1>4, <3>1
    <3>2. CASE req'[q] = req[q]
      BY SMTT(30), <3>2 DEF IInv, ChargeInv
    <3> QED BY <1>5, <3>1, <3>2
  <2> QED BY <2>1, <2>2 DEF ChargeInv
<1>14. HeldInv'
  <2>1. ASSUME NEW q \in Requests
        PROVE  /\ req'[q].state \in {"new", "delayed", "done"} => req'[q].held = <<>>
               /\ \A m, n \in DOMAIN req'[q].held :
                    req'[q].held[m].zone = req'[q].held[n].zone => m = n
               /\ \A m \in DOMAIN req'[q].held :
                    LET c == req'[q].held[m]
                    IN  /\ lc'[c.zone][c.node] # Free
                        /\ lc'[c.zone][c.node].key = req'[q].visit.value[c.zone]
    <3>1. CASE req'[q] = Done
      BY SMTT(30), <1>4, <3>1
    <3>2. CASE req'[q] = req[q]
      BY <1>1, <3>2 DEF IInv, HeldInv
    <3> QED BY <1>5, <3>1, <3>2
  <2>2. ASSUME NEW v \in Workers
        PROVE  /\ h'[v].pc \in Limiting => req'[h'[v].req].held = <<>>
               /\ h'[v].pc = "conn" =>
                    \A m \in DOMAIN req'[h'[v].req].held :
                      \E j \in DOMAIN ConnLimits(v)' :
                        j < h'[v].n /\ ConnLimits(v)'[j].zone = req'[h'[v].req].held[m].zone
    <3>1. CASE h'[v].pc = "idle"
      BY SMTT(30), <3>1 DEF Limiting
    <3>2. CASE h'[v].pc # "idle"
      <4>1. v # w /\ h[v].pc # "idle"
        BY <1>2, <3>2 DEF Idle
      <4>2. h'[v] = h[v] /\ req'[h[v].req] = req[h[v].req] /\ ConnLimits(v)' = ConnLimits(v)
        BY <4>1, Survives
      <4> QED BY <4>2 DEF IInv, HeldInv
    <3> QED BY <3>1, <3>2
  <2> QED BY SMTT(30), <2>1, <2>2 DEF HeldInv
<1>15. ConnInv'
  <2>1. ASSUME NEW z \in ConnZones, NEW i \in Ids, lc[z][i] # Free
        PROVE  lc[z][i].conn >= Cardinality(Holders(z, i)')
    <3>1. Holders(z, i)' \subseteq Holders(z, i)
      <4>1. Range(<<>>) = {}
        BY DEF Range
      <4> QED BY <1>4, <1>5, <4>1 DEF Holders
    <3>2. IsFiniteSet(Holders(z, i)) /\ Cardinality(Holders(z, i)) \in Nat
      BY HoldersFinite
    <3>3. /\ Cardinality(Holders(z, i)') <= Cardinality(Holders(z, i))
          /\ Cardinality(Holders(z, i)') \in Nat
      BY <3>1, <3>2, FS_Subset, FS_CardinalityType
    <3>4. lc[z][i].conn \in Nat /\ lc[z][i].conn >= Cardinality(Holders(z, i))
      <4>1. lc[z][i] \in [key : Keys, conn : Nat \ {0}]
        BY <1>1, <2>1 DEF IInv, TypeOK
      <4> QED BY <1>1, <2>1, <4>1 DEF IInv, ConnInv
    <3> QED BY <3>2, <3>3, <3>4
  <2>2. crashes' + faults' # 0
    BY <1>1
  <2> QED BY <1>1, <2>1, <2>2 DEF IInv, ConnInv
<1> QED BY <1>7, <1>8, <1>9, <1>11, <1>12, <1>13, <1>14, <1>15 DEF IInv, LrInv

-----------------------------------------------------------------------------
(* Nothing has been counted at the beginning. *)
LEMMA InitIInv ==
  ASSUME Init PROVE IInv
<1>1. Idle \in HandlerType /\ Idle.pc = "idle"
  BY DEF Idle, HandlerType
<1>2. /\ NewReq \in ReqType /\ NewReq.state = "new" /\ NewReq.held = <<>>
      /\ NewReq.passed = FALSE /\ \A z \in ReqZones : NewReq.charged[z] = 0
  <2> DEFINE c == [z \in ReqZones |-> 0]
  <2>1. c \in [ReqZones -> Nat] /\ \A z \in ReqZones : c[z] = 0
    OBVIOUS
  <2>2. NewReq = [state |-> "new", worker |-> NoWorker, visit |-> <<>>, held |-> <<>>,
                  charged |-> c, passed |-> FALSE]
    BY DEF NewReq
  <2> HIDE DEF c
  <2>3. <<>> \in Seq([zone : ConnZones, node : Ids])
    OBVIOUS
  <2> QED BY <2>1, <2>2, <2>3 DEF ReqType
<1>3. req \in [Requests -> ReqType] /\ \A r \in Requests : req[r] = NewReq
  BY <1>2 DEF Init
<1>4. TypeOK
  <2>1. \A r \in Requests : req[r].worker \in Workers \cup {NoWorker}
    BY <1>3 DEF ReqType
  <2>2. \A w \in Workers : h[w] \in HandlerType
    BY <1>1 DEF Init
  <2>3. h \in [Workers -> HandlerType]
    BY <2>2 DEF Init
  <2> QED BY <2>1, <2>3 DEF Init, TypeOK, HandlerType, NoNode
<1>5. MoreTypes
  BY <1>3, ClockAssumption DEF Init, MoreTypes
<1>6. Owned
  BY <1>1, <1>2, <1>3 DEF Init, Owned
<1>7. /\ \A z \in ReqZones : Allocated(lr[z]) = {} /\ queue[z] = <<>>
      /\ \A z \in ReqZones : \A i \in Ids : lr[z][i] = Free
      /\ \A z \in ConnZones : \A i \in Ids : lc[z][i] = Free
      /\ \A w \in Workers, z \in ReqZones : node[w][z] = NoNode
  BY DEF Init, Allocated
<1>8. LrInv
  <2>1. PinInv /\ CountInv /\ KeyInv /\ BurstInv
    BY <1>7 DEF PinInv, CountInv, KeyInv, BurstInv
  <2>2. QueueInv
    BY <1>7, HoldsEmpty DEF QueueInv
  <2> QED BY <2>1, <2>2 DEF LrInv
<1>9. ChargeInv
  <2>1. \A w \in Workers : h[w].pc = "idle"
    BY <1>1 DEF Init
  <2>2. \A w \in Workers : ChargedSoFar(w)
    BY <2>1 DEF ChargedSoFar, Limiting
  <2> QED BY <1>2, <1>3, <2>2 DEF ChargeInv
<1>10. HeldInv
  <2>1. \A w \in Workers : h[w].pc = "idle"
    BY <1>1 DEF Init
  <2> QED BY <1>2, <1>3, <2>1 DEF HeldInv, Limiting
<1>11. ConnInv
  BY <1>7 DEF ConnInv
<1> QED BY <1>4, <1>5, <1>6, <1>8, <1>9, <1>10, <1>11 DEF IInv

(* Every step keeps the inductive invariant. *)
LEMMA NextKeeps ==
  ASSUME IInv, [Next]_vars
  PROVE  IInv'
<1>1. ASSUME NEW w \in Workers, NEW r \in Requests,
             \/ \E visit \in Visits : Arrive(w, r, visit)
             \/ Delayed(w, r) \/ ClientGone(w, r) \/ Close(w, r)
      PROVE  IInv'
  BY <1>1, ArriveKeeps, EndsKeep, StatesKeep
<1>2. ASSUME NEW w \in Workers, Step(w) PROVE IInv'
  <2>1. CASE Lookup(w)
    BY <2>1, LookupKeeps
  <2>2. CASE Looked(w)
    BY <2>2, LookedKeeps
  <2>3. CASE Unpin(w)
    BY <2>3, UnpinKeeps
  <2>4. CASE Refuse(w) \/ Closed(w)
    BY <2>4, EndsKeep
  <2>5. CASE Charge(w)
    BY <2>5, ChargeKeeps
  <2>6. CASE Pass(w)
    BY <2>6, PassKeeps
  <2>7. CASE ConnRefused(w)
    BY <2>7, ConnRefusedKeeps
  <2>8. CASE ConnCount(w, FALSE) \/ ConnCount(w, TRUE)
    BY <2>8, ConnCountKeeps
  <2>9. CASE Serve(w)
    BY <2>9, StatesKeep
  <2>10. CASE ConnCleanup(w)
    BY <2>10, ConnCleanupKeeps
  <2> QED BY <1>2, <2>1, <2>2, <2>3, <2>4, <2>5, <2>6, <2>7, <2>8, <2>9, <2>10 DEF Step
<1>3. ASSUME NEW w \in Workers, Crash(w) PROVE IInv'
  BY <1>3, CrashKeeps
<1>4. ASSUME NEW d \in ClockSteps, Tick(d) PROVE IInv'
  BY <1>4, TickKeeps
<1>5. CASE UNCHANGED vars
  <2>1. UNCHANGED <<lr, queue, lc, h, node, req, now, crashes, faults>>
    BY <1>5 DEF vars
  <2>2. /\ \A w : /\ Limits(w)' = Limits(w) /\ ConnLimits(w)' = ConnLimits(w)
                  /\ \A z : Value(w, z)' = Value(w, z)
        /\ \A z, i : Pins(z, i)' = Pins(z, i) /\ Holders(z, i)' = Holders(z, i)
    BY <2>1 DEF Limits, ConnLimits, Value, Pins, Holders
  <2>3. \A z, i, k : Beyond(z, i, k)' = Beyond(z, i, k)
    BY <2>1, <2>2 DEF Beyond
  <2>4. TypeOK' /\ MoreTypes'
    BY <2>1 DEF IInv, TypeOK, MoreTypes
  <2>5. Owned' /\ ChargeInv'
    BY <2>1, <2>2 DEF IInv, Owned, ChargeInv, ChargedSoFar
  <2>6. PinInv' /\ CountInv' /\ QueueInv' /\ KeyInv'
    BY <2>1, <2>2 DEF IInv, LrInv, PinInv, PinnedBy, CountInv, QueueInv, KeyInv
  <2>7. BurstInv'
    BY ZenonT(40), <2>1, <2>3 DEF IInv, LrInv, BurstInv
  <2>8. HeldInv' /\ ConnInv'
    BY SMTT(30), <2>1, <2>2 DEF IInv, HeldInv, ConnInv
  <2> QED BY <2>4, <2>5, <2>6, <2>7, <2>8 DEF IInv, LrInv
<1> QED BY <1>1, <1>2, <1>3, <1>4, <1>5 DEF Next

(* The invariant that implies all the others holds in every state.         *)
THEOREM Inductive == Spec => []IInv
BY InitIInv, NextKeeps, PTL DEF Spec

(* The nodes a worker has pinned stay, with the key it looked up, and the  *)
(* pins are counted exactly, whatever the other workers expire.            *)
THEOREM PinsCorrect == Spec => []PinsExact
<1>1. ASSUME IInv PROVE PinsExact
  <2>1. ASSUME NEW z \in ReqZones
        PROVE  /\ Len(queue[z]) = Cardinality(Allocated(lr[z]))
               /\ Range(queue[z]) = Allocated(lr[z])
    <3>1. Holds(queue[z], Allocated(lr[z]))
      BY <1>1 DEF IInv, LrInv, QueueInv
    <3> QED BY <3>1, HoldsLen
  <2>2. ASSUME NEW z \in ReqZones, NEW w \in Workers, node[w][z] # NoNode
        PROVE  lr[z][node[w][z]].key = Value(w, z)
    BY <1>1, <2>2 DEF IInv, LrInv, PinInv, PinnedBy
  <2>3. ASSUME NEW z \in ReqZones, NEW i \in Allocated(lr[z])
        PROVE  /\ lr[z][i].count >= Cardinality(Pins(z, i))
               /\ crashes = 0 => lr[z][i].count = Cardinality(Pins(z, i))
    BY <1>1 DEF IInv, LrInv, CountInv, Allocated
  <2>4. TypeOK
    BY <1>1 DEF IInv
  <2> QED BY <2>1, <2>2, <2>3, <2>4 DEF PinsExact
<1> QED BY <1>1, Inductive, PTL

(* A key has one node, and its excess stays within the burst, or within a  *)
(* request for each of the other workers of it, whatever the clocks say.   *)
THEOREM BurstCorrect == Spec => []BurstBounded
<1>1. ASSUME IInv PROVE BurstBounded
  BY <1>1 DEF IInv, LrInv, KeyInv, BurstInv, BurstBounded, N
<1> QED BY <1>1, Inductive, PTL

(* A request that passes has been charged once in every zone that applies  *)
(* to it; one that is refused, in none.                                    *)
THEOREM ChargesCorrect == Spec => []ChargedOnce
<1>1. ASSUME IInv PROVE ChargedOnce
  <2>1. ASSUME NEW w \in Workers, h[w].pc = "undo"
        PROVE  \A z \in ReqZones : req[h[w].req].charged[z] = 0
    BY <1>1, <2>1 DEF IInv, ChargeInv, ChargedSoFar
  <2>2. ASSUME NEW v, NEW z
        PROVE  Applies(v, z) <=> /\ \E l \in Range(v.limit_req) : l.zone = z
                                 /\ v.value[z] # NoKey /\ KeyLen[v.value[z]] <= 65535
    BY DEF Applies, Range
  <2>3. ASSUME NEW r \in Requests, req[r].passed, NEW z \in ReqZones
        PROVE  req[r].charged[z] = IF Applies(req[r].visit, z) THEN 1 ELSE 0
    BY <1>1, <2>3 DEF IInv, ChargeInv
  <2> QED BY <2>1, <2>2, <2>3 DEF ChargedOnce
<1> QED BY <1>1, Inductive, PTL

(* A connection is counted for every request that holds one, in a node of  *)
(* its key, and never for more than the limit.                             *)
THEOREM ConnectionsCorrect == Spec => []ConnExact
<1>1. ASSUME IInv PROVE ConnExact
  <2>1. ASSUME NEW z \in ConnZones, NEW i \in Ids, NEW r \in Holders(z, i)
        PROVE  lc[z][i].key = req[r].visit.value[z]
    <3>1. r \in Requests /\ [zone |-> z, node |-> i] \in Range(req[r].held)
      BY DEF Holders
    <3>2. PICK m \in DOMAIN req[r].held : req[r].held[m] = [zone |-> z, node |-> i]
      BY <3>1 DEF Range
    <3>3. req[r].held[m].zone = z /\ req[r].held[m].node = i
      BY <3>2
    <3>4. LET c == req[r].held[m]
          IN  lc[c.zone][c.node].key = req[r].visit.value[c.zone]
      BY <1>1, <3>1 DEF IInv, HeldInv
    <3> QED BY <3>3, <3>4
  <2> QED BY <1>1, <2>1 DEF IInv, ConnInv, ConnExact
<1> QED BY <1>1, Inductive, PTL

=============================================================================

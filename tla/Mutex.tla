------------------------------- MODULE Mutex -------------------------------
(***************************************************************************)
(* What a shared-memory mutex promises its callers: at most one owner, an  *)
(* owner that only its own release or, after its death, a recovery can     *)
(* remove.  How waiting and waking are done is left to the implementation  *)
(* (module Shmtx).                                                         *)
(***************************************************************************)

CONSTANTS Procs, NoPid

VARIABLES owner, \* the process that owns the mutex, or NoPid
          st     \* what each process is doing: "out", "want", "in" or "dead"

mutexVars == <<owner, st>>

MInit == /\ owner = NoPid
         /\ st = [p \in Procs |-> "out"]

Request(p) == /\ st[p] = "out"
              /\ st' = [st EXCEPT ![p] = "want"]
              /\ UNCHANGED owner

(* A lock call that returns, or a try that succeeds. *)
Enter(p) == /\ st[p] \in {"out", "want"}
            /\ owner = NoPid
            /\ owner' = p
            /\ st' = [st EXCEPT ![p] = "in"]

Exit(p) == /\ st[p] = "in"
           /\ owner = p
           /\ owner' = NoPid
           /\ st' = [st EXCEPT ![p] = "out"]

(* A process may die anywhere; what it owned stays owned. *)
Die(p) == /\ st[p] # "dead"
          /\ st' = [st EXCEPT ![p] = "dead"]
          /\ UNCHANGED owner

(* The mutex is taken away from a dead owner, and from nobody else. *)
Recover(p) == /\ st[p] = "dead"
              /\ owner = p
              /\ owner' = NoPid
              /\ UNCHANGED st

(* A process may only come back once it no longer owns the mutex. *)
Restart(p) == /\ st[p] = "dead"
              /\ owner # p
              /\ st' = [st EXCEPT ![p] = "out"]
              /\ UNCHANGED owner

MNext == \E p \in Procs : \/ Request(p) \/ Enter(p) \/ Exit(p)
                          \/ Die(p) \/ Recover(p) \/ Restart(p)

MSpec == MInit /\ [][MNext]_mutexVars

=============================================================================

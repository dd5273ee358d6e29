------------------------------ MODULE MCShmtx ------------------------------
(* Small instances of the shared-memory mutex for TLC. *)
EXTENDS Shmtx

CONSTANTS w1, w2, w3

(* A worker may be killed anywhere but inside the wake-up or between waking *)
(* from the semaphore and taking the lock.                                  *)
QuietPoints == {"idle", "sleep", "cs"}

=============================================================================

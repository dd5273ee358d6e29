---------------------------- MODULE MCFileCache -----------------------------
EXTENDS FileCache

CONSTANTS r1, r2, k1, k2, k3

(* One key has a file, fresh or not, the others have none. *)
OneFile == {[k \in Keys |-> IF k = k1 THEN f ELSE "none"] : f \in {"valid", "stale"}}

(* Where a worker may be killed: with an entry in hand; or also while it   *)
(* deletes one.                                                            *)
Busy == {"fetch", "update"}
BusyOrDeleting == Busy \cup {"unlinked"}
=============================================================================

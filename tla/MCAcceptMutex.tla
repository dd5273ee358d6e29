--------------------------- MODULE MCAcceptMutex ---------------------------
(* Small instances of the accept mutex for TLC. *)
EXTENDS AcceptMutex, TLC

CONSTANTS w1, w2, w3

Perms == Permutations(Workers \ Quitters)

=============================================================================

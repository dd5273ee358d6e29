--------------------------- MODULE MCMasterCycle ---------------------------
(* Small instances of the master process for TLC. *)
EXTENDS MasterCycle

=============================================================================

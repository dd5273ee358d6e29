------------------------------- MODULE Queue --------------------------------
(* The intrusive lists of core/ngx_queue.h, as sequences, head first: what *)
(* the zones of the file cache and of limit_req, and the reusable          *)
(* connections, are kept in.                                               *)
EXTENDS Integers, Sequences, SequencesExt

(* ngx_queue_remove: x is unlinked from where it stands. *)
QueueRemove(q, x) == RemoveAt(q, CHOOSE n \in DOMAIN q : q[n] = x)

(* ngx_queue_remove, ngx_queue_insert_head *)
QueueToHead(q, x) == <<x>> \o QueueRemove(q, x)

=============================================================================

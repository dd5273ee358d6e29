----------------------------- MODULE MCChannels -----------------------------
(* Channels as it is: the instances differ in numbers only. *)
EXTENDS Channels
=============================================================================

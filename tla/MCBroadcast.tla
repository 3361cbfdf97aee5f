----------------------------- MODULE MCBroadcast -----------------------------
(* Broadcast with interchangeable clients. *)
EXTENDS Broadcast, TLC

Symmetry == Permutations(Client)

=============================================================================

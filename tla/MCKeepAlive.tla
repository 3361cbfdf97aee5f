---------------------------- MODULE MCKeepAlive -----------------------------
(* KeepAlive on a few clients and times that are just enough for a prompt  *)
(* client as long as no walks overlap.  Clients are interchangeable.       *)
EXTENDS KeepAlive, TLC

Symmetry == Permutations(Client)

=============================================================================

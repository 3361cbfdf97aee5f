------------------------------ MODULE MCListing ------------------------------
(* Listing with five entries, of which two or three fill a block.          *)
EXTENDS Listing

MCEntry == {".", "..", "a", "bb", "ccc"}
MCDotEntry == {".", ".."}
MCLength(e) == CASE e \in {"a"} -> 2 [] e \in {".", "bb"} -> 3 [] OTHER -> 4

=============================================================================

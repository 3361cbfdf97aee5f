------------------------------- MODULE MCPaths -------------------------------
(* Paths with every name of up to two parts, and those of three that start *)
(* or end with a slash or hold "..".                                       *)
EXTENDS Paths, TLC

MCRequest == {<<p>> : p \in Part} \cup (Part \X Part)
                \cup {<<"", p, q>> : p \in Name \cup {""}, q \in Part}
                \cup {<<p, "..", q>> : p, q \in Name \cup {".."}}
                \cup {<<p, q, "">> : p, q \in Name}

Symmetry == Permutations(Connection) \cup Permutations(Name)

=============================================================================

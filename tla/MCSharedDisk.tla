---------------------------- MODULE MCSharedDisk -----------------------------
(* SharedDisk with interchangeable connections, names and files.           *)
EXTENDS SharedDisk, TLC

Symmetry == Permutations(Connection) \cup Permutations(Name) \cup Permutations(File)

(* What no later step reads is left out: how a transfer has ended (a new   *)
(* one starts with "none"), the position of a FILE* whose client has gone, *)
(* and a file that nobody can reach.                                       *)
Reached(f) == f \in {file[n] : n \in Name} \/ \E c \in Connection : line[c] = "up" /\ Uses(c, f)

State ==
    <<file, line, got, goal, alone, free,
      [f \in File |-> IF Reached(f) THEN content[f] ELSE <<>>],
      [c \in Connection |-> IF line[c] = "closed" THEN <<work[c].mode, work[c].fd>> ELSE work[c]]>>

=============================================================================

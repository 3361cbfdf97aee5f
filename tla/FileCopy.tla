------------------------------ MODULE FileCopy ------------------------------
(***************************************************************************)
(* What a file transfer promises, whichever side stores the file.          *)
(*                                                                         *)
(* The destination is truncated and then grows along the source, never     *)
(* past it and never away from it; a copy that is reported finished has    *)
(* reached the end of the source.  A copy may be abandoned at any point,   *)
(* and then keeps the prefix it has.  The one escape is "spoiled": a read  *)
(* or write error of stdio that the program does not look at, after which  *)
(* nothing is promised until the next copy.                                *)
(***************************************************************************)
EXTENDS Naturals, Sequences

CONSTANT Chunk       (* the blocks of 3840 bytes a file is made of *)

VARIABLES
    phase,           (* "none", "copying", "done" or "spoiled"              *)
    goal,            (* the source when the copy began                      *)
    sink             (* what is stored at the destination                   *)

vars == <<phase, goal, sink>>

(* s is an initial segment of t *)
PrefixOf(s, t) == /\ Len(s) <= Len(t)
                  /\ \A i \in 1 .. Len(s) : s[i] = t[i]

Init == /\ phase = "none"
        /\ goal = <<>>
        /\ sink = <<>>

(* The destination is opened, which empties it. *)
Begin == /\ phase' = "copying"
         /\ goal' \in Seq(Chunk)
         /\ sink' = <<>>

(* Blocks reach the disk; buffering may deliver several at once. *)
Extend == /\ phase = "copying"
          /\ PrefixOf(sink, sink')
          /\ PrefixOf(sink', goal)
          /\ UNCHANGED <<phase, goal>>

(* The destination is closed on a copy reported as finished. *)
Finish == /\ phase = "copying"
          /\ phase' = "done"
          /\ sink' = goal
          /\ UNCHANGED goal

(* No copy to speak of any more: replaced by another command, or spoiled. *)
Forget == /\ phase' \in {"none", "spoiled"}
          /\ goal' = <<>>
          /\ sink' = <<>>

Next == Begin \/ Extend \/ Finish \/ Forget

Spec == Init /\ [][Next]_vars

=============================================================================

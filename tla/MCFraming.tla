------------------------------ MODULE MCFraming ------------------------------
(* Framing with bytes of four values, a length of two and data of up to    *)
(* two bytes: headers in up to three parts, and data that looks like a     *)
(* header with a length that is too large, or smaller than the header.     *)
EXTENDS Framing

MCPacket == {[type |-> 1, data |-> d] : d \in {<<>>, <<3>>, <<1, 3>>, <<0, 2>>, <<2, 1>>}}

=============================================================================

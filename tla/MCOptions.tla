------------------------------ MODULE MCOptions ------------------------------
(* Options with names shorter than the default, as long, and longer, one   *)
(* that fills the buffer with no room for its end, and one too long for it.*)
EXTENDS Options

CONSTANTS d, s, x, y, g

MCChar == {d, s, x, y, g}
MCDefaultDir == <<d, s>>
MCDir == {<<x>>, <<x, y>>, <<x, y, x>>, <<x, y, x, y>>, <<x, y, x, y, x>>}
MCConfig == [dir : {<<x>>, <<x, y, x>>, <<x, y, x, y>>}, port : {1, BAD}]
MCExisting == {<<d, s>>, <<x>>, <<x, y>>, <<x, s>>}

=============================================================================

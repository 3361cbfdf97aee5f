----------------------------- MODULE MCSession ------------------------------
(* Session on one local file, one or two remote files and short contents.  *)
EXTENDS Session

CONSTANTS c1, c2       \* two blocks

(* A missing file is added by Init; the empty file, one and two blocks.    *)
Contents == {<<>>, <<c1>>, <<c1, c2>>, <<c2, c2>>}

=============================================================================

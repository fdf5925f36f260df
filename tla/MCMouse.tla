------------------------------- MODULE MCMouse -------------------------------
(* Three columns, two rows, two steps to a character; the mouse moves by     *)
(* one or three steps, also obliquely, up to five steps away, so far beyond   *)
(* every edge.                                                               *)
EXTENDS Mouse

MCMoves == {<<1, 0>>, <<-1, 1>>, <<3, -1>>, <<-3, 0>>, <<0, -3>>}
=============================================================================

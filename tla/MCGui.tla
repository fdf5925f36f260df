-------------------------------- MODULE MCGui --------------------------------
(* A keyboard with two toggles that choose the sprite, a ctrl, the keys k and *)
(* c, and a key of two cells; beside them a cell without a key.              *)
EXTENDS Gui

MCKeyAt ==
  [p \in Pos |-> CASE p \in {"k1", "k2"} -> "k"
                   [] p = "off" -> NoKey
                   [] OTHER -> p]
=============================================================================

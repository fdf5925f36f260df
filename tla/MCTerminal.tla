------------------------------ MODULE MCTerminal ------------------------------
(* The terminals are alike: a run that names none of them takes their        *)
(* permutations as symmetries.                                               *)
EXTENDS TerminalProofs, TLC

Sym == Permutations(Terminals)
===============================================================================

---------------------------- MODULE MCInterrupts ----------------------------
(* The entries and returns of TrapFrame and the functions of Library have   *)
(* no state of their own: they are compared in the same run.                *)
EXTENDS Interrupts, TrapFrame, Library

(* What the kernel initialises, from the IDT on, it initialises with these  *)
(* functions: the memory functions of lib.c write exactly the bytes they    *)
(* are asked to, whatever direction flag an earlier call or the program has *)
(* left; strings compare and copy, and printf prints, as their callers take *)
(* them to.                                                                 *)
LibraryMatches == ready # {} => FunctionsMatch
=============================================================================

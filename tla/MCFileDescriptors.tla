--------------------------- MODULE MCFileDescriptors ---------------------------
(* The processes are alike, and nothing is said of one of them by name, so  *)
(* the safety run takes their permutations as symmetries.                   *)
EXTENDS FileDescriptorProofs, TLC

Sym == Permutations(Process)
=============================================================================

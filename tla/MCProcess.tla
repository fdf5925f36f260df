----------------------------- MODULE MCProcess -----------------------------
(* The process manager with four slots and two terminals: a terminal may   *)
(* run its base shell and two programs one inside the other, while the     *)
(* other terminal runs its own, or both may compete for the last slot.     *)
(* ProcessProofs brings in the job control that is implemented.            *)
EXTENDS ProcessProofs
=============================================================================

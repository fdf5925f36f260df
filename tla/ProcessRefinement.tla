------------------------- MODULE ProcessRefinement -------------------------
(* The process manager implements JobControl.                              *)
EXTENDS Process

(* The job in front of a terminal is its one runnable process.             *)
Front(t) ==
  IF booted
    THEN CHOOSE p \in Pid : Runnable(p) /\ terminal_id[p] = t
    ELSE Null

Jobs == INSTANCE JobControl WITH
  Slot <- Pid,
  held <- {p \in Pid : present[p]},
  live <- {p \in Pid : pc[p] # "dead"},
  caller <- [p \in Pid |-> IF present[p] THEN parent[p] ELSE Null],
  front <- [t \in Terminal |-> Front(t)]

(* Every step of the process manager is a step of the jobs of one terminal *)
(* or leaves the jobs of every terminal as they are: no process is lost,   *)
(* woken or replaced behind the back of its caller, by whatever mixture of *)
(* system calls, PIT interrupts, terminal switches and Ctrl-C.             *)
ImplementsJobControl == Jobs!JobSpec

(* So the processes of a terminal are one stack, from the one that runs    *)
(* down to the base shell: see OneStackPerTerminal.                        *)
JobStacks == Jobs!OneStackPerTerminal
=============================================================================

----------------------------- MODULE JobControl -----------------------------
(***************************************************************************)
(* What the process manager promises, whatever its table, its scheduler    *)
(* and its handlers look like: on every terminal a stack of jobs, of which *)
(* only the one in front acts.  A job in front starts another and waits    *)
(* until it is over, however it ends.                                      *)
(***************************************************************************)
EXTENDS Integers, FiniteSets

CONSTANTS
  Slot,       \* places for jobs
  Terminal,   \* the terminals, each a slot too: that of its base shell
  Null        \* the caller of a base shell

(* Terminal is a part of Slot, and Null is not in it.                      *)

VARIABLES
  held,       \* the slots in use: by a job, or by the result of one
  live,       \* the jobs that are not over
  caller,     \* who started the job in a slot
  front       \* the job in front of each terminal, Null before the start

jobVars == <<held, live, caller, front>>

JobInit ==
  /\ held = {}
  /\ live = {}
  /\ caller = [s \in Slot |-> Null]
  /\ front = [t \in Terminal |-> Null]

(* Every terminal gets its base shell.                                     *)
Boot ==
  /\ held = {}
  /\ held' = Terminal
  /\ live' = Terminal
  /\ front' = [t \in Terminal |-> t]
  /\ UNCHANGED caller

(* The job in front starts another in a slot that is not in use.           *)
Launch(t) ==
  /\ front[t] \in live
  /\ \E s \in Slot \ held :
       /\ held' = held \cup {s}
       /\ live' = live \cup {s}
       /\ caller' = [caller EXCEPT ![s] = front[t]]
       /\ front' = [front EXCEPT ![t] = s]

(* The job in front ends, and its caller is in front again ...             *)
Ends(t) ==
  /\ front[t] \in live
  /\ caller[front[t]] \in live
  /\ live' = live \ {front[t]}
  /\ front' = [front EXCEPT ![t] = caller[front[t]]]

(* ... and takes the result, which frees the slot, at once ...             *)
Return(t) ==
  /\ Ends(t)
  /\ held' = held \ {front[t]}
  /\ caller' = [caller EXCEPT ![front[t]] = Null]

(* ... or later: the slot stays in use until then.                         *)
Finish(t) == Ends(t) /\ UNCHANGED <<held, caller>>

(* Only the caller of a job that is over frees its slot, and only when it  *)
(* is in front.                                                            *)
Collect(t, s) ==
  /\ s \in held \ live
  /\ caller[s] = front[t]
  /\ held' = held \ {s}
  /\ caller' = [caller EXCEPT ![s] = Null]
  /\ UNCHANGED <<live, front>>

JobNext ==
  \/ Boot
  \/ \E t \in Terminal :
       \/ Launch(t)
       \/ Return(t)
       \/ Finish(t)
       \/ \E s \in Slot : Collect(t, s)

JobSpec == JobInit /\ [][JobNext]_jobVars

----------------------------------------------------------------------------
(* The n-th caller above the job in front of t, Null above the base shell. *)
Above(t) ==
  LET up[n \in 0 .. Cardinality(Slot)] ==
        IF n = 0 THEN front[t]
        ELSE IF up[n - 1] \in Slot THEN caller[up[n - 1]] ELSE Null
  IN  up

Stack(t) == {Above(t)[n] : n \in 0 .. Cardinality(Slot)} \ {Null}

(* The live jobs are the stacks of the terminals: from the job in front,   *)
(* the callers lead, without a repetition or a job that is over, to the    *)
(* terminal's base shell; no job is on two stacks and none on no stack.    *)
(* So whoever is live is in front, or becomes so when those above it end.  *)
OneStackPerTerminal ==
  held # {} =>
    /\ live = UNION {Stack(t) : t \in Terminal}
    /\ \A t \in Terminal :
         /\ Above(t)[Cardinality(Stack(t)) - 1] = t
         /\ Above(t)[Cardinality(Stack(t))] = Null
    /\ \A t, u \in Terminal : t # u => Stack(t) \cap Stack(u) = {}
=============================================================================

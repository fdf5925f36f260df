--------------------------- MODULE ProcessProofs ---------------------------
(***************************************************************************)
(* The safety properties of the process manager, that it implements        *)
(* JobControl, and that its processes are stacks, for every number of      *)
(* slots and terminals.                                                    *)
(***************************************************************************)
EXTENDS ProcessRefinement, Induction

(* The base shells' slots are slots, and terminal 0 exists.                *)
LEMMA Slots == Terminal \subseteq Pid /\ 0 \in Terminal /\ 0 \in Pid
BY SlotsAssumption DEF Pid, Terminal

----------------------------------------------------------------------------
(* Type correctness: every variable of the process manager keeps its type, *)
(* the slot numbers and the index of the kill loop included.               *)
LEMMA IdleTypeOK == Idle \in Handler
BY SlotsAssumption DEF Idle, Handler

LEMMA InitTypeOK == Init => TypeOK
<1> SUFFICES ASSUME Init PROVE TypeOK
  OBVIOUS
<1>1. handler \in Handler
  BY IdleTypeOK DEF Init
<1>2. QED
  BY <1>1, Slots DEF Init, TypeOK, VidPage, Landing, Place, Fault

(* The loop body of kill_term_process looks at a slot, and its locals keep *)
(* their types.                                                            *)
LEMMA ScanTypeOK ==
  ASSUME TypeOK, Scanning
  PROVE  handler.i \in Pid
BY SlotsAssumption DEF Scanning, TypeOK, Handler, Pid

LEMMA KilledTypeOK ==
  ASSUME TypeOK, Scanning, Killed
  PROVE  handler' \in Handler
<1>1. handler.i \in Pid /\ handler.i + 1 \in 0 .. NumProcesses
  BY SlotsAssumption DEF Scanning, TypeOK, Handler, Pid
<1>2. QED
  BY <1>1 DEF Killed, TypeOK, Handler

(* Restoring a context keeps the types.                                    *)
LEMMA ResumeTypeOK ==
  ASSUME TypeOK, NEW q \in Pid, NEW pcs \in [Pid -> Place], Resume(q, pcs)
  PROVE  /\ cur' \in Pid
         /\ userPage' \in Pid /\ vidPage' \in VidPage /\ esp0' \in Pid
         /\ present' \in [Pid -> BOOLEAN]
         /\ pc' \in [Pid -> Place]
         /\ waits' \in [Pid -> Pid \cup {Null}]
<1>1. pc' \in [Pid -> Place]
  BY DEF TypeOK, Resume, Place
<1>2. userPage' \in Pid /\ vidPage' \in VidPage /\ esp0' \in Pid
  BY DEF TypeOK, Resume, SetUserPage, VidPage, mmuVars
<1>3. QED
  BY <1>1, <1>2 DEF TypeOK, Resume

(* Respawning a base shell keeps the types.                                *)
LEMMA RespawnTypeOK ==
  ASSUME TypeOK, NEW p \in Pid, NEW s \in Pid, Respawn(p, s)
  PROVE  /\ present' \in [Pid -> BOOLEAN] /\ running' \in [Pid -> BOOLEAN]
         /\ parent' \in [Pid -> Pid \cup {Null}]
         /\ terminal_id' \in [Pid -> Terminal]
         /\ vidmap' \in [Pid -> BOOLEAN]
         /\ context' \in [Pid -> Landing]
         /\ waits' \in [Pid -> Pid \cup {Null}]
BY DEF Respawn, NewPcb, TypeOK, Landing

LEMMA NextTypeOK == TypeOK /\ [Next]_vars => TypeOK'
<1> SUFFICES ASSUME TypeOK, [Next]_vars PROVE TypeOK'
  OBVIOUS
<1>1. CASE StartTerminals
  <2>1. pc' \in [Pid -> Place]
    BY <1>1 DEF StartTerminals, Place
  <2>2. present' \in [Pid -> BOOLEAN] /\ running' \in [Pid -> BOOLEAN]
    BY <1>1 DEF StartTerminals
  <2>3. terminal_id' \in [Pid -> Terminal]
    BY <1>1, Slots DEF StartTerminals
  <2>4. QED
    BY <1>1, <2>1, <2>2, <2>3, Slots DEF StartTerminals, TypeOK, mmuVars
<1>2. ASSUME NEW t \in Terminal, SwitchTerminal(t) PROVE TypeOK'
  BY <1>2 DEF SwitchTerminal, TypeOK, pcbVars, stackVars, mmuVars
<1>3. CASE EnterLoad
  BY <1>3 DEF EnterLoad, SetUserPage, TypeOK, Place, VidPage, pcbVars
<1>4. CASE EnterUser
  BY <1>4 DEF EnterUser, TypeOK, Place, pcbVars
<1>5. CASE Vidmap
  BY <1>5 DEF Vidmap, SetUserPage, TypeOK, VidPage, stackVars
<1>6. CASE Execute
  <2>1. PICK s \in Pid :
          /\ present' = [present EXCEPT ![s] = TRUE]
          /\ SwitchToChild(s)
          /\ NewPcb(s, cur, terminal_id[cur])
          /\ context' = [context EXCEPT ![s] = "entry", ![cur] = "exec"]
          /\ pc' = [pc EXCEPT ![s] = "entry", ![cur] = "exec"]
          /\ waits' = [waits EXCEPT ![cur] = s]
          /\ cur' = s
    BY <1>6 DEF Execute
  <2>2. QED
    BY <1>6, <2>1
    DEF Execute, SwitchToChild, NewPcb, TypeOK, Place, Landing, mmuVars
<1>7. CASE ExecuteFails
  BY <1>7 DEF ExecuteFails, NewPcb, TypeOK, stackVars, mmuVars
<1>8. CASE HaltToParent
  <2>1. parent[cur] \in Pid /\ [pc EXCEPT ![cur] = "dead"] \in [Pid -> Place]
    BY <1>8 DEF HaltToParent, TypeOK, Place
  <2>2. CASE present[parent[cur]]
    <3>1. Resume(parent[cur], [pc EXCEPT ![cur] = "dead"])
      BY <1>8, <2>2 DEF HaltToParent
    <3>2. QED
      BY <1>8, <2>1, <2>2, <3>1, ResumeTypeOK
      DEF HaltToParent, HandBack, TypeOK
  <2>3. CASE ~present[parent[cur]]
    BY <1>8, <2>1, <2>3
    DEF HaltToParent, HandBack, TypeOK, Fault, stackVars, mmuVars
  <2>4. QED
    BY <2>2, <2>3
<1>9. CASE HaltBaseShell
  <2>1. CASE \E s \in Pid : FreeAfter(cur, s)
    <3>1. PICK s \in Pid :
            /\ Respawn(cur, s)
            /\ pc' = [pc EXCEPT ![cur] = "dead", ![s] = "entry"]
            /\ cur' = s /\ fault' = fault
      BY <1>9, <2>1 DEF HaltBaseShell
    <3>2. pc' \in [Pid -> Place]
      BY <3>1 DEF TypeOK, Place
    <3>3. QED
      BY <1>9, <3>1, <3>2, RespawnTypeOK DEF HaltBaseShell, TypeOK, mmuVars
  <2>2. CASE ~ \E s \in Pid : FreeAfter(cur, s)
    BY <1>9, <2>2
    DEF HaltBaseShell, TypeOK, Fault, pcbVars, stackVars, mmuVars
  <2>3. QED
    BY <2>1, <2>2
<1>10. CASE PitTick
  <2>1. CASE \E q \in Pid : Runnable(q)
    <3>1. PICK q \in Pid : Resume(q, pc)
      BY <1>10, <2>1 DEF PitTick
    <3>2. pc \in [Pid -> Place]
      BY DEF TypeOK
    <3>3. QED
      BY <1>10, <2>1, <3>1, <3>2, ResumeTypeOK DEF PitTick, TypeOK, Landing
  <2>2. CASE ~ \E q \in Pid : Runnable(q)
    BY <1>10, <2>2 DEF PitTick, TypeOK, Fault, stackVars, mmuVars
  <2>3. QED
    BY <2>1, <2>2
<1>11. CASE CtrlC
  <2>1. handler' \in Handler
    BY <1>11, IdleTypeOK DEF CtrlC, Handler
  <2>2. QED
    BY <1>11, <2>1 DEF CtrlC, TypeOK, pcbVars, stackVars, mmuVars
<1>12. CASE KillSkips
  <2>1. handler' \in Handler
    BY <1>12, SlotsAssumption DEF KillSkips, Scanning, TypeOK, Handler
  <2>2. QED
    BY <1>12, <2>1 DEF KillSkips, TypeOK, pcbVars, stackVars, mmuVars
<1>13. CASE KillChild
  <2>1. handler.i \in Pid /\ handler' \in Handler
    BY <1>13, ScanTypeOK, KilledTypeOK DEF KillChild
  <2>2. QED
    BY <1>13, <2>1 DEF KillChild, HandBack, TypeOK, Place, mmuVars
<1>14. CASE KillBaseShell
  <2>1. handler.i \in Pid /\ handler' \in Handler
    BY <1>14, ScanTypeOK, KilledTypeOK DEF KillBaseShell
  <2>2. CASE \E s \in Pid : FreeAfter(handler.i, s)
    <3>1. PICK s \in Pid :
            /\ Respawn(handler.i, s)
            /\ pc' = [pc EXCEPT ![handler.i] = "dead", ![s] = "new"]
            /\ fault' = fault
      BY <1>14, <2>2 DEF KillBaseShell
    <3>2. pc' \in [Pid -> Place]
      BY <2>1, <3>1 DEF TypeOK, Place
    <3>3. QED
      BY <1>14, <2>1, <3>1, <3>2, RespawnTypeOK
      DEF KillBaseShell, TypeOK, mmuVars
  <2>3. CASE ~ \E s \in Pid : FreeAfter(handler.i, s)
    BY <1>14, <2>1, <2>3
    DEF KillBaseShell, TypeOK, Fault, pcbVars, stackVars, mmuVars
  <2>4. QED
    BY <2>2, <2>3
<1>15. CASE KillReturns
  <2>1. handler' \in Handler
    BY <1>15, IdleTypeOK DEF KillReturns
  <2>2. QED
    BY <1>15, <2>1 DEF KillReturns, TypeOK, pcbVars, stackVars, mmuVars
<1>16. CASE KillJumps
  <2>1. handler' \in Handler
    BY <1>16, IdleTypeOK DEF KillJumps
  <2>2. CASE \E q \in Pid : Runnable(q)
    <3>1. PICK q \in Pid : Resume(q, pc)
      BY <1>16, <2>2 DEF KillJumps
    <3>2. pc \in [Pid -> Place]
      BY DEF TypeOK
    <3>3. QED
      BY <1>16, <2>1, <2>2, <3>1, <3>2, ResumeTypeOK DEF KillJumps, TypeOK
  <2>3. CASE ~ \E q \in Pid : Runnable(q)
    BY <1>16, <2>1, <2>3 DEF KillJumps, TypeOK, Fault, stackVars, mmuVars
  <2>4. QED
    BY <2>2, <2>3
<1>17. CASE UNCHANGED vars
  BY <1>17 DEF TypeOK, vars
<1>18. QED
  BY <1>1, <1>2, <1>3, <1>4, <1>5, <1>6, <1>7, <1>8, <1>9, <1>10, <1>11,
     <1>12, <1>13, <1>14, <1>15, <1>16, <1>17 DEF Next, KillStep

THEOREM TypeCorrect == Spec => []TypeOK
BY InitTypeOK, NextTypeOK, PTL DEF Spec

----------------------------------------------------------------------------
(***************************************************************************)
(* The inductive invariant.  The properties of the run are not inductive   *)
(* by themselves: that a killed process can hand back to its parent needs  *)
(* the nesting of the processes, that nesting needs to know that the       *)
(* current process runs, and both need the places where it can be while    *)
(* the handler that kills it is at work.                                   *)
(***************************************************************************)

(* Before start_terminals there is no process.                             *)
BootInv ==
  ~booted =>
    /\ ~handler.running /\ ~handler.need_to_jump
    /\ \A p \in Pid : ~present[p] /\ pc[p] = "dead" /\ context[p] = "entry"

(* A live process holds its slot, and a dead one is never scheduled.       *)
DeadInv ==
  \A p \in Pid : /\ pc[p] # "dead" => present[p]
                 /\ pc[p] = "dead" => ~Runnable(p)

(* The base shells are alive.                                              *)
BaseInv == booted => \A t \in Terminal : pc[t] # "dead"

(* Each terminal has a process to run, and not two.                        *)
SomeRunner ==
  booted => \A t \in Terminal : \E p \in Pid :
              Runnable(p) /\ terminal_id[p] = t
SoleRunner ==
  \A p, q \in Pid :
    Runnable(p) /\ Runnable(q) /\ terminal_id[p] = terminal_id[q] => p = q

(* The processes of the table.                                             *)
TreeInv ==
  /\ DeadInv
  /\ BaseInv
  /\ SomeRunner
  /\ SoleRunner
  /\ ExecuteNesting
  /\ CollectsOwnChild
  /\ BaseShellPinned

(* The current process runs, or was killed by the handler that is running  *)
(* on its stack; its slot may then hold a new shell.                       *)
CurInv ==
  booted =>
    /\ handler.need_to_jump => handler.running /\ pc[cur] \in {"dead", "new"}
    /\ ~handler.need_to_jump =>
         Runnable(cur) /\ pc[cur] \in {"entry", "load", "user"}

(* Saved contexts are right, but for the process that is not saved.        *)
ResumeInv ==
  \A p \in Pid :
    pc[p] # "dead" /\ (p # cur \/ handler.need_to_jump) =>
      context[p] = LandingOf(pc[p])

(* The paging structures are those of the current process.                 *)
MapInv ==
  booted /\ ~handler.need_to_jump =>
    /\ pc[cur] \in {"load", "user"} =>
         /\ userPage = cur
         /\ vidPage = [mapped |-> vidmap[cur], term |-> terminal_id[cur]]
    /\ pc[cur] = "user" => esp0 = cur

Inv ==
  /\ TypeOK
  /\ BootInv
  /\ TreeInv
  /\ CurInv
  /\ ResumeInv
  /\ MapInv
  /\ NeverStops

(* Killing process i, which has a parent q: the parent waits for i, and    *)
(* nobody else does.                                                       *)
LEMMA ParentWaits ==
  ASSUME Inv, booted, NEW i \in Pid, Runnable(i), parent[i] # Null
  PROVE  /\ parent[i] \in Pid /\ parent[i] # i
         /\ pc[i] # "dead" /\ present[i] /\ i \notin Terminal
         /\ pc[parent[i]] = "exec" /\ ~running[parent[i]]
         /\ present[parent[i]] /\ waits[parent[i]] = i
         /\ terminal_id[parent[i]] = terminal_id[i]
<1>1. pc[i] # "dead" /\ present[i] /\ parent[i] \in Pid
  BY DEF Inv, TreeInv, DeadInv, TypeOK, Runnable
<1>2. Alive(parent[i]) /\ ~running[parent[i]]
      /\ waits[parent[i]] = i /\ terminal_id[parent[i]] = terminal_id[i]
  BY <1>1 DEF Inv, TreeInv, ExecuteNesting, Alive
<1>3. pc[parent[i]] = "exec"
  BY <1>1, <1>2 DEF Inv, TreeInv, ExecuteNesting
<1>4. i \notin Terminal
  BY <1>1 DEF Inv, TreeInv, BaseShellPinned, Alive
<1>5. QED
  BY <1>1, <1>2, <1>3, <1>4 DEF Runnable, Alive

LEMMA KillChildTree ==
  ASSUME Inv, booted, NEW i \in Pid, Runnable(i), parent[i] # Null,
         HandBack(i),
         pc' = [pc EXCEPT ![i] = "dead"],
         waits' = [waits EXCEPT ![i] = Null],
         UNCHANGED <<present, parent, terminal_id, booted>>
  PROVE  TreeInv'
<1> DEFINE q == parent[i]
<1>1. /\ q \in Pid /\ q # i
      /\ pc[i] # "dead" /\ present[i] /\ i \notin Terminal
      /\ pc[q] = "exec" /\ ~running[q] /\ present[q] /\ waits[q] = i
      /\ terminal_id[q] = terminal_id[i]
  BY ParentWaits
<1>2. /\ ~running'[i] /\ running'[q]
      /\ \A p \in Pid : p # i /\ p # q => running'[p] = running[p]
  BY <1>1 DEF HandBack, Inv, TypeOK
<1>3. /\ pc'[i] = "dead" /\ \A p \in Pid : p # i => pc'[p] = pc[p]
      /\ waits'[i] = Null /\ \A p \in Pid : p # i => waits'[p] = waits[p]
  BY DEF Inv, TypeOK
<1> HIDE DEF q
<1>4. DeadInv'
  BY <1>1, <1>2, <1>3 DEF Inv, TreeInv, DeadInv, Runnable
<1>5. BaseInv'
  BY <1>1, <1>3, Slots DEF Inv, TreeInv, BaseInv
<1>6. SomeRunner'
  BY <1>1, <1>2 DEF Inv, TreeInv, SomeRunner, Runnable
<1>7. SoleRunner'
  BY <1>1, <1>2 DEF Inv, TreeInv, SoleRunner, Runnable
<1>8. ExecuteNesting'
  <2>1. ASSUME NEW p \in Pid, pc'[p] # "dead", ~running'[p]
        PROVE  /\ pc'[p] = "exec" /\ waits'[p] \in Pid
               /\ Alive(waits[p])' /\ parent[waits[p]]' = p
    <3>1. p # i /\ p # q /\ ~running[p] /\ Alive(p)
      BY <1>1, <1>2, <1>3, <2>1 DEF Inv, TreeInv, DeadInv, Alive
    <3>2. pc[p] = "exec" /\ waits[p] \in Pid
          /\ Alive(waits[p]) /\ parent[waits[p]] = p
      BY <3>1 DEF Inv, TreeInv, ExecuteNesting
    <3>3. waits[p] # i
      BY <3>1, <3>2 DEF q
    <3>4. QED
      BY <1>3, <3>1, <3>2, <3>3 DEF Alive
  <2>2. ASSUME NEW c \in Pid, pc'[c] # "dead", present[c], parent[c] # Null
        PROVE  /\ Alive(parent[c])' /\ ~running'[parent[c]]
               /\ waits'[parent[c]] = c
               /\ terminal_id[parent[c]] = terminal_id[c]
    <3>1. c # i /\ Alive(c) /\ parent[c] \in Pid
      BY <1>3, <2>2 DEF Inv, TypeOK, Alive
    <3>2. /\ Alive(parent[c]) /\ ~running[parent[c]]
          /\ waits[parent[c]] = c
          /\ terminal_id[parent[c]] = terminal_id[c]
      BY <2>2, <3>1 DEF Inv, TreeInv, ExecuteNesting
    <3>3. parent[c] # q /\ parent[c] # i
      BY <1>1, <3>1, <3>2 DEF Runnable
    <3>4. QED
      BY <1>2, <1>3, <3>1, <3>2, <3>3 DEF Alive
  <2>3. QED
    BY <2>1, <2>2 DEF ExecuteNesting, Alive
<1>9. CollectsOwnChild'
  BY <1>1, <1>2, <1>3 DEF q, Inv, TypeOK, TreeInv, CollectsOwnChild, Alive
<1>10. BaseShellPinned'
  BY <1>3 DEF Inv, TreeInv, BaseShellPinned, Alive
<1>11. QED
  BY <1>4, <1>5, <1>6, <1>7, <1>8, <1>9, <1>10 DEF TreeInv

(* A base shell is respawned in the slot it had.                           *)
LEMMA RespawnSlot ==
  ASSUME Inv, booted, NEW i \in Pid, Runnable(i), parent[i] = Null
  PROVE  /\ i \in Terminal /\ terminal_id[i] = i
         /\ pc[i] # "dead" /\ present[i]
         /\ FreeAfter(i, i)
         /\ \A s \in Pid : FreeAfter(i, s) => s = i
<1>1. pc[i] # "dead" /\ present[i]
  BY DEF Inv, TreeInv, DeadInv, Runnable
<1>2. i \in Terminal /\ terminal_id[i] = i
  BY <1>1 DEF Inv, TreeInv, BaseShellPinned, Alive
<1>3. \A r \in Pid : r < i => r \in Terminal
  BY <1>2, SlotsAssumption DEF Pid, Terminal
<1>4. \A r \in Pid : r < i => present[r] /\ r # i
  BY <1>3, SlotsAssumption DEF Inv, TreeInv, BaseInv, DeadInv, Pid
<1>5. FreeAfter(i, i)
  BY <1>4 DEF FreeAfter, FirstFree, Inv, TypeOK
<1>6. ASSUME NEW s \in Pid, FreeAfter(i, s), s # i PROVE FALSE
  <2>1. ~present[s] /\ \A r \in Pid : r < s /\ r # i => present[r]
    BY <1>6 DEF FreeAfter, FirstFree, Inv, TypeOK
  <2>2. ~ (i < s)
    BY <1>6 DEF FreeAfter, FirstFree, Inv, TypeOK
  <2>3. s < i
    BY <1>6, <2>2 DEF Pid
  <2>4. QED
    BY <1>4, <2>1, <2>3
<1>7. QED
  BY <1>1, <1>2, <1>5, <1>6

LEMMA RespawnTree ==
  ASSUME Inv, booted, NEW i \in Pid, Runnable(i), parent[i] = Null,
         Respawn(i, i), NEW place \in {"new", "entry"},
         pc' = [pc EXCEPT ![i] = "dead", ![i] = place],
         UNCHANGED booted
  PROVE  TreeInv'
<1>1. /\ i \in Terminal /\ terminal_id[i] = i
      /\ pc[i] # "dead" /\ present[i] /\ running[i]
  BY RespawnSlot DEF Runnable
<1>2. /\ present' = present /\ running' = running
      /\ terminal_id' = terminal_id /\ parent' = parent
  BY <1>1 DEF Respawn, NewPcb, Inv, TypeOK
<1>3. /\ pc'[i] = place /\ \A p \in Pid : p # i => pc'[p] = pc[p]
      /\ waits'[i] = Null /\ \A p \in Pid : p # i => waits'[p] = waits[p]
  BY DEF Respawn, Inv, TypeOK
<1>4. DeadInv'
  BY <1>1, <1>2, <1>3 DEF Inv, TreeInv, DeadInv, Runnable
<1>5. BaseInv'
  BY <1>3, Slots DEF Inv, TreeInv, BaseInv
<1>6. SomeRunner' /\ SoleRunner'
  BY <1>2 DEF Inv, TreeInv, SomeRunner, SoleRunner, Runnable
<1>7. ExecuteNesting'
  BY <1>1, <1>2, <1>3 DEF Inv, TypeOK, TreeInv, ExecuteNesting, Alive
<1>8. CollectsOwnChild'
  BY <1>1, <1>2, <1>3 DEF Inv, TypeOK, TreeInv, CollectsOwnChild, Alive
<1>9. BaseShellPinned'
  BY <1>1, <1>2, <1>3 DEF Inv, TreeInv, BaseShellPinned, Alive
<1>10. QED
  BY <1>4, <1>5, <1>6, <1>7, <1>8, <1>9 DEF TreeInv

(* The current process executes another in a free slot.                    *)
LEMMA LaunchTree ==
  ASSUME Inv, Execute
  PROVE  TreeInv'
<1> DEFINE p0 == cur
<1>a. booted /\ booted' /\ pc[p0] = "user" /\ p0 \in Pid
  BY DEF Execute, Inv, TypeOK
<1>b. Runnable(p0)
  BY <1>a DEF Execute, Interruptible, Inv, CurInv
<1>c. PICK s \in Pid :
        /\ ~present[s]
        /\ present' = [present EXCEPT ![s] = TRUE]
        /\ running' = [running EXCEPT ![s] = TRUE, ![p0] = FALSE]
        /\ NewPcb(s, p0, terminal_id[p0])
        /\ pc' = [pc EXCEPT ![s] = "entry", ![p0] = "exec"]
        /\ waits' = [waits EXCEPT ![p0] = s]
  BY DEF Execute, SwitchToChild, FirstFree
<1> HIDE DEF p0
<1>1. /\ s # p0 /\ present[p0] /\ running[p0]
      /\ ~present[s] /\ pc[s] = "dead"
  BY <1>a, <1>b, <1>c DEF Runnable, Inv, TreeInv, DeadInv
<1>2. s \notin Terminal
  BY <1>a, <1>1 DEF Inv, TreeInv, BaseInv
<1>3. /\ present'[s] /\ \A p \in Pid : p # s => present'[p] = present[p]
      /\ running'[s] /\ ~running'[p0]
      /\ \A p \in Pid : p # s /\ p # p0 => running'[p] = running[p]
  BY <1>a, <1>c, <1>1 DEF Inv, TypeOK
<1>4. /\ parent'[s] = p0 /\ \A p \in Pid : p # s => parent'[p] = parent[p]
      /\ terminal_id'[s] = terminal_id[p0]
      /\ \A p \in Pid : p # s => terminal_id'[p] = terminal_id[p]
  BY <1>a, <1>c DEF NewPcb, Inv, TypeOK
<1>5. /\ pc'[s] = "entry" /\ pc'[p0] = "exec"
      /\ \A p \in Pid : p # s /\ p # p0 => pc'[p] = pc[p]
      /\ waits'[p0] = s /\ \A p \in Pid : p # p0 => waits'[p] = waits[p]
  BY <1>a, <1>c, <1>1 DEF Inv, TypeOK
<1>6. DeadInv'
  BY <1>1, <1>3, <1>5 DEF Inv, TreeInv, DeadInv, Runnable
<1>7. BaseInv'
  BY <1>a, <1>5, Slots DEF Inv, TreeInv, BaseInv
<1>8. SomeRunner'
  <2>1. ASSUME NEW t \in Terminal
        PROVE  \E p \in Pid : Runnable(p)' /\ terminal_id'[p] = t
    <3>1. PICK p \in Pid : Runnable(p) /\ terminal_id[p] = t
      BY <1>a DEF Inv, TreeInv, SomeRunner
    <3>2. CASE p = p0
      BY <1>a, <1>3, <1>4, <3>1, <3>2 DEF Runnable
    <3>3. CASE p # p0
      BY <1>1, <1>3, <1>4, <3>1, <3>3 DEF Runnable
    <3>4. QED
      BY <3>2, <3>3
  <2>2. QED
    BY <2>1 DEF SomeRunner
<1>9. SoleRunner'
  BY <1>a, <1>1, <1>3, <1>4 DEF Inv, TreeInv, SoleRunner, Runnable
<1>10. ExecuteNesting'
  <2>1. ASSUME NEW p \in Pid, pc'[p] # "dead", ~running'[p]
        PROVE  /\ pc'[p] = "exec" /\ waits'[p] \in Pid
               /\ Alive(waits[p])' /\ parent'[waits'[p]] = p
    <3>1. CASE p = p0
      BY <1>a, <1>3, <1>4, <1>5, <3>1 DEF Alive
    <3>2. CASE p # p0
      <4>1. p # s /\ ~running[p] /\ Alive(p)
        BY <1>3, <1>5, <2>1, <3>2 DEF Inv, TreeInv, DeadInv, Alive
      <4>2. pc[p] = "exec" /\ waits[p] \in Pid
            /\ Alive(waits[p]) /\ parent[waits[p]] = p
        BY <4>1 DEF Inv, TreeInv, ExecuteNesting
      <4>3. QED
        BY <1>1, <1>3, <1>4, <1>5, <3>2, <4>1, <4>2 DEF Alive
    <3>3. QED
      BY <3>1, <3>2
  <2>2. ASSUME NEW c \in Pid, Alive(c)', parent'[c] # Null
        PROVE  /\ Alive(parent[c])' /\ ~running'[parent'[c]]
               /\ waits'[parent'[c]] = c
               /\ terminal_id'[parent'[c]] = terminal_id'[c]
    <3>1. CASE c = s
      BY <1>a, <1>1, <1>3, <1>4, <1>5, <3>1 DEF Alive
    <3>2. CASE c # s
      <4>1. Alive(c) /\ parent[c] # Null /\ parent[c] \in Pid
            /\ parent'[c] = parent[c]
        BY <1>1, <1>3, <1>4, <1>5, <2>2, <3>2
        DEF Inv, TypeOK, TreeInv, DeadInv, Alive, Runnable
      <4>2. /\ Alive(parent[c]) /\ ~running[parent[c]]
            /\ waits[parent[c]] = c
            /\ terminal_id[parent[c]] = terminal_id[c]
        BY <4>1 DEF Inv, TreeInv, ExecuteNesting
      <4>3. parent[c] # s /\ parent[c] # p0
        BY <1>1, <4>2 DEF Alive
      <4>4. QED
        BY <1>3, <1>4, <1>5, <3>2, <4>1, <4>2, <4>3 DEF Alive
    <3>3. QED
      BY <3>1, <3>2
  <2>3. QED
    BY <2>1, <2>2 DEF ExecuteNesting, Alive
<1>11. CollectsOwnChild'
  <2>1. ASSUME NEW p \in Pid, Alive(p)', running'[p], pc'[p] = "exec"
        PROVE  /\ waits'[p] \in Pid
               /\ present'[waits'[p]] /\ pc'[waits'[p]] = "dead"
               /\ ~running'[waits'[p]] /\ parent'[waits'[p]] = p
    <3>1. p # s /\ p # p0 /\ Alive(p) /\ running[p] /\ pc[p] = "exec"
      BY <1>3, <1>5, <2>1 DEF Alive
    <3>2. /\ waits[p] \in Pid
          /\ present[waits[p]] /\ pc[waits[p]] = "dead"
          /\ ~running[waits[p]] /\ parent[waits[p]] = p
      BY <3>1 DEF Inv, TreeInv, CollectsOwnChild
    <3>3. QED
      BY <1>1, <1>3, <1>4, <1>5, <3>1, <3>2
  <2>2. QED
    BY <2>1 DEF CollectsOwnChild
<1>12. BaseShellPinned'
  BY <1>a, <1>1, <1>2, <1>3, <1>4, <1>5, NullAssumption
  DEF Inv, TreeInv, BaseShellPinned, Alive, DeadInv
<1>13. QED
  BY <1>6, <1>7, <1>8, <1>9, <1>10, <1>11, <1>12 DEF TreeInv

(* A process that may run is resumed; it frees its child's slot if it was  *)
(* waiting.                                                                *)
LEMMA ResumeTree ==
  ASSUME Inv, booted, NEW q \in Pid, Runnable(q),
         context[q] = LandingOf(pc[q]),
         Resume(q, pc),
         UNCHANGED <<running, parent, terminal_id, vidmap, booted>>
  PROVE  /\ TreeInv'
         /\ Runnable(q)' /\ pc'[q] \in {"entry", "load", "user"}
         /\ \A p \in Pid : p # q => pc'[p] = pc[p]
         /\ pc'[q] \in {"load", "user"} =>
              /\ userPage' = q /\ esp0' = q
              /\ vidPage' = [mapped |-> vidmap[q], term |-> terminal_id[q]]
<1>1. pc[q] # "dead" /\ present[q] /\ running[q] /\ Alive(q)
  BY DEF Inv, TreeInv, DeadInv, Runnable, Alive
<1>2. pc' = [pc EXCEPT ![q] = CASE context[q] = "entry" -> "entry"
                                [] context[q] = "exec"  -> "user"
                                [] OTHER                -> pc[q]]
  BY DEF Resume
<1>3. \A p \in Pid : p # q => pc'[p] = pc[p]
  BY <1>2 DEF Inv, TypeOK
<1>4. pc[q] \in {"new", "entry", "load", "user", "exec"}
  BY <1>1 DEF Inv, TypeOK, Place
<1>5. CASE pc[q] = "exec"
  <2> DEFINE c == waits[q]
  <2>1. pc'[q] = "user"
    BY <1>2, <1>5 DEF LandingOf, Inv, TypeOK
  <2>2. /\ c \in Pid /\ present[c] /\ pc[c] = "dead" /\ ~running[c]
        /\ parent[c] = q /\ c # q
    BY <1>1, <1>5 DEF Inv, TreeInv, CollectsOwnChild
  <2>3. /\ ~present'[c] /\ \A p \in Pid : p # c => present'[p] = present[p]
        /\ \A p \in Pid : p # q => waits'[p] = waits[p]
    BY <1>5, <2>2 DEF Resume, LandingOf, Inv, TypeOK
  <2>4. /\ userPage' = q /\ esp0' = q
        /\ vidPage' = [mapped |-> vidmap[q], term |-> terminal_id[q]]
    BY <1>5 DEF Resume, SetUserPage, LandingOf
  <2> HIDE DEF c
  <2>5. DeadInv'
    BY <1>1, <1>3, <2>1, <2>2, <2>3 DEF Inv, TreeInv, DeadInv, Runnable
  <2>6. BaseInv'
    BY <1>3, <2>1, Slots DEF Inv, TreeInv, BaseInv
  <2>7. SomeRunner'
    BY <2>2, <2>3 DEF Inv, TreeInv, SomeRunner, Runnable
  <2>8. SoleRunner'
    BY <2>2, <2>3 DEF Inv, TreeInv, SoleRunner, Runnable
  <2>9. ExecuteNesting'
    BY <1>1, <1>3, <2>1, <2>2, <2>3
    DEF Inv, TypeOK, TreeInv, ExecuteNesting, Alive
  <2>10. CollectsOwnChild'
    BY <1>1, <1>3, <2>1, <2>2, <2>3
    DEF Inv, TypeOK, TreeInv, CollectsOwnChild, Alive
  <2>11. BaseShellPinned'
    BY <1>1, <1>3, <2>1, <2>2, <2>3
    DEF Inv, TreeInv, BaseShellPinned, Alive
  <2>12. QED
    BY <1>1, <1>3, <2>1, <2>2, <2>3, <2>4, <2>5, <2>6, <2>7, <2>8, <2>9,
       <2>10, <2>11 DEF TreeInv, Runnable
<1>6. CASE pc[q] # "exec"
  <2>1. context[q] # "exec" /\ UNCHANGED <<present, waits>>
    BY <1>4, <1>6 DEF LandingOf, Resume
  <2>2. pc'[q] \in {"entry", "load", "user"}
        /\ (pc'[q] \in {"load", "user"} => context[q] = "sched")
    BY <1>2, <1>4, <1>6 DEF LandingOf, Inv, TypeOK
  <2>3. pc'[q] \in {"load", "user"} =>
          /\ userPage' = q /\ esp0' = q
          /\ vidPage' = [mapped |-> vidmap[q], term |-> terminal_id[q]]
    BY <2>2 DEF Resume, SetUserPage
  <2>4. DeadInv' /\ SomeRunner' /\ SoleRunner'
    BY <1>1, <1>3, <2>1, <2>2
    DEF Inv, TreeInv, DeadInv, SomeRunner, SoleRunner, Runnable
  <2>5. BaseInv'
    BY <1>3, <2>2, Slots DEF Inv, TreeInv, BaseInv
  <2>6. ExecuteNesting'
    BY <1>1, <1>3, <1>6, <2>1, <2>2
    DEF Inv, TypeOK, TreeInv, ExecuteNesting, Alive
  <2>7. CollectsOwnChild'
    BY <1>1, <1>3, <1>6, <2>1, <2>2
    DEF Inv, TypeOK, TreeInv, CollectsOwnChild, Alive
  <2>8. BaseShellPinned'
    BY <1>1, <1>3, <2>1, <2>2 DEF Inv, TreeInv, BaseShellPinned, Alive
  <2>9. QED
    BY <1>1, <1>3, <2>1, <2>2, <2>3, <2>4, <2>5, <2>6, <2>7, <2>8
    DEF TreeInv, Runnable
<1>7. QED
  BY <1>5, <1>6

(* With interrupts enabled, the current process runs.                      *)
LEMMA CurRuns ==
  ASSUME Inv, booted, Interruptible
  PROVE  /\ cur \in Pid /\ ~handler.need_to_jump
         /\ Runnable(cur) /\ pc[cur] \in {"entry", "load", "user"}
BY DEF Inv, TypeOK, CurInv, Interruptible

(* Halting with a parent: the child's slot is freed at once.               *)
LEMMA HaltToParentInv ==
  ASSUME Inv, HaltToParent
  PROVE  Inv'
<1> DEFINE i == cur
           q == parent[cur]
<1>1. booted /\ Interruptible /\ i \in Pid /\ Runnable(i) /\ parent[i] # Null
  BY DEF HaltToParent, Inv, TypeOK, CurInv, Interruptible
<1>2. /\ q \in Pid /\ q # i
      /\ pc[i] # "dead" /\ present[i] /\ i \notin Terminal
      /\ pc[q] = "exec" /\ ~running[q] /\ present[q] /\ waits[q] = i
      /\ terminal_id[q] = terminal_id[i]
  BY <1>1, ParentWaits
<1>3. context[q] = "exec"
  BY <1>2 DEF Inv, ResumeInv, LandingOf
<1>4. /\ Resume(q, [pc EXCEPT ![i] = "dead"]) /\ HandBack(i)
      /\ UNCHANGED <<fault, parent, terminal_id, vidmap, context, booted,
                     handler>>
  BY <1>2 DEF HaltToParent
<1>5. /\ cur' = q /\ userPage' = q /\ esp0' = q
      /\ vidPage' = [mapped |-> vidmap[q], term |-> terminal_id[q]]
  BY <1>3, <1>4 DEF Resume, SetUserPage
<1>6. /\ ~present'[i] /\ \A p \in Pid : p # i => present'[p] = present[p]
      /\ waits'[q] = Null /\ \A p \in Pid : p # q => waits'[p] = waits[p]
  BY <1>2, <1>3, <1>4 DEF Resume, Inv, TypeOK
<1>7. /\ pc'[i] = "dead" /\ pc'[q] = "user"
      /\ \A p \in Pid : p # i /\ p # q => pc'[p] = pc[p]
  BY <1>2, <1>3, <1>4 DEF Resume, Inv, TypeOK
<1>8. /\ ~running'[i] /\ running'[q]
      /\ \A p \in Pid : p # i /\ p # q => running'[p] = running[p]
  BY <1>2, <1>4 DEF HandBack, Inv, TypeOK
<1>9. UNCHANGED <<fault, parent, terminal_id, vidmap, context, booted,
                  handler>>
  BY <1>4
<1>10. TypeOK'
  <2>1. Next
    BY DEF Next
  <2>2. QED
    BY <2>1, NextTypeOK DEF Inv
<1>11. parent[i] = q
  OBVIOUS
<1>12. running[i] /\ Alive(i) /\ Alive(q)
  BY <1>1, <1>2 DEF Runnable, Alive
<1> HIDE DEF i, q
<1>13. DeadInv'
  BY <1>2, <1>6, <1>7, <1>8 DEF Inv, TreeInv, DeadInv, Runnable
<1>14. BaseInv'
  BY <1>1, <1>2, <1>7, Slots DEF Inv, TreeInv, BaseInv
<1>15. SomeRunner'
  <2>1. ASSUME NEW t \in Terminal
        PROVE  \E p \in Pid : Runnable(p)' /\ terminal_id[p] = t
    <3>1. PICK p \in Pid : Runnable(p) /\ terminal_id[p] = t
      BY <1>1 DEF Inv, TreeInv, SomeRunner
    <3>2. CASE p = i
      BY <1>2, <1>6, <1>8, <3>1, <3>2 DEF Runnable
    <3>3. CASE p # i
      BY <1>2, <1>6, <1>8, <3>1, <3>3 DEF Runnable
    <3>4. QED
      BY <3>2, <3>3
  <2>2. QED
    BY <1>9, <2>1 DEF SomeRunner
<1>16. SoleRunner'
  BY <1>1, <1>2, <1>6, <1>8, <1>9 DEF Inv, TreeInv, SoleRunner, Runnable
<1>17. ExecuteNesting'
  <2>1. ASSUME NEW p \in Pid, Alive(p)', ~running'[p]
        PROVE  /\ pc'[p] = "exec" /\ waits'[p] \in Pid
               /\ Alive(waits[p])' /\ parent[waits'[p]] = p
    <3>1. p # i /\ p # q /\ ~running[p] /\ Alive(p)
      BY <1>6, <1>7, <1>8, <2>1 DEF Alive
    <3>2. pc[p] = "exec" /\ waits[p] \in Pid
          /\ Alive(waits[p]) /\ parent[waits[p]] = p
      BY <3>1 DEF Inv, TreeInv, ExecuteNesting
    <3>3. waits[p] # i
      BY <1>11, <3>1, <3>2
    <3>4. QED
      BY <1>2, <1>6, <1>7, <3>1, <3>2, <3>3 DEF Alive
  <2>2. ASSUME NEW c \in Pid, Alive(c)', parent[c] # Null
        PROVE  /\ Alive(parent[c])' /\ ~running'[parent[c]]
               /\ waits'[parent[c]] = c
               /\ terminal_id[parent[c]] = terminal_id[c]
    <3>1. c # i /\ Alive(c) /\ parent[c] \in Pid
      BY <1>2, <1>6, <1>7, <2>2 DEF Inv, TypeOK, Alive
    <3>2. /\ Alive(parent[c]) /\ ~running[parent[c]]
          /\ waits[parent[c]] = c
          /\ terminal_id[parent[c]] = terminal_id[c]
      BY <2>2, <3>1 DEF Inv, TreeInv, ExecuteNesting
    <3>3. parent[c] # q /\ parent[c] # i
      BY <1>2, <1>12, <3>1, <3>2
    <3>4. QED
      BY <1>6, <1>7, <1>8, <1>9, <3>1, <3>2, <3>3 DEF Alive
  <2>3. QED
    BY <1>9, <2>1, <2>2 DEF ExecuteNesting, Alive
<1>18. CollectsOwnChild'
  <2>1. ASSUME NEW p \in Pid, Alive(p)', running'[p], pc'[p] = "exec"
        PROVE  /\ waits'[p] \in Pid
               /\ present'[waits'[p]] /\ pc'[waits'[p]] = "dead"
               /\ ~running'[waits'[p]] /\ parent[waits'[p]] = p
    <3>1. p # i /\ p # q /\ Alive(p) /\ running[p] /\ pc[p] = "exec"
      BY <1>6, <1>7, <1>8, <2>1 DEF Alive
    <3>2. /\ waits[p] \in Pid
          /\ present[waits[p]] /\ pc[waits[p]] = "dead"
          /\ ~running[waits[p]] /\ parent[waits[p]] = p
      BY <3>1 DEF Inv, TreeInv, CollectsOwnChild
    <3>3. waits[p] # i /\ waits[p] # q
      BY <1>2, <3>2
    <3>4. QED
      BY <1>6, <1>7, <1>8, <3>1, <3>2, <3>3
  <2>2. QED
    BY <1>9, <2>1 DEF CollectsOwnChild, Alive
<1>19. BaseShellPinned'
  BY <1>2, <1>6, <1>7, <1>9, <1>12 DEF Inv, TreeInv, BaseShellPinned, Alive
<1>20. TreeInv'
  BY <1>13, <1>14, <1>15, <1>16, <1>17, <1>18, <1>19 DEF TreeInv
<1>21. ~handler.running /\ ~handler.need_to_jump
  BY <1>1 DEF Inv, CurInv, Interruptible
<1>22. CurInv'
  BY <1>2, <1>5, <1>6, <1>7, <1>8, <1>9, <1>21 DEF CurInv, Runnable
<1>23. ResumeInv'
  <2>1. \A p \in Pid : p # i /\ p # q => pc'[p] = pc[p]
    BY <1>7
  <2>2. cur = i
    BY DEF i
  <2>3. QED
    BY <1>5, <1>7, <1>9, <1>21, <2>1, <2>2 DEF Inv, ResumeInv
<1>24. MapInv'
  BY <1>5, <1>9 DEF MapInv
<1>25. BootInv' /\ NeverStops'
  BY <1>1, <1>9 DEF BootInv, NeverStops, Inv
<1>26. QED
  BY <1>10, <1>20, <1>22, <1>23, <1>24, <1>25 DEF Inv

(* A base shell that halts starts again in its slot.                       *)
LEMMA HaltBaseShellInv ==
  ASSUME Inv, HaltBaseShell
  PROVE  Inv'
<1>1. booted /\ Interruptible /\ cur \in Pid /\ Runnable(cur)
      /\ parent[cur] = Null /\ ~handler.need_to_jump
  BY CurRuns DEF HaltBaseShell
<1>2. FreeAfter(cur, cur) /\ \A s \in Pid : FreeAfter(cur, s) => s = cur
  BY <1>1, RespawnSlot
<1>3. /\ Respawn(cur, cur)
      /\ pc' = [pc EXCEPT ![cur] = "dead", ![cur] = "entry"]
      /\ cur' = cur
      /\ UNCHANGED <<fault, booted, handler>>
  BY <1>1, <1>2 DEF HaltBaseShell
<1>4. TypeOK'
  <2>1. Next
    BY DEF Next
  <2>2. QED
    BY <2>1, NextTypeOK DEF Inv
<1>5. TreeInv'
  BY <1>1, <1>3, RespawnTree
<1>6. /\ pc'[cur] = "entry" /\ \A p \in Pid : p # cur => pc'[p] = pc[p]
      /\ present'[cur] /\ running'[cur]
      /\ \A p \in Pid : p # cur => context'[p] = context[p]
  BY <1>1, <1>3 DEF Respawn, Inv, TypeOK
<1>7. CurInv'
  BY <1>1, <1>3, <1>6 DEF CurInv, Runnable
<1>8. ResumeInv'
  BY <1>1, <1>3, <1>6 DEF Inv, ResumeInv
<1>9. MapInv'
  BY <1>3, <1>6 DEF MapInv
<1>10. BootInv' /\ NeverStops'
  BY <1>1, <1>3 DEF BootInv, NeverStops, Inv
<1>11. QED
  BY <1>4, <1>5, <1>7, <1>8, <1>9, <1>10 DEF Inv

LEMMA ExecuteInv ==
  ASSUME Inv, Execute
  PROVE  Inv'
<1>1. booted /\ cur \in Pid /\ ~handler.need_to_jump /\ Runnable(cur)
  BY CurRuns DEF Execute
<1>2. PICK s \in Pid :
        /\ FirstFree(s, present)
        /\ present' = [present EXCEPT ![s] = TRUE]
        /\ SwitchToChild(s)
        /\ context' = [context EXCEPT ![s] = "entry", ![cur] = "exec"]
        /\ pc' = [pc EXCEPT ![s] = "entry", ![cur] = "exec"]
        /\ cur' = s
  BY DEF Execute
<1>3. UNCHANGED <<booted, handler, fault>>
  BY DEF Execute
<1>4. s # cur
  BY <1>1, <1>2 DEF FirstFree, Runnable
<1>5. /\ present'[s] /\ running'[s] /\ pc'[s] = "entry" /\ pc'[cur] = "exec"
      /\ context'[cur] = "exec"
      /\ \A p \in Pid : p # s /\ p # cur =>
           pc'[p] = pc[p] /\ context'[p] = context[p]
  BY <1>1, <1>2, <1>4 DEF SwitchToChild, Inv, TypeOK
<1>6. TypeOK'
  <2>1. Next
    BY DEF Next
  <2>2. QED
    BY <2>1, NextTypeOK DEF Inv
<1>7. TreeInv'
  BY LaunchTree
<1>8. CurInv'
  BY <1>1, <1>2, <1>3, <1>5 DEF CurInv, Runnable
<1>9. ResumeInv'
  <2>1. ASSUME NEW p \in Pid, pc'[p] # "dead", p # s
        PROVE  context'[p] = LandingOf(pc'[p])
    BY <1>5, <2>1 DEF Inv, ResumeInv, LandingOf
  <2>2. QED
    BY <1>1, <1>2, <1>3, <2>1 DEF ResumeInv
<1>10. MapInv'
  BY <1>2, <1>3, <1>5 DEF MapInv
<1>11. BootInv' /\ NeverStops'
  BY <1>1, <1>3 DEF BootInv, NeverStops, Inv
<1>12. QED
  BY <1>6, <1>7, <1>8, <1>9, <1>10, <1>11 DEF Inv

LEMMA PitTickInv ==
  ASSUME Inv, PitTick
  PROVE  Inv'
<1>1. booted
  BY DEF PitTick, Inv, BootInv, TypeOK
<1>2. cur \in Pid /\ ~handler.need_to_jump /\ Runnable(cur)
      /\ pc[cur] \in {"entry", "load", "user"}
  BY <1>1, CurRuns DEF PitTick
<1>3. PICK q \in Pid : Runnable(q) /\ q # cur /\ Resume(q, pc)
  BY <1>2 DEF PitTick, NextRunnable
<1>4. /\ context' = [context EXCEPT ![cur] = "sched"] /\ cur' = q
      /\ UNCHANGED <<running, parent, terminal_id, vidmap, booted, handler,
                     fault>>
  BY <1>2, <1>3 DEF PitTick, Resume
<1>5. context[q] = LandingOf(pc[q])
  BY <1>3 DEF Inv, ResumeInv, TreeInv, DeadInv, Runnable
<1>6. /\ TreeInv'
      /\ Runnable(q)' /\ pc'[q] \in {"entry", "load", "user"}
      /\ \A p \in Pid : p # q => pc'[p] = pc[p]
      /\ pc'[q] \in {"load", "user"} =>
           /\ userPage' = q /\ esp0' = q
           /\ vidPage' = [mapped |-> vidmap[q], term |-> terminal_id[q]]
  BY <1>1, <1>3, <1>4, <1>5, ResumeTree
<1>7. TypeOK'
  <2>1. Next
    BY DEF Next
  <2>2. QED
    BY <2>1, NextTypeOK DEF Inv
<1>8. CurInv'
  BY <1>2, <1>4, <1>6 DEF CurInv
<1>9. ResumeInv'
  <2>1. ASSUME NEW p \in Pid, pc'[p] # "dead", p # q
        PROVE  context'[p] = LandingOf(pc'[p])
    <3>1. CASE p = cur
      BY <1>2, <1>4, <1>6, <2>1, <3>1 DEF LandingOf, Inv, TypeOK
    <3>2. CASE p # cur
      BY <1>4, <1>6, <2>1, <3>2 DEF Inv, TypeOK, ResumeInv
    <3>3. QED
      BY <3>1, <3>2
  <2>2. QED
    BY <1>2, <1>4, <2>1 DEF ResumeInv
<1>10. MapInv'
  BY <1>4, <1>6 DEF MapInv
<1>11. BootInv' /\ NeverStops'
  BY <1>1, <1>4 DEF BootInv, NeverStops, Inv
<1>12. QED
  BY <1>6, <1>7, <1>8, <1>9, <1>10, <1>11 DEF Inv

(* kill_term_process kills a process that has a parent.                    *)
LEMMA KillChildInv ==
  ASSUME Inv, KillChild
  PROVE  Inv'
<1> DEFINE i == handler.i
<1>1. i \in Pid /\ Runnable(i) /\ parent[i] # Null /\ HandBack(i)
      /\ pc' = [pc EXCEPT ![i] = "dead"]
      /\ waits' = [waits EXCEPT ![i] = Null]
      /\ UNCHANGED <<present, parent, terminal_id, vidmap, context, mmuVars,
                     cur, booted, fault>>
  BY ScanTypeOK DEF KillChild, Target, Inv
<1>2. booted /\ handler.running
  BY DEF KillChild, Scanning, Inv, BootInv
<1>3. /\ handler'.running = TRUE
      /\ handler'.need_to_jump = (handler.need_to_jump \/ i = cur)
  BY <1>2 DEF KillChild, Killed, Inv, TypeOK, Handler
<1> HIDE DEF i
<1>4. TypeOK'
  <2>1. Next
    BY DEF Next, KillStep
  <2>2. QED
    BY <2>1, NextTypeOK DEF Inv
<1>5. TreeInv'
  BY <1>1, <1>2, KillChildTree
<1>6. /\ parent[i] \in Pid /\ parent[i] # i /\ pc[i] # "dead"
      /\ pc[parent[i]] = "exec"
  BY <1>1, <1>2, ParentWaits
<1>7. /\ pc'[i] = "dead" /\ \A p \in Pid : p # i => pc'[p] = pc[p]
      /\ \A p \in Pid : p # i /\ running[p] => running'[p]
  BY <1>1, <1>6 DEF HandBack, Inv, TypeOK
<1>8. CurInv'
  <2>1. cur \in Pid /\ cur' = cur /\ booted' = booted /\ present' = present
    BY <1>1 DEF Inv, TypeOK
  <2>2. CASE i = cur
    BY <1>2, <1>3, <1>7, <2>1, <2>2 DEF CurInv
  <2>3. CASE i # cur
    BY <1>2, <1>3, <1>7, <2>1, <2>3 DEF Inv, CurInv, Runnable
  <2>4. QED
    BY <2>2, <2>3
<1>9. ResumeInv'
  BY <1>1, <1>3, <1>7 DEF Inv, ResumeInv
<1>10. MapInv'
  BY <1>1, <1>3, <1>7 DEF Inv, MapInv, TypeOK, mmuVars
<1>11. BootInv' /\ NeverStops'
  BY <1>1, <1>2 DEF BootInv, NeverStops, Inv
<1>12. QED
  BY <1>4, <1>5, <1>8, <1>9, <1>10, <1>11 DEF Inv

(* kill_term_process kills a base shell.                                   *)
LEMMA KillBaseShellInv ==
  ASSUME Inv, KillBaseShell
  PROVE  Inv'
<1> DEFINE i == handler.i
<1>1. i \in Pid /\ Runnable(i) /\ parent[i] = Null
      /\ UNCHANGED <<mmuVars, cur, booted>>
  BY ScanTypeOK DEF KillBaseShell, Target, Inv
<1>2. booted /\ handler.running
  BY DEF KillBaseShell, Scanning, Inv, BootInv
<1>3. FreeAfter(i, i) /\ \A s \in Pid : FreeAfter(i, s) => s = i
  BY <1>1, <1>2, RespawnSlot
<1>4. /\ Respawn(i, i)
      /\ pc' = [pc EXCEPT ![i] = "dead", ![i] = "new"]
      /\ UNCHANGED fault
  BY <1>1, <1>3 DEF KillBaseShell
<1>5. /\ handler'.running = TRUE
      /\ handler'.need_to_jump = (handler.need_to_jump \/ i = cur)
  BY <1>2 DEF KillBaseShell, Killed, Inv, TypeOK, Handler
<1> HIDE DEF i
<1>6. TypeOK'
  <2>1. Next
    BY DEF Next, KillStep
  <2>2. QED
    BY <2>1, NextTypeOK DEF Inv
<1>7. TreeInv'
  BY <1>1, <1>2, <1>4, RespawnTree
<1>8. /\ pc'[i] = "new" /\ \A p \in Pid : p # i => pc'[p] = pc[p]
      /\ context'[i] = "entry"
      /\ \A p \in Pid : p # i => context'[p] = context[p]
      /\ \A p \in Pid : Runnable(p) => Runnable(p)'
      /\ \A p \in Pid : p # i => /\ vidmap'[p] = vidmap[p]
                                 /\ terminal_id'[p] = terminal_id[p]
  BY <1>1, <1>4 DEF Respawn, NewPcb, Inv, TypeOK, Runnable
<1>9. CurInv'
  <2>1. cur \in Pid /\ cur' = cur /\ booted' = booted
    BY <1>1 DEF Inv, TypeOK
  <2>2. CASE i = cur
    BY <1>2, <1>5, <1>8, <2>1, <2>2 DEF CurInv
  <2>3. CASE i # cur
    BY <1>2, <1>5, <1>8, <2>1, <2>3 DEF Inv, CurInv
  <2>4. QED
    BY <2>2, <2>3
<1>10. ResumeInv'
  <2>1. ASSUME NEW p \in Pid, pc'[p] # "dead",
               p # cur' \/ handler'.need_to_jump
        PROVE  context'[p] = LandingOf(pc'[p])
    <3>1. CASE p = i
      BY <1>8, <3>1 DEF LandingOf
    <3>2. CASE p # i
      BY <1>1, <1>5, <1>8, <2>1, <3>2 DEF Inv, ResumeInv
    <3>3. QED
      BY <3>1, <3>2
  <2>2. QED
    BY <2>1 DEF ResumeInv
<1>11. MapInv'
  BY <1>1, <1>5, <1>8 DEF Inv, MapInv, TypeOK, mmuVars
<1>12. BootInv' /\ NeverStops'
  BY <1>1, <1>2, <1>4 DEF BootInv, NeverStops, Inv
<1>13. QED
  BY <1>6, <1>7, <1>9, <1>10, <1>11, <1>12 DEF Inv

(* kill_term_process jumps away from a killed process.                     *)
LEMMA KillJumpsInv ==
  ASSUME Inv, KillJumps
  PROVE  Inv'
<1>1. booted /\ handler.need_to_jump
  BY DEF KillJumps, Inv, BootInv
<1>2. \E q \in Pid : Runnable(q)
  BY <1>1, Slots DEF Inv, TreeInv, SomeRunner
<1>3. PICK q \in Pid : Runnable(q) /\ Resume(q, pc)
  BY <1>2 DEF KillJumps, NextRunnable
<1>4. /\ cur' = q /\ handler' = Idle
      /\ UNCHANGED <<running, parent, terminal_id, vidmap, context, booted,
                     fault>>
  BY <1>2, <1>3 DEF KillJumps, Resume
<1>5. context[q] = LandingOf(pc[q])
  BY <1>1, <1>3 DEF Inv, ResumeInv, TreeInv, DeadInv, Runnable
<1>6. /\ TreeInv'
      /\ Runnable(q)' /\ pc'[q] \in {"entry", "load", "user"}
      /\ \A p \in Pid : p # q => pc'[p] = pc[p]
      /\ pc'[q] \in {"load", "user"} =>
           /\ userPage' = q /\ esp0' = q
           /\ vidPage' = [mapped |-> vidmap[q], term |-> terminal_id[q]]
  BY <1>1, <1>3, <1>4, <1>5, ResumeTree
<1>7. TypeOK'
  <2>1. Next
    BY DEF Next, KillStep
  <2>2. QED
    BY <2>1, NextTypeOK DEF Inv
<1>8. ~handler'.running /\ ~handler'.need_to_jump
  BY <1>4 DEF Idle
<1>9. CurInv'
  BY <1>4, <1>6, <1>8 DEF CurInv
<1>10. ResumeInv'
  BY <1>1, <1>4, <1>6, <1>8 DEF Inv, ResumeInv
<1>11. MapInv'
  BY <1>4, <1>6 DEF MapInv
<1>12. BootInv' /\ NeverStops'
  BY <1>1, <1>4 DEF BootInv, NeverStops, Inv
<1>13. QED
  BY <1>6, <1>7, <1>9, <1>10, <1>11, <1>12 DEF Inv

(* The steps that leave the processes of the table as they are.            *)
LEMMA SameTree ==
  ASSUME Inv,
         UNCHANGED <<present, running, parent, terminal_id, pc, waits, booted>>
  PROVE  TreeInv'
<1>1. DeadInv' /\ BaseInv' /\ SomeRunner' /\ SoleRunner'
  BY DEF Inv, TreeInv, DeadInv, BaseInv, SomeRunner, SoleRunner, Runnable
<1>2. ExecuteNesting'
  BY DEF Inv, TreeInv, ExecuteNesting, Alive
<1>3. CollectsOwnChild' /\ BaseShellPinned'
  BY DEF Inv, TreeInv, CollectsOwnChild, BaseShellPinned, Alive
<1>4. QED
  BY <1>1, <1>2, <1>3 DEF TreeInv

(* The current process moves on inside proc_entry.                         *)
LEMMA MovePlaceTree ==
  ASSUME Inv, cur \in Pid, Runnable(cur), pc[cur] \in {"entry", "load"},
         NEW place \in {"load", "user"}, pc' = [pc EXCEPT ![cur] = place],
         UNCHANGED <<present, running, parent, terminal_id, waits, booted>>
  PROVE  TreeInv'
<1>1. /\ \A p \in Pid : pc'[p] = "dead" <=> pc[p] = "dead"
      /\ \A p \in Pid : pc'[p] = "exec" <=> pc[p] = "exec"
  BY DEF Inv, TypeOK
<1>2. DeadInv' /\ BaseInv' /\ SomeRunner' /\ SoleRunner'
  BY <1>1, Slots
  DEF Inv, TreeInv, DeadInv, BaseInv, SomeRunner, SoleRunner, Runnable
<1>3. \A p \in Pid : Alive(p)' <=> Alive(p)
  BY <1>1 DEF Alive
<1>4. ExecuteNesting'
  BY <1>1, <1>3 DEF Inv, TypeOK, TreeInv, ExecuteNesting
<1>5. CollectsOwnChild'
  BY <1>1, <1>3 DEF Inv, TypeOK, TreeInv, CollectsOwnChild
<1>6. BaseShellPinned'
  BY <1>3 DEF Inv, TreeInv, BaseShellPinned
<1>7. QED
  BY <1>2, <1>4, <1>5, <1>6 DEF TreeInv

(* A failing execute writes only into a slot that is not present.          *)
LEMMA ExecuteFailsTree ==
  ASSUME Inv, ExecuteFails
  PROVE  TreeInv'
<1>1. PICK s \in Pid :
        /\ ~present[s]
        /\ running' = [running EXCEPT ![s] = TRUE]
        /\ NewPcb(s, cur, terminal_id[cur])
  BY DEF ExecuteFails, FirstFree
<1>2. UNCHANGED <<present, pc, waits, booted>>
  BY DEF ExecuteFails, stackVars
<1>3. pc[s] = "dead"
  BY <1>1 DEF Inv, TreeInv, DeadInv
<1>4. \A p \in Pid : p # s => /\ running'[p] = running[p]
                              /\ parent'[p] = parent[p]
                              /\ terminal_id'[p] = terminal_id[p]
  BY <1>1 DEF NewPcb, Inv, TypeOK
<1>5. \A p \in Pid : present[p] => p # s
  BY <1>1
<1>6. DeadInv' /\ BaseInv'
  BY <1>2, <1>4, <1>5 DEF Inv, TreeInv, DeadInv, BaseInv, Runnable
<1>7. SomeRunner' /\ SoleRunner'
  BY <1>2, <1>4, <1>5 DEF Inv, TreeInv, SomeRunner, SoleRunner, Runnable
<1>8. ExecuteNesting'
  BY <1>2, <1>4, <1>5 DEF Inv, TypeOK, TreeInv, ExecuteNesting, Alive
<1>9. CollectsOwnChild'
  BY <1>2, <1>4, <1>5 DEF Inv, TypeOK, TreeInv, CollectsOwnChild, Alive
<1>10. BaseShellPinned'
  BY <1>2, <1>4, <1>5 DEF Inv, TreeInv, BaseShellPinned, Alive
<1>11. QED
  BY <1>6, <1>7, <1>8, <1>9, <1>10 DEF TreeInv

LEMMA InitInv == Init => Inv
<1> SUFFICES ASSUME Init PROVE Inv
  OBVIOUS
<1>1. TypeOK
  BY InitTypeOK
<1>2. BootInv /\ CurInv /\ ResumeInv /\ MapInv /\ NeverStops
  BY DEF Init, Idle, BootInv, CurInv, ResumeInv, MapInv, NeverStops
<1>3. TreeInv
  BY DEF Init, TreeInv, DeadInv, BaseInv, SomeRunner, SoleRunner, Runnable,
         ExecuteNesting, CollectsOwnChild, BaseShellPinned, Alive
<1>4. QED
  BY <1>1, <1>2, <1>3 DEF Inv

LEMMA StartTerminalsInv ==
  ASSUME Inv, StartTerminals
  PROVE  Inv'
<1>1. /\ \A p \in Pid : /\ present'[p] <=> p \in Terminal
                        /\ running'[p] <=> p \in Terminal
                        /\ parent'[p] = Null
                        /\ pc'[p] = "dead" <=> p \notin Terminal
                        /\ p # 0 => pc'[p] \in {"new", "dead"}
      /\ \A t \in Terminal : terminal_id'[t] = t
      /\ pc'[0] = "entry" /\ cur' = 0 /\ booted'
  <2>1. \A p \in Pid :
          pc'[p] = CASE p \notin Terminal -> "dead"
                     [] p = 0            -> "entry"
                     [] OTHER            -> "new"
    BY DEF StartTerminals
  <2>2. QED
    BY <2>1, Slots DEF StartTerminals
<1>2. ~handler'.running /\ ~handler'.need_to_jump /\ fault' = fault
      /\ \A p \in Pid : context'[p] = "entry"
  BY DEF StartTerminals, Inv, BootInv
<1>3. TypeOK'
  <2>1. Next
    BY DEF Next
  <2>2. QED
    BY <2>1, NextTypeOK DEF Inv
<1>4. DeadInv' /\ BaseInv' /\ SoleRunner'
  BY <1>1, Slots DEF DeadInv, BaseInv, SoleRunner, Runnable
<1>5. SomeRunner'
  BY <1>1, Slots DEF SomeRunner, Runnable
<1>6. ExecuteNesting' /\ BaseShellPinned'
  BY <1>1 DEF ExecuteNesting, BaseShellPinned, Alive
<1>7. CollectsOwnChild'
  BY <1>1 DEF CollectsOwnChild, Alive
<1>8. CurInv'
  BY <1>1, <1>2, Slots DEF CurInv, Runnable
<1>9. ResumeInv'
  BY <1>1, <1>2 DEF ResumeInv, LandingOf
<1>10. MapInv' /\ BootInv' /\ NeverStops'
  BY <1>1, <1>2 DEF MapInv, BootInv, NeverStops, Inv
<1>11. QED
  BY <1>3, <1>4, <1>5, <1>6, <1>7, <1>8, <1>9, <1>10 DEF Inv, TreeInv

(* proc_entry and syscall_vidmap change the current process's own map.     *)
LEMMA OwnMapInv ==
  ASSUME Inv, EnterLoad \/ EnterUser \/ Vidmap
  PROVE  Inv'
<1>1. /\ booted /\ cur \in Pid /\ ~handler.need_to_jump
      /\ Runnable(cur) /\ pc[cur] \in {"entry", "load", "user"}
  BY CurRuns DEF EnterLoad, EnterUser, Vidmap
<1>2. /\ UNCHANGED <<present, running, parent, terminal_id, context, waits,
                     cur, booted, handler, fault>>
  BY DEF EnterLoad, EnterUser, Vidmap, pcbVars, stackVars
<1>3. TypeOK'
  <2>1. Next
    BY DEF Next
  <2>2. QED
    BY <2>1, NextTypeOK DEF Inv
<1>4. CASE EnterLoad
  <2>1. pc' = [pc EXCEPT ![cur] = "load"] /\ pc[cur] = "entry"
        /\ pc'[cur] = "load" /\ \A p \in Pid : p # cur => pc'[p] = pc[p]
    BY <1>1, <1>4 DEF EnterLoad, Inv, TypeOK
  <2>2. TreeInv'
    BY <1>1, <1>2, <2>1, MovePlaceTree
  <2>3. MapInv'
    BY <1>2, <1>4, <2>1 DEF MapInv, EnterLoad, SetUserPage, pcbVars
  <2>4. CurInv' /\ ResumeInv'
    BY <1>1, <1>2, <2>1 DEF Inv, CurInv, ResumeInv, Runnable
  <2>5. QED
    BY <1>1, <1>2, <1>3, <2>2, <2>3, <2>4 DEF Inv, BootInv, NeverStops
<1>5. CASE EnterUser
  <2>1. pc' = [pc EXCEPT ![cur] = "user"] /\ pc[cur] = "load"
        /\ pc'[cur] = "user" /\ \A p \in Pid : p # cur => pc'[p] = pc[p]
    BY <1>1, <1>5 DEF EnterUser, Inv, TypeOK
  <2>2. TreeInv'
    BY <1>1, <1>2, <2>1, MovePlaceTree
  <2>3. MapInv'
    BY <1>1, <1>2, <1>5, <2>1 DEF Inv, MapInv, EnterUser, pcbVars
  <2>4. CurInv' /\ ResumeInv'
    BY <1>1, <1>2, <2>1 DEF Inv, CurInv, ResumeInv, Runnable
  <2>5. QED
    BY <1>1, <1>2, <1>3, <2>2, <2>3, <2>4 DEF Inv, BootInv, NeverStops
<1>6. CASE Vidmap
  <2>1. pc' = pc /\ vidmap'[cur] = TRUE
    BY <1>1, <1>6 DEF Vidmap, stackVars, Inv, TypeOK
  <2>2. TreeInv'
    BY <1>2, <2>1, SameTree
  <2>3. MapInv'
    BY <1>1, <1>2, <1>6, <2>1 DEF Inv, MapInv, Vidmap, SetUserPage
  <2>4. CurInv' /\ ResumeInv'
    BY <1>1, <1>2, <2>1 DEF Inv, CurInv, ResumeInv, Runnable
  <2>5. QED
    BY <1>1, <1>2, <1>3, <2>2, <2>3, <2>4 DEF Inv, BootInv, NeverStops
<1>7. QED
  BY <1>4, <1>5, <1>6

LEMMA ExecuteFailsInv ==
  ASSUME Inv, ExecuteFails
  PROVE  Inv'
<1>1. /\ booted /\ cur \in Pid /\ ~handler.need_to_jump
      /\ Runnable(cur) /\ pc[cur] = "user"
  BY CurRuns DEF ExecuteFails
<1>2. UNCHANGED <<present, context, pc, mmuVars, cur, booted, handler, fault>>
  BY DEF ExecuteFails, stackVars
<1>3. /\ running'[cur] /\ vidmap'[cur] = vidmap[cur]
      /\ terminal_id'[cur] = terminal_id[cur]
  BY <1>1 DEF ExecuteFails, FirstFree, NewPcb, Runnable, Inv, TypeOK
<1>4. TypeOK'
  <2>1. Next
    BY DEF Next
  <2>2. QED
    BY <2>1, NextTypeOK DEF Inv
<1>5. TreeInv'
  BY ExecuteFailsTree
<1>6. CurInv' /\ ResumeInv'
  BY <1>1, <1>2, <1>3 DEF Inv, CurInv, ResumeInv, Runnable
<1>7. MapInv'
  BY <1>1, <1>2, <1>3 DEF Inv, MapInv, mmuVars
<1>8. QED
  BY <1>1, <1>2, <1>4, <1>5, <1>6, <1>7 DEF Inv, BootInv, NeverStops

(* The steps that only move the handler on, or do not involve a process.   *)
LEMMA OtherInv ==
  ASSUME Inv,
         \/ \E t \in Terminal : SwitchTerminal(t)
         \/ CtrlC \/ KillSkips \/ KillReturns
         \/ UNCHANGED vars
  PROVE  Inv'
<1>1. UNCHANGED <<present, running, parent, terminal_id, vidmap, context, pc,
                  waits, userPage, vidPage, esp0, cur, booted, fault>>
  BY DEF SwitchTerminal, CtrlC, KillSkips, KillReturns, vars, pcbVars,
         stackVars, mmuVars
<1>2. TypeOK'
  <2>1. [Next]_vars
    BY DEF Next, KillStep
  <2>2. QED
    BY <2>1, NextTypeOK DEF Inv
<1>3. TreeInv'
  BY <1>1, SameTree
<1>4. /\ handler'.need_to_jump <=> handler.need_to_jump
      /\ handler.need_to_jump => handler'.running
      /\ handler'.running => handler.running \/ booted
  <2>1. CASE CtrlC
    <3>1. handler' = [Idle EXCEPT !.running = TRUE] /\ booted
          /\ ~handler.running
      BY <2>1 DEF CtrlC, Interruptible, Inv, BootInv, TypeOK
    <3>2. ~handler.need_to_jump
      BY <3>1 DEF Inv, CurInv
    <3>3. QED
      BY <3>1, <3>2 DEF Idle
  <2>2. CASE KillSkips
    BY <2>2 DEF KillSkips, Scanning, Inv, TypeOK, Handler
  <2>3. CASE KillReturns
    BY <2>3 DEF KillReturns, Idle
  <2>4. CASE (\E t \in Terminal : SwitchTerminal(t)) \/ UNCHANGED vars
    <3>1. handler' = handler
      BY <2>4 DEF SwitchTerminal, vars
    <3>2. CASE booted
      BY <3>1, <3>2 DEF Inv, CurInv
    <3>3. CASE ~booted
      BY <3>1, <3>3 DEF Inv, BootInv
    <3>4. QED
      BY <3>2, <3>3 DEF Inv, TypeOK
  <2>5. QED
    BY <2>1, <2>2, <2>3, <2>4
<1>5. CurInv' /\ ResumeInv' /\ MapInv'
  BY <1>1, <1>4 DEF Inv, CurInv, ResumeInv, MapInv, Runnable
<1>6. BootInv' /\ NeverStops'
  BY <1>1, <1>4 DEF Inv, BootInv, NeverStops
<1>7. QED
  BY <1>2, <1>3, <1>5, <1>6 DEF Inv

LEMMA NextInv == Inv /\ [Next]_vars => Inv'
BY StartTerminalsInv, OwnMapInv, ExecuteInv, ExecuteFailsInv, HaltToParentInv,
   HaltBaseShellInv, PitTickInv, KillChildInv, KillBaseShellInv, KillJumpsInv,
   OtherInv
DEF Next, KillStep

THEOREM Invariance == Spec => []Inv
BY InitInv, NextInv, PTL DEF Spec

----------------------------------------------------------------------------
(* What the invariant says of the table.                                   *)
LEMMA InvImplies ==
  ASSUME Inv
  PROVE  /\ OneRunnerPerTerminal
         /\ ResumesWhereItStopped
         /\ MemoryMapMatches
<1>1. OneRunnerPerTerminal
  <2>1. ASSUME booted, NEW t \in Terminal
        PROVE  \E p \in Pid :
                 /\ Runnable(p) /\ Alive(p) /\ terminal_id[p] = t
                 /\ \A q \in Pid : Runnable(q) /\ terminal_id[q] = t => q = p
    <3>1. PICK p \in Pid : Runnable(p) /\ terminal_id[p] = t
      BY <2>1 DEF Inv, TreeInv, SomeRunner
    <3>2. Alive(p)
      BY <3>1 DEF Inv, TreeInv, DeadInv, Alive, Runnable
    <3>3. \A q \in Pid : Runnable(q) /\ terminal_id[q] = t => q = p
      BY <3>1 DEF Inv, TreeInv, SoleRunner
    <3>4. QED
      BY <3>1, <3>2, <3>3
  <2>2. QED
    BY <2>1 DEF OneRunnerPerTerminal
<1>2. ResumesWhereItStopped
  BY DEF Inv, ResumeInv, ResumesWhereItStopped, Alive
<1>3. MemoryMapMatches
  BY DEF Inv, CurInv, MapInv, MemoryMapMatches
<1>4. QED
  BY <1>1, <1>2, <1>3

(* One process to run on each terminal, whatever is executed, halted,      *)
(* killed and preempted (process.c: the running flags).                    *)
THEOREM OneRunner == Spec => []OneRunnerPerTerminal
<1>1. Inv => OneRunnerPerTerminal
  BY InvImplies
<1>2. QED
  BY <1>1, Invariance, PTL

(* The live processes of each terminal are nested calls of execute.        *)
THEOREM Nesting == Spec => []ExecuteNesting
<1>1. Inv => ExecuteNesting
  BY DEF Inv, TreeInv
<1>2. QED
  BY <1>1, Invariance, PTL

(* A parent that returns from execute reads and frees its own child.       *)
THEOREM OwnChild == Spec => []CollectsOwnChild
<1>1. Inv => CollectsOwnChild
  BY DEF Inv, TreeInv
<1>2. QED
  BY <1>1, Invariance, PTL

(* A base shell never leaves its slot.                                     *)
THEOREM BasePinned == Spec => []BaseShellPinned
<1>1. Inv => BaseShellPinned
  BY DEF Inv, TreeInv
<1>2. QED
  BY <1>1, Invariance, PTL

(* The saved context of every process that is not running is where it      *)
(* stopped.                                                                *)
THEOREM RightContext == Spec => []ResumesWhereItStopped
<1>1. Inv => ResumesWhereItStopped
  BY InvImplies
<1>2. QED
  BY <1>1, Invariance, PTL

(* User code runs on its own pages and enters the kernel on its own stack. *)
THEOREM OwnMemory == Spec => []MemoryMapMatches
<1>1. Inv => MemoryMapMatches
  BY InvImplies
<1>2. QED
  BY <1>1, Invariance, PTL

(* The kernel neither panics nor idles for want of a process.              *)
THEOREM KernelNeverStops == Spec => []NeverStops
<1>1. Inv => NeverStops
  BY DEF Inv
<1>2. QED
  BY <1>1, Invariance, PTL

----------------------------------------------------------------------------
(***************************************************************************)
(* The refinement of JobControl.                                           *)
(***************************************************************************)

(* The job in front of a terminal is the process that runs there.          *)
LEMMA FrontIsRunner ==
  ASSUME SoleRunner, booted,
         NEW t \in Terminal, NEW p \in Pid, Runnable(p), terminal_id[p] = t
  PROVE  Front(t) = p
BY DEF Front, SoleRunner

LEMMA FrontIsRunnerNext ==
  ASSUME SoleRunner', booted',
         NEW t \in Terminal, NEW p \in Pid, Runnable(p)', terminal_id'[p] = t
  PROVE  Front(t)' = p
BY DEF Front, SoleRunner, Runnable

(* The refinement mapping, one operator per variable of JobControl.        *)
heldJobs == {p \in Pid : present[p]}
liveJobs == {p \in Pid : pc[p] # "dead"}
callerOf == [p \in Pid |-> IF present[p] THEN parent[p] ELSE Null]
frontOf == [t \in Terminal |-> Front(t)]

(* A step that changes no process's life, parent or right to run is a      *)
(* stutter of the jobs.                                                    *)
LEMMA SameJobs ==
  ASSUME Inv, Inv',
         heldJobs' = heldJobs, liveJobs' = liveJobs,
         \A p \in Pid : present[p] =>
           /\ parent'[p] = parent[p]
           /\ terminal_id'[p] = terminal_id[p]
           /\ running'[p] = running[p],
         booted' = booted
  PROVE  UNCHANGED Jobs!jobVars
<1>1. callerOf' = callerOf
  BY DEF heldJobs, callerOf
<1>2. ASSUME NEW t \in Terminal PROVE Front(t)' = Front(t)
  <2>1. CASE booted
    <3>1. PICK p \in Pid : Runnable(p) /\ terminal_id[p] = t
      BY <2>1 DEF Inv, TreeInv, SomeRunner
    <3>2. Runnable(p)' /\ terminal_id'[p] = t
      BY <3>1 DEF Runnable, heldJobs
    <3>3. Front(t) = p
      BY <2>1, <3>1, FrontIsRunner DEF Inv, TreeInv
    <3>4. Front(t)' = p
      BY <2>1, <3>2, FrontIsRunnerNext DEF Inv, TreeInv
    <3>5. QED
      BY <3>3, <3>4
  <2>2. CASE ~booted
    BY <2>2 DEF Front
  <2>3. QED
    BY <2>1, <2>2
<1>3. frontOf' = frontOf
  BY <1>2 DEF frontOf
<1>4. QED
  BY <1>1, <1>3 DEF Jobs!jobVars, heldJobs, liveJobs, callerOf, frontOf

LEMMA InitJobs == Init => Jobs!JobInit
BY DEF Init, Jobs!JobInit, Front

LEMMA BootJobs ==
  ASSUME Inv, Inv', StartTerminals
  PROVE  Jobs!Boot
<1>1. /\ ~booted /\ booted'
      /\ \A p \in Pid : ~present[p]
      /\ \A p \in Pid : /\ present'[p] <=> p \in Terminal
                        /\ running'[p] <=> p \in Terminal
                        /\ pc'[p] = "dead" <=> p \notin Terminal
                        /\ parent'[p] = Null
      /\ \A t \in Terminal : terminal_id'[t] = t
  BY Slots DEF StartTerminals, Inv, BootInv
<1>2. \A t \in Terminal : Front(t)' = t
  <2>1. SUFFICES ASSUME NEW t \in Terminal PROVE Front(t)' = t
    OBVIOUS
  <2>2. t \in Pid /\ Runnable(t)' /\ terminal_id'[t] = t
    BY <1>1, Slots DEF Runnable
  <2>3. QED
    BY <1>1, <2>2, FrontIsRunnerNext DEF Inv, TreeInv
<1>3. {p \in Pid : present[p]} = {} /\ {p \in Pid : present'[p]} = Terminal
      /\ {p \in Pid : pc'[p] # "dead"} = Terminal
  BY <1>1, Slots
<1>4. [p \in Pid |-> IF present'[p] THEN parent'[p] ELSE Null]
        = [p \in Pid |-> IF present[p] THEN parent[p] ELSE Null]
  BY <1>1
<1>5. QED
  BY <1>2, <1>3, <1>4 DEF Jobs!Boot

(* The runner of another terminal stays in front of it.                    *)
LEMMA OtherFronts ==
  ASSUME Inv, Inv', booted, booted', NEW t \in Terminal,
         \A p \in Pid : Runnable(p) /\ terminal_id[p] # t =>
                        Runnable(p)' /\ terminal_id'[p] = terminal_id[p]
  PROVE  \A u \in Terminal : u # t => Front(u)' = Front(u)
<1>1. SUFFICES ASSUME NEW u \in Terminal, u # t PROVE Front(u)' = Front(u)
  OBVIOUS
<1>2. PICK p \in Pid : Runnable(p) /\ terminal_id[p] = u
  BY DEF Inv, TreeInv, SomeRunner
<1>3. Runnable(p)' /\ terminal_id'[p] = u
  BY <1>1, <1>2
<1>4. Front(u) = p /\ Front(u)' = p
  BY <1>2, <1>3, FrontIsRunner, FrontIsRunnerNext DEF Inv, TreeInv
<1>5. QED
  BY <1>4

LEMMA LaunchJobs ==
  ASSUME Inv, Inv', Execute
  PROVE  \E t \in Terminal : Jobs!Launch(t)
<1>a. PICK i \in Pid, t \in Terminal : i = cur /\ t = terminal_id[cur]
  BY DEF Inv, TypeOK
<1>1. booted /\ booted' /\ Runnable(i) /\ pc[i] = "user"
  BY <1>a, CurRuns DEF Execute
<1>2. PICK s \in Pid :
        /\ ~present[s]
        /\ present' = [present EXCEPT ![s] = TRUE]
        /\ running' = [running EXCEPT ![s] = TRUE, ![i] = FALSE]
        /\ parent' = [parent EXCEPT ![s] = i]
        /\ terminal_id' = [terminal_id EXCEPT ![s] = t]
        /\ pc' = [pc EXCEPT ![s] = "entry", ![i] = "exec"]
  BY <1>a DEF Execute, SwitchToChild, FirstFree, NewPcb
<1>3. s # i /\ terminal_id[i] = t /\ ~present[s]
  BY <1>a, <1>1, <1>2 DEF Runnable
<1>4. /\ present'[s] /\ \A p \in Pid : p # s => present'[p] = present[p]
      /\ parent'[s] = i /\ \A p \in Pid : p # s => parent'[p] = parent[p]
      /\ running'[s] /\ \A p \in Pid : p # s /\ p # i => running'[p] = running[p]
      /\ terminal_id'[s] = t
      /\ \A p \in Pid : p # s => terminal_id'[p] = terminal_id[p]
      /\ \A p \in Pid : pc'[p] # "dead" <=> pc[p] # "dead" \/ p = s
  BY <1>1, <1>2, <1>3 DEF Inv, TypeOK
<1>5. Front(t) = i /\ Front(t)' = s
  BY <1>1, <1>3, <1>4, FrontIsRunner, FrontIsRunnerNext
  DEF Inv, TreeInv, Runnable
<1>6. \A u \in Terminal : u # t => Front(u)' = Front(u)
  <2>1. \A p \in Pid : Runnable(p) /\ terminal_id[p] # t =>
                       Runnable(p)' /\ terminal_id'[p] = terminal_id[p]
    BY <1>3, <1>4 DEF Runnable
  <2>2. QED
    BY <1>1, <2>1, OtherFronts
<1>7. /\ heldJobs' = heldJobs \cup {s} /\ s \notin heldJobs
      /\ liveJobs' = liveJobs \cup {s}
  BY <1>3, <1>4 DEF heldJobs, liveJobs
<1>8. callerOf' = [callerOf EXCEPT ![s] = i]
  BY <1>3, <1>4 DEF callerOf
<1>9. frontOf' = [frontOf EXCEPT ![t] = s] /\ frontOf[t] = i
  BY <1>1, <1>5, <1>6 DEF frontOf
<1>10. i \in liveJobs
  BY <1>1 DEF liveJobs
<1>11. Jobs!Launch(t)
  BY <1>2, <1>7, <1>8, <1>9, <1>10
  DEF Jobs!Launch, heldJobs, liveJobs, callerOf, frontOf
<1>12. QED
  BY <1>1, <1>11

LEMMA ReturnJobs ==
  ASSUME Inv, Inv', HaltToParent
  PROVE  \E t \in Terminal : Jobs!Return(t)
<1>a. PICK i \in Pid, t \in Terminal : i = cur /\ t = terminal_id[cur]
  BY DEF Inv, TypeOK
<1>b. PICK q \in Pid : q = parent[i]
  BY <1>a DEF HaltToParent, Inv, TypeOK
<1>1. booted /\ booted' /\ Runnable(i) /\ parent[i] # Null
  BY <1>a, CurRuns DEF HaltToParent
<1>2. /\ q \in Pid /\ q # i /\ pc[i] # "dead" /\ present[i]
      /\ pc[q] = "exec" /\ ~running[q] /\ present[q] /\ waits[q] = i
      /\ terminal_id[q] = t
  BY <1>a, <1>b, <1>1, ParentWaits
<1>3. context[q] = "exec"
  BY <1>a, <1>2 DEF Inv, ResumeInv, LandingOf
<1>4. /\ Resume(q, [pc EXCEPT ![i] = "dead"]) /\ HandBack(i)
      /\ UNCHANGED <<parent, terminal_id>>
  BY <1>a, <1>b, <1>2 DEF HaltToParent
<1>5. /\ ~present'[i] /\ \A p \in Pid : p # i => present'[p] = present[p]
      /\ \A p \in Pid : pc'[p] # "dead" <=> pc[p] # "dead" /\ p # i
      /\ ~running'[i] /\ running'[q]
      /\ \A p \in Pid : p # i /\ p # q => running'[p] = running[p]
  BY <1>b, <1>2, <1>3, <1>4 DEF Resume, HandBack, Inv, TypeOK
<1>6. terminal_id[i] = t /\ parent[i] = q /\ UNCHANGED <<parent, terminal_id>>
  BY <1>a, <1>b, <1>4
<1>7. Front(t) = i /\ Front(t)' = q
  BY <1>1, <1>2, <1>5, <1>6, FrontIsRunner, FrontIsRunnerNext
  DEF Inv, TreeInv, Runnable
<1>8. \A u \in Terminal : u # t => Front(u)' = Front(u)
  <2>1. \A p \in Pid : Runnable(p) /\ terminal_id[p] # t =>
                       Runnable(p)' /\ terminal_id'[p] = terminal_id[p]
    BY <1>2, <1>5, <1>6 DEF Runnable
  <2>2. QED
    BY <1>1, <2>1, OtherFronts
<1>9. heldJobs' = heldJobs \ {i} /\ liveJobs' = liveJobs \ {i}
  BY <1>1, <1>5 DEF heldJobs, liveJobs
<1>10. callerOf' = [callerOf EXCEPT ![i] = Null] /\ callerOf[i] = q
  BY <1>1, <1>2, <1>5, <1>6 DEF callerOf
<1>11. frontOf' = [frontOf EXCEPT ![t] = q] /\ frontOf[t] = i
  BY <1>1, <1>7, <1>8 DEF frontOf
<1>12. i \in liveJobs /\ q \in liveJobs
  BY <1>1, <1>2 DEF liveJobs
<1>13. Jobs!Return(t)
  BY <1>9, <1>10, <1>11, <1>12
  DEF Jobs!Return, Jobs!Ends, heldJobs, liveJobs, callerOf, frontOf
<1>14. QED
  BY <1>1, <1>13

LEMMA FinishJobs ==
  ASSUME Inv, Inv', KillChild
  PROVE  \E t \in Terminal : Jobs!Finish(t)
<1>a. PICK i \in Pid, t \in Terminal : i = handler.i /\ t = terminal_id[i]
  BY ScanTypeOK DEF KillChild, Inv, TypeOK
<1>b. PICK q \in Pid : q = parent[i]
  BY <1>a DEF KillChild, Inv, TypeOK
<1>1. /\ booted /\ booted' /\ Runnable(i) /\ parent[i] # Null
      /\ HandBack(i) /\ pc' = [pc EXCEPT ![i] = "dead"]
      /\ UNCHANGED <<present, parent, terminal_id>>
  BY <1>a DEF KillChild, Scanning, Target, Inv, BootInv
<1>2. /\ q \in Pid /\ q # i /\ pc[i] # "dead" /\ present[i]
      /\ pc[q] = "exec" /\ ~running[q] /\ present[q]
      /\ terminal_id[q] = t
  BY <1>a, <1>b, <1>1, ParentWaits
<1>3. terminal_id[i] = t /\ parent[i] = q
  BY <1>a, <1>b
<1>4. /\ \A p \in Pid : pc'[p] # "dead" <=> pc[p] # "dead" /\ p # i
      /\ ~running'[i] /\ running'[q]
      /\ \A p \in Pid : p # i /\ p # q => running'[p] = running[p]
  BY <1>1, <1>2, <1>3 DEF HandBack, Inv, TypeOK
<1>5. Front(t) = i /\ Front(t)' = q
  BY <1>1, <1>2, <1>3, <1>4, FrontIsRunner, FrontIsRunnerNext
  DEF Inv, TreeInv, Runnable
<1>6. \A u \in Terminal : u # t => Front(u)' = Front(u)
  <2>1. \A p \in Pid : Runnable(p) /\ terminal_id[p] # t =>
                       Runnable(p)' /\ terminal_id'[p] = terminal_id[p]
    BY <1>1, <1>2, <1>3, <1>4 DEF Runnable
  <2>2. QED
    BY <1>1, <2>1, OtherFronts
<1>7. heldJobs' = heldJobs /\ liveJobs' = liveJobs \ {i}
      /\ callerOf' = callerOf
  BY <1>1, <1>4 DEF heldJobs, liveJobs, callerOf
<1>8. callerOf[i] = q
  BY <1>1, <1>2, <1>3 DEF callerOf
<1>9. frontOf' = [frontOf EXCEPT ![t] = q] /\ frontOf[t] = i
  BY <1>1, <1>5, <1>6 DEF frontOf
<1>10. i \in liveJobs /\ q \in liveJobs
  BY <1>1, <1>2 DEF liveJobs
<1>11. Jobs!Finish(t)
  BY <1>7, <1>8, <1>9, <1>10
  DEF Jobs!Finish, Jobs!Ends, heldJobs, liveJobs, callerOf, frontOf
<1>12. QED
  BY <1>1, <1>11

(* Resuming a process collects its dead child, or changes no job.          *)
LEMMA ResumeJobs ==
  ASSUME Inv, Inv', booted, NEW q \in Pid, Runnable(q),
         context[q] = LandingOf(pc[q]), Resume(q, pc),
         UNCHANGED <<running, parent, terminal_id, booted>>
  PROVE  \/ \E t \in Terminal : \E s \in Pid : Jobs!Collect(t, s)
         \/ UNCHANGED Jobs!jobVars
<1>1. pc[q] # "dead" /\ Alive(q) /\ running[q]
  BY DEF Inv, TreeInv, DeadInv, Runnable, Alive
<1>2. liveJobs' = liveJobs
  BY <1>1 DEF Resume, LandingOf, liveJobs, Inv, TypeOK
<1>3. CASE pc[q] # "exec"
  <2>1. present' = present
    BY <1>1, <1>3 DEF Resume, LandingOf
  <2>2. heldJobs' = heldJobs
    BY <2>1 DEF heldJobs
  <2>3. UNCHANGED Jobs!jobVars
    BY <1>2, <2>2, SameJobs
  <2>4. QED
    BY <2>3
<1>4. CASE pc[q] = "exec"
  <2>a. PICK s \in Pid, t \in Terminal : s = waits[q] /\ t = terminal_id[q]
    BY <1>1, <1>4 DEF Inv, TypeOK, TreeInv, CollectsOwnChild
  <2>1. /\ present[s] /\ pc[s] = "dead" /\ ~running[s]
        /\ parent[s] = q
    BY <1>1, <1>4, <2>a DEF Inv, TreeInv, CollectsOwnChild
  <2>2. ~present'[s] /\ \A p \in Pid : p # s => present'[p] = present[p]
    BY <1>4, <2>a DEF Resume, LandingOf, Inv, TypeOK
  <2>3. terminal_id[q] = t
    BY <2>a
  <2>4. \A p \in Pid : Runnable(p) => Runnable(p)'
    BY <2>1, <2>2 DEF Runnable
  <2>5. \A u \in Terminal : Front(u)' = Front(u)
    <3>1. SUFFICES ASSUME NEW u \in Terminal PROVE Front(u)' = Front(u)
      OBVIOUS
    <3>2. PICK p \in Pid : Runnable(p) /\ terminal_id[p] = u
      BY DEF Inv, TreeInv, SomeRunner
    <3>3. Front(u) = p /\ Front(u)' = p
      BY <2>4, <3>2, FrontIsRunner, FrontIsRunnerNext DEF Inv, TreeInv
    <3>4. QED
      BY <3>3
  <2>6. Front(t) = q
    BY <2>1, <2>3, FrontIsRunner DEF Inv, TreeInv
  <2>7. heldJobs' = heldJobs \ {s} /\ s \in heldJobs /\ s \notin liveJobs
    BY <2>1, <2>2 DEF heldJobs, liveJobs
  <2>8. callerOf' = [callerOf EXCEPT ![s] = Null] /\ callerOf[s] = q
    BY <2>1, <2>2 DEF callerOf
  <2>9. frontOf' = frontOf /\ frontOf[t] = q
    BY <2>1, <2>5, <2>6 DEF frontOf
  <2>10. Jobs!Collect(t, s)
    BY <1>2, <2>7, <2>8, <2>9
    DEF Jobs!Collect, heldJobs, liveJobs, callerOf, frontOf
  <2>11. QED
    BY <2>1, <2>10
<1>5. QED
  BY <1>3, <1>4

(* A base shell that starts again is the same job.                         *)
LEMMA RespawnJobs ==
  ASSUME Inv, Inv', booted, NEW i \in Pid, Runnable(i), parent[i] = Null,
         Respawn(i, i), NEW place \in {"new", "entry"},
         pc' = [pc EXCEPT ![i] = "dead", ![i] = place],
         UNCHANGED booted
  PROVE  UNCHANGED Jobs!jobVars
<1>1. /\ i \in Terminal /\ terminal_id[i] = i
      /\ pc[i] # "dead" /\ present[i] /\ running[i]
  BY RespawnSlot DEF Runnable
<1>2. /\ present' = present /\ running' = running
      /\ terminal_id' = terminal_id /\ parent' = parent
  BY <1>1 DEF Respawn, NewPcb, Inv, TypeOK
<1>3. \A p \in Pid : pc'[p] # "dead" <=> pc[p] # "dead"
  BY <1>1 DEF Inv, TypeOK
<1>4. heldJobs' = heldJobs /\ liveJobs' = liveJobs
  BY <1>2, <1>3 DEF heldJobs, liveJobs
<1>5. QED
  BY <1>2, <1>4, SameJobs

LEMMA OtherJobs ==
  ASSUME Inv, Inv',
         \/ \E t \in Terminal : SwitchTerminal(t)
         \/ EnterLoad \/ EnterUser \/ Vidmap \/ ExecuteFails
         \/ CtrlC \/ KillSkips \/ KillReturns
         \/ UNCHANGED vars
  PROVE  UNCHANGED Jobs!jobVars
<1>1. present' = present /\ booted' = booted
  BY DEF SwitchTerminal, EnterLoad, EnterUser, Vidmap, ExecuteFails, CtrlC,
         KillSkips, KillReturns, vars, pcbVars
<1>2. \A p \in Pid : pc'[p] # "dead" <=> pc[p] # "dead"
  BY DEF SwitchTerminal, EnterLoad, EnterUser, Vidmap, ExecuteFails, CtrlC,
         KillSkips, KillReturns, vars, stackVars, Inv, TypeOK
<1>3. \A p \in Pid : present[p] =>
         /\ parent'[p] = parent[p]
         /\ terminal_id'[p] = terminal_id[p]
         /\ running'[p] = running[p]
  <2>1. CASE ExecuteFails
    BY <2>1 DEF ExecuteFails, FirstFree, NewPcb, Inv, TypeOK
  <2>2. CASE ~ExecuteFails
    BY <2>2 DEF SwitchTerminal, EnterLoad, EnterUser, Vidmap, CtrlC,
                KillSkips, KillReturns, vars, pcbVars
  <2>3. QED
    BY <2>1, <2>2
<1>4. heldJobs' = heldJobs /\ liveJobs' = liveJobs
  BY <1>1, <1>2 DEF heldJobs, liveJobs
<1>5. QED
  BY <1>1, <1>3, <1>4, SameJobs

(* Every step of the process manager maps to a step or a stutter.          *)
LEMMA StepJobs == Inv /\ Inv' /\ [Next]_vars => [Jobs!JobNext]_(Jobs!jobVars)
<1> SUFFICES ASSUME Inv, Inv', [Next]_vars
             PROVE  Jobs!JobNext \/ UNCHANGED Jobs!jobVars
  OBVIOUS
<1>1. CASE StartTerminals
  BY <1>1, BootJobs DEF Jobs!JobNext
<1>2. CASE Execute
  BY <1>2, LaunchJobs DEF Jobs!JobNext
<1>3. CASE HaltToParent
  BY <1>3, ReturnJobs DEF Jobs!JobNext
<1>4. CASE KillChild
  BY <1>4, FinishJobs DEF Jobs!JobNext
<1>5. CASE HaltBaseShell
  <2>1. booted /\ cur \in Pid /\ Runnable(cur) /\ parent[cur] = Null
    BY <1>5, CurRuns DEF HaltBaseShell
  <2>2. FreeAfter(cur, cur) /\ \A s \in Pid : FreeAfter(cur, s) => s = cur
    BY <2>1, RespawnSlot
  <2>3. /\ Respawn(cur, cur)
        /\ pc' = [pc EXCEPT ![cur] = "dead", ![cur] = "entry"]
        /\ booted' = booted
    BY <1>5, <2>1, <2>2 DEF HaltBaseShell
  <2>4. QED
    BY <2>1, <2>3, RespawnJobs
<1>6. CASE KillBaseShell
  <2>1. /\ booted /\ handler.i \in Pid /\ Runnable(handler.i)
        /\ parent[handler.i] = Null
    BY <1>6, ScanTypeOK DEF KillBaseShell, Scanning, Target, Inv, BootInv
  <2>2. /\ FreeAfter(handler.i, handler.i)
        /\ \A s \in Pid : FreeAfter(handler.i, s) => s = handler.i
    BY <2>1, RespawnSlot
  <2>3. /\ Respawn(handler.i, handler.i)
        /\ pc' = [pc EXCEPT ![handler.i] = "dead", ![handler.i] = "new"]
        /\ booted' = booted
    BY <1>6, <2>1, <2>2 DEF KillBaseShell
  <2>4. QED
    BY <2>1, <2>3, RespawnJobs
<1>7. CASE PitTick
  <2>1. booted /\ Runnable(cur) /\ cur \in Pid /\ ~handler.need_to_jump
    BY <1>7, CurRuns DEF PitTick, Inv, BootInv, TypeOK
  <2>2. PICK q \in Pid : Runnable(q) /\ q # cur /\ Resume(q, pc)
    BY <1>7, <2>1 DEF PitTick, NextRunnable
  <2>3. UNCHANGED <<running, parent, terminal_id, booted>>
    BY <1>7 DEF PitTick
  <2>4. context[q] = LandingOf(pc[q])
    BY <2>2 DEF Inv, ResumeInv, TreeInv, DeadInv, Runnable
  <2>5. QED
    BY <2>1, <2>2, <2>3, <2>4, ResumeJobs DEF Jobs!JobNext
<1>8. CASE KillJumps
  <2>1. booted /\ handler.need_to_jump
    BY <1>8 DEF KillJumps, Inv, BootInv
  <2>2. \E q \in Pid : Runnable(q)
    BY <2>1, Slots DEF Inv, TreeInv, SomeRunner
  <2>3. PICK q \in Pid : Runnable(q) /\ Resume(q, pc)
    BY <1>8, <2>2 DEF KillJumps, NextRunnable
  <2>4. UNCHANGED <<running, parent, terminal_id, booted>>
    BY <1>8 DEF KillJumps
  <2>5. context[q] = LandingOf(pc[q])
    BY <2>1, <2>3 DEF Inv, ResumeInv, TreeInv, DeadInv, Runnable
  <2>6. QED
    BY <2>1, <2>3, <2>4, <2>5, ResumeJobs DEF Jobs!JobNext
<1>9. QED
  BY <1>1, <1>2, <1>3, <1>4, <1>5, <1>6, <1>7, <1>8, OtherJobs
  DEF Next, KillStep

(* The process manager implements JobControl: at every step, each terminal *)
(* has a stack of jobs, only the one in front starts another or ends, and  *)
(* the slot of one that has ended is freed by its caller alone.            *)
THEOREM Refinement == Spec => ImplementsJobControl
<1>1. Init => Jobs!JobInit
  BY InitJobs
<1>2. QED
  BY <1>1, StepJobs, Invariance, PTL DEF Spec, ImplementsJobControl, Jobs!JobSpec

----------------------------------------------------------------------------
(* The callers of a job are above it: no job is among its own callers.     *)
Ranked ==
  \E r \in [Pid -> Nat] :
    \A p \in liveJobs : callerOf[p] # Null => r[p] < r[callerOf[p]]

(* What a step of the jobs does to the callers of the live ones: nothing,  *)
(* or a job that is not one of them gets one of them as its caller.        *)
CallersKept ==
  \A p \in liveJobs' :
    callerOf'[p] # Null => p \in liveJobs /\ callerOf'[p] = callerOf[p]

CallerAdded ==
  \E s \in Pid \ heldJobs :
    /\ callerOf'[s] \in liveJobs
    /\ \A p \in liveJobs' : p # s =>
         p \in liveJobs /\ callerOf'[p] = callerOf[p]

LEMMA StepCallers ==
  ASSUME Inv, [Jobs!JobNext]_(Jobs!jobVars)
  PROVE  CallersKept \/ CallerAdded
<1>1. /\ heldJobs \subseteq Pid /\ liveJobs \subseteq heldJobs
      /\ \A p \in Pid \ heldJobs : callerOf[p] = Null
  BY DEF Inv, TreeInv, DeadInv, heldJobs, liveJobs, callerOf
<1>2. CASE Jobs!Boot
  <2>1. heldJobs = {} /\ callerOf' = callerOf
    BY <1>2 DEF Jobs!Boot, heldJobs, callerOf
  <2>2. \A p \in liveJobs' : p \in Pid
    BY DEF liveJobs
  <2>3. QED
    BY <1>1, <2>1, <2>2 DEF CallersKept
<1>3. ASSUME NEW t \in Terminal, Jobs!Launch(t) PROVE CallerAdded
  <2>1. PICK s \in Pid \ heldJobs :
          /\ liveJobs' = liveJobs \cup {s}
          /\ callerOf' = [callerOf EXCEPT ![s] = frontOf[t]]
    BY <1>3 DEF Jobs!Launch, heldJobs, liveJobs, callerOf, frontOf
  <2>2. frontOf[t] \in liveJobs
    BY <1>3 DEF Jobs!Launch, liveJobs, frontOf
  <2>3. /\ callerOf'[s] = frontOf[t]
        /\ \A p \in Pid : p # s => callerOf'[p] = callerOf[p]
    BY <2>1 DEF callerOf
  <2>4. \A p \in liveJobs' : p # s => p \in liveJobs /\ p \in Pid
    BY <1>1, <2>1
  <2>5. QED
    BY <2>2, <2>3, <2>4 DEF CallerAdded
<1>4. ASSUME NEW t \in Terminal, Jobs!Return(t) PROVE CallersKept
  <2>1. /\ liveJobs' = liveJobs \ {frontOf[t]}
        /\ callerOf' = [callerOf EXCEPT ![frontOf[t]] = Null]
    BY <1>4 DEF Jobs!Return, Jobs!Ends, liveJobs, callerOf, frontOf
  <2>2. \A p \in liveJobs :
          callerOf'[p] = IF p = frontOf[t] THEN Null ELSE callerOf[p]
    BY <1>1, <2>1 DEF callerOf
  <2>3. QED
    BY <2>1, <2>2 DEF CallersKept
<1>5. ASSUME NEW t \in Terminal, Jobs!Finish(t) PROVE CallersKept
  <2>1. liveJobs' = liveJobs \ {frontOf[t]} /\ callerOf' = callerOf
    BY <1>5 DEF Jobs!Finish, Jobs!Ends, liveJobs, callerOf, frontOf
  <2>2. QED
    BY <2>1 DEF CallersKept
<1>6. ASSUME NEW t \in Terminal, NEW s \in Pid, Jobs!Collect(t, s)
      PROVE  CallersKept
  <2>1. liveJobs' = liveJobs /\ callerOf' = [callerOf EXCEPT ![s] = Null]
    BY <1>6 DEF Jobs!Collect, liveJobs, callerOf
  <2>2. \A p \in liveJobs : callerOf'[p] = IF p = s THEN Null ELSE callerOf[p]
    BY <1>1, <2>1 DEF callerOf
  <2>3. QED
    BY <2>1, <2>2 DEF CallersKept
<1>7. CASE UNCHANGED Jobs!jobVars
  <2>1. liveJobs' = liveJobs /\ callerOf' = callerOf
    BY <1>7 DEF Jobs!jobVars, liveJobs, callerOf
  <2>2. QED
    BY <2>1 DEF CallersKept
<1>8. QED
  BY <1>2, <1>3, <1>4, <1>5, <1>6, <1>7 DEF Jobs!JobNext

(* Who called a live job is live.                                          *)
LEMMA LiveCallers ==
  ASSUME Inv
  PROVE  /\ liveJobs \subseteq Pid
         /\ \A p \in liveJobs : callerOf[p] # Null =>
              /\ callerOf[p] \in liveJobs /\ callerOf[p] = parent[p]
              /\ terminal_id[callerOf[p]] = terminal_id[p]
<1>1. ASSUME NEW p \in liveJobs, callerOf[p] # Null
      PROVE  /\ callerOf[p] \in liveJobs /\ callerOf[p] = parent[p]
             /\ terminal_id[callerOf[p]] = terminal_id[p]
  <2>1. p \in Pid /\ Alive(p) /\ callerOf[p] = parent[p]
    BY DEF Inv, TreeInv, DeadInv, Alive, liveJobs, callerOf
  <2>2. parent[p] \in Pid
    BY <1>1, <2>1 DEF Inv, TypeOK
  <2>3. Alive(parent[p]) /\ terminal_id[parent[p]] = terminal_id[p]
    BY <1>1, <2>1 DEF Inv, TreeInv, ExecuteNesting
  <2>4. QED
    BY <2>1, <2>2, <2>3 DEF Alive, liveJobs
<1>2. QED
  BY <1>1 DEF liveJobs

LEMMA StepRanked ==
  ASSUME Inv, Inv', Ranked, [Next]_vars
  PROVE  Ranked'
<1>1. CallersKept \/ CallerAdded
  BY StepJobs, StepCallers
<1>2. PICK r \in [Pid -> Nat] :
        \A p \in liveJobs : callerOf[p] # Null => r[p] < r[callerOf[p]]
  BY DEF Ranked
<1>3. CASE CallersKept
  BY <1>2, <1>3 DEF CallersKept, Ranked
<1>4. CASE CallerAdded
  <2>1. PICK s \in Pid \ heldJobs :
          /\ callerOf'[s] \in liveJobs
          /\ \A p \in liveJobs' : p # s =>
               p \in liveJobs /\ callerOf'[p] = callerOf[p]
    BY <1>4 DEF CallerAdded
  <2> DEFINE q == [p \in Pid |-> IF p = s THEN 0 ELSE r[p] + 1]
  <2>2. q \in [Pid -> Nat]
    OBVIOUS
  <2>3. s \notin liveJobs
    BY DEF Inv, TreeInv, DeadInv, heldJobs, liveJobs
  <2>4. ASSUME NEW p \in liveJobs', callerOf'[p] # Null
        PROVE  q[p] < q[callerOf'[p]]
    <3>1. CASE p = s
      <4>1. callerOf'[s] # s /\ callerOf'[s] \in Pid
        BY <2>1, <2>3, LiveCallers
      <4>2. QED
        BY <3>1, <4>1
    <3>2. CASE p # s
      <4>1. /\ p \in liveJobs /\ callerOf'[p] = callerOf[p]
            /\ r[p] < r[callerOf[p]]
        BY <1>2, <2>1, <2>4, <3>2
      <4>2. callerOf[p] \in liveJobs /\ p \in Pid
        BY <2>4, <4>1, LiveCallers
      <4>3. callerOf[p] # s /\ callerOf[p] \in Pid
        BY <2>3, <4>2, LiveCallers
      <4>4. q[p] = r[p] + 1 /\ q[callerOf[p]] = r[callerOf[p]] + 1
        BY <3>2, <4>2, <4>3
      <4>5. r[p] \in Nat /\ r[callerOf[p]] \in Nat
        BY <4>2, <4>3
      <4>6. QED
        BY <4>1, <4>4, <4>5
    <3>3. QED
      BY <3>1, <3>2
  <2>5. QED
    <3> HIDE DEF q
    <3>1. QED
      BY <2>2, <2>4 DEF Ranked
<1>5. QED
  BY <1>1, <1>3, <1>4

----------------------------------------------------------------------------
(* The callers above the job in front of a terminal.                       *)
LEMMA FinitePids == IsFiniteSet(Pid) /\ Cardinality(Pid) \in Nat
<1>1. IsFiniteSet(Pid)
  BY SlotsAssumption, FS_Interval DEF Pid
<1>2. QED
  BY <1>1, FS_CardinalityType

LEMMA SameCardinality == \A S : Jobs!Cardinality(S) = Cardinality(S)
BY DEF Jobs!Cardinality, Cardinality

LEMMA AboveSteps ==
  ASSUME NEW t \in Terminal, Front(t) \in Pid \cup {Null}, TypeOK
  PROVE  /\ Jobs!Above(t) \in [0 .. Cardinality(Pid) -> Pid \cup {Null}]
         /\ Jobs!Above(t)[0] = Front(t)
         /\ \A n \in 1 .. Cardinality(Pid) :
              Jobs!Above(t)[n] = IF Jobs!Above(t)[n - 1] \in Pid
                                   THEN callerOf[Jobs!Above(t)[n - 1]] ELSE Null
<1> DEFINE V == Pid \cup {Null}
           N == Cardinality(Pid)
           A == Jobs!Above(t)
           step == [w \in Nat \X V |-> IF w[2] \in Pid THEN callerOf[w[2]] ELSE Null]
<1>1. N \in Nat
  BY FinitePids
<1>2. callerOf \in [Pid -> V]
  BY DEF callerOf, TypeOK
<1>3. step \in [Nat \X V -> V]
  BY <1>2
<1>4. frontOf[t] = Front(t) /\ frontOf[t] \in V
  BY DEF frontOf
<1>5. PICK g \in [0 .. N -> V] : Recurs(g, frontOf[t], step, N)
  <2> HIDE DEF V, N, step
  <2>1. QED
    BY <1>1, <1>3, <1>4, Recursion, Zenon
<1>6. \A n \in 0 .. N : n # 0 =>
        step[<<n, g[n - 1]>>] = IF g[n - 1] \in Pid THEN callerOf[g[n - 1]] ELSE Null
  BY <1>1
<1>7. g = [n \in 0 .. N |-> IF n = 0 THEN frontOf[t]
                             ELSE IF g[n - 1] \in Pid THEN callerOf[g[n - 1]]
                                  ELSE Null]
  <2> HIDE DEF V, N, step
  <2>1. QED
    BY <1>5, <1>6 DEF Recurs
<1> DEFINE M == Jobs!Cardinality(Pid)
<1>m. M = N
  BY SameCardinality
<1>8. A = [n \in 0 .. M |-> IF n = 0 THEN frontOf[t]
                             ELSE IF A[n - 1] \in Pid THEN callerOf[A[n - 1]]
                                  ELSE Null]
  <2>1. g = [n \in 0 .. M |-> IF n = 0 THEN frontOf[t]
                             ELSE IF g[n - 1] \in Pid THEN callerOf[g[n - 1]]
                                  ELSE Null]
    <3> HIDE DEF V, N, M, step
    <3>1. QED
      BY <1>7, <1>m
  <2>2. QED
    <3> HIDE DEF V, step
    <3>1. QED
      BY <2>1, Zenon DEF Jobs!Above, frontOf, callerOf
<1>9. /\ A[0] = frontOf[t]
      /\ \A n \in 1 .. N :
           A[n] = IF A[n - 1] \in Pid THEN callerOf[A[n - 1]] ELSE Null
  <2> HIDE DEF A, M, N, V, step
  <2>1. QED
    BY <1>1, <1>m, <1>8
<1>10. /\ g[0] = frontOf[t]
       /\ \A n \in 1 .. N :
            g[n] = IF g[n - 1] \in Pid THEN callerOf[g[n - 1]] ELSE Null
  <2> HIDE DEF N, V, step
  <2>1. QED
    BY <1>1, <1>7
<1>11. \A n \in 0 .. N : A[n] = g[n]
  <2> HIDE DEF A, N, V, step
  <2>1. GoAlike(A, g, N)
    BY <1>9, <1>10 DEF GoAlike
  <2>2. QED
    BY <1>1, <2>1, SameValues, Zenon
<1>12. A \in [0 .. N -> V]
  <2> HIDE DEF A, M, N, V, step
  <2>1. QED
    BY <1>8, <1>m, <1>11
<1>13. QED
  BY <1>4, <1>9, <1>12

(* The stack of a terminal is all that lives there, and its base shell is  *)
(* the last of it.                                                         *)
LEMMA StackOf ==
  ASSUME Inv, booted, Ranked, NEW t \in Terminal
  PROVE  /\ Jobs!Stack(t) = {p \in liveJobs : terminal_id[p] = t}
         /\ Jobs!Above(t)[Cardinality(Jobs!Stack(t)) - 1] = t
         /\ Jobs!Above(t)[Cardinality(Jobs!Stack(t))] = Null
<1>. USE NullAssumption
<1>n. PICK N \in Nat : N = Cardinality(Pid)
  BY FinitePids
<1>f. PICK p0 \in Pid : Runnable(p0) /\ terminal_id[p0] = t /\ Front(t) = p0
  <2>1. PICK p \in Pid : Runnable(p) /\ terminal_id[p] = t
    BY DEF Inv, TreeInv, SomeRunner
  <2>2. QED
    BY <2>1, FrontIsRunner DEF Inv, TreeInv
<1>g. p0 \in liveJobs
  BY <1>f DEF Inv, TreeInv, DeadInv, liveJobs
<1>w. PICK W \in [0 .. N -> Pid \cup {Null}] :
        /\ W = Jobs!Above(t)
        /\ W[0] = p0
        /\ \A n \in 1 .. N :
             W[n] = IF W[n - 1] \in Pid THEN callerOf[W[n - 1]] ELSE Null
  <2>1. Front(t) \in Pid \cup {Null} /\ TypeOK
    BY <1>f DEF Inv
  <2>2. QED
    BY <1>n, <1>f, <2>1, AboveSteps
<1>r. PICK r \in [Pid -> Nat] :
        \A p \in liveJobs : callerOf[p] # Null => r[p] < r[callerOf[p]]
  BY DEF Ranked
<1>1. \A n \in 0 .. N : W[n] # Null => W[n] \in liveJobs /\ terminal_id[W[n]] = t
  <2> DEFINE S == {n \in Nat : n =< N =>
                (W[n] # Null => W[n] \in liveJobs /\ terminal_id[W[n]] = t)}
  <2>1. 0 \in S
    BY <1>f, <1>g, <1>w
  <2>2. ASSUME NEW n \in Nat, n \in S PROVE n + 1 \in S
    <3>1. SUFFICES ASSUME n + 1 =< N, W[n + 1] # Null
                   PROVE  W[n + 1] \in liveJobs /\ terminal_id[W[n + 1]] = t
      OBVIOUS
    <3>2. W[n + 1] = IF W[n] \in Pid THEN callerOf[W[n]] ELSE Null
      BY <1>w, <3>1
    <3>3. W[n] \in liveJobs /\ terminal_id[W[n]] = t
      BY <2>2, <3>1, <3>2
    <3>4. W[n + 1] = callerOf[W[n]]
      BY <3>1, <3>2
    <3>5. QED
      BY <3>1, <3>3, <3>4, LiveCallers
  <2>3. Nat \subseteq S
    <3> HIDE DEF S
    <3>1. QED
      BY <2>1, <2>2, SetInduction
  <2>4. QED
    BY <2>3
<1>2. Climbs(W, N, r, Null)
  <2>1. ASSUME NEW n \in 1 .. N, W[n] # Null
        PROVE  W[n - 1] # Null /\ r[W[n - 1]] < r[W[n]]
    <3>1. W[n - 1] \in Pid /\ W[n] = callerOf[W[n - 1]] /\ n - 1 \in 0 .. N
      BY <1>w, <2>1
    <3>2. W[n - 1] \in liveJobs
      BY <1>1, <3>1
    <3>3. QED
      BY <1>r, <2>1, <3>1, <3>2
  <2>2. QED
    BY <2>1 DEF Climbs
<1> DEFINE P == {W[n] : n \in 0 .. N} \ {Null}
<1>3. /\ Cardinality(P) \in 1 .. N
      /\ W[Cardinality(P)] = Null
      /\ W[Cardinality(P) - 1] # Null
  BY <1>n, <1>f, <1>w, <1>2, FinitePids, ClimbLength
<1>4. W[N] = Null
  BY <1>n, <1>2, FinitePids, ClimbEnds
<1>5. W[Cardinality(P) - 1] = t
  <2>1. PICK k \in 0 .. N : k = Cardinality(P) - 1 /\ k + 1 = Cardinality(P)
    <3>1. PICK c \in 1 .. N : c = Cardinality(P)
      BY <1>3
    <3>2. c - 1 \in 0 .. N /\ (c - 1) + 1 = c
      OBVIOUS
    <3> HIDE DEF P
    <3>3. QED
      BY <3>1, <3>2
  <2>2. W[k] \in liveJobs /\ terminal_id[W[k]] = t /\ W[k] \in Pid
    BY <1>1, <1>3, <2>1
  <2>3. callerOf[W[k]] = Null
    <3>1. k + 1 \in 1 .. N /\ (k + 1) - 1 = k
      BY <1>3, <2>1
    <3>2. W[k + 1] = callerOf[W[k]]
      BY <1>w, <2>2, <3>1
    <3>3. QED
      BY <1>3, <2>1, <3>2
  <2>4. Alive(W[k]) /\ parent[W[k]] = Null
    BY <2>2, <2>3 DEF Inv, TreeInv, DeadInv, Alive, liveJobs, callerOf
  <2>5. W[k] = t
    BY <2>2, <2>4 DEF Inv, TreeInv, BaseShellPinned
  <2>6. QED
    BY <2>1, <2>5
<1>6. \A p \in liveJobs : terminal_id[p] = t => p \in P
  <2>1. SUFFICES ASSUME {p \in liveJobs : terminal_id[p] = t} \ P # {}
                 PROVE  FALSE
    OBVIOUS
  <2> DEFINE U == {p \in liveJobs : terminal_id[p] = t} \ P
             T == {r[p] : p \in U}
  <2>2. T \subseteq Nat /\ T # {}
    BY <2>1, LiveCallers
  <2>3. PICK u \in U : \A v \in U : r[u] =< r[v]
    <3>1. PICK x \in T : \A y \in T : x =< y
      <4> HIDE DEF T
      <4>1. QED
        BY <2>2, LeastNumber
    <3>2. QED
      BY <3>1
  <2>4. u \in Pid /\ u \in liveJobs /\ terminal_id[u] = t /\ Alive(u)
    BY DEF Inv, TreeInv, DeadInv, Alive, liveJobs
  <2>5. ~running[u]
    <3>1. Runnable(u) => u = p0
      BY <1>f, <2>4 DEF Inv, TreeInv, SoleRunner
    <3>2. p0 \in P
      BY <1>w
    <3>3. QED
      BY <2>3, <2>4, <3>1, <3>2 DEF Runnable, Alive
  <2>6. PICK c \in Pid : c = waits[u] /\ Alive(c) /\ parent[c] = u
    BY <2>4, <2>5 DEF Inv, TreeInv, ExecuteNesting
  <2>7. c \in liveJobs /\ callerOf[c] = u /\ u # Null
    BY <2>4, <2>6 DEF Alive, liveJobs, callerOf
  <2>8. terminal_id[c] = t /\ r[c] < r[u]
    BY <1>r, <2>4, <2>7, LiveCallers
  <2>9. c \in P
    <3>1. r[c] \in Nat /\ r[u] \in Nat
      BY <2>4, <2>6
    <3>2. c \notin U
      BY <2>3, <2>8, <3>1
    <3>3. QED
      BY <2>7, <2>8, <3>2
  <2>10. PICK k \in 0 .. N : W[k] = c
    BY <2>9
  <2>11. k # N
    BY <1>4, <2>6, <2>10
  <2>12. k + 1 \in 1 .. N /\ (k + 1) - 1 = k /\ k + 1 \in 0 .. N
    BY <2>11
  <2>13. W[k + 1] = u
    BY <1>w, <2>6, <2>7, <2>10, <2>12
  <2>14. QED
    BY <2>3, <2>7, <2>12, <2>13
<1>7. P = {p \in liveJobs : terminal_id[p] = t}
  BY <1>1, <1>6, LiveCallers
<1>8. Jobs!Stack(t) = P
  BY <1>n, <1>w, SameCardinality DEF Jobs!Stack
<1>9. QED
  <2> HIDE DEF P
  <2>1. QED
    BY <1>w, <1>3, <1>5, <1>7, <1>8

LEMMA StacksOf == Inv /\ Ranked => JobStacks
<1> SUFFICES ASSUME Inv, Ranked, heldJobs # {}
             PROVE  /\ liveJobs = UNION {Jobs!Stack(t) : t \in Terminal}
                    /\ \A t \in Terminal :
                         /\ Jobs!Above(t)[Cardinality(Jobs!Stack(t)) - 1] = t
                         /\ Jobs!Above(t)[Cardinality(Jobs!Stack(t))] = Null
                    /\ \A t, u \in Terminal :
                         t # u => Jobs!Stack(t) \cap Jobs!Stack(u) = {}
  BY SameCardinality DEF JobStacks, Jobs!OneStackPerTerminal, heldJobs, liveJobs
<1>1. booted
  BY DEF Inv, BootInv, heldJobs
<1>2. \A t \in Terminal :
        /\ Jobs!Stack(t) = {p \in liveJobs : terminal_id[p] = t}
        /\ Jobs!Above(t)[Cardinality(Jobs!Stack(t)) - 1] = t
        /\ Jobs!Above(t)[Cardinality(Jobs!Stack(t))] = Null
  BY <1>1, StackOf
<1>3. \A p \in liveJobs : terminal_id[p] \in Terminal
  BY DEF Inv, TypeOK, liveJobs
<1>4. liveJobs = UNION {Jobs!Stack(t) : t \in Terminal}
  BY <1>2, <1>3
<1>5. QED
  BY <1>2, <1>4

(* The live processes of each terminal are one stack: from the one that    *)
(* runs, the callers lead through every one of them, without a repetition, *)
(* to the base shell.                                                      *)
THEOREM Stacks == Spec => []JobStacks
<1>1. Init => Ranked
  <2>1. [p \in Pid |-> 0] \in [Pid -> Nat]
    OBVIOUS
  <2>2. Init => liveJobs = {}
    BY DEF Init, liveJobs
  <2>3. QED
    BY <2>1, <2>2 DEF Ranked
<1>2. Inv /\ Inv' /\ Ranked /\ [Next]_vars => Ranked'
  BY StepRanked
<1>3. QED
  BY <1>1, <1>2, Invariance, StacksOf, PTL DEF Spec
=============================================================================

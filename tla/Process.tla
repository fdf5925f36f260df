------------------------------ MODULE Process ------------------------------
(***************************************************************************)
(* The process manager of the kernel: the table of process control blocks, *)
(* the execute and halt system calls, the round-robin scheduler that the   *)
(* PIT interrupt runs, and the Ctrl-C handler that kills the process of    *)
(* the active terminal (process.c, pit.c, swtch_asm.S, the process part of *)
(* terminal.c and mm.c).                                                   *)
(*                                                                         *)
(* There is one processor.  Code that runs with interrupts enabled can be  *)
(* interrupted by the PIT and the keyboard, code between cli and           *)
(* restore_flags cannot; so an action is a stretch of code that runs with  *)
(* interrupts disabled, and every interleaving the hardware allows is an   *)
(* interleaving of these actions.  The loop of kill_term_process, which    *)
(* also runs with interrupts disabled, takes one step per process: nothing *)
(* else is enabled while it runs.                                          *)
(***************************************************************************)
EXTENDS Integers, FiniteSets

CONSTANTS
  NumProcesses,   \* NUM_PROCESSES: kernel stacks, hence process slots
  NumTerminals,   \* NUM_TERMINALS: each has a base shell
  Null            \* the NULL pcb pointer

ASSUME SlotsAssumption ==
  /\ NumProcesses \in Nat
  /\ NumTerminals \in Nat \ {0}
  /\ NumTerminals =< NumProcesses

Pid == 0 .. NumProcesses - 1
Terminal == 0 .. NumTerminals - 1

ASSUME NullAssumption == Null \notin Pid

VARIABLES
  (* struct pcb_t, one field per variable *)
  present,            \* the slot is taken
  running,            \* the scheduler may run it
  parent,             \* the process that executed it, Null for a base shell
  terminal_id,
  vidmap,             \* the process mapped the video memory
  context,            \* what restoring the saved esp and eip resumes
  (* the kernel stack of each process *)
  pc,                 \* where the process is
  waits,              \* the child of its pending execute, Null if none
  (* the processor and the paging structures *)
  cur,                \* get_current_pcb: the owner of the stack in esp
  userPage,           \* the process whose image is at the user address
  vidPage,            \* the user's video page: mapped or not, and whose
  esp0,               \* tss.esp0: the owner of the next kernel entry's stack
  (* terminal.c *)
  active_terminal_id,
  (* control *)
  booted,             \* start_terminals has run
  handler,            \* the locals of kill_term_process while it runs
  fault               \* the kernel has stopped, and why

pcbVars == <<present, running, parent, terminal_id, vidmap, context>>
stackVars == <<pc, waits>>
mmuVars == <<userPage, vidPage, esp0>>
vars == <<present, running, parent, terminal_id, vidmap, context, pc, waits,
          cur, userPage, vidPage, esp0, active_terminal_id, booted, handler,
          fault>>

----------------------------------------------------------------------------
(* Where a process is.  "new": allocated, it has not run.  "entry": in     *)
(* proc_entry before set_user_page.  "load": in proc_entry, reading the    *)
(* image.  "user": in user mode, or in a system call that leaves the       *)
(* process table alone.  "exec": inside syscall_execute, switched away to  *)
(* its child.  "dead": no live stack.                                      *)
Place == {"new", "entry", "load", "user", "exec", "dead"}

(* What a saved context resumes.  "entry": proc_entry0, set by             *)
(* alloc_process.  "exec", "sched": the return from swap_context inside    *)
(* syscall_execute or inside the PIT's do_schedule(0).                     *)
Landing == {"entry", "exec", "sched"}

(* The landing that is right for a process that is at a place.             *)
LandingOf(place) ==
  CASE place = "new"  -> "entry"
    [] place = "exec" -> "exec"
    [] OTHER          -> "sched"

VidPage == [mapped : BOOLEAN, term : Terminal]

(* kill_term_process: its loop index and its flag.                         *)
Idle == [running |-> FALSE, i |-> 0, need_to_jump |-> FALSE]
Handler == [running : BOOLEAN, i : 0 .. NumProcesses, need_to_jump : BOOLEAN]
Fault == {"none", "panic", "idle", "returned"}

Alive(p) == present[p] /\ pc[p] # "dead"
Runnable(p) == present[p] /\ running[p]

(* Interrupts are enabled and the kernel has not stopped.                  *)
Interruptible == ~handler.running /\ fault = "none"

(* Mutant of FirstFree: a dead process no longer holds its slot.           *)
FirstFreeOrDead(s, taken) ==
  /\ ~taken[s] \/ pc[s] = "dead"
  /\ \A r \in Pid : r < s => taken[r] /\ pc[r] # "dead"

(* alloc_process takes the first slot that is not present.                 *)
FirstFree(s, taken) == ~taken[s] /\ \A r \in Pid : r < s => taken[r]

(* The fields alloc_process writes into the slot it takes, besides present *)
(* and running, and the empty stack it leaves there.                       *)
NewPcb(s, par, term) ==
  /\ parent' = [parent EXCEPT ![s] = par]
  /\ terminal_id' = [terminal_id EXCEPT ![s] = term]
  /\ vidmap' = [vidmap EXCEPT ![s] = FALSE]

(* Mutant of SetUserPage: the video page of the terminal on the screen.    *)
SetUserPageOfActive(p, mapped) ==
  /\ userPage' = p
  /\ vidPage' = [mapped |-> mapped, term |-> active_terminal_id]

(* set_user_page: the user page and the video page of p, from its PCB.     *)
SetUserPage(p, mapped) ==
  /\ userPage' = p
  /\ vidPage' = [mapped |-> mapped, term |-> terminal_id[p]]

(* Restoring context[q].  A new process starts in proc_entry0 and leaves   *)
(* the paging structures for later; a process that comes back out of       *)
(* swap_context finishes switch_to_process, and if it was in               *)
(* syscall_execute it also frees its child's slot and returns to the user. *)
(* pcs is pc as the caller has already changed it.                         *)
Resume(q, pcs) ==
  /\ cur' = q
  /\ IF context[q] = "entry"
       THEN UNCHANGED mmuVars
       ELSE SetUserPage(q, vidmap[q]) /\ esp0' = q
  /\ IF context[q] = "exec"
       THEN /\ present' = [present EXCEPT ![waits[q]] = FALSE]
            /\ waits' = [waits EXCEPT ![q] = Null]
       ELSE UNCHANGED <<present, waits>>
  /\ pc' = [pcs EXCEPT ![q] = CASE context[q] = "entry" -> "entry"
                                [] context[q] = "exec"  -> "user"
                                [] OTHER                -> @]

(* Mutant of Distance: the scan always starts at slot 0.                   *)
DistanceFromZero(q) == q

(* How far do_schedule's scan goes from the current slot to q, 1 for the   *)
(* slot after the current one and NumProcesses for the current one.        *)
Distance(q) == IF q > cur THEN q - cur ELSE q + NumProcesses - cur

NextRunnable(q) ==
  /\ Runnable(q)
  /\ \A r \in Pid : Runnable(r) => Distance(q) =< Distance(r)

----------------------------------------------------------------------------
(* The boot stack is process 0's, and init_proc_mgmt has marked every slot *)
(* as not present; the fields of a slot that is not present are never      *)
(* read, and are given one value.                                          *)
Init ==
  /\ present = [p \in Pid |-> FALSE]
  /\ running = [p \in Pid |-> FALSE]
  /\ parent = [p \in Pid |-> Null]
  /\ terminal_id = [p \in Pid |-> 0]
  /\ vidmap = [p \in Pid |-> FALSE]
  /\ context = [p \in Pid |-> "entry"]
  /\ pc = [p \in Pid |-> "dead"]
  /\ waits = [p \in Pid |-> Null]
  /\ cur = 0
  /\ userPage = 0
  /\ vidPage = [mapped |-> FALSE, term |-> 0]
  /\ esp0 = 0
  /\ active_terminal_id = 0
  /\ booted = FALSE
  /\ handler = Idle
  /\ fault = "none"

(* start_terminals: a base shell per terminal, in the first slots, then    *)
(* jump_to_process(first).                                                 *)
StartTerminals ==
  /\ Interruptible /\ ~booted
  /\ booted' = TRUE
  /\ present' = [p \in Pid |-> p \in Terminal]
  /\ running' = [p \in Pid |-> p \in Terminal]
  /\ parent' = [p \in Pid |-> Null]
  /\ terminal_id' = [p \in Pid |-> IF p \in Terminal THEN p ELSE 0]
  /\ pc' = [p \in Pid |-> CASE p \notin Terminal -> "dead"
                            [] p = 0            -> "entry"
                            [] OTHER            -> "new"]
  /\ cur' = 0
  /\ UNCHANGED <<vidmap, context, waits, mmuVars, active_terminal_id,
                 handler, fault>>

(* switch_terminal, from the keyboard handler.                             *)
SwitchTerminal(t) ==
  /\ Interruptible
  /\ t # active_terminal_id
  /\ active_terminal_id' = t
  /\ UNCHANGED <<pcbVars, stackVars, mmuVars, cur, booted, handler, fault>>

(* proc_entry with interrupts enabled: set_user_page.                      *)
EnterLoad ==
  /\ Interruptible /\ booted
  /\ pc[cur] = "entry"
  /\ SetUserPage(cur, vidmap[cur])
  /\ pc' = [pc EXCEPT ![cur] = "load"]
  /\ UNCHANGED <<pcbVars, waits, cur, esp0, active_terminal_id, booted,
                 handler, fault>>

(* proc_entry after the image is read: cli, tss.esp0, iret to the user.    *)
EnterUser ==
  /\ Interruptible /\ booted
  /\ pc[cur] = "load"
  /\ esp0' = cur
  /\ pc' = [pc EXCEPT ![cur] = "user"]
  /\ UNCHANGED <<pcbVars, waits, cur, userPage, vidPage, active_terminal_id,
                 booted, handler, fault>>

(* syscall_vidmap, when the video page is not mapped yet.                  *)
Vidmap ==
  /\ Interruptible /\ booted
  /\ pc[cur] = "user"
  /\ ~vidmap[cur]
  /\ vidmap' = [vidmap EXCEPT ![cur] = TRUE]
  /\ SetUserPage(cur, TRUE)
  /\ UNCHANGED <<present, running, parent, terminal_id, context, stackVars,
                 cur, esp0, active_terminal_id, booted, handler, fault>>

(* Mutant of SwitchToChild: the parent keeps running.                      *)
ParentKeepsRunning(s) == running' = [running EXCEPT ![s] = TRUE]

(* The running flags syscall_execute leaves to its child s and itself.     *)
SwitchToChild(s) == running' = [running EXCEPT ![s] = TRUE, ![cur] = FALSE]

(* syscall_execute: allocate the child, stop running, switch to it.        *)
Execute ==
  /\ Interruptible /\ booted
  /\ pc[cur] = "user"
  /\ \E s \in Pid :
       /\ FirstFree(s, present)
       /\ present' = [present EXCEPT ![s] = TRUE]
       /\ SwitchToChild(s)
       /\ NewPcb(s, cur, terminal_id[cur])
       /\ context' = [context EXCEPT ![s] = "entry", ![cur] = "exec"]
       /\ pc' = [pc EXCEPT ![s] = "entry", ![cur] = "exec"]
       /\ waits' = [waits EXCEPT ![cur] = s]
       /\ cur' = s
  /\ UNCHANGED <<mmuVars, active_terminal_id, booted, handler, fault>>

(* syscall_execute, when alloc_process returns NULL after it took a slot:  *)
(* no such program, not an executable, too large.  Of the slot only        *)
(* present is put back.                                                    *)
ExecuteFails ==
  /\ Interruptible /\ booted
  /\ pc[cur] = "user"
  /\ \E s \in Pid :
       /\ FirstFree(s, present)
       /\ running' = [running EXCEPT ![s] = TRUE]
       /\ NewPcb(s, cur, terminal_id[cur])
  /\ UNCHANGED <<present, context, stackVars, mmuVars, cur,
                 active_terminal_id, booted, handler, fault>>

(* Mutant of HandBack: nobody is woken.                                    *)
HandBackToNobody(p) == running' = [running EXCEPT ![p] = FALSE]

(* A process that has a parent is killed: the parent runs instead.         *)
HandBack(p) ==
  running' = [running EXCEPT ![p] = FALSE, ![parent[p]] = TRUE]

(* Mutant of FreeAfter: the shell is allocated before the slot is freed.   *)
FreeBefore(p, s) == FirstFree(s, present)

(* The slot alloc_process finds once p's has been freed.                   *)
FreeAfter(p, s) == FirstFree(s, [present EXCEPT ![p] = FALSE])

(* Mutant of Respawn: the saved context of the slot is kept.               *)
RespawnKeepsContext(p, s) ==
  /\ present' = [present EXCEPT ![p] = FALSE, ![s] = TRUE]
  /\ running' = [running EXCEPT ![p] = FALSE, ![s] = TRUE]
  /\ NewPcb(s, Null, terminal_id[p])
  /\ waits' = [waits EXCEPT ![p] = Null, ![s] = Null]
  /\ UNCHANGED context

(* A base shell is killed: its slot is freed, and a new shell is allocated *)
(* in slot s.                                                              *)
Respawn(p, s) ==
  /\ present' = [present EXCEPT ![p] = FALSE, ![s] = TRUE]
  /\ running' = [running EXCEPT ![p] = FALSE, ![s] = TRUE]
  /\ NewPcb(s, Null, terminal_id[p])
  /\ waits' = [waits EXCEPT ![p] = Null, ![s] = Null]
  /\ context' = [context EXCEPT ![s] = "entry"]

(* syscall_halt, or exception_handler_all for an exception in user mode:   *)
(* kill_curr_process of a process that has a parent.                       *)
HaltToParent ==
  /\ Interruptible /\ booted
  /\ pc[cur] = "user"
  /\ parent[cur] # Null
  /\ HandBack(cur)
  /\ IF present[parent[cur]]
       THEN /\ Resume(parent[cur], [pc EXCEPT ![cur] = "dead"])
            /\ UNCHANGED fault
       ELSE /\ fault' = "returned"
            /\ UNCHANGED <<present, stackVars, cur, mmuVars>>
  /\ UNCHANGED <<parent, terminal_id, vidmap, context, active_terminal_id,
                 booted, handler>>

(* kill_curr_process of a base shell.                                      *)
HaltBaseShell ==
  /\ Interruptible /\ booted
  /\ pc[cur] = "user"
  /\ parent[cur] = Null
  /\ IF \E s \in Pid : FreeAfter(cur, s)
       THEN /\ \E s \in Pid :
                 /\ FreeAfter(cur, s)
                 /\ Respawn(cur, s)
                 /\ pc' = [pc EXCEPT ![cur] = "dead", ![s] = "entry"]
                 /\ cur' = s
            /\ UNCHANGED fault
       ELSE fault' = "panic" /\ UNCHANGED <<pcbVars, stackVars, cur>>
  /\ UNCHANGED <<mmuVars, active_terminal_id, booted, handler>>

----------------------------------------------------------------------------
(* pit_handler: do_schedule(0), once a process runs.  The current process  *)
(* goes back to what it was doing when it is the only one to run.          *)
PitTick ==
  /\ Interruptible
  /\ present[cur]
  /\ IF \E q \in Pid : Runnable(q)
       THEN /\ \E q \in Pid :
                 /\ NextRunnable(q)
                 /\ q # cur
                 /\ Resume(q, pc)
            /\ context' = [context EXCEPT ![cur] = "sched"]
            /\ UNCHANGED fault
       ELSE /\ fault' = "idle"
            /\ UNCHANGED <<present, context, stackVars, cur, mmuVars>>
  /\ UNCHANGED <<running, parent, terminal_id, vidmap, active_terminal_id,
                 booted, handler>>

(* keyboard_handler on Ctrl-C, and the first lines of kill_term_process.   *)
CtrlC ==
  /\ Interruptible
  /\ present[cur]
  /\ handler' = [Idle EXCEPT !.running = TRUE]
  /\ UNCHANGED <<pcbVars, stackVars, mmuVars, cur, active_terminal_id,
                 booted, fault>>

Target(p) == Runnable(p) /\ terminal_id[p] = active_terminal_id

Scanning == handler.running /\ handler.i < NumProcesses /\ fault = "none"

(* kill_term_process, the loop body for a process it leaves alone ...      *)
KillSkips ==
  /\ Scanning
  /\ ~Target(handler.i)
  /\ handler' = [handler EXCEPT !.i = @ + 1]
  /\ UNCHANGED <<pcbVars, stackVars, mmuVars, cur, active_terminal_id,
                 booted, fault>>

Killed == handler' = [handler EXCEPT
                        !.i = @ + 1,
                        !.need_to_jump = @ \/ handler.i = cur]

(* ... for one it kills and that has a parent ...                          *)
KillChild ==
  /\ Scanning
  /\ Target(handler.i)
  /\ parent[handler.i] # Null
  /\ HandBack(handler.i)
  /\ pc' = [pc EXCEPT ![handler.i] = "dead"]
  /\ waits' = [waits EXCEPT ![handler.i] = Null]
  /\ Killed
  /\ UNCHANGED <<present, parent, terminal_id, vidmap, context, mmuVars, cur,
                 active_terminal_id, booted, fault>>

(* ... and for a base shell.                                               *)
KillBaseShell ==
  /\ Scanning
  /\ Target(handler.i)
  /\ parent[handler.i] = Null
  /\ IF \E s \in Pid : FreeAfter(handler.i, s)
       THEN /\ \E s \in Pid :
                 /\ FreeAfter(handler.i, s)
                 /\ Respawn(handler.i, s)
                 /\ pc' = [pc EXCEPT ![handler.i] = "dead", ![s] = "new"]
            /\ UNCHANGED fault
       ELSE fault' = "panic" /\ UNCHANGED <<pcbVars, stackVars>>
  /\ Killed
  /\ UNCHANGED <<mmuVars, cur, active_terminal_id, booted>>

(* The end of kill_term_process: back to the interrupted process, or       *)
(* do_schedule(1) when it is among the killed.                             *)
KillReturns ==
  /\ handler.running /\ handler.i = NumProcesses /\ fault = "none"
  /\ ~handler.need_to_jump
  /\ handler' = Idle
  /\ UNCHANGED <<pcbVars, stackVars, mmuVars, cur, active_terminal_id,
                 booted, fault>>

KillJumps ==
  /\ handler.running /\ handler.i = NumProcesses /\ fault = "none"
  /\ handler.need_to_jump
  /\ handler' = Idle
  /\ IF \E q \in Pid : Runnable(q)
       THEN /\ \E q \in Pid : NextRunnable(q) /\ Resume(q, pc)
            /\ UNCHANGED fault
       ELSE /\ fault' = "idle"
            /\ UNCHANGED <<present, stackVars, cur, mmuVars>>
  /\ UNCHANGED <<running, parent, terminal_id, vidmap, context,
                 active_terminal_id, booted>>

KillStep == KillSkips \/ KillChild \/ KillBaseShell \/ KillReturns \/ KillJumps

Next ==
  \/ StartTerminals
  \/ \E t \in Terminal : SwitchTerminal(t)
  \/ EnterLoad
  \/ EnterUser
  \/ Vidmap
  \/ Execute
  \/ ExecuteFails
  \/ HaltToParent
  \/ HaltBaseShell
  \/ PitTick
  \/ CtrlC
  \/ KillStep

Spec == Init /\ [][Next]_vars

(* The scheduler and the interrupt controller make progress: a pending PIT *)
(* interrupt is delivered again and again once interrupts are enabled (the *)
(* PIC holds the request while they are not, and its priority is above the *)
(* keyboard's), and the processor keeps executing a handler it started.    *)
Fairness == SF_vars(PitTick) /\ WF_vars(KillStep)

FairSpec == Spec /\ Fairness

----------------------------------------------------------------------------
TypeOK ==
  /\ present \in [Pid -> BOOLEAN]
  /\ running \in [Pid -> BOOLEAN]
  /\ parent \in [Pid -> Pid \cup {Null}]
  /\ terminal_id \in [Pid -> Terminal]
  /\ vidmap \in [Pid -> BOOLEAN]
  /\ context \in [Pid -> Landing]
  /\ pc \in [Pid -> Place]
  /\ waits \in [Pid -> Pid \cup {Null}]
  /\ cur \in Pid
  /\ userPage \in Pid
  /\ vidPage \in VidPage
  /\ esp0 \in Pid
  /\ active_terminal_id \in Terminal
  /\ booted \in BOOLEAN
  /\ handler \in Handler
  /\ fault \in Fault

(* A terminal always has exactly one process the scheduler may run: not    *)
(* none, or the terminal would hang for ever with every process waiting    *)
(* for another, and not two, or a parent would run beside the child it     *)
(* waits for (kill_curr_process and kill_term_process set the parent's     *)
(* running flag that syscall_execute cleared).                             *)
OneRunnerPerTerminal ==
  booted => \A t \in Terminal : \E p \in Pid :
    /\ Runnable(p) /\ Alive(p) /\ terminal_id[p] = t
    /\ \A q \in Pid : Runnable(q) /\ terminal_id[q] = t => q = p

(* The live processes of a terminal are nested: whoever is not runnable is *)
(* inside syscall_execute, waiting for a live child that has it as parent, *)
(* and whoever has a parent is what that parent, on the same terminal,     *)
(* waits for.  Nobody waits for a process that is gone, and no parent      *)
(* pointer leads to a slot that was reused.                                *)
ExecuteNesting ==
  /\ \A p \in Pid : Alive(p) /\ ~running[p] =>
       /\ pc[p] = "exec" /\ waits[p] \in Pid
       /\ Alive(waits[p]) /\ parent[waits[p]] = p
  /\ \A c \in Pid : Alive(c) /\ parent[c] # Null =>
       /\ Alive(parent[c]) /\ ~running[parent[c]]
       /\ waits[parent[c]] = c
       /\ terminal_id[parent[c]] = terminal_id[c]

(* A process woken inside syscall_execute finds there the child it         *)
(* started: that slot is still taken, by its own dead child, so the exit   *)
(* status it reads and the slot it frees are not another process's.        *)
CollectsOwnChild ==
  \A p \in Pid : Alive(p) /\ running[p] /\ pc[p] = "exec" =>
    /\ waits[p] \in Pid
    /\ present[waits[p]] /\ pc[waits[p]] = "dead" /\ ~running[waits[p]]
    /\ parent[waits[p]] = p

(* A base shell that is killed comes back in the slot it had, so that the  *)
(* slot number of a terminal's base shell is the terminal's number for     *)
(* ever, however many other slots come and go (start_terminals takes the   *)
(* first slots, alloc_process the first free one).                         *)
BaseShellPinned ==
  booted => \A p \in Pid :
    Alive(p) => (parent[p] = Null <=> p \in Terminal)
                /\ (p \in Terminal => terminal_id[p] = p)

(* What is restored when a process is next run is where it stopped: one   *)
(* inside syscall_execute returns there, a preempted one returns to the    *)
(* PIT handler that preempted it, and only a process that has never run    *)
(* starts at its entry.                                                    *)
ResumesWhereItStopped ==
  \A p \in Pid : Alive(p) /\ p # cur => context[p] = LandingOf(pc[p])

(* While a process loads its image or runs in user mode, the user address  *)
(* range is its own page, the video page is mapped as its own PCB says,    *)
(* and in user mode the next kernel entry uses its own kernel stack.       *)
MemoryMapMatches ==
  booted /\ ~handler.running =>
    /\ pc[cur] \in {"load", "user"} =>
         /\ userPage = cur
         /\ vidPage = [mapped |-> vidmap[cur], term |-> terminal_id[cur]]
    /\ pc[cur] = "user" => esp0 = cur

(* The kernel never stops: kill_curr_process and kill_term_process always  *)
(* find a slot for the new shell, the jump to a parent never returns, and  *)
(* the scheduler always finds a process to run.                            *)
NeverStops == fault = "none"

(* Every process that stays runnable is run: round robin starves nobody,   *)
(* with processes entering and leaving the table and a user who may press  *)
(* Ctrl-C without end.                                                     *)
RunnableEventuallyRuns ==
  \A p \in Pid : (Runnable(p) /\ cur # p) ~> (cur = p \/ ~Runnable(p))
=============================================================================

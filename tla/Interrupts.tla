------------------------------ MODULE Interrupts ------------------------------
(***************************************************************************)
(* The interrupt flag, the two 8259s, the four devices behind them and the *)
(* handlers (i8259.c, idt.c, pit.c, rtc.c, keyboard.c, mouse.c), from the  *)
(* first instruction of the kernel on.                                     *)
(*                                                                         *)
(* A thread of control is the boot code (kernel.c), on the first stack, or *)
(* whatever process runs on a terminal: a terminal has exactly one         *)
(* (OneRunnerPerTerminal of Process), so a thread is named after its       *)
(* terminal.  Interrupts come between any two instructions that run with   *)
(* the flag set; the devices go on whatever the flag is.  The request of   *)
(* an 8259 stays latched when its cause goes away, as in QEMU.             *)
(***************************************************************************)
EXTENDS Integers, Sequences, FiniteSets

CONSTANTS
  NumTerminals,
  Boot               \* the thread that runs entry()

ASSUME InterruptsAssumption ==
  /\ NumTerminals \in Nat \ {0}
  /\ Boot \notin 0 .. NumTerminals - 1

Terminal == 0 .. NumTerminals - 1
Thread == Terminal \cup {Boot}

PIT_IRQ == 0
KEYBOARD_IRQ == 1
Cascade == 2         \* the slave, on the master
RTC_IRQ == 8
MOUSE_IRQ == 12
Line == {PIT_IRQ, KEYBOARD_IRQ, RTC_IRQ, MOUSE_IRQ}

VARIABLES
  boot,              \* what entry() does next
  cur,               \* the thread that the processor is in
  base,              \* what each thread does under its interrupts
  stack,             \* each thread's unfinished interrupts, the last on top
  iflag,             \* the interrupt flag
  irr, isr, imr,     \* requested, in service, masked
  registered,        \* the lines of irq_handlers that are not empty
  ready,             \* what has been initialised
  buf,               \* the output buffer of the PS/2 controller
  ps2,               \* its configuration, and whether there is a mouse
  rtc,               \* periodic interrupts on; register C not read since
  drained,           \* a byte was thrown away after it had been requested
  panicked

picVars == <<irr, isr, imr>>
deviceVars == <<buf, ps2, rtc, drained>>
vars == <<boot, cur, base, stack, iflag, picVars, registered, ready,
          deviceVars, panicked>>

(* boot.S begins with cli.  The firmware leaves the keyboard on, with its  *)
(* interrupt, and the mouse off; nothing is pending in the RTC.            *)
Init ==
  /\ boot = "init_idt_table" /\ cur = Boot
  /\ base = [t \in Thread |-> IF t = Boot THEN "boot" ELSE "none"]
  /\ stack = [t \in Thread |-> <<>>]
  /\ iflag = FALSE
  /\ irr = {} /\ isr = {} /\ imr = {}
  /\ registered = {} /\ ready = {}
  /\ buf = "none"
  /\ ps2 \in [kbd : {TRUE}, kint : {TRUE}, mouse : {FALSE}, mint : {FALSE},
              present : BOOLEAN]
  /\ rtc = [on |-> FALSE, c |-> FALSE]
  /\ drained = FALSE /\ panicked = FALSE

----------------------------------------------------------------------------
(* The devices.  A line is an edge: it rises when a byte comes into the    *)
(* empty buffer, or when the RTC sets the flag in its register C.          *)
Raise(r) == irr' = irr \cup {r}

PitTick ==
  /\ Raise(PIT_IRQ)
  /\ UNCHANGED <<boot, cur, base, stack, iflag, isr, imr, registered, ready,
                 deviceVars, panicked>>

RtcTick ==
  /\ rtc.on /\ ~rtc.c
  /\ rtc' = [rtc EXCEPT !.c = TRUE]
  /\ Raise(RTC_IRQ)
  /\ UNCHANGED <<boot, cur, base, stack, iflag, isr, imr, registered, ready,
                 buf, ps2, drained, panicked>>

(* What the controller requests for a byte in its buffer.                  *)
Requested(byte, config) ==
  {r \in {KEYBOARD_IRQ} : byte = "key" /\ config.kint} \cup
  {r \in {MOUSE_IRQ} : byte \in {"mouse", "ack"} /\ config.mint}

ByteComes(byte) ==
  /\ buf = "none"
  /\ buf' = byte
  /\ irr' = irr \cup Requested(byte, ps2)
  /\ UNCHANGED <<boot, cur, base, stack, iflag, isr, imr, registered, ready,
                 ps2, rtc, drained, panicked>>

KeyByte == ps2.kbd /\ ByteComes("key")

(* Only after the mouse has acknowledged the command to report.            *)
MouseByte ==
  /\ ps2.mouse /\ boot # "mouse_ack"
  /\ ByteComes("mouse")

----------------------------------------------------------------------------
(* The boot, one action per call of entry().                               *)
(* panic_msg: no instruction comes after it.                               *)
Panic == panicked' = TRUE

(* Mutant of Restored: sti in its place.                                   *)
StiInstead(flag) == TRUE

(* restore_flags, after cli_and_save.                                      *)
Restored(flag) == flag

Booting(this) ==
  boot = this /\ cur = Boot /\ stack[Boot] = <<>> /\ ~panicked

Initialised(what) == ready' = ready \cup {what}

BootCall(this, then, what) ==
  /\ Booting(this)
  /\ boot' = then
  /\ Initialised(what)
  /\ UNCHANGED <<cur, base, stack, iflag, picVars, registered, deviceVars,
                 panicked>>

init_idt_table == BootCall("init_idt_table", "paging_init", "idt")
paging_init == BootCall("paging_init", "i8259_init", "paging")

(* Mutant of Masks: the cascade is masked with the rest.                   *)
MasksCascade == Line \cup {Cascade}

(* The masks that i8259_init leaves, by enable_irq and disable_irq.        *)
Masks == (Line \cup {Cascade}) \ {Cascade}

(* ICW1 clears the latched requests.                                       *)
i8259_init ==
  /\ Booting("i8259_init")
  /\ boot' = "pit_init"
  /\ irr' = {} /\ isr' = {} /\ imr' = Masks
  /\ iflag' = Restored(iflag)
  /\ UNCHANGED <<cur, base, stack, registered, ready, deviceVars, panicked>>

(* enable_irq and irq_register_handler, with interrupts off.               *)
Attach(r) ==
  /\ imr' = imr \ {r}
  /\ registered' = registered \cup {r}
  /\ iflag' = Restored(iflag)

pit_init ==
  /\ Booting("pit_init")
  /\ boot' = "rtc_init"
  /\ Attach(PIT_IRQ)
  /\ UNCHANGED <<cur, base, stack, irr, isr, ready, deviceVars, panicked>>

rtc_init ==
  /\ Booting("rtc_init")
  /\ boot' = "keyboard_init"
  /\ rtc' = [rtc EXCEPT !.on = TRUE]
  /\ Attach(RTC_IRQ)
  /\ UNCHANGED <<cur, base, stack, irr, isr, ready, buf, ps2, drained,
                 panicked>>

keyboard_init ==
  /\ Booting("keyboard_init")
  /\ boot' = "mouse_init"
  /\ Attach(KEYBOARD_IRQ)
  /\ UNCHANGED <<cur, base, stack, irr, isr, ready, deviceVars, panicked>>

(* mouse_init: both devices off, the buffer emptied, the configuration     *)
(* read.                                                                   *)
mouse_init ==
  /\ Booting("mouse_init")
  /\ boot' = IF ps2.present THEN "mouse_report" ELSE "mouse_none"
  /\ buf' = "none"
  /\ drained' = (buf = "key" /\ KEYBOARD_IRQ \in irr)
  /\ ps2' = [ps2 EXCEPT !.kbd = FALSE, !.mouse = FALSE]
  /\ UNCHANGED <<cur, base, stack, iflag, picVars, registered, ready, rtc,
                 panicked>>

(* The mouse is switched on and told to report; it answers.                *)
MouseReport ==
  /\ Booting("mouse_report")
  /\ boot' = "mouse_ack"
  /\ ps2' = [ps2 EXCEPT !.mouse = TRUE]
  /\ buf' = "ack"
  /\ irr' = irr \cup Requested("ack", ps2)
  /\ UNCHANGED <<cur, base, stack, iflag, isr, imr, registered, ready, rtc,
                 drained, panicked>>

(* Mutant of ReadAck: the answer is left in the buffer.                    *)
AckUnread(byte) == byte

ReadAck(byte) == "none"

MouseAck ==
  /\ Booting("mouse_ack")
  /\ boot' = "mouse_on"
  /\ buf' = ReadAck(buf)
  /\ IF buf = "ack" THEN UNCHANGED panicked ELSE Panic
  /\ UNCHANGED <<cur, base, stack, iflag, picVars, registered, ready, ps2,
                 rtc, drained>>

(* Both devices and both interrupts on, the handler registered.  A byte    *)
(* that is in the buffer already is requested now.                         *)
MouseOn ==
  /\ Booting("mouse_on")
  /\ boot' = "fs_init"
  /\ ps2' = [ps2 EXCEPT !.kbd = TRUE, !.kint = TRUE, !.mint = TRUE]
  /\ irr' = irr \cup Requested(buf, ps2')
  /\ Attach(MOUSE_IRQ)
  /\ UNCHANGED <<cur, base, stack, isr, ready, buf, rtc, drained, panicked>>

MouseNone ==
  /\ Booting("mouse_none")
  /\ boot' = "fs_init"
  /\ ps2' = [ps2 EXCEPT !.kbd = TRUE]
  /\ iflag' = Restored(iflag)
  /\ UNCHANGED <<cur, base, stack, picVars, registered, ready, buf, rtc,
                 drained, panicked>>

fs_init == BootCall("fs_init", "init_proc_mgmt", "files")
init_proc_mgmt == BootCall("init_proc_mgmt", "init_terminals", "processes")
init_terminals == BootCall("init_terminals", "init_gui", "terminals")
init_gui == BootCall("init_gui", "sti", "gui")

Sti ==
  /\ Booting("sti")
  /\ boot' = "do_render"
  /\ iflag' = TRUE
  /\ UNCHANGED <<cur, base, stack, picVars, registered, ready, deviceVars,
                 panicked>>

FirstRender ==
  /\ Booting("do_render")
  /\ boot' = "start_terminals"
  /\ UNCHANGED <<cur, base, stack, iflag, picVars, registered, ready,
                 deviceVars, panicked>>

(* Every terminal has a shell that has not run; the jump leaves interrupts *)
(* off and never comes back.                                               *)
start_terminals ==
  /\ Booting("start_terminals")
  /\ boot' = "done"
  /\ base' = [t \in Thread |-> IF t = Boot THEN "none" ELSE "load"]
  /\ cur' = 0
  /\ iflag' = FALSE
  /\ UNCHANGED <<stack, picVars, registered, ready, deviceVars, panicked>>

BootStep ==
  \/ init_idt_table \/ paging_init \/ i8259_init
  \/ pit_init \/ rtc_init \/ keyboard_init
  \/ mouse_init \/ MouseReport \/ MouseAck \/ MouseOn \/ MouseNone
  \/ fs_init \/ init_proc_mgmt \/ init_terminals \/ init_gui
  \/ Sti \/ FirstRender \/ start_terminals

----------------------------------------------------------------------------
(* What runs on a terminal, as far as the interrupt flag goes.  The gate   *)
(* of the system calls leaves the flag on.                                 *)
Runs(doing) ==
  base[cur] = doing /\ stack[cur] = <<>> /\ ~panicked

Becomes(doing, flag) ==
  /\ base' = [base EXCEPT ![cur] = doing]
  /\ iflag' = flag
  /\ UNCHANGED <<boot, cur, stack, picVars, registered, ready, deviceVars,
                 panicked>>

(* proc_entry's sti, and its cli before it goes to the program with the    *)
(* flag set in eflags.                                                     *)
Load == Runs("load") /\ Becomes("loading", TRUE)
EnterUser == Runs("loading") /\ Becomes("user", TRUE)

(* A section of a system call between cli_and_save and restore_flags.      *)
EnterSection == Runs("user") /\ Becomes("section", FALSE)
LeaveSection == Runs("section") /\ Becomes("user", Restored(TRUE))

(* syscall_execute, with interrupts off: the terminal now runs the child.  *)
Execute == Runs("section") /\ Becomes("load", FALSE)

(* What a terminal runs after its process has ended: its parent, inside    *)
(* syscall_execute, or a new shell.                                        *)
Successors == {"load", "returning"}

(* kill_curr_process, by halt or by an exception in the program.           *)
End ==
  /\ Runs("user")
  /\ \E doing \in Successors : Becomes(doing, FALSE)

(* The parent's restore_flags, in switch_to_process and syscall_execute.   *)
Return == Runs("returning") /\ Becomes("user", Restored(TRUE))

ThreadStep == Load \/ EnterUser \/ LeaveSection \/ Return

----------------------------------------------------------------------------
(* Delivery.  In the order of the lines the slave's eight come after the   *)
(* master's 0 and 1, and an interrupt in service holds back its own and    *)
(* the later ones; so does the cascade, while the slave has one.           *)
Path(r) == IF r < 8 THEN {r} ELSE {Cascade, r}

Deliverable(r) ==
  /\ r \in irr
  /\ Path(r) \cap imr = {}
  /\ \A q \in isr : q > r

(* The vector that the 8259s give, and the line that its entry in idtasm.S *)
(* tells irq_handler.                                                      *)
ICW2_MASTER == 32
ICW2_SLAVE == 40
VectorOf(r) == IF r < 8 THEN ICW2_MASTER + r ELSE ICW2_SLAVE + r - 8
LineOf(vector) == vector - 32

(* Mutant of AfterGate: the gates of the interrupts are trap gates.        *)
AfterTrapGate(flag) == flag

(* The flag in the handler.                                                *)
AfterGate(flag) == FALSE

(* What the handlers do, in their order, up to pop_iret_context.           *)
Handler == [r \in Line |->
  CASE r = PIT_IRQ -> <<"eoi", "act", "schedule", "iret">>
    [] r = KEYBOARD_IRQ -> <<"eoi", "read", "act", "iret">>
    [] r = RTC_IRQ -> <<"readC", "eoi", "iret">>
    [] r = MOUSE_IRQ -> <<"read", "eoi", "iret">>]

Deliver(r) ==
  /\ iflag /\ ~panicked
  /\ Deliverable(r)
  /\ \A q \in Line : q < r => ~Deliverable(q)
  /\ irr' = irr \ {r}
  /\ isr' = isr \cup Path(r)
  /\ iflag' = AfterGate(iflag)
  /\ stack' = [stack EXCEPT ![cur] =
                 Append(@, [irq |-> LineOf(VectorOf(r)), at |-> 1,
                            flag |-> iflag])]
  /\ IF LineOf(VectorOf(r)) \in registered /\ "idt" \in ready
       THEN UNCHANGED panicked
       ELSE Panic
  /\ UNCHANGED <<boot, cur, base, imr, registered, ready, deviceVars>>

----------------------------------------------------------------------------
(* The handlers.                                                           *)
Top(t) == stack[t][Len(stack[t])]

About(r, what) ==
  /\ stack[cur] # <<>> /\ ~panicked
  /\ Top(cur).irq = r
  /\ Handler[r][Top(cur).at] = what

Advance == stack' = [stack EXCEPT ![cur][Len(stack[cur])].at = @ + 1]

(* Mutant of Acknowledged: the master is not told of the slave's.          *)
MasterNotTold(r) == {r}

(* What send_eoi takes out of service.                                     *)
Acknowledged(r) == Path(r)

SendEoi(r) ==
  /\ About(r, "eoi")
  /\ isr' = isr \ Acknowledged(r)
  /\ Advance
  /\ UNCHANGED <<boot, cur, base, iflag, irr, imr, registered, ready,
                 deviceVars, panicked>>

(* inb from the data port, by either handler of the controller.            *)
ReadData(r) ==
  /\ About(r, "read")
  /\ buf' = "none"
  /\ Advance
  /\ UNCHANGED <<boot, cur, base, iflag, picVars, registered, ready, ps2,
                 rtc, drained, panicked>>

(* Mutant of AfterReadC: register C is not read.                           *)
CUnread(c) == c

AfterReadC(c) == FALSE

ReadC ==
  /\ About(RTC_IRQ, "readC")
  /\ rtc' = [rtc EXCEPT !.c = AfterReadC(rtc.c)]
  /\ Advance
  /\ UNCHANGED <<boot, cur, base, iflag, picVars, registered, ready, buf,
                 ps2, drained, panicked>>

(* A key, or do_render with the keys on the screen, that kills nobody.     *)
Act(r) ==
  /\ About(r, "act")
  /\ Advance
  /\ UNCHANGED <<boot, cur, base, iflag, picVars, registered, ready,
                 deviceVars, panicked>>

(* The current PCB is that of a process.                                   *)
Present(t) == t # Boot

(* Ctrl-C on terminal t, which need not be the current one.                *)
KillsOther(r, t) ==
  /\ About(r, "act") /\ Present(cur) /\ t # cur
  /\ \E doing \in Successors : base' = [base EXCEPT ![t] = doing]
  /\ stack' = [stack EXCEPT ![t] = <<>>,
                            ![cur][Len(stack[cur])].at = @ + 1]
  /\ UNCHANGED <<boot, cur, iflag, picVars, registered, ready, deviceVars,
                 panicked>>

(* On the current one do_schedule(1) leaves the handler for ever.          *)
KillsCurrent(r) ==
  /\ About(r, "act") /\ Present(cur)
  /\ \E doing \in Successors : base' = [base EXCEPT ![cur] = doing]
  /\ stack' = [stack EXCEPT ![cur] = <<>>]
  /\ cur' \in Terminal
  /\ iflag' = FALSE
  /\ UNCHANGED <<boot, picVars, registered, ready, deviceVars, panicked>>

(* do_schedule(0), when a process is current; which terminal comes next is *)
(* left open.  Without one do_schedule panics.                             *)
Schedule ==
  /\ About(PIT_IRQ, "schedule")
  /\ Advance
  /\ IF Present(cur)
       THEN IF cur = Boot
              THEN Panic /\ UNCHANGED cur
              ELSE cur' \in Terminal /\ UNCHANGED panicked
       ELSE UNCHANGED <<cur, panicked>>
  /\ iflag' = FALSE
  /\ UNCHANGED <<boot, base, picVars, registered, ready, deviceVars>>

(* pop_iret_context.                                                       *)
Iret(r) ==
  /\ About(r, "iret")
  /\ iflag' = Top(cur).flag
  /\ stack' = [stack EXCEPT ![cur] = SubSeq(@, 1, Len(@) - 1)]
  /\ UNCHANGED <<boot, cur, base, picVars, registered, ready, deviceVars,
                 panicked>>

HandlerStep ==
  \/ \E r \in Line : SendEoi(r) \/ ReadData(r) \/ Act(r) \/ Iret(r)
  \/ \E r \in Line : KillsCurrent(r) \/ \E t \in Terminal : KillsOther(r, t)
  \/ ReadC
  \/ Schedule

----------------------------------------------------------------------------
Next ==
  \/ BootStep
  \/ ThreadStep
  \/ EnterSection \/ Execute \/ End
  \/ HandlerStep
  \/ \E r \in Line : Deliver(r)
  \/ PitTick \/ RtcTick \/ KeyByte \/ MouseByte

Spec == Init /\ [][Next]_vars

(* The processor goes on with what it does, and takes an interrupt that it *)
(* can take again and again.  Nothing is assumed of the devices, of the    *)
(* programs or of the user.                                                *)
Fairness ==
  /\ WF_vars(BootStep) /\ WF_vars(ThreadStep) /\ WF_vars(HandlerStep)
  /\ \A r \in Line : SF_vars(Deliver(r))

FairSpec == Spec /\ Fairness

----------------------------------------------------------------------------
Frames == [irq : Line, at : 1 .. 4, flag : BOOLEAN]

ControlType ==
  /\ boot \in {"init_idt_table", "paging_init", "i8259_init", "pit_init",
               "rtc_init", "keyboard_init", "mouse_init", "mouse_report",
               "mouse_ack", "mouse_on", "mouse_none", "fs_init",
               "init_proc_mgmt", "init_terminals", "init_gui", "sti",
               "do_render", "start_terminals", "done"}
  /\ cur \in Thread
  /\ iflag \in BOOLEAN /\ panicked \in BOOLEAN
  /\ registered \subseteq Line
  /\ ready \subseteq {"idt", "paging", "files", "processes", "terminals",
                      "gui"}

StackType ==
  /\ base[Boot] \in {"boot", "none"}
  /\ \A t \in Terminal :
       base[t] \in {"none", "load", "loading", "user", "section", "returning"}
  /\ \A t \in Thread : \A k \in DOMAIN stack[t] : stack[t][k] \in Frames

PicType ==
  /\ irr \subseteq Line
  /\ isr \subseteq Line \cup {Cascade} /\ imr \subseteq Line \cup {Cascade}

DeviceType ==
  /\ buf \in {"none", "key", "mouse", "ack"}
  /\ ps2 \in [kbd : BOOLEAN, kint : BOOLEAN, mouse : BOOLEAN, mint : BOOLEAN,
              present : BOOLEAN]
  /\ rtc \in [on : BOOLEAN, c : BOOLEAN]
  /\ drained \in BOOLEAN

(* Every stack has interrupts of known lines, each at a step of its        *)
(* handler; only the boot code is in entry().                              *)
TypeOK == ControlType /\ StackType /\ PicType /\ DeviceType

(* A handler uses only what entry() has initialised, although all lines    *)
(* are opened and register their handlers long before: each init restores  *)
(* the flag that it found, off, and sti comes last.  And none panics: the  *)
(* line has a handler, the mouse answers, the scheduler has a process.     *)
Needs(r) ==
  {"idt", "paging"} \cup
  (IF r \in {PIT_IRQ, KEYBOARD_IRQ} THEN {"processes", "terminals", "gui"}
                                    ELSE {})

HandlersReady ==
  /\ ~panicked
  /\ \A t \in Thread : \A k \in DOMAIN stack[t] :
       Needs(stack[t][k].irq) \subseteq ready

(* "Can cause unbounded stack": an interrupt never interrupts another one, *)
(* however often contexts are switched in the middle of the handler of the *)
(* PIT, and a thread that is switched out in an interrupt is about to      *)
(* return from the PIT's.                                                  *)
BoundedStack ==
  /\ iflag => stack[cur] = <<>>
  /\ \A t \in Thread : Len(stack[t]) =< 1
  /\ \A t \in Thread : t # cur /\ stack[t] # <<>> =>
       Top(t).irq = PIT_IRQ /\ Handler[PIT_IRQ][Top(t).at] = "iret"

(* What the 8259s have in service is what the processor is handling, up to *)
(* its end of interrupt: no line is left in service by a switch, a jump or *)
(* a kill in a handler, which would shut it off with all lower ones.       *)
InServiceIsRunning ==
  /\ \A r \in Line : r \in isr <=>
       /\ stack[cur] # <<>>
       /\ Top(cur).irq = r
       /\ \E k \in Top(cur).at .. Len(Handler[r]) : Handler[r][k] = "eoi"
  /\ Cascade \in isr <=> {RTC_IRQ, MOUSE_IRQ} \cap isr # {}

(* A handler of the PS/2 controller finds a byte of its own device: an     *)
(* interrupt without a byte would make the mouse driver one byte late for  *)
(* ever.  The exception is a key that mouse_init throws away when its      *)
(* interrupt is requested already.                                         *)
FindsByte ==
  ~drained =>
    /\ About(KEYBOARD_IRQ, "read") => buf = "key"
    /\ About(MOUSE_IRQ, "read") => buf = "mouse"

(* Whoever waits for a device's next interrupt gets it: when the boot is   *)
(* past mouse_init, a byte in the buffer, and the flag in register C, both *)
(* of which hold back the next edge, are always requested or about to be   *)
(* read.  A key pressed before the 8259s are initialised loses its request *)
(* there; that mouse_init empties the buffer is what saves the keyboard.   *)
Pending(r, what) ==
  \/ r \in irr
  \/ /\ stack[cur] # <<>> /\ Top(cur).irq = r
     /\ \E k \in Top(cur).at .. Len(Handler[r]) : Handler[r][k] = what

NoRequestLost ==
  /\ rtc.c => Pending(RTC_IRQ, "readC")
  /\ MOUSE_IRQ \in registered \/ "files" \in ready =>
       /\ buf = "key" => Pending(KEYBOARD_IRQ, "read")
       /\ buf \in {"mouse", "ack"} => Pending(MOUSE_IRQ, "read")

(* Interrupts are never off for good, and a request is served as often as  *)
(* the higher ones leave room for it, once the line is open.               *)
Room(r) == iflag /\ r \notin imr /\ \A q \in irr : q >= r

InterruptsServed ==
  /\ []<>iflag
  /\ \A r \in Line : []<>Room(r) => [](r \in irr => <>(r \notin irr))
=============================================================================

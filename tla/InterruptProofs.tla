---------------------------- MODULE InterruptProofs ----------------------------
(***************************************************************************)
(* Proofs about Interrupts: for every number of terminals, no interrupt    *)
(* interrupts another one, the 8259s have in service what the processor is *)
(* handling, no handler runs before what it uses is initialised, each      *)
(* finds a byte of its own device, and no device's request is lost.  About *)
(* TrapFrame: the frames of every entry fit the C code and the return.     *)
(* About Library: its functions do what the kernel takes them for.         *)
(***************************************************************************)
EXTENDS MCInterrupts, Induction, SequenceTheorems

(* A frame whose handler is not past its end, and the stacks of a thread.  *)
Active == {f \in Frames : f.at =< Len(Handler[f.irq])}
Stacks == {<<>>} \cup {<<f>> : f \in Active}

Doing == {"boot", "none", "load", "loading", "user", "section", "returning"}

Shaped ==
  /\ stack \in [Thread -> Stacks]
  /\ base \in [Thread -> Doing]

(* A thread that does not run is not in an interrupt, or about to return   *)
(* from the PIT's.                                                         *)
Parked(s) ==
  s = <<>> \/ \E f \in Active : s = <<f>> /\ f.irq = PIT_IRQ /\ f.at = 4

Calm ==
  /\ iflag => stack[cur] = <<>>
  /\ \A t \in Thread \ {cur} : Parked(stack[t])

(* The end of interrupt is sent from a place of a handler on.              *)
EoiAhead(r, at) == \E k \in at .. Len(Handler[r]) : Handler[r][k] = "eoi"

(* In service is what the handler that runs has not acknowledged.          *)
InService(s) ==
  IF s # <<>> /\ EoiAhead(s[1].irq, s[1].at) THEN Path(s[1].irq) ELSE {}

Service == isr = InService(stack[cur])

(* Interrupts are off until sti.                                           *)
Late == {"do_render", "start_terminals", "done"}

Quiet ==
  boot \notin Late =>
    cur = Boot /\ iflag = FALSE /\ \A t \in Thread : stack[t] = <<>>

(* A line is opened when it has a handler.                                 *)
Unmasked ==
  boot \notin {"init_idt_table", "paging_init", "i8259_init"} =>
    Line \ imr \subseteq registered

(* The answer of the mouse is the next byte that mouse_init reads.         *)
Answered == boot = "mouse_ack" => buf = "ack"

(* What entry() has initialised when it comes to a call.                   *)
Progress ==
  /\ boot # "init_idt_table" => "idt" \in ready
  /\ boot \notin {"init_idt_table", "paging_init"} => "paging" \in ready
  /\ boot \in {"init_terminals", "init_gui", "sti"} \cup Late =>
       "processes" \in ready
  /\ boot \in {"init_gui", "sti"} \cup Late => "terminals" \in ready
  /\ boot \in {"sti"} \cup Late => "gui" \in ready

(* The devices while the boot gets to them: no interrupts of the mouse, no *)
(* ticks of the RTC; once the mouse reports, its interrupt is on.          *)
BeforeRtc ==
  {"init_idt_table", "paging_init", "i8259_init", "pit_init", "rtc_init"}
BeforeMouse == BeforeRtc \cup {"keyboard_init", "mouse_init"}
BeforeFiles ==
  BeforeMouse \cup {"mouse_report", "mouse_ack", "mouse_on", "mouse_none"}

Ports ==
  /\ ps2.kint
  /\ boot \in BeforeRtc => ~rtc.on /\ ~rtc.c
  /\ boot \in BeforeMouse => ~drained
  /\ boot \in BeforeFiles =>
       ~ps2.mint /\ {MOUSE_IRQ} \cap (irr \cup registered) = {} /\ "files" \notin ready
  /\ boot \in {"mouse_report", "mouse_none"} =>
       buf = "none" /\ ~ps2.kbd /\ ~ps2.mouse
  /\ boot \notin BeforeFiles => (ps2.mouse => ps2.mint)
  /\ buf = "ack" => boot = "mouse_ack"

(* A handler is on its way to the byte, or to register C, of its device.   *)
Reading(s, r) ==
  \E f \in Active : /\ s = <<f>> /\ f.irq = r
                    /\ f.at =< IF r = KEYBOARD_IRQ THEN 2 ELSE 1

Due(r) == r \in irr \/ Reading(stack[cur], r)

ByteOf(r) == IF r = KEYBOARD_IRQ THEN "key" ELSE "mouse"

(* Nothing that a device holds back is forgotten, and nothing is requested *)
(* twice or without a byte.                                                *)
Requests ==
  /\ rtc.c => Due(RTC_IRQ)
  /\ \A r \in {KEYBOARD_IRQ, MOUSE_IRQ} :
       /\ boot \notin BeforeFiles /\ buf = ByteOf(r) => Due(r)
       /\ ~drained =>
            /\ Due(r) => buf = ByteOf(r)
            /\ r \in irr => ~Reading(stack[cur], r)

Inv ==
  /\ TypeOK /\ Shaped /\ Calm /\ Service
  /\ Quiet /\ Unmasked /\ Answered /\ Progress /\ ~panicked
  /\ Ports /\ Requests

----------------------------------------------------------------------------
(* The scripts of the handlers.                                            *)
LEMMA Scripts ==
  /\ Handler[PIT_IRQ] = <<"eoi", "act", "schedule", "iret">>
  /\ Handler[KEYBOARD_IRQ] = <<"eoi", "read", "act", "iret">>
  /\ Handler[RTC_IRQ] = <<"readC", "eoi", "iret">>
  /\ Handler[MOUSE_IRQ] = <<"read", "eoi", "iret">>
BY DEF Handler, Line, PIT_IRQ, KEYBOARD_IRQ, RTC_IRQ, MOUSE_IRQ

(* Where the end of interrupt is still to come.                            *)
LEMMA Ahead ==
  ASSUME NEW f \in Active
  PROVE  /\ f.irq \in Line /\ f.at \in 1 .. Len(Handler[f.irq])
         /\ EoiAhead(f.irq, f.at) <=>
              \/ f.irq \in {PIT_IRQ, KEYBOARD_IRQ} /\ f.at = 1
              \/ f.irq \in {RTC_IRQ, MOUSE_IRQ} /\ f.at \in {1, 2}
<1>1. f.irq \in Line /\ f.at \in 1 .. 4 /\ f.at =< Len(Handler[f.irq])
  BY DEF Active, Frames
<1>2. CASE f.irq = PIT_IRQ
  <2>1. Handler[f.irq] = <<"eoi", "act", "schedule", "iret">>
    BY <1>2, Scripts
  <2>. QED
    BY <1>1, <1>2, <2>1 DEF EoiAhead, PIT_IRQ, KEYBOARD_IRQ, RTC_IRQ, MOUSE_IRQ
<1>3. CASE f.irq = KEYBOARD_IRQ
  <2>1. Handler[f.irq] = <<"eoi", "read", "act", "iret">>
    BY <1>3, Scripts
  <2>. QED
    BY <1>1, <1>3, <2>1 DEF EoiAhead, PIT_IRQ, KEYBOARD_IRQ, RTC_IRQ, MOUSE_IRQ
<1>4. CASE f.irq = RTC_IRQ
  <2>1. Handler[f.irq] = <<"readC", "eoi", "iret">>
    BY <1>4, Scripts
  <2>. QED
    BY <1>1, <1>4, <2>1 DEF EoiAhead, PIT_IRQ, KEYBOARD_IRQ, RTC_IRQ, MOUSE_IRQ
<1>5. CASE f.irq = MOUSE_IRQ
  <2>1. Handler[f.irq] = <<"read", "eoi", "iret">>
    BY <1>5, Scripts
  <2>. QED
    BY <1>1, <1>5, <2>1 DEF EoiAhead, PIT_IRQ, KEYBOARD_IRQ, RTC_IRQ, MOUSE_IRQ
<1>. QED
  BY <1>1, <1>2, <1>3, <1>4, <1>5 DEF Line

(* What a handler is about to do says where it is.                         *)
Place(r, what) ==
  {k \in 1 .. Len(Handler[r]) : Handler[r][k] = what}

LEMMA Places ==
  ASSUME NEW r \in Line
  PROVE  /\ Place(r, "eoi") = IF r \in {PIT_IRQ, KEYBOARD_IRQ} THEN {1} ELSE {2}
         /\ Place(r, "act") = IF r = PIT_IRQ THEN {2}
                              ELSE IF r = KEYBOARD_IRQ THEN {3} ELSE {}
         /\ Place(r, "schedule") = IF r = PIT_IRQ THEN {3} ELSE {}
         /\ Place(r, "iret") = IF r \in {PIT_IRQ, KEYBOARD_IRQ} THEN {4} ELSE {3}
         /\ Place(r, "read") = IF r = KEYBOARD_IRQ THEN {2}
                               ELSE IF r = MOUSE_IRQ THEN {1} ELSE {}
         /\ Place(r, "readC") = IF r = RTC_IRQ THEN {1} ELSE {}
         /\ Len(Handler[r]) = IF r \in {PIT_IRQ, KEYBOARD_IRQ} THEN 4 ELSE 3
<1>1. CASE r = PIT_IRQ
  <2>1. Handler[r] = <<"eoi", "act", "schedule", "iret">>
    BY <1>1, Scripts
  <2>. QED
    BY <1>1, <2>1 DEF Place, PIT_IRQ, KEYBOARD_IRQ, RTC_IRQ, MOUSE_IRQ
<1>2. CASE r = KEYBOARD_IRQ
  <2>1. Handler[r] = <<"eoi", "read", "act", "iret">>
    BY <1>2, Scripts
  <2>. QED
    BY <1>2, <2>1 DEF Place, PIT_IRQ, KEYBOARD_IRQ, RTC_IRQ, MOUSE_IRQ
<1>3. CASE r = RTC_IRQ
  <2>1. Handler[r] = <<"readC", "eoi", "iret">>
    BY <1>3, Scripts
  <2>. QED
    BY <1>3, <2>1 DEF Place, PIT_IRQ, KEYBOARD_IRQ, RTC_IRQ, MOUSE_IRQ
<1>4. CASE r = MOUSE_IRQ
  <2>1. Handler[r] = <<"read", "eoi", "iret">>
    BY <1>4, Scripts
  <2>. QED
    BY <1>4, <2>1 DEF Place, PIT_IRQ, KEYBOARD_IRQ, RTC_IRQ, MOUSE_IRQ
<1>. QED
  BY <1>1, <1>2, <1>3, <1>4 DEF Line

(* A thread's stack is empty or one frame.                                 *)
LEMMA OneFrame ==
  ASSUME Shaped, NEW t \in Thread, stack[t] # <<>>
  PROVE  \E f \in Active : stack[t] = <<f>> /\ Top(t) = f
<1>1. PICK f \in Active : stack[t] = <<f>>
  BY DEF Shaped, Stacks
<1>2. Top(t) = f
  BY <1>1 DEF Top
<1>. QED
  BY <1>1, <1>2

(* The frame of a handler that goes on, and what becomes of it.            *)
LEMMA NextFrame ==
  ASSUME Shaped, cur \in Thread, NEW r, NEW what, About(r, what),
         what \in {"eoi", "act", "schedule", "read", "readC"}
  PROVE  \E f, g \in Active :
           /\ stack[cur] = <<f>> /\ Top(cur) = f
           /\ f.irq = r /\ f.at \in Place(r, what)
           /\ g.irq = r /\ g.at = f.at + 1 /\ g.flag = f.flag
           /\ [stack[cur] EXCEPT ![Len(stack[cur])].at = @ + 1] = <<g>>
<1>1. PICK f \in Active : stack[cur] = <<f>> /\ Top(cur) = f
  BY OneFrame DEF About
<1>2. f.irq = r /\ f.at \in 1 .. Len(Handler[r]) /\ r \in Line
  <2>1. f.irq \in Line /\ f.at \in 1 .. Len(Handler[f.irq])
    BY Ahead
  <2>. QED
    BY <1>1, <2>1 DEF About
<1>3. f.at \in Place(r, what)
  BY <1>1, <1>2 DEF About, Place
<1>. DEFINE g == [f EXCEPT !.at = @ + 1]
<1>4. f.at + 1 \in 1 .. Len(Handler[r]) /\ f.at + 1 \in 1 .. 4
  BY <1>2, <1>3, Places DEF PIT_IRQ, KEYBOARD_IRQ, RTC_IRQ, MOUSE_IRQ
<1>5. /\ g \in Frames
      /\ g.irq = r /\ g.at = f.at + 1 /\ g.flag = f.flag
  BY <1>2, <1>4 DEF Active, Frames
<1>6. g \in Active
  <2>. HIDE DEF g
  <2>1. g.at =< Len(Handler[g.irq])
    <3>1. g.at \in 1 .. Len(Handler[r]) /\ g.irq = r
      BY <1>4, <1>5
    <3>2. Len(Handler[r]) \in Nat
      BY <1>2, Places
    <3>. QED
      BY <3>1, <3>2
  <2>. QED
    BY <1>5, <2>1 DEF Active
<1>7. [stack[cur] EXCEPT ![Len(stack[cur])].at = @ + 1] = <<g>>
  BY <1>1
<1>. HIDE DEF g
<1>. QED
  BY <1>1, <1>2, <1>3, <1>5, <1>6, <1>7

(* A step of a handler, but its return.                                    *)
LEMMA Advancing ==
  ASSUME Shaped, cur \in Thread, NEW r, NEW what, About(r, what), Advance,
         what \in {"eoi", "act", "schedule", "read", "readC"}
  PROVE  \E f, g \in Active :
           /\ stack[cur] = <<f>> /\ Top(cur) = f
           /\ f.irq = r /\ f.at \in Place(r, what)
           /\ g.irq = r /\ g.at = f.at + 1 /\ g.flag = f.flag
           /\ stack' = [stack EXCEPT ![cur] = <<g>>]
<1>1. PICK f, g \in Active :
        /\ stack[cur] = <<f>> /\ Top(cur) = f
        /\ f.irq = r /\ f.at \in Place(r, what)
        /\ g.irq = r /\ g.at = f.at + 1 /\ g.flag = f.flag
        /\ [stack[cur] EXCEPT ![Len(stack[cur])].at = @ + 1] = <<g>>
  BY NextFrame
<1>2. stack' = [stack EXCEPT
                  ![cur] = [stack[cur] EXCEPT ![Len(stack[cur])].at = @ + 1]]
  BY DEF Advance
<1>3. stack' = [stack EXCEPT ![cur] = <<g>>]
  BY <1>1, <1>2
<1>. QED
  BY <1>1, <1>3

----------------------------------------------------------------------------
(* The initial state.                                                      *)
LEMMA InitInv == Init => Inv
<1>. SUFFICES ASSUME Init PROVE Inv
  OBVIOUS
<1>. USE DEF Init
<1>1. Boot \in Thread /\ Boot \notin Terminal
  BY InterruptsAssumption DEF Thread, Terminal
<1>2. Shaped
  BY DEF Shaped, Stacks, Doing
<1>3. TypeOK
  <2>1. /\ base[Boot] = "boot"
        /\ \A t \in Terminal : base[t] = "none"
        /\ \A t \in Thread : stack[t] = <<>>
    BY <1>1 DEF Thread
  <2>2. \A t \in Thread : \A k \in DOMAIN stack[t] : stack[t][k] \in Frames
    BY <2>1
  <2>3. ps2 \in [kbd : BOOLEAN, kint : BOOLEAN, mouse : BOOLEAN, mint : BOOLEAN,
                 present : BOOLEAN]
    OBVIOUS
  <2>. QED
    BY <1>1, <2>1, <2>2, <2>3 DEF TypeOK, ControlType, StackType, PicType, DeviceType
<1>4. Calm /\ Service
  <2>1. \A t \in Thread : stack[t] = <<>>
    OBVIOUS
  <2>. QED
    BY <1>1, <2>1 DEF Calm, Service, Parked, InService
<1>5. Quiet /\ Unmasked /\ Answered /\ Progress /\ ~panicked
  BY DEF Quiet, Unmasked, Answered, Progress, Late
<1>6. Ports
  BY DEF Ports, BeforeRtc, BeforeMouse, BeforeFiles
<1>7. Requests
  <2>1. \A r : ~Due(r)
    BY <1>1 DEF Due, Reading
  <2>. QED
    BY <2>1 DEF Requests, ByteOf, BeforeFiles, BeforeMouse, BeforeRtc
<1>. QED
  BY <1>2, <1>3, <1>4, <1>5, <1>6, <1>7 DEF Inv

----------------------------------------------------------------------------
(* What the parts of Inv say.                                              *)
LEMMA InServiceOf ==
  /\ InService(<<>>) = {}
  /\ \A f \in Active :
       InService(<<f>>) =
         IF \/ f.irq \in {PIT_IRQ, KEYBOARD_IRQ} /\ f.at = 1
            \/ f.irq \in {RTC_IRQ, MOUSE_IRQ} /\ f.at \in {1, 2}
         THEN Path(f.irq) ELSE {}
<1>1. InService(<<>>) = {}
  BY DEF InService
<1>2. ASSUME NEW f \in Active
      PROVE  InService(<<f>>) = IF EoiAhead(f.irq, f.at) THEN Path(f.irq) ELSE {}
  BY DEF InService
<1>. QED
  BY <1>1, <1>2, Ahead

LEMMA Paths ==
  /\ Path(PIT_IRQ) = {PIT_IRQ} /\ Path(KEYBOARD_IRQ) = {KEYBOARD_IRQ}
  /\ Path(RTC_IRQ) = {Cascade, RTC_IRQ} /\ Path(MOUSE_IRQ) = {Cascade, MOUSE_IRQ}
BY DEF Path, PIT_IRQ, KEYBOARD_IRQ, RTC_IRQ, MOUSE_IRQ

LEMMA Bounds == Shaped /\ Calm => BoundedStack
<1>. SUFFICES ASSUME Shaped, Calm PROVE BoundedStack
  OBVIOUS
<1>1. ASSUME NEW t \in Thread PROVE Len(stack[t]) =< 1
  <2>1. stack[t] = <<>> \/ \E f \in Active : stack[t] = <<f>>
    BY OneFrame
  <2>2. CASE stack[t] = <<>>
    BY <2>2
  <2>3. ASSUME NEW f \in Active, stack[t] = <<f>> PROVE Len(stack[t]) =< 1
    <3>1. Len(<<f>>) = 1
      OBVIOUS
    <3>. QED
      BY <2>3, <3>1
  <2>. QED
    BY <2>1, <2>2, <2>3
<1>2. ASSUME NEW t \in Thread, t # cur, stack[t] # <<>>
      PROVE  Top(t).irq = PIT_IRQ /\ Handler[PIT_IRQ][Top(t).at] = "iret"
  <2>1. PICK f \in Active : stack[t] = <<f>> /\ f.irq = PIT_IRQ /\ f.at = 4
    BY <1>2 DEF Calm, Parked
  <2>2. Top(t) = f
    BY <2>1 DEF Top
  <2>. QED
    BY <2>1, <2>2, Scripts
<1>. QED
  BY <1>1, <1>2 DEF Calm, BoundedStack

LEMMA Serves ==
  ASSUME Shaped, Service, cur \in Thread
  PROVE  InServiceIsRunning
<1>1. CASE stack[cur] = <<>>
  <2>1. isr = {}
    BY <1>1, InServiceOf DEF Service
  <2>. QED
    BY <1>1, <2>1 DEF InServiceIsRunning
<1>2. CASE stack[cur] # <<>>
  <2>1. PICK f \in Active : stack[cur] = <<f>> /\ Top(cur) = f
    BY <1>2, OneFrame
  <2>2. isr = IF EoiAhead(f.irq, f.at) THEN Path(f.irq) ELSE {}
    BY <2>1 DEF Service, InService
  <2>3. f.irq \in Line
    BY Ahead
  <2>4. \A r \in Line : r \in Path(f.irq) <=> r = f.irq
    BY <2>3, Paths
    DEF Line, Cascade, PIT_IRQ, KEYBOARD_IRQ, RTC_IRQ, MOUSE_IRQ
  <2>5. Cascade \in Path(f.irq) <=> f.irq \in {RTC_IRQ, MOUSE_IRQ}
    BY <2>3, Paths
    DEF Line, Cascade, PIT_IRQ, KEYBOARD_IRQ, RTC_IRQ, MOUSE_IRQ
  <2>6. \A r \in Line : r \in isr <=> f.irq = r /\ EoiAhead(r, f.at)
    BY <2>2, <2>4
  <2>7. Cascade \in isr <=> {RTC_IRQ, MOUSE_IRQ} \cap isr # {}
    BY <2>2, <2>3, <2>4, <2>5 DEF Line
  <2>. QED
    BY <1>2, <2>1, <2>6, <2>7 DEF InServiceIsRunning, EoiAhead
<1>. QED
  BY <1>1, <1>2

----------------------------------------------------------------------------
(* The stacks.  What the steps of a group have in common comes first.      *)

(* The devices change neither a stack nor the flag.                        *)
DeviceStep == PitTick \/ RtcTick \/ KeyByte \/ MouseByte

LEMMA DeviceShape ==
  ASSUME DeviceStep
  PROVE  UNCHANGED <<boot, cur, base, stack, iflag, isr, imr, registered,
                     ready, drained, panicked>>
BY DEF DeviceStep, PitTick, RtcTick, KeyByte, MouseByte, ByteComes, deviceVars

LEMMA BootShape ==
  ASSUME BootStep, ~start_terminals
  PROVE  /\ cur = Boot /\ stack[Boot] = <<>>
         /\ UNCHANGED <<cur, base, stack>>
         /\ isr' = isr \/ isr' = {}
         /\ iflag' = iflag \/ (Sti /\ iflag')
<1>1. CASE init_idt_table \/ paging_init \/ fs_init \/ init_proc_mgmt
           \/ init_terminals \/ init_gui
  BY <1>1 DEF init_idt_table, paging_init, fs_init, init_proc_mgmt,
              init_terminals, init_gui, BootCall, Booting, picVars
<1>2. CASE i8259_init \/ pit_init \/ rtc_init \/ keyboard_init
  BY <1>2 DEF i8259_init, pit_init, rtc_init, keyboard_init, Attach, Restored,
              Booting
<1>3. CASE mouse_init \/ MouseReport \/ MouseAck \/ MouseOn \/ MouseNone
  BY <1>3 DEF mouse_init, MouseReport, MouseAck, MouseOn, MouseNone, Attach,
              Restored, Booting, picVars
<1>4. CASE Sti \/ FirstRender
  BY <1>4 DEF Sti, FirstRender, Booting, picVars
<1>. QED
  BY <1>1, <1>2, <1>3, <1>4 DEF BootStep

(* What a thread does, outside the handlers.                               *)
Running == ThreadStep \/ EnterSection \/ Execute \/ End

LEMMA RunningShape ==
  ASSUME Running
  PROVE  /\ stack[cur] = <<>> /\ base[cur] \in {"load", "loading", "user",
                                                "section", "returning"}
         /\ \E doing \in Doing, flag \in BOOLEAN : Becomes(doing, flag)
<1>1. CASE Load \/ EnterUser \/ LeaveSection \/ Return \/ EnterSection \/ Execute
  BY <1>1 DEF Load, EnterUser, LeaveSection, Return, EnterSection, Execute,
              Runs, Restored, Doing
<1>2. CASE End
  BY <1>2 DEF End, Runs, Successors, Doing
<1>. QED
  BY <1>1, <1>2 DEF Running, ThreadStep

(* A kill in a handler, of the process of another thread.                  *)
LEMMA KillShape ==
  ASSUME Shaped, cur \in Thread, NEW r, NEW t, KillsOther(r, t)
  PROVE  \E f, g \in Active :
           /\ stack[cur] = <<f>>
           /\ f.irq = r /\ f.at \in Place(r, "act")
           /\ g.irq = r /\ g.at = f.at + 1 /\ g.flag = f.flag
           /\ stack' = [stack EXCEPT ![t] = <<>>, ![cur] = <<g>>]
<1>1. t # cur /\ About(r, "act")
  BY DEF KillsOther
<1>2. PICK f, g \in Active :
        /\ stack[cur] = <<f>> /\ Top(cur) = f
        /\ f.irq = r /\ f.at \in Place(r, "act")
        /\ g.irq = r /\ g.at = f.at + 1 /\ g.flag = f.flag
        /\ [stack[cur] EXCEPT ![Len(stack[cur])].at = @ + 1] = <<g>>
  BY <1>1, NextFrame
<1>3. stack' = [stack EXCEPT
                  ![t] = <<>>,
                  ![cur] = [stack[cur] EXCEPT ![Len(stack[cur])].at = @ + 1]]
  BY <1>1 DEF KillsOther
<1>4. stack' = [stack EXCEPT ![t] = <<>>, ![cur] = <<g>>]
  BY <1>2, <1>3
<1>. QED
  BY <1>2, <1>4

(* What is in service in the middle of a handler.                          *)
LEMMA HandlerService ==
  ASSUME Inv, NEW f \in Active, stack[cur] = <<f>>
  PROVE  isr = IF \/ f.irq \in {PIT_IRQ, KEYBOARD_IRQ} /\ f.at = 1
                  \/ f.irq \in {RTC_IRQ, MOUSE_IRQ} /\ f.at \in {1, 2}
               THEN Path(f.irq) ELSE {}
BY InServiceOf DEF Inv, Service

(* Every thread's stack stays empty or one frame.                          *)
LEMMA ShapedStep ==
  ASSUME Inv, Next
  PROVE  Shaped'
<1>1. Shaped /\ cur \in Thread
  BY DEF Inv, TypeOK, ControlType
<1>2. <<>> \in Stacks /\ \A f \in Active : <<f>> \in Stacks
  BY DEF Stacks
<1>3. CASE DeviceStep
  BY <1>1, <1>3, DeviceShape DEF Shaped
<1>4. CASE BootStep /\ ~start_terminals
  BY <1>1, <1>4, BootShape DEF Shaped
<1>5. CASE start_terminals
  <2>1. base' \in [Thread -> Doing] /\ stack' = stack
    BY <1>5 DEF start_terminals, Doing
  <2>. QED
    BY <1>1, <2>1 DEF Shaped
<1>6. CASE Running
  BY <1>1, <1>6, RunningShape DEF Shaped, Becomes
<1>7. ASSUME NEW r \in Line, SendEoi(r) \/ ReadData(r) \/ Act(r)
      PROVE  Shaped'
  <2>1. PICK what \in {"eoi", "act", "read"} : About(r, what) /\ Advance
    BY <1>7 DEF SendEoi, ReadData, Act
  <2>2. PICK g \in Active : stack' = [stack EXCEPT ![cur] = <<g>>]
    BY <1>1, <2>1, Advancing
  <2>3. base' = base
    BY <1>7 DEF SendEoi, ReadData, Act
  <2>. QED
    BY <1>1, <1>2, <2>2, <2>3 DEF Shaped
<1>8. CASE ReadC \/ Schedule
  <2>1. PICK r \in Line, what \in {"readC", "schedule"} :
          About(r, what) /\ Advance
    BY <1>8 DEF ReadC, Schedule, Line
  <2>2. PICK g \in Active : stack' = [stack EXCEPT ![cur] = <<g>>]
    BY <1>1, <2>1, Advancing
  <2>3. base' = base
    BY <1>8 DEF ReadC, Schedule
  <2>. QED
    BY <1>1, <1>2, <2>2, <2>3 DEF Shaped
<1>9. ASSUME NEW r \in Line, Iret(r)
      PROVE  Shaped'
  <2>1. PICK f \in Active : stack[cur] = <<f>>
    BY <1>1, <1>9, OneFrame DEF Iret, About
  <2>2. SubSeq(stack[cur], 1, Len(stack[cur]) - 1) = <<>>
    BY <2>1
  <2>3. stack' = [stack EXCEPT ![cur] = <<>>] /\ base' = base
    BY <1>9, <2>2 DEF Iret
  <2>. QED
    BY <1>1, <1>2, <2>3 DEF Shaped
<1>10. ASSUME NEW r \in Line, KillsCurrent(r)
       PROVE  Shaped'
  <2>1. /\ stack' = [stack EXCEPT ![cur] = <<>>]
        /\ \E doing \in Doing : base' = [base EXCEPT ![cur] = doing]
    BY <1>10 DEF KillsCurrent, Successors, Doing
  <2>. QED
    BY <1>1, <1>2, <2>1 DEF Shaped
<1>11. ASSUME NEW r \in Line, NEW t \in Terminal, KillsOther(r, t)
       PROVE  Shaped'
  <2>1. PICK g \in Active : stack' = [stack EXCEPT ![t] = <<>>, ![cur] = <<g>>]
    BY <1>1, <1>11, KillShape
  <2>2. \E doing \in Doing : base' = [base EXCEPT ![t] = doing]
    BY <1>11 DEF KillsOther, Successors, Doing
  <2>. QED
    BY <1>1, <1>2, <2>1, <2>2 DEF Shaped
<1>12. ASSUME NEW r \in Line, Deliver(r)
       PROVE  Shaped'
  <2>1. stack[cur] = <<>>
    BY <1>12 DEF Deliver, Inv, Calm
  <2>2. LineOf(VectorOf(r)) = r
    BY DEF LineOf, VectorOf, ICW2_MASTER, ICW2_SLAVE, Line, PIT_IRQ,
           KEYBOARD_IRQ, RTC_IRQ, MOUSE_IRQ
  <2>. DEFINE f == [irq |-> r, at |-> 1, flag |-> iflag]
  <2>3. f \in Frames /\ f.at =< Len(Handler[f.irq])
    BY Places DEF Frames, Inv, TypeOK, ControlType
  <2>4. f \in Active
    BY <2>3 DEF Active
  <2>5. Append(<<>>, f) = <<f>>
    OBVIOUS
  <2>6. stack' = [stack EXCEPT ![cur] = <<f>>] /\ base' = base
    BY <1>12, <2>1, <2>2, <2>5 DEF Deliver
  <2>. HIDE DEF f
  <2>. QED
    BY <1>1, <1>2, <2>4, <2>6 DEF Shaped
<1>. QED
  BY <1>3, <1>4, <1>5, <1>6, <1>7, <1>8, <1>9, <1>10, <1>11, <1>12
  DEF Next, HandlerStep, DeviceStep, Running

(* A parked thread has nothing in service.                                 *)
LEMMA ParkedQuiet ==
  ASSUME NEW s, Parked(s)
  PROVE  InService(s) = {}
BY InServiceOf DEF Parked, PIT_IRQ, KEYBOARD_IRQ, RTC_IRQ, MOUSE_IRQ

(* A step of a handler that changes only its own stack leaves in service   *)
(* what it finds in service, unless it sends the end of interrupt.         *)
LEMMA OwnStep ==
  ASSUME Inv, NEW r \in Line, NEW what \in {"act", "read", "readC"},
         NEW f \in Active, NEW g \in Active,
         stack[cur] = <<f>>, f.irq = r, f.at \in Place(r, what),
         g.irq = r, g.at = f.at + 1
  PROVE  isr = InService(<<g>>)
<1>1. isr = InService(<<f>>)
  BY DEF Inv, Service
<1>2. \/ r = PIT_IRQ /\ f.at = 2
      \/ r = KEYBOARD_IRQ /\ f.at \in {2, 3}
      \/ r \in {RTC_IRQ, MOUSE_IRQ} /\ f.at = 1
  BY Places DEF Line
<1>3. CASE r = PIT_IRQ \/ r = KEYBOARD_IRQ
  <2>1. f.at # 1 /\ g.at # 1 /\ r \notin {RTC_IRQ, MOUSE_IRQ}
    BY <1>2, <1>3 DEF PIT_IRQ, KEYBOARD_IRQ, RTC_IRQ, MOUSE_IRQ
  <2>2. InService(<<f>>) = {} /\ InService(<<g>>) = {}
    BY <2>1, InServiceOf
  <2>. QED
    BY <1>1, <2>2
<1>4. CASE r = RTC_IRQ \/ r = MOUSE_IRQ
  <2>1. f.at = 1 /\ g.at = 2
    BY <1>2, <1>4 DEF PIT_IRQ, KEYBOARD_IRQ, RTC_IRQ, MOUSE_IRQ
  <2>2. InService(<<f>>) = Path(r) /\ InService(<<g>>) = Path(r)
    BY <1>4, <2>1, InServiceOf
  <2>. QED
    BY <1>1, <2>2
<1>. QED
  BY <1>3, <1>4 DEF Line

(* Interrupts are on only where no handler runs; who does not run is       *)
(* parked; and the 8259s follow the handler that runs.                     *)
LEMMA CalmStep ==
  ASSUME Inv, Next
  PROVE  Calm' /\ Service'
<1>1. /\ Shaped /\ cur \in Thread /\ isr = InService(stack[cur])
      /\ Calm /\ Terminal \subseteq Thread
  BY DEF Inv, TypeOK, ControlType, Service, Thread
<1>2. \A t \in Thread : stack[t] = <<>> => Parked(stack[t])
  BY DEF Parked
<1>3. ASSUME cur' \in Thread, iflag' = FALSE, isr' = {},
             \A t \in Thread : Parked(stack'[t])
      PROVE  Calm' /\ Service'
  <2>1. InService(stack'[cur']) = {}
    BY <1>3, ParkedQuiet
  <2>. QED
    BY <1>3, <2>1 DEF Calm, Service
<1>4. ASSUME UNCHANGED <<cur, stack, iflag, isr>>
      PROVE  Calm' /\ Service'
  BY <1>1, <1>4 DEF Calm, Service
<1>5. CASE DeviceStep
  BY <1>4, <1>5, DeviceShape
<1>6. CASE BootStep /\ ~start_terminals
  <2>1. /\ stack[cur] = <<>> /\ UNCHANGED <<cur, base, stack>>
        /\ isr' = isr \/ isr' = {}
    BY <1>6, BootShape
  <2>2. isr = {} /\ isr' = {}
    BY <1>1, <2>1, InServiceOf
  <2>. QED
    BY <1>1, <2>1, <2>2 DEF Calm, Service
<1>7. CASE start_terminals
  <2>1. /\ stack[cur] = <<>> /\ cur' = 0 /\ iflag' = FALSE
        /\ stack' = stack /\ isr' = isr
    BY <1>7 DEF start_terminals, Booting, picVars
  <2>2. isr' = {}
    BY <1>1, <2>1, InServiceOf
  <2>3. 0 \in Thread
    BY InterruptsAssumption DEF Thread, Terminal
  <2>4. \A t \in Thread : Parked(stack'[t])
    BY <1>1, <1>2, <2>1 DEF Calm
  <2>. QED
    BY <1>3, <2>1, <2>2, <2>3, <2>4
<1>8. CASE Running
  <2>1. stack[cur] = <<>> /\ UNCHANGED <<cur, stack, isr>>
    BY <1>8, RunningShape DEF Becomes, picVars
  <2>. QED
    BY <1>1, <2>1 DEF Calm, Service
<1>9. ASSUME NEW r \in Line, SendEoi(r)
      PROVE  Calm' /\ Service'
  <2>1. /\ About(r, "eoi") /\ Advance /\ isr' = isr \ Path(r)
        /\ cur' = cur /\ iflag' = iflag
    BY <1>9 DEF SendEoi, Acknowledged
  <2>2. PICK f, g \in Active :
          /\ stack[cur] = <<f>> /\ f.irq = r /\ f.at \in Place(r, "eoi")
          /\ g.irq = r /\ g.at = f.at + 1
          /\ stack' = [stack EXCEPT ![cur] = <<g>>]
    BY <1>1, <2>1, Advancing
  <2>3. g.at = IF r \in {PIT_IRQ, KEYBOARD_IRQ} THEN 2 ELSE 3
    BY <2>2, Places
  <2>4. InService(<<g>>) = {}
    <3>1. /\ g.irq \in {PIT_IRQ, KEYBOARD_IRQ} => g.at # 1
          /\ g.irq \in {RTC_IRQ, MOUSE_IRQ} => g.at \notin {1, 2}
      BY <2>2, <2>3 DEF PIT_IRQ, KEYBOARD_IRQ, RTC_IRQ, MOUSE_IRQ
    <3>. QED
      BY <3>1, InServiceOf
  <2>5. isr' = {}
    BY <2>1, <2>2, HandlerService
  <2>6. iflag = FALSE
    BY <1>1, <2>2 DEF Calm, Inv, TypeOK, ControlType
  <2>7. stack'[cur'] = <<g>> /\ \A t \in Thread \ {cur} : stack'[t] = stack[t]
    BY <1>1, <2>1, <2>2 DEF Shaped
  <2>. QED
    BY <1>1, <2>1, <2>4, <2>5, <2>6, <2>7 DEF Calm, Service
<1>10. ASSUME NEW r \in Line, ReadData(r) \/ Act(r) \/ (r = RTC_IRQ /\ ReadC)
       PROVE  Calm' /\ Service'
  <2>1. PICK what \in {"act", "read", "readC"} : About(r, what) /\ Advance
    BY <1>10 DEF ReadData, Act, ReadC
  <2>2. UNCHANGED <<cur, iflag, isr>>
    BY <1>10 DEF ReadData, Act, ReadC, picVars
  <2>3. PICK f, g \in Active :
          /\ stack[cur] = <<f>> /\ f.irq = r /\ f.at \in Place(r, what)
          /\ g.irq = r /\ g.at = f.at + 1
          /\ stack' = [stack EXCEPT ![cur] = <<g>>]
    BY <1>1, <2>1, Advancing
  <2>4. isr' = InService(<<g>>)
    BY <2>2, <2>3, OwnStep
  <2>5. iflag = FALSE
    BY <1>1, <2>3 DEF Calm, Inv, TypeOK, ControlType
  <2>6. stack'[cur'] = <<g>> /\ \A t \in Thread \ {cur} : stack'[t] = stack[t]
    BY <1>1, <2>2, <2>3 DEF Shaped
  <2>. QED
    BY <1>1, <2>2, <2>4, <2>5, <2>6 DEF Calm, Service
<1>11. ASSUME NEW r \in Line, NEW t \in Terminal, KillsOther(r, t)
       PROVE  Calm' /\ Service'
  <2>1. UNCHANGED <<cur, iflag, isr>> /\ t # cur
    BY <1>11 DEF KillsOther, picVars
  <2>2. PICK f, g \in Active :
          /\ stack[cur] = <<f>> /\ f.irq = r /\ f.at \in Place(r, "act")
          /\ g.irq = r /\ g.at = f.at + 1
          /\ stack' = [stack EXCEPT ![t] = <<>>, ![cur] = <<g>>]
    BY <1>1, <1>11, KillShape
  <2>3. isr' = InService(<<g>>)
    BY <2>1, <2>2, OwnStep
  <2>4. iflag = FALSE
    BY <1>1, <2>2 DEF Calm, Inv, TypeOK, ControlType
  <2>5. /\ stack'[cur'] = <<g>>
        /\ \A u \in Thread \ {cur} : stack'[u] = stack[u] \/ stack'[u] = <<>>
    BY <1>1, <2>1, <2>2 DEF Shaped
  <2>6. \A u \in Thread \ {cur} : Parked(stack'[u])
    BY <1>1, <2>5 DEF Calm, Parked
  <2>. QED
    BY <2>1, <2>3, <2>4, <2>5, <2>6 DEF Calm, Service
<1>12. CASE Schedule
  <2>1. /\ About(PIT_IRQ, "schedule") /\ Advance /\ iflag' = FALSE
        /\ isr' = isr /\ cur' \in Thread
    BY <1>1, <1>12 DEF Schedule, picVars
  <2>2. PICK f, g \in Active :
          /\ stack[cur] = <<f>> /\ f.irq = PIT_IRQ
          /\ f.at \in Place(PIT_IRQ, "schedule")
          /\ g.irq = PIT_IRQ /\ g.at = f.at + 1
          /\ stack' = [stack EXCEPT ![cur] = <<g>>]
    BY <1>1, <2>1, Advancing
  <2>3. f.at = 3 /\ g.at = 4
    BY <2>2, Places DEF Line, PIT_IRQ
  <2>4. isr' = {}
    BY <2>1, <2>2, <2>3, HandlerService
    DEF PIT_IRQ, KEYBOARD_IRQ, RTC_IRQ, MOUSE_IRQ
  <2>5. Parked(<<g>>)
    BY <2>2, <2>3 DEF Parked
  <2>6. \A t \in Thread : Parked(stack'[t])
    BY <1>1, <2>2, <2>5 DEF Calm, Shaped
  <2>. QED
    BY <1>3, <2>1, <2>4, <2>6
<1>13. ASSUME NEW r \in Line, KillsCurrent(r)
       PROVE  Calm' /\ Service'
  <2>1. /\ About(r, "act") /\ cur' \in Thread /\ iflag' = FALSE /\ isr' = isr
        /\ stack' = [stack EXCEPT ![cur] = <<>>]
    BY <1>1, <1>13 DEF KillsCurrent, picVars
  <2>2. PICK f \in Active :
          stack[cur] = <<f>> /\ f.irq = r /\ f.at \in Place(r, "act")
    BY <1>1, <2>1, NextFrame
  <2>3. isr' = {}
    BY <2>1, <2>2, Places, HandlerService
    DEF PIT_IRQ, KEYBOARD_IRQ, RTC_IRQ, MOUSE_IRQ, Line
  <2>4. \A t \in Thread : Parked(stack'[t])
    BY <1>1, <2>1 DEF Calm, Shaped, Parked
  <2>. QED
    BY <1>3, <2>1, <2>3, <2>4
<1>14. ASSUME NEW r \in Line, Iret(r)
       PROVE  Calm' /\ Service'
  <2>1. /\ About(r, "iret") /\ UNCHANGED <<cur, isr>>
        /\ stack' = [stack EXCEPT ![cur] = SubSeq(stack[cur], 1, Len(stack[cur]) - 1)]
    BY <1>14 DEF Iret, picVars
  <2>2. PICK f \in Active : stack[cur] = <<f>> /\ Top(cur) = f
    BY <1>1, <2>1, OneFrame DEF About
  <2>3. f.irq = r /\ f.at \in Place(r, "iret")
    BY <2>1, <2>2, Ahead DEF About, Place
  <2>4. isr' = {}
    BY <2>1, <2>2, <2>3, Places, HandlerService
    DEF PIT_IRQ, KEYBOARD_IRQ, RTC_IRQ, MOUSE_IRQ, Line
  <2>5. SubSeq(stack[cur], 1, Len(stack[cur]) - 1) = <<>>
    BY <2>2
  <2>6. stack'[cur'] = <<>> /\ \A t \in Thread \ {cur} : stack'[t] = stack[t]
    BY <1>1, <2>1, <2>5 DEF Shaped
  <2>. QED
    BY <1>1, <2>1, <2>4, <2>6, InServiceOf DEF Calm, Service
<1>15. ASSUME NEW r \in Line, Deliver(r)
       PROVE  Calm' /\ Service'
  <2>1. /\ stack[cur] = <<>> /\ cur' = cur /\ iflag' = FALSE
        /\ isr' = isr \cup Path(r)
    BY <1>1, <1>15 DEF Deliver, Calm, AfterGate
  <2>2. LineOf(VectorOf(r)) = r
    BY DEF LineOf, VectorOf, ICW2_MASTER, ICW2_SLAVE, Line, PIT_IRQ,
           KEYBOARD_IRQ, RTC_IRQ, MOUSE_IRQ
  <2>. DEFINE f == [irq |-> r, at |-> 1, flag |-> iflag]
  <2>3. f.irq = r /\ f.at = 1 /\ Append(<<>>, f) = <<f>>
    OBVIOUS
  <2>4. f \in Active
    BY Places DEF Active, Frames, Inv, TypeOK, ControlType
  <2>5. stack' = [stack EXCEPT ![cur] = <<f>>]
    BY <1>15, <2>1, <2>2, <2>3 DEF Deliver
  <2>. HIDE DEF f
  <2>6. stack'[cur'] = <<f>> /\ \A t \in Thread \ {cur} : stack'[t] = stack[t]
    BY <1>1, <2>1, <2>5 DEF Shaped
  <2>7. isr' = Path(r)
    BY <1>1, <2>1, InServiceOf
  <2>8. InService(<<f>>) = Path(r)
    BY <2>3, <2>4, InServiceOf DEF Line
  <2>. QED
    BY <1>1, <2>1, <2>6, <2>7, <2>8 DEF Calm, Service
<1>. QED
  BY <1>5, <1>6, <1>7, <1>8, <1>9, <1>10, <1>11, <1>12, <1>13, <1>14, <1>15
  DEF Next, HandlerStep, DeviceStep, Running, Line

----------------------------------------------------------------------------
(* The types.                                                              *)
LEMMA BaseStep ==
  ASSUME Inv, Next
  PROVE  /\ base'[Boot] \in {"boot", "none"}
         /\ \A t \in Terminal : base'[t] \in Doing \ {"boot"}
<1>1. /\ base[Boot] \in {"boot", "none"} /\ base \in [Thread -> Doing]
      /\ \A t \in Terminal : base[t] \in Doing \ {"boot"}
      /\ Boot \in Thread /\ Boot \notin Terminal
      /\ Thread = Terminal \cup {Boot} /\ cur \in Thread
  BY InterruptsAssumption
  DEF Inv, TypeOK, ControlType, StackType, Shaped, Thread, Terminal, Doing
<1>2. CASE base' = base
  BY <1>1, <1>2
<1>3. CASE start_terminals
  BY <1>1, <1>3 DEF start_terminals, Doing
<1>4. CASE BootStep /\ ~start_terminals
  BY <1>2, <1>4, BootShape
<1>5. CASE DeviceStep
  BY <1>2, <1>5, DeviceShape
<1>6. CASE Running
  <2>1. cur \in Terminal
    BY <1>1, <1>6, RunningShape
  <2>2. PICK doing \in Doing \ {"boot"} : base' = [base EXCEPT ![cur] = doing]
    BY <1>6 DEF Running, ThreadStep, Load, EnterUser, LeaveSection, Return,
                EnterSection, Execute, End, Becomes, Successors, Doing
  <2>. QED
    BY <1>1, <2>1, <2>2
<1>7. CASE \E r \in Line : KillsCurrent(r) \/ \E t \in Terminal : KillsOther(r, t)
  <2>1. PICK t \in Terminal, doing \in Doing \ {"boot"} :
          base' = [base EXCEPT ![t] = doing]
    BY <1>1, <1>7 DEF KillsCurrent, KillsOther, Present, Successors, Doing
  <2>. QED
    BY <1>1, <2>1
<1>8. CASE \E r \in Line : SendEoi(r) \/ ReadData(r) \/ Act(r) \/ Iret(r)
                          \/ Deliver(r)
  BY <1>2, <1>8 DEF SendEoi, ReadData, Act, Iret, Deliver
<1>9. CASE ReadC \/ Schedule
  BY <1>2, <1>9 DEF ReadC, Schedule
<1>. QED
  BY <1>3, <1>4, <1>5, <1>6, <1>7, <1>8, <1>9
  DEF Next, HandlerStep, DeviceStep, Running

LEMMA ControlStep ==
  ASSUME Inv, Next
  PROVE  ControlType'
<1>1. ControlType /\ 0 \in Thread /\ Terminal \subseteq Thread
  BY InterruptsAssumption DEF Inv, TypeOK, Thread, Terminal
<1>. USE DEF ControlType
<1>2. CASE DeviceStep
  BY <1>1, <1>2, DeviceShape
<1>3. CASE init_idt_table \/ paging_init \/ fs_init \/ init_proc_mgmt
           \/ init_terminals \/ init_gui
  BY <1>1, <1>3
  DEF init_idt_table, paging_init, fs_init, init_proc_mgmt, init_terminals,
      init_gui, BootCall, Initialised
<1>4. CASE i8259_init \/ pit_init \/ rtc_init \/ keyboard_init
  BY <1>1, <1>4
  DEF i8259_init, pit_init, rtc_init, keyboard_init, Attach, Restored, Line
<1>5. CASE mouse_init \/ MouseReport \/ MouseAck \/ MouseOn \/ MouseNone
  BY <1>1, <1>5
  DEF mouse_init, MouseReport, MouseAck, MouseOn, MouseNone, Attach, Restored,
      Panic, Line
<1>6. CASE Sti \/ FirstRender \/ start_terminals
  BY <1>1, <1>6 DEF Sti, FirstRender, start_terminals
<1>7. CASE Running
  BY <1>1, <1>7, RunningShape DEF Becomes
<1>8. ASSUME NEW r \in Line, SendEoi(r) \/ ReadData(r) \/ Act(r)
      PROVE  ControlType'
  BY <1>1, <1>8 DEF SendEoi, ReadData, Act
<1>9. ASSUME NEW r \in Line, Iret(r)
      PROVE  ControlType'
  <2>1. PICK f \in Active : Top(cur) = f
    BY <1>9, OneFrame DEF Inv, TypeOK, Iret, About
  <2>2. f.flag \in BOOLEAN
    BY DEF Active, Frames
  <2>. QED
    BY <1>1, <1>9, <2>1, <2>2 DEF Iret
<1>10. ASSUME NEW r \in Line,
              KillsCurrent(r) \/ \E t \in Terminal : KillsOther(r, t)
       PROVE  ControlType'
  BY <1>1, <1>10 DEF KillsCurrent, KillsOther
<1>11. CASE ReadC \/ Schedule
  BY <1>1, <1>11 DEF ReadC, Schedule, Panic
<1>12. ASSUME NEW r \in Line, Deliver(r)
       PROVE  ControlType'
  BY <1>1, <1>12 DEF Deliver, AfterGate, Panic
<1>. QED
  BY <1>2, <1>3, <1>4, <1>5, <1>6, <1>7, <1>8, <1>9, <1>10, <1>11, <1>12
  DEF Next, BootStep, HandlerStep, DeviceStep, Running

LEMMA PicStep ==
  ASSUME Inv, Next
  PROVE  PicType'
<1>1. PicType
  BY DEF Inv, TypeOK
<1>2. ASSUME NEW byte, NEW config PROVE Requested(byte, config) \subseteq Line
  BY DEF Requested, Line
<1>. USE DEF PicType
<1>3. CASE DeviceStep
  BY <1>1, <1>2, <1>3
  DEF DeviceStep, PitTick, RtcTick, KeyByte, MouseByte, ByteComes, Raise, Line
<1>4. CASE UNCHANGED picVars
  BY <1>1, <1>4 DEF picVars
<1>5. CASE init_idt_table \/ paging_init \/ fs_init \/ init_proc_mgmt
           \/ init_terminals \/ init_gui
  BY <1>4, <1>5
  DEF init_idt_table, paging_init, fs_init, init_proc_mgmt, init_terminals,
      init_gui, BootCall
<1>6. CASE i8259_init \/ pit_init \/ rtc_init \/ keyboard_init
  BY <1>1, <1>6
  DEF i8259_init, pit_init, rtc_init, keyboard_init, Attach, Masks
<1>7. CASE MouseReport \/ MouseOn
  BY <1>1, <1>2, <1>7 DEF MouseReport, MouseOn, Attach
<1>8. CASE mouse_init \/ MouseAck \/ MouseNone \/ Sti \/ FirstRender
           \/ start_terminals
  BY <1>4, <1>8
  DEF mouse_init, MouseAck, MouseNone, Sti, FirstRender, start_terminals
<1>9. CASE Running
  BY <1>4, <1>9, RunningShape DEF Becomes
<1>10. ASSUME NEW r \in Line, SendEoi(r) \/ Deliver(r)
       PROVE  PicType'
  BY <1>1, <1>10 DEF SendEoi, Deliver, Path
<1>11. ASSUME NEW r \in Line, ReadData(r) \/ Act(r) \/ Iret(r) \/ KillsCurrent(r)
                              \/ \E t \in Terminal : KillsOther(r, t)
       PROVE  PicType'
  BY <1>4, <1>11 DEF ReadData, Act, Iret, KillsCurrent, KillsOther
<1>12. CASE ReadC \/ Schedule
  BY <1>4, <1>12 DEF ReadC, Schedule
<1>. QED
  BY <1>3, <1>5, <1>6, <1>7, <1>8, <1>9, <1>10, <1>11, <1>12
  DEF Next, BootStep, HandlerStep, DeviceStep, Running

LEMMA DeviceTypeStep ==
  ASSUME Inv, Next
  PROVE  DeviceType'
<1>1. DeviceType
  BY DEF Inv, TypeOK
<1>. USE DEF DeviceType
<1>2. CASE UNCHANGED deviceVars
  BY <1>1, <1>2 DEF deviceVars
<1>3. CASE DeviceStep
  BY <1>1, <1>3
  DEF DeviceStep, PitTick, RtcTick, KeyByte, MouseByte, ByteComes, deviceVars
<1>4. CASE init_idt_table \/ paging_init \/ fs_init \/ init_proc_mgmt
           \/ init_terminals \/ init_gui \/ i8259_init \/ pit_init
           \/ keyboard_init
  BY <1>2, <1>4
  DEF init_idt_table, paging_init, fs_init, init_proc_mgmt, init_terminals,
      init_gui, BootCall, i8259_init, pit_init, keyboard_init
<1>5. CASE rtc_init \/ MouseReport \/ MouseAck \/ MouseOn \/ MouseNone
  BY <1>1, <1>5 DEF rtc_init, MouseReport, MouseAck, MouseOn, MouseNone, ReadAck
<1>6. CASE mouse_init
  BY <1>1, <1>6 DEF mouse_init
<1>7. CASE Sti \/ FirstRender \/ start_terminals
  BY <1>2, <1>7 DEF Sti, FirstRender, start_terminals
<1>8. CASE Running
  BY <1>2, <1>8, RunningShape DEF Becomes
<1>9. ASSUME NEW r \in Line, ReadData(r)
      PROVE  DeviceType'
  BY <1>1, <1>9 DEF ReadData
<1>10. CASE ReadC
  BY <1>1, <1>10 DEF ReadC, AfterReadC
<1>11. ASSUME NEW r \in Line, SendEoi(r) \/ Deliver(r) \/ Act(r) \/ Iret(r)
                              \/ KillsCurrent(r)
                              \/ \E t \in Terminal : KillsOther(r, t)
       PROVE  DeviceType'
  BY <1>2, <1>11 DEF SendEoi, Deliver, Act, Iret, KillsCurrent, KillsOther
<1>12. CASE Schedule
  BY <1>2, <1>12 DEF Schedule
<1>. QED
  BY <1>3, <1>4, <1>5, <1>6, <1>7, <1>8, <1>9, <1>10, <1>11, <1>12
  DEF Next, BootStep, HandlerStep, DeviceStep, Running

LEMMA TypeStep ==
  ASSUME Inv, Next
  PROVE  TypeOK'
<1>1. \A t \in Thread : \A k \in DOMAIN stack'[t] : stack'[t][k] \in Frames
  <2>1. \A t \in Thread : stack'[t] \in Stacks
    BY ShapedStep DEF Shaped
  <2>2. ASSUME NEW f \in Active PROVE \A k \in DOMAIN <<f>> : <<f>>[k] \in Frames
    BY DEF Active
  <2>3. \A k \in DOMAIN <<>> : <<>>[k] \in Frames
    OBVIOUS
  <2>4. ASSUME NEW s \in Stacks PROVE \A k \in DOMAIN s : s[k] \in Frames
    BY <2>2, <2>3 DEF Stacks
  <2>. QED
    BY <2>1, <2>4
<1>2. StackType'
  BY <1>1, BaseStep DEF StackType, Doing
<1>. QED
  BY <1>2, ControlStep, PicStep, DeviceTypeStep DEF TypeOK

----------------------------------------------------------------------------
(* The boot.                                                               *)

(* Until sti nothing happens but the boot and the devices.                 *)
LEMMA EarlySteps ==
  ASSUME Inv, Next, boot \notin Late
  PROVE  DeviceStep \/ BootStep
<1>1. cur = Boot /\ iflag = FALSE /\ stack[cur] = <<>>
  BY DEF Inv, Quiet, TypeOK, ControlType
<1>2. base[cur] \in {"boot", "none"}
  BY <1>1 DEF Inv, TypeOK, StackType
<1>3. ~Running
  BY <1>2, RunningShape
<1>4. ASSUME NEW r, NEW what PROVE ~About(r, what)
  BY <1>1 DEF About
<1>5. ~HandlerStep
  BY <1>4 DEF HandlerStep, SendEoi, ReadData, Act, Iret, KillsCurrent,
              KillsOther, ReadC, Schedule
<1>6. ASSUME NEW r PROVE ~Deliver(r)
  BY <1>1 DEF Deliver
<1>. QED
  BY <1>3, <1>5, <1>6 DEF Next, Running, DeviceStep

(* What only the boot changes.                                             *)
LEMMA OtherSteps ==
  ASSUME Inv, Next, ~BootStep
  PROVE  UNCHANGED <<boot, imr, registered, ready>>
<1>1. CASE DeviceStep
  BY <1>1, DeviceShape
<1>2. CASE Running
  BY <1>2, RunningShape DEF Becomes, picVars
<1>3. CASE HandlerStep
  BY <1>3 DEF HandlerStep, SendEoi, ReadData, Act, Iret, KillsCurrent,
              KillsOther, ReadC, Schedule, picVars
<1>4. ASSUME NEW r \in Line, Deliver(r)
      PROVE  UNCHANGED <<boot, imr, registered, ready>>
  BY <1>4 DEF Deliver
<1>. QED
  BY <1>1, <1>2, <1>3, <1>4 DEF Next, Running, DeviceStep

LEMMA QuietStep ==
  ASSUME Inv, Next
  PROVE  Quiet'
<1>1. CASE boot \in Late
  <2>1. boot' \in Late
    <3>1. CASE BootStep
      BY <1>1, <3>1
      DEF BootStep, init_idt_table, paging_init, fs_init, init_proc_mgmt,
          init_terminals, init_gui, BootCall, i8259_init, pit_init, rtc_init,
          keyboard_init, mouse_init, MouseReport, MouseAck, MouseOn, MouseNone,
          Sti, FirstRender, start_terminals, Booting, Late
    <3>2. CASE ~BootStep
      BY <1>1, <3>2, OtherSteps
    <3>. QED
      BY <3>1, <3>2
  <2>. QED
    BY <2>1 DEF Quiet
<1>2. CASE boot \notin Late
  <2>1. cur = Boot /\ iflag = FALSE /\ \A t \in Thread : stack[t] = <<>>
    BY <1>2 DEF Inv, Quiet
  <2>2. CASE DeviceStep
    BY <2>1, <2>2, DeviceShape DEF Quiet
  <2>3. CASE Sti \/ start_terminals
    BY <2>3 DEF Sti, start_terminals, Quiet, Late
  <2>4. CASE BootStep /\ ~Sti /\ ~start_terminals
    BY <2>1, <2>4, BootShape DEF Quiet
  <2>. QED
    BY <1>2, <2>2, <2>3, <2>4, EarlySteps
<1>. QED
  BY <1>1, <1>2

LEMMA UnmaskedStep ==
  ASSUME Inv, Next
  PROVE  Unmasked'
<1>1. Unmasked
  BY DEF Inv
<1>2. CASE ~BootStep
  BY <1>1, <1>2, OtherSteps DEF Unmasked
<1>3. CASE init_idt_table \/ paging_init \/ fs_init \/ init_proc_mgmt
           \/ init_terminals \/ init_gui
  BY <1>1, <1>3
  DEF init_idt_table, paging_init, fs_init, init_proc_mgmt, init_terminals,
      init_gui, BootCall, Booting, picVars, Unmasked
<1>4. CASE i8259_init
  <2>1. Line \ imr' = {}
    BY <1>4
    DEF i8259_init, Masks, Line, Cascade, PIT_IRQ, KEYBOARD_IRQ, RTC_IRQ, MOUSE_IRQ
  <2>. QED
    BY <2>1 DEF Unmasked
<1>5. CASE pit_init \/ rtc_init \/ keyboard_init \/ MouseOn
  <2>1. Line \ imr \subseteq registered
    BY <1>1, <1>5
    DEF pit_init, rtc_init, keyboard_init, MouseOn, Booting, Unmasked
  <2>2. PICK r : imr' = imr \ {r} /\ registered' = registered \cup {r}
    BY <1>5 DEF pit_init, rtc_init, keyboard_init, MouseOn, Attach
  <2>. QED
    BY <2>1, <2>2 DEF Unmasked
<1>6. CASE mouse_init \/ MouseReport \/ MouseAck \/ MouseNone \/ Sti
           \/ FirstRender \/ start_terminals
  BY <1>1, <1>6
  DEF mouse_init, MouseReport, MouseAck, MouseNone, Sti, FirstRender,
      start_terminals, Booting, picVars, Unmasked
<1>. QED
  BY <1>2, <1>3, <1>4, <1>5, <1>6 DEF BootStep

LEMMA AnsweredStep ==
  ASSUME Inv, Next
  PROVE  Answered'
<1>1. CASE boot' = "mouse_ack" /\ boot # "mouse_ack"
  <2>1. MouseReport
    <3>1. BootStep
      BY <1>1, OtherSteps
    <3>. QED
      BY <1>1, <3>1
      DEF BootStep, init_idt_table, paging_init, fs_init, init_proc_mgmt,
          init_terminals, init_gui, BootCall, i8259_init, pit_init, rtc_init,
          keyboard_init, mouse_init, MouseAck, MouseOn, MouseNone,
          Sti, FirstRender, start_terminals
  <2>. QED
    BY <2>1 DEF MouseReport, Answered
<1>2. CASE boot' = "mouse_ack" /\ boot = "mouse_ack"
  <2>1. buf = "ack" /\ boot \notin Late
    BY <1>2 DEF Inv, Answered, Late
  <2>2. CASE DeviceStep
    BY <2>1, <2>2
    DEF DeviceStep, PitTick, RtcTick, KeyByte, MouseByte, ByteComes, deviceVars,
        Answered
  <2>3. CASE BootStep
    BY <1>2, <2>3
    DEF BootStep, init_idt_table, paging_init, fs_init, init_proc_mgmt,
        init_terminals, init_gui, BootCall, i8259_init, pit_init, rtc_init,
        keyboard_init, mouse_init, MouseReport, MouseAck, MouseOn, MouseNone,
        Sti, FirstRender, start_terminals, Booting
  <2>. QED
    BY <2>1, <2>2, <2>3, EarlySteps
<1>. QED
  BY <1>1, <1>2 DEF Answered

LEMMA ProgressStep ==
  ASSUME Inv, Next
  PROVE  Progress'
<1>1. Progress
  BY DEF Inv
<1>. USE DEF Progress, Late
<1>2. CASE ~BootStep
  BY <1>1, <1>2, OtherSteps
<1>3. CASE init_idt_table \/ paging_init \/ fs_init
  BY <1>1, <1>3
  DEF init_idt_table, paging_init, fs_init, BootCall, Booting, Initialised
<1>4. CASE init_proc_mgmt \/ init_terminals \/ init_gui
  BY <1>1, <1>4
  DEF init_proc_mgmt, init_terminals, init_gui, BootCall, Booting, Initialised
<1>5. CASE i8259_init \/ pit_init \/ rtc_init \/ keyboard_init
  BY <1>1, <1>5
  DEF i8259_init, pit_init, rtc_init, keyboard_init, Booting
<1>6. CASE mouse_init \/ MouseReport \/ MouseAck \/ MouseOn \/ MouseNone
  BY <1>1, <1>6
  DEF mouse_init, MouseReport, MouseAck, MouseOn, MouseNone, Booting
<1>7. CASE Sti \/ FirstRender \/ start_terminals
  BY <1>1, <1>7 DEF Sti, FirstRender, start_terminals, Booting
<1>. QED
  BY <1>2, <1>3, <1>4, <1>5, <1>6, <1>7 DEF BootStep

(* The mouse answers, a line that is open has a handler, and the scheduler *)
(* has a process.                                                          *)
LEMMA NoPanicStep ==
  ASSUME Inv, Next
  PROVE  ~panicked'
<1>1. ~panicked
  BY DEF Inv
<1>2. CASE UNCHANGED panicked
  BY <1>1, <1>2
<1>3. CASE BootStep
  <2>1. CASE MouseAck
    BY <1>1, <2>1 DEF MouseAck, Booting, Inv, Answered
  <2>2. CASE ~MouseAck
    BY <1>2, <1>3, <2>2
    DEF BootStep, init_idt_table, paging_init, fs_init, init_proc_mgmt,
        init_terminals, init_gui, BootCall, i8259_init, pit_init, rtc_init,
        keyboard_init, mouse_init, MouseReport, MouseOn, MouseNone,
        Sti, FirstRender, start_terminals
  <2>. QED
    BY <2>1, <2>2
<1>4. CASE DeviceStep
  BY <1>2, <1>4, DeviceShape
<1>5. CASE Running
  BY <1>2, <1>5, RunningShape DEF Becomes
<1>6. ASSUME NEW r \in Line, SendEoi(r) \/ ReadData(r) \/ Act(r) \/ Iret(r)
                             \/ KillsCurrent(r)
                             \/ \E t \in Terminal : KillsOther(r, t)
      PROVE  ~panicked'
  BY <1>2, <1>6 DEF SendEoi, ReadData, Act, Iret, KillsCurrent, KillsOther
<1>7. CASE ReadC \/ Schedule
  BY <1>1, <1>7 DEF ReadC, Schedule, Present
<1>8. ASSUME NEW r \in Line, Deliver(r)
      PROVE  ~panicked'
  <2>1. boot \in Late
    BY <1>8 DEF Deliver, Inv, Quiet
  <2>2. "idt" \in ready /\ Line \ imr \subseteq registered
    BY <2>1 DEF Inv, Progress, Unmasked, Late
  <2>3. r \notin imr
    BY <1>8 DEF Deliver, Deliverable, Path
  <2>4. LineOf(VectorOf(r)) = r
    BY DEF LineOf, VectorOf, ICW2_MASTER, ICW2_SLAVE, Line, PIT_IRQ,
           KEYBOARD_IRQ, RTC_IRQ, MOUSE_IRQ
  <2>. QED
    BY <1>1, <1>8, <2>2, <2>3, <2>4 DEF Deliver
<1>. QED
  BY <1>3, <1>4, <1>5, <1>6, <1>7, <1>8
  DEF Next, HandlerStep, DeviceStep, Running

----------------------------------------------------------------------------
(* The devices.                                                            *)
LEMMA PortsStep ==
  ASSUME Inv, Next
  PROVE  Ports'
<1>1. Ports /\ Answered /\ PicType /\ DeviceType
  BY DEF Inv, TypeOK
<1>. USE DEF Ports, BeforeRtc, BeforeMouse, BeforeFiles
<1>2. ASSUME UNCHANGED <<boot, registered, ready, ps2, rtc, drained>>,
             irr' \subseteq irr, buf' = buf \/ buf' = "none"
      PROVE  Ports'
  BY <1>1, <1>2
<1>3. CASE PitTick \/ RtcTick
  BY <1>1, <1>3
  DEF PitTick, RtcTick, Raise, deviceVars, DeviceType, PIT_IRQ, RTC_IRQ, MOUSE_IRQ
<1>4. CASE KeyByte \/ MouseByte
  BY <1>1, <1>4
  DEF KeyByte, MouseByte, ByteComes, Requested, KEYBOARD_IRQ, MOUSE_IRQ
<1>5. CASE Running
  BY <1>2, <1>5, RunningShape DEF Becomes, picVars, deviceVars
<1>6. ASSUME NEW r \in Line, SendEoi(r) \/ ReadData(r) \/ Act(r) \/ Iret(r)
                             \/ KillsCurrent(r) \/ Deliver(r)
                             \/ \E t \in Terminal : KillsOther(r, t)
      PROVE  Ports'
  BY <1>2, <1>6
  DEF SendEoi, ReadData, Act, Iret, KillsCurrent, Deliver, KillsOther, picVars,
      deviceVars
<1>7. CASE Schedule
  BY <1>2, <1>7 DEF Schedule, picVars, deviceVars
<1>8. CASE ReadC
  BY <1>1, <1>8 DEF ReadC, AfterReadC, picVars, DeviceType
<1>9. CASE init_idt_table \/ paging_init
  BY <1>1, <1>9
  DEF init_idt_table, paging_init, BootCall, Booting, Initialised, picVars,
      deviceVars
<1>10. CASE fs_init \/ init_proc_mgmt \/ init_terminals \/ init_gui
  BY <1>1, <1>10
  DEF fs_init, init_proc_mgmt, init_terminals, init_gui, BootCall, Booting,
      Initialised, picVars, deviceVars
<1>11. CASE i8259_init \/ pit_init \/ keyboard_init
  BY <1>1, <1>11
  DEF i8259_init, pit_init, keyboard_init, Booting, Attach, deviceVars, PIT_IRQ,
      KEYBOARD_IRQ, MOUSE_IRQ
<1>12. CASE rtc_init
  BY <1>1, <1>12 DEF rtc_init, Booting, Attach, RTC_IRQ, MOUSE_IRQ
<1>13. CASE mouse_init
  BY <1>1, <1>13 DEF mouse_init, Booting, picVars, DeviceType
<1>14. CASE MouseReport
  BY <1>1, <1>14 DEF MouseReport, Booting, Requested, DeviceType
<1>15. CASE MouseAck
  BY <1>1, <1>15 DEF MouseAck, Booting, ReadAck, picVars
<1>16. CASE MouseOn
  BY <1>1, <1>16 DEF MouseOn, Booting, Attach, Requested, DeviceType
<1>17. CASE MouseNone
  BY <1>1, <1>17 DEF MouseNone, Booting, picVars, DeviceType
<1>18. CASE Sti \/ FirstRender \/ start_terminals
  BY <1>1, <1>18
  DEF Sti, FirstRender, start_terminals, Booting, picVars, deviceVars
<1>. QED
  BY <1>3, <1>4, <1>5, <1>6, <1>7, <1>8, <1>9, <1>10, <1>11, <1>12, <1>13,
     <1>14, <1>15, <1>16, <1>17, <1>18
  DEF Next, BootStep, HandlerStep, Running

(* Whether the handler that runs is on its way to the byte of its device.  *)
LEMMA ReadingOf ==
  /\ \A r : ~Reading(<<>>, r)
  /\ \A f \in Active : \A r :
       Reading(<<f>>, r) <=>
         f.irq = r /\ f.at =< IF r = KEYBOARD_IRQ THEN 2 ELSE 1
BY DEF Reading

LEMMA ParkedReads ==
  ASSUME NEW s, Parked(s), NEW r \in {KEYBOARD_IRQ, RTC_IRQ, MOUSE_IRQ}
  PROVE  ~Reading(s, r)
<1>1. CASE s = <<>>
  BY <1>1, ReadingOf
<1>2. CASE \E f \in Active : s = <<f>> /\ f.irq = PIT_IRQ
  BY <1>2, ReadingOf DEF PIT_IRQ, KEYBOARD_IRQ, RTC_IRQ, MOUSE_IRQ
<1>. QED
  BY <1>1, <1>2 DEF Parked

Readers == {KEYBOARD_IRQ, RTC_IRQ, MOUSE_IRQ}

LEMMA ReadingDelivered ==
  ASSUME Inv, NEW q \in Line, Deliver(q)
  PROVE  \A r \in Readers : /\ ~Reading(stack[cur], r)
                            /\ Reading(stack'[cur'], r) <=> r = q
<1>1. stack[cur] = <<>> /\ cur' = cur /\ cur \in Thread
  BY DEF Deliver, Inv, Calm, TypeOK, ControlType
<1>2. LineOf(VectorOf(q)) = q
  BY DEF LineOf, VectorOf, ICW2_MASTER, ICW2_SLAVE, Line, PIT_IRQ,
         KEYBOARD_IRQ, RTC_IRQ, MOUSE_IRQ
<1>. DEFINE f == [irq |-> q, at |-> 1, flag |-> iflag]
<1>3. f.irq = q /\ f.at = 1 /\ Append(<<>>, f) = <<f>>
  OBVIOUS
<1>4. f \in Active
  BY Places DEF Active, Frames, Inv, TypeOK, ControlType
<1>5. stack' = [stack EXCEPT ![cur] = <<f>>]
  BY <1>1, <1>2, <1>3 DEF Deliver
<1>. HIDE DEF f
<1>6. stack'[cur'] = <<f>>
  BY <1>1, <1>5 DEF Inv, Shaped
<1>. QED
  BY <1>1, <1>3, <1>4, <1>6, ReadingOf

(* A handler that reads was on its way to what it reads.                   *)
LEMMA ReadingEnds ==
  ASSUME Inv, NEW q \in Line, ReadData(q) \/ (q = RTC_IRQ /\ ReadC)
  PROVE  /\ q \in Readers
         /\ \A r \in Readers : /\ Reading(stack[cur], r) <=> r = q
                               /\ ~Reading(stack'[cur'], r)
<1>1. /\ Shaped /\ cur \in Thread /\ cur' = cur /\ Advance
      /\ \/ About(q, "read")
         \/ q = RTC_IRQ /\ About(q, "readC")
  BY DEF Inv, TypeOK, ControlType, ReadData, ReadC
<1>2. PICK what \in {"read", "readC"} :
        About(q, what) /\ (what = "readC" => q = RTC_IRQ)
  BY <1>1
<1>3. PICK f, g \in Active :
        /\ stack[cur] = <<f>> /\ f.irq = q /\ f.at \in Place(q, what)
        /\ g.irq = q /\ g.at = f.at + 1
        /\ stack' = [stack EXCEPT ![cur] = <<g>>]
  BY <1>1, <1>2, Advancing
<1>4. q \in Readers /\ f.at = IF q = KEYBOARD_IRQ THEN 2 ELSE 1
  BY <1>2, <1>3, Places
  DEF Readers, PIT_IRQ, KEYBOARD_IRQ, RTC_IRQ, MOUSE_IRQ
<1>5. stack'[cur'] = <<g>>
  BY <1>1, <1>3 DEF Shaped
<1>6. ASSUME NEW r \in Readers
      PROVE  /\ Reading(stack[cur], r) <=> r = q
             /\ ~Reading(stack'[cur'], r)
  BY <1>3, <1>4, <1>5, ReadingOf
<1>. QED
  BY <1>4, <1>6

(* No other step takes a handler there, or away: the handlers that kill,   *)
(* switch or return have read already.                                     *)
LEMMA ReadingKept ==
  ASSUME Inv, NEW r \in Readers,
         \/ DeviceStep \/ BootStep \/ Running \/ Schedule
         \/ \E q \in Line : SendEoi(q) \/ Act(q) \/ Iret(q) \/ KillsCurrent(q)
                          \/ \E t \in Terminal : KillsOther(q, t)
  PROVE  Reading(stack'[cur'], r) <=> Reading(stack[cur], r)
<1>1. /\ Shaped /\ cur \in Thread /\ Calm /\ Terminal \subseteq Thread
      /\ \A t \in Thread : stack[t] = <<>> => Parked(stack[t])
      /\ 0 \in Thread
  BY InterruptsAssumption DEF Inv, TypeOK, ControlType, Thread, Terminal, Parked
<1>2. r \in {KEYBOARD_IRQ, RTC_IRQ, MOUSE_IRQ}
  BY DEF Readers
<1>3. CASE UNCHANGED <<cur, stack>>
  BY <1>3
<1>4. CASE DeviceStep
  BY <1>3, <1>4, DeviceShape
<1>5. CASE Running
  BY <1>3, <1>5, RunningShape DEF Becomes
<1>6. CASE BootStep /\ ~start_terminals
  BY <1>3, <1>6, BootShape
<1>7. CASE start_terminals
  <2>1. stack[cur] = <<>> /\ cur' = 0 /\ stack' = stack
    BY <1>7 DEF start_terminals, Booting
  <2>2. Parked(stack[cur]) /\ Parked(stack'[cur'])
    BY <1>1, <2>1 DEF Calm
  <2>. QED
    BY <1>2, <2>2, ParkedReads
<1>8. ASSUME NEW q \in Line, NEW what \in {"eoi", "act"}, NEW f \in Active,
             NEW g \in Active, stack[cur] = <<f>>, f.irq = q,
             f.at \in Place(q, what), g.irq = q, g.at = f.at + 1
      PROVE  Reading(<<g>>, r) <=> Reading(stack[cur], r)
  <2>1. \/ q = PIT_IRQ
        \/ q = KEYBOARD_IRQ /\ f.at \in {1, 3}
        \/ q \in {RTC_IRQ, MOUSE_IRQ} /\ f.at = 2
    BY <1>8, Places DEF Line
  <2>2. CASE q = KEYBOARD_IRQ /\ f.at \in {1, 3}
    BY <1>8, <2>2, ReadingOf
  <2>3. CASE q = PIT_IRQ
    <3>1. r # q
      BY <1>2, <2>3 DEF PIT_IRQ, KEYBOARD_IRQ, RTC_IRQ, MOUSE_IRQ
    <3>. QED
      BY <1>8, <3>1, ReadingOf
  <2>4. CASE q \in {RTC_IRQ, MOUSE_IRQ} /\ f.at = 2
    <3>1. q # KEYBOARD_IRQ /\ f.at = 2 /\ g.at = 3
      BY <1>8, <2>4 DEF KEYBOARD_IRQ, RTC_IRQ, MOUSE_IRQ
    <3>. QED
      BY <1>8, <3>1, ReadingOf
  <2>. QED
    BY <2>1, <2>2, <2>3, <2>4
<1>9. ASSUME NEW q \in Line, SendEoi(q) \/ Act(q)
      PROVE  Reading(stack'[cur'], r) <=> Reading(stack[cur], r)
  <2>1. PICK what \in {"eoi", "act"} : About(q, what) /\ Advance /\ cur' = cur
    BY <1>9 DEF SendEoi, Act
  <2>2. PICK f, g \in Active :
          /\ stack[cur] = <<f>> /\ f.irq = q /\ f.at \in Place(q, what)
          /\ g.irq = q /\ g.at = f.at + 1
          /\ stack' = [stack EXCEPT ![cur] = <<g>>]
    BY <1>1, <2>1, Advancing
  <2>3. stack'[cur'] = <<g>>
    BY <1>1, <2>1, <2>2 DEF Shaped
  <2>. QED
    BY <1>8, <2>2, <2>3
<1>10. ASSUME NEW q \in Line, NEW t \in Terminal, KillsOther(q, t)
       PROVE  Reading(stack'[cur'], r) <=> Reading(stack[cur], r)
  <2>1. cur' = cur /\ t # cur
    BY <1>10 DEF KillsOther
  <2>2. PICK f, g \in Active :
          /\ stack[cur] = <<f>> /\ f.irq = q /\ f.at \in Place(q, "act")
          /\ g.irq = q /\ g.at = f.at + 1
          /\ stack' = [stack EXCEPT ![t] = <<>>, ![cur] = <<g>>]
    BY <1>1, <1>10, KillShape
  <2>3. stack'[cur'] = <<g>>
    BY <1>1, <2>1, <2>2 DEF Shaped
  <2>. QED
    BY <1>8, <2>2, <2>3
<1>11. CASE Schedule
  <2>1. About(PIT_IRQ, "schedule") /\ cur' \in Thread /\ Advance
    BY <1>1, <1>11 DEF Schedule
  <2>2. PICK f, g \in Active :
          /\ stack[cur] = <<f>> /\ f.irq = PIT_IRQ /\ g.irq = PIT_IRQ
          /\ stack' = [stack EXCEPT ![cur] = <<g>>]
    BY <1>1, <2>1, Advancing
  <2>3. r # PIT_IRQ
    BY <1>2 DEF PIT_IRQ, KEYBOARD_IRQ, RTC_IRQ, MOUSE_IRQ
  <2>4. ~Reading(stack[cur], r) /\ ~Reading(<<g>>, r)
    BY <2>2, <2>3, ReadingOf
  <2>5. \A t \in Thread \ {cur} : ~Reading(stack'[t], r)
    BY <1>1, <1>2, <2>2, ParkedReads DEF Calm, Shaped
  <2>6. stack'[cur] = <<g>>
    BY <1>1, <2>2 DEF Shaped
  <2>. QED
    BY <2>1, <2>4, <2>5, <2>6
<1>12. ASSUME NEW q \in Line, KillsCurrent(q)
       PROVE  Reading(stack'[cur'], r) <=> Reading(stack[cur], r)
  <2>1. /\ About(q, "act") /\ cur' \in Thread
        /\ stack' = [stack EXCEPT ![cur] = <<>>]
    BY <1>1, <1>12 DEF KillsCurrent
  <2>2. PICK f \in Active :
          stack[cur] = <<f>> /\ f.irq = q /\ f.at \in Place(q, "act")
    BY <1>1, <2>1, NextFrame
  <2>3. q = PIT_IRQ \/ (q = KEYBOARD_IRQ /\ f.at = 3)
    BY <2>2, Places DEF Line, PIT_IRQ, KEYBOARD_IRQ, RTC_IRQ, MOUSE_IRQ
  <2>4. ~Reading(stack[cur], r)
    <3>1. CASE q = PIT_IRQ
      <4>1. r # q
        BY <1>2, <3>1 DEF PIT_IRQ, KEYBOARD_IRQ, RTC_IRQ, MOUSE_IRQ
      <4>. QED
        BY <2>2, <4>1, ReadingOf
    <3>2. CASE q = KEYBOARD_IRQ /\ f.at = 3
      BY <2>2, <3>2, ReadingOf
    <3>. QED
      BY <2>3, <3>1, <3>2
  <2>5. \A t \in Thread : Parked(stack'[t])
    BY <1>1, <2>1 DEF Calm, Shaped, Parked
  <2>. QED
    BY <1>2, <2>1, <2>4, <2>5, ParkedReads
<1>13. ASSUME NEW q \in Line, Iret(q)
       PROVE  Reading(stack'[cur'], r) <=> Reading(stack[cur], r)
  <2>1. /\ About(q, "iret") /\ cur' = cur
        /\ stack' = [stack EXCEPT ![cur] = SubSeq(stack[cur], 1, Len(stack[cur]) - 1)]
    BY <1>13 DEF Iret
  <2>2. PICK f \in Active : stack[cur] = <<f>> /\ Top(cur) = f
    BY <1>1, <2>1, OneFrame DEF About
  <2>3. f.irq = q /\ f.at \in Place(q, "iret")
    BY <2>1, <2>2, Ahead DEF About, Place
  <2>4. SubSeq(stack[cur], 1, Len(stack[cur]) - 1) = <<>>
    BY <2>2
  <2>5. stack'[cur'] = <<>>
    BY <1>1, <2>1, <2>4 DEF Shaped
  <2>6. f.at \in {3, 4} /\ (q = KEYBOARD_IRQ => f.at = 4)
    BY <2>3, Places
  <2>. QED
    BY <2>2, <2>3, <2>5, <2>6, ReadingOf
<1>. QED
  BY <1>4, <1>5, <1>6, <1>7, <1>9, <1>10, <1>11, <1>12, <1>13

LEMMA RequestsStep ==
  ASSUME Inv, Next
  PROVE  Requests'
<1>1. /\ Requests /\ Ports /\ Quiet /\ Answered /\ PicType /\ DeviceType
      /\ cur \in Thread /\ Boot \in Thread
  BY DEF Inv, TypeOK, ControlType, Thread
<1>2. ASSUME \A r \in Readers :
               /\ Reading(stack'[cur'], r) <=> Reading(stack[cur], r)
               /\ r \in irr' <=> r \in irr,
             boot' \in BeforeFiles <=> boot \in BeforeFiles,
             buf' = buf, rtc'.c = rtc.c, drained' = drained
      PROVE  Requests'
  BY <1>1, <1>2 DEF Requests, Due, ByteOf, Readers
<1>3. CASE Running \/ Schedule
           \/ \E q \in Line : SendEoi(q) \/ Act(q) \/ Iret(q) \/ KillsCurrent(q)
                           \/ \E t \in Terminal : KillsOther(q, t)
  <2>1. UNCHANGED <<boot, irr, deviceVars>>
    <3>1. CASE Running
      BY <3>1, RunningShape DEF Becomes, picVars
    <3>2. CASE ~Running
      BY <1>3, <3>2
      DEF Schedule, SendEoi, Act, Iret, KillsCurrent, KillsOther, picVars
    <3>. QED
      BY <3>1, <3>2
  <2>2. \A r \in Readers : Reading(stack'[cur'], r) <=> Reading(stack[cur], r)
    BY <1>3, ReadingKept
  <2>. QED
    BY <1>2, <2>1, <2>2 DEF deviceVars
<1>4. CASE DeviceStep
  <2>1. /\ boot' = boot /\ drained' = drained
        /\ \A r \in Readers : Reading(stack'[cur'], r) <=> Reading(stack[cur], r)
    BY <1>4, DeviceShape, ReadingKept
  <2>2. CASE PitTick
    <3>1. UNCHANGED deviceVars /\ irr' = irr \cup {PIT_IRQ}
      BY <2>2 DEF PitTick, Raise
    <3>2. PIT_IRQ \notin Readers
      BY DEF Readers, PIT_IRQ, KEYBOARD_IRQ, RTC_IRQ, MOUSE_IRQ
    <3>. QED
      BY <1>2, <2>1, <3>1, <3>2 DEF deviceVars
  <2>3. CASE RtcTick
    <3>1. irr' = irr \cup {RTC_IRQ} /\ buf' = buf
      BY <2>3 DEF RtcTick, Raise
    <3>2. RTC_IRQ \notin {KEYBOARD_IRQ, MOUSE_IRQ}
      BY DEF KEYBOARD_IRQ, RTC_IRQ, MOUSE_IRQ
    <3>. QED
      BY <1>1, <2>1, <3>1, <3>2 DEF Requests, Due, ByteOf, Readers
  <2>4. CASE KeyByte
    <3>1. /\ buf = "none" /\ buf' = "key" /\ rtc' = rtc
          /\ irr' = irr \cup {KEYBOARD_IRQ}
      BY <1>1, <2>4 DEF KeyByte, ByteComes, Requested, Ports
    <3>2. KEYBOARD_IRQ # MOUSE_IRQ /\ RTC_IRQ # KEYBOARD_IRQ
      BY DEF KEYBOARD_IRQ, RTC_IRQ, MOUSE_IRQ
    <3>. QED
      BY <1>1, <2>1, <3>1, <3>2 DEF Requests, Due, ByteOf, Readers
  <2>5. CASE MouseByte
    <3>1. /\ buf = "none" /\ buf' = "mouse" /\ rtc' = rtc
          /\ irr' = irr \/ irr' = irr \cup {MOUSE_IRQ}
          /\ boot \notin BeforeFiles => irr' = irr \cup {MOUSE_IRQ}
      BY <1>1, <2>5 DEF MouseByte, ByteComes, Requested, Ports
    <3>2. KEYBOARD_IRQ # MOUSE_IRQ /\ RTC_IRQ # MOUSE_IRQ
      BY DEF KEYBOARD_IRQ, RTC_IRQ, MOUSE_IRQ
    <3>. QED
      BY <1>1, <2>1, <3>1, <3>2 DEF Requests, Due, ByteOf, Readers
  <2>. QED
    BY <1>4, <2>2, <2>3, <2>4, <2>5 DEF DeviceStep
<1>5. CASE BootStep
  <2>1. /\ \A r \in Readers : Reading(stack'[cur'], r) <=> Reading(stack[cur], r)
        /\ stack[cur] = <<>>
    <3>1. stack[cur] = <<>>
      BY <1>5, BootShape DEF start_terminals, Booting
    <3>. QED
      BY <1>5, <3>1, ReadingKept
  <2>2. \A r \in Readers : ~Reading(stack[cur], r) /\ ~Reading(stack'[cur'], r)
    BY <2>1, ReadingOf
  <2>3. CASE init_idt_table \/ paging_init \/ pit_init \/ rtc_init
             \/ keyboard_init \/ fs_init \/ init_proc_mgmt \/ init_terminals
             \/ init_gui \/ Sti \/ FirstRender \/ start_terminals
    <3>1. /\ irr' = irr /\ buf' = buf /\ rtc'.c = rtc.c /\ drained' = drained
          /\ boot' \in BeforeFiles <=> boot \in BeforeFiles
      BY <1>1, <2>3
      DEF init_idt_table, paging_init, pit_init, rtc_init, keyboard_init,
          fs_init, init_proc_mgmt, init_terminals, init_gui, Sti, FirstRender,
          start_terminals, BootCall, Booting, picVars, deviceVars, BeforeRtc,
          BeforeMouse, BeforeFiles, DeviceType
    <3>. QED
      BY <1>2, <2>1, <3>1
  <2>4. CASE i8259_init
    <3>1. irr' = {} /\ ~rtc'.c /\ boot' \in BeforeFiles
      BY <1>1, <2>4
      DEF i8259_init, Booting, deviceVars, Ports, BeforeRtc, BeforeMouse,
          BeforeFiles
    <3>. QED
      BY <2>2, <3>1 DEF Requests, Due, Readers
  <2>5. CASE mouse_init
    <3>1. /\ ~drained /\ MOUSE_IRQ \notin irr
          /\ drained' = (buf = "key" /\ KEYBOARD_IRQ \in irr)
          /\ irr' = irr /\ rtc' = rtc
          /\ boot' \in BeforeFiles
      BY <1>1, <2>5
      DEF mouse_init, Booting, picVars, Ports, BeforeMouse, BeforeFiles
    <3>2. KEYBOARD_IRQ \in irr => drained'
      BY <1>1, <3>1 DEF Requests, Due, ByteOf
    <3>. QED
      BY <1>1, <2>2, <3>1, <3>2 DEF Requests, Due, Readers
  <2>6. CASE MouseReport
    <3>1. /\ buf = "none" /\ MOUSE_IRQ \notin irr /\ irr' = irr /\ rtc' = rtc
          /\ drained' = drained /\ boot' \in BeforeFiles
      BY <1>1, <2>6
      DEF MouseReport, Booting, Requested, Ports, BeforeFiles
    <3>2. ~drained => {KEYBOARD_IRQ, MOUSE_IRQ} \cap irr = {}
      BY <1>1, <3>1 DEF Requests, Due, ByteOf
    <3>. QED
      BY <1>1, <2>2, <3>1, <3>2 DEF Requests, Due, Readers
  <2>7. CASE MouseAck
    <3>1. /\ buf = "ack" /\ MOUSE_IRQ \notin irr /\ irr' = irr /\ rtc' = rtc
          /\ drained' = drained /\ boot' \in BeforeFiles
      BY <1>1, <2>7
      DEF MouseAck, Booting, picVars, Ports, Answered, BeforeFiles
    <3>2. ~drained => {KEYBOARD_IRQ, MOUSE_IRQ} \cap irr = {}
      BY <1>1, <3>1 DEF Requests, Due, ByteOf
    <3>. QED
      BY <1>1, <2>2, <3>1, <3>2 DEF Requests, Due, Readers
  <2>8. CASE MouseOn
    <3>1. /\ buf' = buf /\ rtc' = rtc /\ drained' = drained
          /\ irr' = irr \cup {r \in {KEYBOARD_IRQ} : buf = "key"}
                        \cup {r \in {MOUSE_IRQ} : buf \in {"mouse", "ack"}}
      BY <1>1, <2>8 DEF MouseOn, Requested, DeviceType
    <3>2. buf # "ack"
      BY <1>1, <2>8 DEF MouseOn, Booting, Ports
    <3>3. KEYBOARD_IRQ # MOUSE_IRQ
      BY DEF KEYBOARD_IRQ, MOUSE_IRQ
    <3>. QED
      BY <1>1, <2>2, <3>1, <3>2, <3>3 DEF Requests, Due, ByteOf, Readers
  <2>9. CASE MouseNone
    <3>1. /\ buf = "none" /\ buf' = buf /\ irr' = irr /\ rtc' = rtc
          /\ drained' = drained
      BY <1>1, <2>9 DEF MouseNone, Booting, picVars, Ports
    <3>. QED
      BY <1>1, <2>2, <3>1 DEF Requests, Due, ByteOf, Readers
  <2>. QED
    BY <1>5, <2>3, <2>4, <2>5, <2>6, <2>7, <2>8, <2>9 DEF BootStep
<1>6. ASSUME NEW q \in Line, Deliver(q)
      PROVE  Requests'
  <2>1. /\ irr' = irr \ {q} /\ q \in irr /\ UNCHANGED <<boot, deviceVars>>
    BY <1>6 DEF Deliver, Deliverable
  <2>2. \A r \in Readers : /\ ~Reading(stack[cur], r)
                           /\ Reading(stack'[cur'], r) <=> r = q
    BY <1>6, ReadingDelivered
  <2>3. ASSUME NEW r \in Readers
        PROVE  /\ Due(r)' <=> Due(r)
               /\ r \in irr' => ~Reading(stack'[cur'], r)
    <3>1. CASE r = q
      <4>1. r \in irr /\ Reading(stack'[cur'], r) /\ r \notin irr'
        BY <2>1, <2>2, <3>1
      <4>. QED
        BY <4>1 DEF Due
    <3>2. CASE r # q
      <4>1. r \in irr' <=> r \in irr
        BY <2>1, <3>2
      <4>2. ~Reading(stack[cur], r)
        BY <2>2
      <4>3. Reading(stack'[cur'], r) <=> r = q
        BY <2>2
      <4>4. ~Reading(stack'[cur'], r)
        BY <3>2, <4>3
      <4>. QED
        BY <4>1, <4>2, <4>4 DEF Due
    <3>. QED
      BY <3>1, <3>2
  <2>4. rtc'.c => Due(RTC_IRQ)'
    <3>1. RTC_IRQ \in Readers /\ rtc' = rtc
      BY <2>1 DEF Readers, deviceVars
    <3>2. Due(RTC_IRQ)' <=> Due(RTC_IRQ)
      BY <2>3, <3>1
    <3>. QED
      BY <1>1, <3>1, <3>2 DEF Requests
  <2>5. ASSUME NEW r \in {KEYBOARD_IRQ, MOUSE_IRQ}
        PROVE  /\ boot' \notin BeforeFiles /\ buf' = ByteOf(r) => Due(r)'
               /\ ~drained' =>
                    /\ Due(r)' => buf' = ByteOf(r)
                    /\ r \in irr' => ~Reading(stack'[cur'], r)
    <3>1. r \in Readers /\ UNCHANGED <<boot, buf, drained>>
      BY <2>1 DEF Readers, deviceVars
    <3>2. /\ Due(r)' <=> Due(r)
          /\ r \in irr' => ~Reading(stack'[cur'], r)
      BY <2>3, <3>1
    <3>. QED
      BY <1>1, <3>1, <3>2 DEF Requests
  <2>. QED
    BY <2>4, <2>5 DEF Requests, ByteOf
<1>7. ASSUME NEW q \in Line, ReadData(q)
      PROVE  Requests'
  <2>1. /\ buf' = "none" /\ UNCHANGED <<boot, irr, rtc, drained>>
    BY <1>7 DEF ReadData, picVars
  <2>2. /\ q \in Readers
        /\ \A r \in Readers : /\ Reading(stack[cur], r) <=> r = q
                              /\ ~Reading(stack'[cur'], r)
    BY <1>7, ReadingEnds
  <2>3. q # RTC_IRQ
    <3>1. About(q, "read") /\ Shaped
      BY <1>7 DEF ReadData, Inv
    <3>2. Place(q, "read") # {}
      BY <1>1, <3>1, NextFrame
    <3>. QED
      BY <3>2, Places DEF PIT_IRQ, KEYBOARD_IRQ, RTC_IRQ, MOUSE_IRQ
  <2>. QED
    BY <1>1, <2>1, <2>2, <2>3 DEF Requests, Due, ByteOf, Readers
<1>8. CASE ReadC
  <2>1. ~rtc'.c /\ UNCHANGED <<boot, irr, buf, drained>>
    BY <1>1, <1>8 DEF ReadC, AfterReadC, picVars, DeviceType
  <2>2. \A r \in Readers : /\ Reading(stack[cur], r) <=> r = RTC_IRQ
                           /\ ~Reading(stack'[cur'], r)
    BY <1>8, ReadingEnds DEF Line
  <2>3. RTC_IRQ \notin {KEYBOARD_IRQ, MOUSE_IRQ}
    BY DEF KEYBOARD_IRQ, RTC_IRQ, MOUSE_IRQ
  <2>. QED
    BY <1>1, <2>1, <2>2, <2>3 DEF Requests, Due, ByteOf, Readers
<1>. QED
  BY <1>3, <1>4, <1>5, <1>6, <1>7, <1>8
  DEF Next, HandlerStep, DeviceStep, Running

LEMMA StepInv == Inv /\ [Next]_vars => Inv'
<1>. SUFFICES ASSUME Inv, [Next]_vars PROVE Inv'
  OBVIOUS
<1>1. CASE Next
  BY <1>1, TypeStep, ShapedStep, CalmStep, QuietStep, UnmaskedStep,
     AnsweredStep, ProgressStep, NoPanicStep, PortsStep, RequestsStep DEF Inv
<1>2. CASE UNCHANGED vars
  BY <1>2
  DEF Inv, TypeOK, ControlType, StackType, PicType, DeviceType, Shaped, Calm,
      Service, Quiet, Unmasked, Answered, Progress, Ports, Requests, Due, vars, picVars,
      deviceVars
<1>. QED
  BY <1>1, <1>2

(* The inductive invariant.                                                *)
THEOREM Invariance == Spec => []Inv
<1>1. Init => Inv
  BY InitInv
<1>2. Inv /\ [Next]_vars => Inv'
  BY StepInv
<1>. QED
  BY <1>1, <1>2, PTL DEF Spec

----------------------------------------------------------------------------
(* What Inv says of the properties.                                        *)
LEMMA ReadyOf == Inv => HandlersReady
<1>. SUFFICES ASSUME Inv PROVE HandlersReady
  OBVIOUS
<1>1. ASSUME NEW t \in Thread, NEW k \in DOMAIN stack[t]
      PROVE  Needs(stack[t][k].irq) \subseteq ready
  <2>1. stack[t] # <<>>
    BY <1>1
  <2>2. boot \in Late
    BY <2>1 DEF Inv, Quiet
  <2>3. {"idt", "paging", "processes", "terminals", "gui"} \subseteq ready
    BY <2>2 DEF Inv, Progress, Late
  <2>. QED
    BY <2>3 DEF Needs
<1>. QED
  BY <1>1 DEF HandlersReady, Inv

(* Where a handler is, once more as the properties put it.                 *)
LEMMA DuePending ==
  ASSUME Inv,
         NEW r \in Readers, Due(r)
  PROVE  Pending(r, IF r = RTC_IRQ THEN "readC" ELSE "read")
<1>. DEFINE what == IF r = RTC_IRQ THEN "readC" ELSE "read"
<1>1. CASE r \in irr
  BY <1>1 DEF Pending
<1>2. CASE Reading(stack[cur], r)
  <2>1. PICK f \in Active : /\ stack[cur] = <<f>> /\ f.irq = r
                            /\ f.at =< IF r = KEYBOARD_IRQ THEN 2 ELSE 1
    BY <1>2 DEF Reading
  <2>2. f.at \in 1 .. Len(Handler[r]) /\ r \in Line
    BY <2>1, Ahead
  <2>3. Top(cur) = f /\ stack[cur] # <<>>
    BY <2>1 DEF Top
  <2>. DEFINE k == IF r = KEYBOARD_IRQ THEN 2 ELSE 1
  <2>4. k \in Place(r, what)
    BY <2>2, Places
    DEF Readers, PIT_IRQ, KEYBOARD_IRQ, RTC_IRQ, MOUSE_IRQ
  <2>5. k \in f.at .. Len(Handler[r]) /\ Handler[r][k] = what
    BY <2>1, <2>2, <2>4 DEF Place
  <2>. QED
    BY <2>1, <2>3, <2>5 DEF Pending
<1>. QED
  BY <1>1, <1>2 DEF Due

LEMMA LostNothing == Inv => NoRequestLost
<1>. SUFFICES ASSUME Inv PROVE NoRequestLost
  OBVIOUS
<1>1. RTC_IRQ \notin {KEYBOARD_IRQ, MOUSE_IRQ} /\ KEYBOARD_IRQ # MOUSE_IRQ
  BY DEF KEYBOARD_IRQ, RTC_IRQ, MOUSE_IRQ
<1>2. rtc.c => Pending(RTC_IRQ, "readC")
  BY DuePending DEF Inv, Requests, Readers
<1>3. ASSUME MOUSE_IRQ \in registered \/ "files" \in ready
      PROVE  boot \notin BeforeFiles
  BY <1>3 DEF Inv, Ports
<1>4. ASSUME boot \notin BeforeFiles
      PROVE  /\ buf = "key" => Pending(KEYBOARD_IRQ, "read")
             /\ buf = "mouse" => Pending(MOUSE_IRQ, "read")
             /\ buf # "ack"
  <2>1. buf = "key" => Due(KEYBOARD_IRQ)
    BY <1>4 DEF Inv, Requests, ByteOf
  <2>2. buf = "mouse" => Due(MOUSE_IRQ)
    BY <1>1, <1>4 DEF Inv, Requests, ByteOf
  <2>3. buf # "ack"
    BY <1>4 DEF Inv, Ports, BeforeFiles
  <2>. QED
    BY <1>1, <2>1, <2>2, <2>3, DuePending DEF Readers
<1>. QED
  BY <1>2, <1>3, <1>4 DEF NoRequestLost

LEMMA FindsOf == Inv => FindsByte
<1>. SUFFICES ASSUME Inv, ~drained PROVE FindsByte
  BY DEF FindsByte
<1>1. ASSUME NEW r \in {KEYBOARD_IRQ, MOUSE_IRQ}, About(r, "read")
      PROVE  buf = ByteOf(r)
  <2>1. PICK f \in Active :
          stack[cur] = <<f>> /\ f.irq = r /\ f.at \in Place(r, "read")
    BY <1>1, NextFrame DEF Inv, TypeOK, ControlType
  <2>2. f.at = IF r = KEYBOARD_IRQ THEN 2 ELSE 1
    BY <2>1, Places DEF Line, PIT_IRQ, KEYBOARD_IRQ, RTC_IRQ, MOUSE_IRQ
  <2>3. Reading(stack[cur], r)
    BY <2>1, <2>2, ReadingOf
  <2>. QED
    BY <2>3 DEF Inv, Requests, Due
<1>2. ByteOf(KEYBOARD_IRQ) = "key" /\ ByteOf(MOUSE_IRQ) = "mouse"
  BY DEF ByteOf, KEYBOARD_IRQ, MOUSE_IRQ
<1>. QED
  BY <1>1, <1>2 DEF FindsByte

----------------------------------------------------------------------------
(* The frames of TrapFrame.                                                *)

(* The offsets: the definition of the function by itself defines it.       *)
LEMMA OffsetsOf ==
  ASSUME NEW X, NEW s \in Seq(X)
  PROVE  /\ Offsets(s) \in [1 .. Len(s) + 1 -> Nat]
         /\ Offsets(s)[1] = 0
         /\ \A k \in 1 .. Len(s) : Offsets(s)[k + 1] = Offsets(s)[k] + Width(s[k])
<1> DEFINE N == Len(s)
           step == [p \in Nat \X Nat |-> p[2] + Width(s[p[1]])]
           Body(at) == [k \in 1 .. Len(s) + 1 |->
                          IF k = 1 THEN 0 ELSE at[k - 1] + Width(s[k - 1])]
<1>1. N \in Nat
  OBVIOUS
<1>2. \A x : Width(x) \in {2, 4}
  BY DEF Width
<1>3. step \in [Nat \X Nat -> Nat]
  BY <1>2
<1>4. PICK g \in [0 .. N -> Nat] : Recurs(g, 0, step, N)
  <2> HIDE DEF step, N
  <2>1. 0 \in Nat
    OBVIOUS
  <2>2. QED
    BY <1>1, <1>3, <2>1, Recursion, Zenon
<1>5. \A n \in 0 .. N : g[n] = IF n = 0 THEN 0 ELSE step[<<n, g[n - 1]>>]
  BY <1>1, <1>4 DEF Recurs
<1> DEFINE h == [k \in 1 .. N + 1 |-> g[k - 1]]
<1>6. ASSUME NEW k \in 2 .. N + 1 PROVE h[k] = h[k - 1] + Width(s[k - 1])
  <2>1. /\ k - 1 \in 0 .. N /\ k - 1 # 0 /\ k - 1 \in Nat
        /\ (k - 1) - 1 \in 0 .. N
    BY <1>1
  <2>2. g[k - 1] = step[<<k - 1, g[(k - 1) - 1]>>]
    <3> HIDE DEF step, N
    <3>1. QED
      BY <1>5, <2>1
  <2>3. g[(k - 1) - 1] \in Nat
    BY <2>1
  <2>4. step[<<k - 1, g[(k - 1) - 1]>>] = g[(k - 1) - 1] + Width(s[k - 1])
    BY <2>1, <2>3
  <2>5. h[k] = g[k - 1] /\ h[k - 1] = g[(k - 1) - 1]
    BY <1>1, <2>1
  <2>6. QED
    BY <2>2, <2>4, <2>5
<1>7. h[1] = 0
  <2> HIDE DEF step, N
  <2>1. 0 \in 0 .. N /\ 1 \in 1 .. N + 1 /\ 1 - 1 = 0
    BY <1>1
  <2>2. g[0] = 0
    BY <1>5, <2>1
  <2>3. QED
    BY <2>1, <2>2
<1>8. h = Body(h)
  <2>1. \A k \in 1 .. N + 1 :
          h[k] = IF k = 1 THEN 0 ELSE h[k - 1] + Width(s[k - 1])
    <3> HIDE DEF h, N
    <3>1. \A k \in 1 .. N + 1 : k = 1 \/ k \in 2 .. N + 1
      BY <1>1
    <3>2. QED
      BY <1>6, <1>7, <3>1
  <2>2. h = [k \in 1 .. N + 1 |-> h[k]]
    OBVIOUS
  <2> HIDE DEF h
  <2>3. QED
    BY <2>1, <2>2
<1>9. Offsets(s) = Body(Offsets(s))
  <2> HIDE DEF h
  <2>1. h = [k \in 1 .. Len(s) + 1 |->
                          IF k = 1 THEN 0 ELSE h[k - 1] + Width(s[k - 1])]
    BY <1>8
  <2>2. QED
    BY <2>1, Zenon DEF Offsets
<1> HIDE DEF h, step
<1>10. \A k \in 1 .. N + 1 : Offsets(s)[k] =
         IF k = 1 THEN 0 ELSE Offsets(s)[k - 1] + Width(s[k - 1])
  BY <1>9
<1>11. Offsets(s)[1] = 0
  BY <1>1, <1>10
<1>12. ASSUME NEW k \in 1 .. Len(s)
       PROVE  Offsets(s)[k + 1] = Offsets(s)[k] + Width(s[k])
  <2>1. k + 1 \in 1 .. N + 1 /\ k + 1 # 1 /\ (k + 1) - 1 = k
    BY <1>1
  <2>2. QED
    BY <1>10, <2>1
<1>13. \A k \in 1 .. N + 1 : Offsets(s)[k] \in Nat
  <2> DEFINE S == {n \in Nat : n + 1 \in 1 .. N + 1 => Offsets(s)[n + 1] \in Nat}
  <2>1. 0 \in S
    BY <1>11
  <2>2. ASSUME NEW n \in Nat, n \in S PROVE n + 1 \in S
    <3>1. CASE n + 1 \in 1 .. N
      <4>1. Offsets(s)[n + 1] \in Nat
        BY <1>1, <2>2, <3>1
      <4>2. Offsets(s)[(n + 1) + 1] = Offsets(s)[n + 1] + Width(s[n + 1])
        BY <1>12, <3>1
      <4>3. QED
        BY <1>2, <4>1, <4>2
    <3>2. QED
      BY <1>1, <3>1
  <2>3. Nat \subseteq S
    <3> HIDE DEF S
    <3>1. QED
      BY <2>1, <2>2, SetInduction
  <2>4. ASSUME NEW k \in 1 .. N + 1 PROVE Offsets(s)[k] \in Nat
    <3>1. k - 1 \in Nat /\ (k - 1) + 1 = k
      BY <1>1
    <3>2. QED
      BY <2>3, <3>1
  <2>5. QED
    BY <2>4
<1>14. Offsets(s) \in [1 .. Len(s) + 1 -> Nat]
  <2>1. Offsets(s) = [k \in 1 .. Len(s) + 1 |-> Offsets(s)[k]]
    BY <1>9
  <2>2. QED
    BY <1>13, <2>1
<1>15. QED
  BY <1>11, <1>12, <1>14

(* They grow with the elements, so no two elements lie in one place.       *)
LEMMA OffsetsGrow ==
  ASSUME NEW X, NEW s \in Seq(X)
  PROVE  \A k \in 1 .. Len(s) + 1 : \A j \in 1 .. Len(s) + 1 :
           j < k => Offsets(s)[j] < Offsets(s)[k]
<1> DEFINE at == Offsets(s)
           S == {n \in Nat : n + 1 \in 1 .. Len(s) + 1 =>
                   \A j \in 1 .. Len(s) + 1 : j < n + 1 => at[j] < at[n + 1]}
<1>0. Len(s) \in Nat
  OBVIOUS
<1>1. /\ at \in [1 .. Len(s) + 1 -> Nat]
      /\ \A k \in 1 .. Len(s) : at[k + 1] = at[k] + Width(s[k])
  BY OffsetsOf
<1>2. \A x : Width(x) \in {2, 4}
  BY DEF Width
<1> HIDE DEF at
<1>3. 0 \in S
  BY <1>0
<1>4. ASSUME NEW n \in Nat, n \in S PROVE n + 1 \in S
  <2>1. SUFFICES ASSUME (n + 1) + 1 \in 1 .. Len(s) + 1,
                        NEW j \in 1 .. Len(s) + 1, j < (n + 1) + 1
                 PROVE  at[j] < at[(n + 1) + 1]
    OBVIOUS
  <2>2. n + 1 \in 1 .. Len(s) /\ n + 1 \in 1 .. Len(s) + 1
    BY <1>0, <2>1
  <2>3. at[(n + 1) + 1] = at[n + 1] + Width(s[n + 1])
    BY <1>1, <2>2
  <2>4. at[n + 1] \in Nat /\ at[j] \in Nat
    BY <1>1, <2>2
  <2>5. at[n + 1] < at[(n + 1) + 1]
    BY <1>2, <2>3, <2>4
  <2>6. CASE j = n + 1
    BY <2>5, <2>6
  <2>7. CASE j < n + 1
    <3>1. at[j] < at[n + 1]
      BY <1>4, <2>2, <2>7
    <3>2. QED
      BY <1>2, <2>3, <2>4, <3>1
  <2>8. QED
    BY <2>1, <2>6, <2>7
<1>5. Nat \subseteq S
  <2> HIDE DEF S
  <2>1. QED
    BY <1>3, <1>4, SetInduction
<1>6. ASSUME NEW k \in 1 .. Len(s) + 1, NEW j \in 1 .. Len(s) + 1, j < k
      PROVE  at[j] < at[k]
  <2>1. k - 1 \in Nat /\ (k - 1) + 1 = k
    BY <1>0
  <2>2. QED
    BY <1>5, <1>6, <2>1
<1>7. QED
  BY <1>6 DEF at

(* The value at the offset of an element is that element.                  *)
LEMMA ValueOf ==
  ASSUME NEW X, NEW s \in Seq(X), NEW k \in 1 .. Len(s)
  PROVE  ValueAt(s, Offsets(s)[k]) = s[k]
<1> DEFINE at == Offsets(s)
           here == {j \in 1 .. Len(s) : at[j] = at[k]}
<1>1. at \in [1 .. Len(s) + 1 -> Nat]
  BY OffsetsOf
<1>2. \A n \in 1 .. Len(s) + 1 : \A j \in 1 .. Len(s) + 1 :
           j < n => at[j] < at[n]
  BY OffsetsGrow
<1>3. ValueAt(s, at[k]) = IF here = {} THEN "garbage"
                                       ELSE s[CHOOSE j \in here : TRUE]
  BY DEF ValueAt
<1> HIDE DEF at
<1>4. ASSUME NEW j \in here PROVE j = k
  <2>1. j \in 1 .. Len(s) + 1 /\ k \in 1 .. Len(s) + 1 /\ j \in Int /\ k \in Int
    OBVIOUS
  <2>2. at[j] = at[k] /\ at[k] \in Nat
    BY <1>1, <2>1
  <2>3. ~(j < k)
    BY <1>2, <2>1, <2>2
  <2>4. ~(k < j)
    BY <1>2, <2>1, <2>2
  <2>5. QED
    BY <2>1, <2>3, <2>4
<1>5. here = {k}
  BY <1>4
<1>6. (CHOOSE j \in {k} : TRUE) = k
  OBVIOUS
<1> HIDE DEF here
<1>7. ValueAt(s, at[k]) = s[k]
  BY <1>3, <1>5, <1>6
<1>8. QED
  BY <1>7 DEF at

(* What two sequences make together, element by element.                   *)
LEMMA Joined ==
  ASSUME NEW X, NEW s \in Seq(X), NEW t \in Seq(X), NEW u \in Seq(X),
         Len(u) = Len(s) + Len(t),
         \A k \in 1 .. Len(u) :
           u[k] = IF k =< Len(s) THEN s[k] ELSE t[k - Len(s)]
  PROVE  s \o t = u
<1>1. /\ s \o t \in Seq(X) /\ Len(s \o t) = Len(s) + Len(t)
      /\ \A k \in 1 .. Len(s) + Len(t) :
           (s \o t)[k] = IF k =< Len(s) THEN s[k] ELSE t[k - Len(s)]
  BY ConcatProperties
<1>2. \A k \in 1 .. Len(s \o t) : (s \o t)[k] = u[k]
  BY <1>1
<1>3. QED
  BY <1>1, <1>2, SeqEqual

(* What lies on the stacks.                                                *)
Values == {"ds", "es", "fs", "gs", "eax", "ebx", "ecx", "edx", "ebp", "esi",
           "edi", "error", "eip", "cs", "eflags", "esp", "ss",
           "return", "arg1", "arg2", "arg3"}

(* With either kind of macro the stack has the fields of the context that  *)
(* the handlers use, and the fields that pop_iret_context takes off.       *)
LEMMA FrameIsContext ==
  ASSUME NEW v \in Vectors, NEW user \in BOOLEAN
  PROVE  /\ Context(user) \in Seq(Values)
         /\ Frame(v, user) = Context(user)
         /\ Restores(user) = Context(user)
<1> DEFINE above == IF user THEN <<"esp", "ss">> ELSE <<>>
           error == <<"error">>
           iret == <<"eip", "cs", "eflags">>
           both == <<"error", "eip", "cs", "eflags">>
           all == <<"ds", "es", "fs", "gs", "eax", "ebx", "ecx", "edx", "ebp",
                    "esi", "edi", "error", "eip", "cs", "eflags">>
<1>1. above \in Seq(Values)
  <2>1. <<"esp", "ss">> \in Seq(Values) /\ <<>> \in Seq(Values)
    BY DEF Values
  <2>2. QED
    BY <2>1
<1>2. /\ General \in Seq(Values) /\ Pops \in Seq(Values)
      /\ iret \in Seq(Values) /\ both \in Seq(Values) /\ all \in Seq(Values)
      /\ error \in Seq(Values)
  BY DEF General, Pops, Values
<1>3. /\ Len(General) = 11 /\ Len(Pops) = 12 /\ Len(iret) = 3
      /\ Len(both) = 4 /\ Len(all) = 15 /\ Len(error) = 1
  BY DEF General, Pops
<1>4. General \o both = all
  <2>1. Len(all) = Len(General) + Len(both)
    BY <1>3
  <2>2. \A k \in 1 .. 15 :
          all[k] = IF k =< 11 THEN General[k] ELSE both[k - 11]
    BY DEF General
  <2>3. General \in Seq(Values) /\ both \in Seq(Values) /\ all \in Seq(Values)
    BY <1>2
  <2> HIDE DEF both, all
  <2>4. \A k \in 1 .. Len(all) :
          all[k] = IF k =< Len(General) THEN General[k] ELSE both[k - Len(General)]
    BY <1>3, <2>2
  <2>5. QED
    BY <2>1, <2>3, <2>4, Joined, Zenon
<1>5. Pops \o iret = all
  <2>1. Len(all) = Len(Pops) + Len(iret)
    BY <1>3
  <2>2. \A k \in 1 .. 15 :
          all[k] = IF k =< 12 THEN Pops[k] ELSE iret[k - 12]
    BY DEF Pops
  <2>3. Pops \in Seq(Values) /\ iret \in Seq(Values) /\ all \in Seq(Values)
    BY <1>2
  <2> HIDE DEF iret, all
  <2>4. \A k \in 1 .. Len(all) :
          all[k] = IF k =< Len(Pops) THEN Pops[k] ELSE iret[k - Len(Pops)]
    BY <1>3, <2>2
  <2>5. QED
    BY <2>1, <2>3, <2>4, Joined, Zenon
<1>6. error \o iret = both
  <2>1. Len(both) = Len(error) + Len(iret)
    BY <1>3
  <2>2. \A k \in 1 .. 4 :
          both[k] = IF k =< 1 THEN error[k] ELSE iret[k - 1]
    OBVIOUS
  <2>3. error \in Seq(Values) /\ iret \in Seq(Values) /\ both \in Seq(Values)
    BY <1>2
  <2> HIDE DEF error, iret, both
  <2>4. \A k \in 1 .. Len(both) :
          both[k] = IF k =< Len(error) THEN error[k] ELSE iret[k - Len(error)]
    BY <1>3, <2>2
  <2>5. QED
    BY <2>1, <2>3, <2>4, Joined, Zenon
<1>7. Context(user) = all \o above
  BY DEF Context
<1>8. Restores(user) = (Pops \o iret) \o above
  BY DEF Restores
<1>9. EmptyCode(v) \o CpuFrame(v, user) = both \o above
  <2>1. CASE v \in HasErrorCode
    <3>1. EmptyCode(v) = <<>>
      BY <2>1 DEF EmptyCode, HasErrorCode, MacroError
    <3>2. CpuFrame(v, user) = (error \o iret) \o above
      BY <2>1 DEF CpuFrame
    <3>3. both \o above \in Seq(Values)
      BY <1>1, <1>2, ConcatProperties
    <3> HIDE DEF both, iret, above, error
    <3>4. QED
      BY <1>6, <3>1, <3>2, <3>3
  <2>2. CASE v \notin HasErrorCode
    <3>1. EmptyCode(v) = error
      BY <2>2 DEF EmptyCode, HasErrorCode, MacroError
    <3>2. CpuFrame(v, user) = (<<>> \o iret) \o above
      BY <2>2 DEF CpuFrame
    <3>3. <<>> \o iret = iret
      BY <1>2, ConcatEmptySeq
    <3> HIDE DEF both, iret, above, error
    <3>4. error \in Seq(Values) /\ iret \in Seq(Values)
      BY <1>2
    <3>5. (error \o iret) \o above = error \o (iret \o above)
      BY <1>1, <3>4, ConcatAssociative
    <3>6. QED
      BY <1>6, <3>1, <3>2, <3>3, <3>5
  <2>3. QED
    BY <2>1, <2>2
<1>10. Frame(v, user) = (General \o both) \o above
  <2>1. EmptyCode(v) \in Seq(Values) /\ CpuFrame(v, user) \in Seq(Values)
    <3>1. /\ <<>> \in Seq(Values)
      OBVIOUS
    <3>2. EmptyCode(v) \in Seq(Values)
      BY <1>2, <3>1 DEF EmptyCode
    <3>3. (IF v \in HasErrorCode THEN error ELSE <<>>) \in Seq(Values)
      BY <1>2, <3>1
    <3>4. (IF v \in HasErrorCode THEN error ELSE <<>>) \o iret \in Seq(Values)
      <4> HIDE DEF iret
      <4>1. QED
        BY <1>2, <3>3, ConcatProperties
    <3>5. ((IF v \in HasErrorCode THEN error ELSE <<>>) \o iret) \o above
             \in Seq(Values)
      <4> HIDE DEF iret, above
      <4>1. QED
        BY <1>1, <3>4, ConcatProperties
    <3>6. QED
      BY <3>2, <3>5, Zenon DEF CpuFrame
  <2>2. Frame(v, user) = General \o (EmptyCode(v) \o CpuFrame(v, user))
    BY <1>2, <2>1, ConcatAssociative DEF Frame
  <2>3. General \in Seq(Values) /\ both \in Seq(Values) /\ above \in Seq(Values)
    BY <1>1, <1>2
  <2> HIDE DEF both, above
  <2>4. General \o (both \o above) = (General \o both) \o above
    BY <2>3, ConcatAssociative
  <2>5. QED
    BY <1>9, <2>2, <2>4, Zenon
<1>11. Context(user) \in Seq(Values)
  <2> HIDE DEF all, above
  <2>1. QED
    BY <1>1, <1>2, <1>7, ConcatProperties
<1>12. QED
  <2> HIDE DEF all, above, both, iret
  <2>1. QED
    BY <1>4, <1>5, <1>7, <1>8, <1>10, <1>11

(* What do_call takes from behind ebx and the return address.              *)
LEMMA ArgumentsOf ==
  LET s == <<"ebx">> \o <<"return", "arg1", "arg2", "arg3">>
  IN  /\ ValueAt(s, 8) = "arg1"
      /\ ValueAt(s, 12) = "arg2"
      /\ ValueAt(s, 16) = "arg3"
<1> DEFINE b == <<"ebx">>
           t == <<"return", "arg1", "arg2", "arg3">>
           s == b \o t
           at == Offsets(s)
<1>1. b \in Seq(Values) /\ t \in Seq(Values)
  BY DEF Values
<1>2. Len(b) = 1 /\ Len(t) = 4
  OBVIOUS
<1>3. /\ s \in Seq(Values) /\ Len(s) = 5
      /\ \A k \in 1 .. 5 : s[k] = IF k =< 1 THEN b[k] ELSE t[k - 1]
  <2> HIDE DEF b, t
  <2>1. /\ b \o t \in Seq(Values) /\ Len(b \o t) = Len(b) + Len(t)
        /\ \A k \in 1 .. Len(b) + Len(t) :
             (b \o t)[k] = IF k =< Len(b) THEN b[k] ELSE t[k - Len(b)]
    BY <1>1, ConcatProperties
  <2>2. QED
    BY <1>2, <2>1
<1>4. /\ s[1] = "ebx" /\ s[2] = "return" /\ s[3] = "arg1"
      /\ s[4] = "arg2" /\ s[5] = "arg3"
  <2> HIDE DEF s
  <2>1. QED
    BY <1>3
<1>5. /\ Width("ebx") = 4 /\ Width("return") = 4 /\ Width("arg1") = 4
      /\ Width("arg2") = 4
  BY DEF Width
<1> HIDE DEF s
<1>6. at[1] = 0 /\ \A k \in 1 .. 5 : at[k + 1] = at[k] + Width(s[k])
  BY <1>3, OffsetsOf
<1> HIDE DEF at
<1>7. /\ at[1 + 1] = at[1] + 4 /\ at[2 + 1] = at[2] + 4
      /\ at[3 + 1] = at[3] + 4 /\ at[4 + 1] = at[4] + 4
  BY <1>4, <1>5, <1>6
<1>8. at[3] = 8 /\ at[4] = 12 /\ at[5] = 16
  BY <1>6, <1>7
<1>9. \A k \in 1 .. 5 : ValueAt(s, at[k]) = s[k]
  BY <1>3, ValueOf DEF at
<1>10. /\ ValueAt(s, at[3]) = "arg1" /\ ValueAt(s, at[4]) = "arg2"
       /\ ValueAt(s, at[5]) = "arg3"
  BY <1>4, <1>9
<1>11. /\ ValueAt(s, 8) = "arg1" /\ ValueAt(s, 12) = "arg2"
       /\ ValueAt(s, 16) = "arg3"
  BY <1>8, <1>10
<1>12. QED
  BY <1>11 DEF s

----------------------------------------------------------------------------
(* The theorems.                                                           *)

(* Every stack has interrupts of known lines, each at a step of its        *)
(* handler.                                                                *)
THEOREM TypeCorrect == Spec => []TypeOK
<1>1. Inv => TypeOK
  BY DEF Inv
<1>. QED
  BY <1>1, Invariance, PTL

(* The kernel does not panic, and a handler finds initialised what it      *)
(* uses, though its line is opened long before: sti comes last.            *)
THEOREM SafeHandlers == Spec => []HandlersReady
<1>. QED
  BY ReadyOf, Invariance, PTL

(* However often the PIT's handler switches contexts before its iret, a    *)
(* stack never has a second interrupt on it.                               *)
THEOREM StackBounded == Spec => []BoundedStack
<1>1. Inv => BoundedStack
  BY Bounds DEF Inv
<1>. QED
  BY <1>1, Invariance, PTL

(* A switch, a jump or a kill in a handler leaves no line in service.      *)
THEOREM LinesReleased == Spec => []InServiceIsRunning
<1>1. Inv => InServiceIsRunning
  BY Serves DEF Inv, TypeOK, ControlType
<1>. QED
  BY <1>1, Invariance, PTL

(* The handlers of keyboard and mouse read bytes of their own devices.     *)
THEOREM BytesFound == Spec => []FindsByte
<1>. QED
  BY FindsOf, Invariance, PTL

(* No device waits for ever for its byte, or its register, to be read.     *)
THEOREM RequestsKept == Spec => []NoRequestLost
<1>. QED
  BY LostNothing, Invariance, PTL

(* Every entry leaves on the stack the fields of the context its handler   *)
(* reads, every return takes off just what was put there, and a system     *)
(* call reaches its function with its arguments.                           *)
THEOREM EntriesMatch == EntriesFit
<1>1. HandlersSeeContext
  <2>1. SUFFICES ASSUME NEW v \in Vectors, NEW user \in BOOLEAN,
                        NEW k \in 1 .. Len(Context(user))
                 PROVE  ValueAt(Frame(v, user), Offsets(Context(user))[k])
                          = Context(user)[k]
    BY DEF HandlersSeeContext
  <2>2. Context(user) \in Seq(Values) /\ Frame(v, user) = Context(user)
    BY FrameIsContext
  <2>3. QED
    BY <2>2, ValueOf
<1>2. ReturnRestores
  <2>1. SUFFICES ASSUME NEW v \in Vectors, NEW user \in BOOLEAN
                 PROVE  /\ \A k \in 1 .. Len(Restores(user)) :
                             ValueAt(Frame(v, user), Offsets(Restores(user))[k])
                               = Restores(user)[k]
                        /\ Offsets(Frame(v, user))[Len(Frame(v, user)) + 1]
                              = Offsets(Restores(user))[Len(Restores(user)) + 1]
    BY Zenon DEF ReturnRestores
  <2>2. /\ Context(user) \in Seq(Values) /\ Frame(v, user) = Context(user)
        /\ Restores(user) = Context(user)
    BY FrameIsContext
  <2>3. QED
    BY <2>2, ValueOf
<1>3. ASSUME NEW name \in DOMAIN SyscallNumber
      PROVE  syscall_handler(do_call(name, <<"return", "arg1", "arg2", "arg3">>))
               = IF name \in {"set_handler", "sigreturn"} THEN <<-1>>
                 ELSE <<name, "arg1", "arg2", "arg3">>
  <2> DEFINE n == SyscallNumber[name]
  <2>1. do_call(name, <<"return", "arg1", "arg2", "arg3">>) =
          [eax |-> n, ebx |-> "arg1", ecx |-> "arg2", edx |-> "arg3"]
    BY ArgumentsOf DEF do_call
  <2>2. DOMAIN SyscallNumber = {"halt", "execute", "read", "write", "open",
          "close", "getargs", "vidmap", "set_handler", "sigreturn"}
    BY DEF SyscallNumber
  <2>3. n \in 1 .. 10
    BY <2>2 DEF SyscallNumber
  <2>4. syscall_tbl[n] = IF name \in {"set_handler", "sigreturn"} THEN "NULL" ELSE name
    BY <2>2 DEF SyscallNumber, syscall_tbl
  <2> HIDE DEF n
  <2>5. name # "NULL"
    BY <2>2
  <2>6. QED
    BY <2>1, <2>3, <2>4, <2>5 DEF syscall_handler, NUM_SYSCALLS
<1>4. \A n \in {0, NUM_SYSCALLS + 1, 2 * NUM_SYSCALLS} :
       syscall_handler([eax |-> n, ebx |-> "b", ecx |-> "c", edx |-> "d"])
         = <<-1>>
  BY DEF syscall_handler, NUM_SYSCALLS
<1>5. CallsArrive
  BY <1>3, <1>4, Zenon DEF CallsArrive
<1>6. QED
  BY <1>1, <1>2, <1>5 DEF EntriesFit

----------------------------------------------------------------------------
(* The memory functions.                                                   *)
MachineType == [mem : [Addresses -> Int], df : BOOLEAN, esi : Int, edi : Int]

(* A memory with n times v from `at` on, and one with n bytes copied.      *)
Over(mem, at, n, v) ==
  [a \in Addresses |-> IF a \in at .. at + n * Len(v) - 1
                       THEN v[((a - at) % Len(v)) + 1] ELSE mem[a]]
Brought(mem, from, to, n) ==
  [a \in Addresses |-> IF a \in to .. to + n - 1 THEN mem[from + (a - to)] ELSE mem[a]]

(* The k-th of the stores of w bytes, where the first is at e: whether it  *)
(* reaches address a, and how far into it a is; what n of them reach.      *)
Reaches(e, w, k, a) == a \in e + k * w .. e + k * w + w - 1
Into(e, w, k, a) == a - (e + k * w)
ReachedBy(e, w, n, a) == a \in e .. e + n * w - 1

LEMMA StoreAt ==
  ASSUME NEW w \in {1, 2, 4}, NEW n \in Nat, NEW e \in Int, NEW a \in Int
  PROVE  /\ ReachedBy(e, w, n, a) =>
              \E q \in 0 .. n - 1 :
                /\ \A k \in 0 .. n - 1 : Reaches(e, w, k, a) <=> k = q
                /\ Into(e, w, q, a) = (a - e) % w
         /\ ~ReachedBy(e, w, n, a) =>
              \A k \in 0 .. n - 1 : ~Reaches(e, w, k, a)
<1>1. CASE ReachedBy(e, w, n, a)
  <2> DEFINE q == (a - e) \div w
  <2>1. /\ q \in 0 .. n - 1
        /\ \A k \in 0 .. n - 1 : Reaches(e, w, k, a) <=> k = q
        /\ Into(e, w, q, a) = (a - e) % w
    <3>1. CASE w = 1
      BY <1>1, <3>1 DEF Reaches, Into, ReachedBy
    <3>2. CASE w = 2
      BY <1>1, <3>2 DEF Reaches, Into, ReachedBy
    <3>3. CASE w = 4
      BY <1>1, <3>3 DEF Reaches, Into, ReachedBy
    <3>4. QED
      BY <3>1, <3>2, <3>3
  <2> HIDE DEF q
  <2>2. QED
    BY <1>1, <2>1
<1>2. CASE ~ReachedBy(e, w, n, a)
  <2>1. CASE w = 1
    BY <1>2, <2>1 DEF Reaches, ReachedBy
  <2>2. CASE w = 2
    BY <1>2, <2>2 DEF Reaches, ReachedBy
  <2>3. CASE w = 4
    BY <1>2, <2>3 DEF Reaches, ReachedBy
  <2>4. QED
    BY <1>2, <2>1, <2>2, <2>3
<1>3. QED
  BY <1>1, <1>2

LEMMA StosUp ==
  ASSUME NEW m \in MachineType, m.df = FALSE, NEW v \in Seq(Int),
         Len(v) \in {1, 2, 4}, NEW n \in Nat
  PROVE  Stos(m, v, n) = [mem |-> Over(m.mem, m.edi, n, v), df |-> FALSE,
                          esi |-> m.esi, edi |-> m.edi + n * Len(v)]
<1>1. PICK w \in {1, 2, 4} : w = Len(v)
  OBVIOUS
<1>2. PICK e \in Int : e = m.edi
  BY DEF MachineType
<1>3. Step(m, Len(v)) = w
  BY <1>1 DEF Step
<1> DEFINE written(a) == {k \in 0 .. n - 1 : Reaches(e, w, k, a)}
           new(a) == IF written(a) = {} THEN m.mem[a]
                     ELSE v[Into(e, w, CHOOSE k \in written(a) : TRUE, a) + 1]
<1>4. Stos(m, v, n) = [m EXCEPT !.mem = [a \in Addresses |-> new(a)],
                                !.edi = e + n * w]
  BY <1>1, <1>2, <1>3 DEF Stos, Reaches, Into
<1>5. ASSUME NEW a \in Addresses
      PROVE  new(a) = IF ReachedBy(e, w, n, a) THEN v[((a - e) % w) + 1]
                      ELSE m.mem[a]
  <2>0. a \in Int
    BY DEF Addresses
  <2>1. CASE ReachedBy(e, w, n, a)
    <3>1. PICK q \in 0 .. n - 1 :
            /\ \A k \in 0 .. n - 1 : Reaches(e, w, k, a) <=> k = q
            /\ Into(e, w, q, a) = (a - e) % w
      BY <2>0, <2>1, StoreAt
    <3>2. written(a) = {q}
      BY <3>1
    <3>3. (CHOOSE k \in written(a) : TRUE) = q
      BY <3>2
    <3>4. QED
      BY <2>1, <3>1, <3>2, <3>3
  <2>2. CASE ~ReachedBy(e, w, n, a)
    <3>1. written(a) = {}
      BY <2>0, <2>2, StoreAt
    <3>2. QED
      BY <2>2, <3>1
  <2>3. QED
    BY <2>1, <2>2
<1>6. [a \in Addresses |-> new(a)] = Over(m.mem, e, n, v)
  <2> HIDE DEF new
  <2> QED
    BY <1>1, <1>5 DEF Over, ReachedBy
<1> HIDE DEF new
<1>7. QED
  BY <1>1, <1>2, <1>4, <1>6 DEF MachineType

(* The bytes before the destination is aligned are some of the n.          *)
LEMMA SomeUnaligned ==
  ASSUME NEW e \in Int, NEW n \in Nat
  PROVE  Unaligned(e, n) \in 0 .. n
<1> DEFINE T == {k \in 0 .. n : k = n \/ (e + k) % DWORD = 0}
<1>1. n \in T /\ T \subseteq Nat
  OBVIOUS
<1>2. PICK k \in T : \A j \in T : k =< j
  <2> HIDE DEF T
  <2> QED
    BY <1>1, LeastNumber
<1>3. \A j \in 0 .. k - 1 : (e + j) % DWORD # 0
  BY <1>2
<1>4. k \in 0 .. n /\ (k = n \/ (e + k) % DWORD = 0)
  BY <1>2
<1>5. QED
  BY <1>3, <1>4 DEF Unaligned

(* n bytes c from `at` on.                                                 *)
Bytes(mem, at, n, c) ==
  [a \in Addresses |-> IF a \in at .. at + n - 1 THEN c ELSE mem[a]]

Dword(c) == [k \in 1 .. DWORD |-> c]

LEMMA OverBytes ==
  ASSUME NEW mem \in [Addresses -> Int], NEW at \in Int, NEW n \in Nat,
         NEW c \in Int
  PROVE  /\ Over(mem, at, n, <<c>>) = Bytes(mem, at, n, c)
         /\ Bytes(mem, at, n, c) \in [Addresses -> Int]
<1>1. Len(<<c>>) = 1 /\ <<c>>[1] = c
  OBVIOUS
<1>2. ASSUME NEW a \in Addresses
      PROVE  a - at \in Int /\ (a - at) % 1 = 0
  BY DEF Addresses
<1>3. QED
  BY <1>1, <1>2 DEF Over, Bytes

LEMMA OverDwords ==
  ASSUME NEW mem \in [Addresses -> Int], NEW at \in Int, NEW n \in Nat,
         NEW c \in Int
  PROVE  Over(mem, at, n, Dword(c)) = Bytes(mem, at, n * 4, c)
<1>1. PICK v : v = Dword(c)
  OBVIOUS
<1>2. Len(v) = 4 /\ v[1] = c /\ v[2] = c /\ v[3] = c /\ v[4] = c
  BY <1>1 DEF Dword, DWORD
<1>3. ASSUME NEW a \in Addresses
      PROVE  a - at \in Int /\ (a - at) % 4 \in {0, 1, 2, 3}
  BY DEF Addresses
<1>4. \A a \in Addresses : v[((a - at) % 4) + 1] = c
  BY <1>2, <1>3
<1>5. Over(mem, at, n, v) = Bytes(mem, at, n * 4, c)
  BY <1>2, <1>4 DEF Over, Bytes
<1>6. QED
  BY <1>1, <1>5

LEMMA BytesMeet ==
  ASSUME NEW mem \in [Addresses -> Int], NEW at \in Int, NEW n \in Nat,
         NEW p \in Nat, NEW c \in Int
  PROVE  Bytes(Bytes(mem, at, n, c), at + n, p, c) = Bytes(mem, at, n + p, c)
<1>1. \A a \in Addresses : a \in Int
  BY DEF Addresses
<1>2. QED
  BY <1>1 DEF Bytes

LEMMA StoreBytesAre ==
  ASSUME NEW m \in MachineType, NEW c \in Int, NEW n \in Nat
  PROVE  /\ StoreBytes(m, c, n) = [mem |-> Bytes(m.mem, m.edi, n, c), df |-> m.df,
                                   esi |-> m.esi, edi |-> m.edi + n]
         /\ StoreBytes(m, c, n) \in MachineType
<1>1. PICK u : u = Up(m)
  OBVIOUS
<1>2. u \in MachineType /\ u.df = FALSE /\ u.mem = m.mem /\ u.esi = m.esi /\ u.edi = m.edi
  BY <1>1 DEF Up, MachineType
<1>3. <<c>> \in Seq(Int) /\ Len(<<c>>) = 1
  OBVIOUS
<1>4. m.mem \in [Addresses -> Int] /\ m.edi \in Int /\ m.esi \in Int /\ m.df \in BOOLEAN
  BY DEF MachineType
<1>5. Stos(u, <<c>>, n) = [mem |-> Bytes(m.mem, m.edi, n, c), df |-> FALSE,
                           esi |-> m.esi, edi |-> m.edi + n]
  <2>1. Stos(u, <<c>>, n) = [mem |-> Over(u.mem, u.edi, n, <<c>>), df |-> FALSE,
                             esi |-> u.esi, edi |-> u.edi + n * Len(<<c>>)]
    BY <1>2, <1>3, StosUp
  <2>2. Over(m.mem, m.edi, n, <<c>>) = Bytes(m.mem, m.edi, n, c)
    BY <1>4, OverBytes
  <2>3. n * Len(<<c>>) = n
    BY <1>3
  <2>4. QED
    BY <1>2, <2>1, <2>2, <2>3
<1>6. Bytes(m.mem, m.edi, n, c) \in [Addresses -> Int]
  BY <1>4 DEF Bytes
<1>7. StoreBytes(m, c, n) = [Stos(u, <<c>>, n) EXCEPT !.df = m.df]
  BY <1>1 DEF StoreBytes
<1>8. QED
  BY <1>4, <1>5, <1>6, <1>7 DEF MachineType

LEMMA MemsetSets ==
  ASSUME NEW m \in MachineType, NEW c \in Int, NEW n \in Nat
  PROVE  memset(m, c, n).mem = Bytes(m.mem, m.edi, n, c)
<1>1. PICK e \in Int, M \in [Addresses -> Int] : e = m.edi /\ M = m.mem
  BY DEF MachineType
<1>2. PICK k \in 0 .. n : k = Unaligned(m.edi, n)
  BY <1>1, SomeUnaligned
<1>3. PICK r \in Nat : r = n - k /\ n - r = k
  BY <1>2
<1>4. PICK al \in MachineType :
        /\ al = StoreBytes(m, c, k)
        /\ al.mem = Bytes(M, e, k, c) /\ al.edi = e + k
  <2>1. k \in Nat
    OBVIOUS
  <2>2. PICK al : al = StoreBytes(m, c, k)
    OBVIOUS
  <2>3. /\ al = [mem |-> Bytes(m.mem, m.edi, k, c), df |-> m.df,
                 esi |-> m.esi, edi |-> m.edi + k]
        /\ al \in MachineType
    BY <2>1, <2>2, StoreBytesAre
  <2>4. al.mem = Bytes(M, e, k, c) /\ al.edi = e + k
    BY <1>1, <2>3
  <2>5. QED
    BY <2>2, <2>3, <2>4
<1>5. PICK D : D = Dword(c)
  OBVIOUS
<1>6. D \in Seq(Int) /\ Len(D) = 4
  BY <1>5 DEF Dword, DWORD
<1>7. PICK q \in Nat, s \in Nat : q = r \div 4 /\ s = r % 4 /\ r = 4 * q + s
  BY <1>3
<1>8. cld(al) \in MachineType /\ cld(al).df = FALSE
      /\ cld(al).mem = al.mem /\ cld(al).edi = al.edi
  BY DEF cld, MachineType
<1>9. PICK f : f = Stos(cld(al), D, q)
  OBVIOUS
<1>10. PICK p \in Nat, g \in Int :
         /\ p = k + 4 * q /\ g = e + p
         /\ f.mem = Bytes(M, e, p, c) /\ f.edi = g /\ f \in MachineType
  <2>1. PICK a \in [Addresses -> Int], h \in Int, i \in Int :
          a = al.mem /\ h = al.edi /\ i = cld(al).esi
    BY <1>4, <1>8 DEF MachineType
  <2>2. f = [mem |-> Over(a, h, q, D), df |-> FALSE, esi |-> i, edi |-> h + q * Len(D)]
    BY <1>6, <1>8, <1>9, <2>1, StosUp
  <2>3. PICK z \in Nat : z = q * 4
    OBVIOUS
  <2>4. /\ Over(a, h, q, D) = Bytes(a, h, z, c)
        /\ Bytes(a, h, z, c) \in [Addresses -> Int]
    <3>1. Over(a, h, q, Dword(c)) = Bytes(a, h, q * 4, c)
      BY OverDwords, Zenon
    <3>2. Bytes(a, h, z, c) \in [Addresses -> Int]
      BY OverBytes
    <3>3. QED
      BY <1>5, <2>3, <3>1, <3>2
  <2>5. a = Bytes(M, e, k, c) /\ h = e + k /\ k \in Nat
    BY <1>4, <2>1
  <2>6. Bytes(a, h, z, c) = Bytes(M, e, k + z, c)
    BY <2>5, BytesMeet
  <2>7. PICK p \in Nat : p = k + z /\ p = k + 4 * q
    BY <2>3, <2>5
  <2>8. h + q * Len(D) = e + p
    BY <1>6, <2>5, <2>7
  <2>9. f = [mem |-> Bytes(M, e, p, c), df |-> FALSE, esi |-> i, edi |-> e + p]
        /\ Bytes(M, e, p, c) \in [Addresses -> Int] /\ e + p \in Int
    <3>1. Over(a, h, q, D) = Bytes(M, e, p, c)
          /\ Bytes(M, e, p, c) \in [Addresses -> Int]
      BY <2>4, <2>6, <2>7
    <3>2. PICK j \in Int : j = e + p /\ j = h + q * Len(D)
      BY <2>8
    <3>3. QED
      BY <2>2, <3>1, <3>2
  <2>10. f \in MachineType
    BY <2>9 DEF MachineType
  <2>11. QED
    BY <2>7, <2>9, <2>10
<1>11. memset(m, c, n) = IF r = 0 THEN al ELSE StoreBytes(f, c, s)
  BY <1>2, <1>3, <1>4, <1>5, <1>7, <1>9 DEF memset, DWORD, Dword
<1>12. CASE r = 0
  BY <1>1, <1>3, <1>4, <1>11, <1>12
<1>13. CASE r # 0
  <2>1. StoreBytes(f, c, s).mem = Bytes(f.mem, f.edi, s, c)
    BY <1>10, StoreBytesAre
  <2>2. Bytes(Bytes(M, e, p, c), e + p, s, c) = Bytes(M, e, p + s, c)
    BY BytesMeet
  <2>3. p + s = n
    BY <1>3, <1>7, <1>10
  <2>4. QED
    BY <1>1, <1>10, <1>11, <1>13, <2>1, <2>2, <2>3
<1>14. QED
  BY <1>12, <1>13

(* What rep movs does is known from what each of its steps does.           *)
CopyAt(m, width, mem, k) ==
  Copied(mem, m.esi + (k - 1) * Step(m, width), m.edi + (k - 1) * Step(m, width), width)

LEMMA MovsRuns ==
  ASSUME NEW m \in MachineType, NEW width \in {1, 4}, NEW n \in Nat, NEW C,
         C = [k \in 0 .. n |-> IF k = 0 THEN m.mem
                               ELSE CopyAt(m, width, C[k - 1], k)]
  PROVE  Movs(m, width, n) =
           [mem |-> C[n], df |-> m.df, esi |-> m.esi + n * Step(m, width),
            edi |-> m.edi + n * Step(m, width)]
<1>1. PICK by : by = Step(m, width)
  OBVIOUS
<1> DEFINE mem == CHOOSE f : f = [k \in 0 .. n |->
             IF k = 0 THEN m.mem ELSE CopyAt(m, width, f[k - 1], k)]
<1>2. mem = [k \in 0 .. n |->
               IF k = 0 THEN m.mem ELSE CopyAt(m, width, mem[k - 1], k)]
  OBVIOUS
<1>3. Movs(m, width, n) = [m EXCEPT !.mem = mem[n], !.edi = m.edi + n * by,
                                    !.esi = m.esi + n * by]
  BY <1>1 DEF Movs, CopyAt
<1> HIDE DEF mem
<1>4. GoAlike(mem, C, n)
  BY <1>2 DEF GoAlike
<1>5. \A k \in 0 .. n : mem[k] = C[k]
  BY <1>4, SameValues
<1>6. mem[n] = C[n]
  BY <1>5
<1>7. QED
  BY <1>1, <1>3, <1>6 DEF MachineType

(* n bytes are in memory from `at` on.                                     *)
InMemory(at, n) == at \in Nat /\ at + n =< MemorySize

(* Copies that go up bring what was there, unless the destination is       *)
(* inside the source.                                                      *)
GoesUp(m, w, n, z) ==
  /\ m \in MachineType /\ m.df = FALSE /\ w \in {1, 4} /\ n \in Nat
  /\ z \in Nat /\ z = n * w /\ InMemory(m.esi, z) /\ InMemory(m.edi, z)
  /\ \/ m.esi + z =< m.edi \/ m.edi + z =< m.esi
     \/ w = 1 /\ m.edi =< m.esi

LEMMA MovsUp ==
  ASSUME NEW m, NEW w, NEW n, NEW z, GoesUp(m, w, n, z)
  PROVE  Movs(m, w, n) = [mem |-> Brought(m.mem, m.esi, m.edi, z), df |-> FALSE,
                          esi |-> m.esi + z, edi |-> m.edi + z]
<1> USE DEF GoesUp
<1>1. PICK s \in Nat, t \in Nat, M \in [Addresses -> Int] :
        s = m.esi /\ t = m.edi /\ M = m.mem
  BY DEF InMemory, MachineType
<1>2. s + z =< MemorySize /\ t + z =< MemorySize /\ MemorySize \in Nat
      /\ (s + z =< t \/ t + z =< s \/ (w = 1 /\ t =< s))
  BY <1>1, LibraryAssumption DEF InMemory
<1>3. Step(m, w) = w
  BY DEF Step
<1> DEFINE C == [k \in 0 .. n |-> Brought(M, s, t, k * w)]
<1>4. ASSUME NEW k \in 0 .. n
      PROVE  C[k] = IF k = 0 THEN M ELSE CopyAt(m, w, C[k - 1], k)
  <2>1. CASE k = 0
    <3>1. Brought(M, s, t, 0) = M
      BY DEF Brought
    <3>2. QED
      BY <2>1, <3>1
  <2>2. CASE k # 0
    <3>1. PICK p \in Nat : p = k - 1 /\ k = p + 1 /\ p \in 0 .. n
      BY <2>2
    <3>2. PICK x \in Nat : x = p * w /\ k * w = x + w /\ x + w =< z
      <4>1. CASE w = 1
        BY <3>1, <4>1
      <4>2. CASE w = 4
        BY <3>1, <4>2
      <4>3. QED
        BY <4>1, <4>2
    <3>3. C[k] = Brought(M, s, t, x + w) /\ C[k - 1] = Brought(M, s, t, x)
      BY <3>1, <3>2
    <3>4. CopyAt(m, w, C[k - 1], k) = Copied(Brought(M, s, t, x), s + x, t + x, w)
      BY <1>1, <1>3, <3>1, <3>2, <3>3 DEF CopyAt
    <3>5. ASSUME NEW a \in Addresses
          PROVE  Brought(M, s, t, x + w)[a]
                   = Copied(Brought(M, s, t, x), s + x, t + x, w)[a]
      <4>1. a \in Nat /\ a < MemorySize
        BY <1>2 DEF Addresses
      <4>2. CASE a - (t + x) \in 0 .. w - 1
        <5>1. PICK b \in Int : b = s + x + (a - (t + x)) /\ b = s + (a - t)
          BY <4>1
        <5>2. b \in Addresses /\ ~(b \in t .. t + x - 1)
          BY <1>2, <3>2, <4>1, <4>2, <5>1 DEF Addresses
        <5>3. Brought(M, s, t, x)[b] = M[b]
          BY <5>2 DEF Brought
        <5>4. Copied(Brought(M, s, t, x), s + x, t + x, w)[a] = M[b]
          BY <4>2, <5>1, <5>2, <5>3 DEF Copied
        <5>5. a \in t .. t + (x + w) - 1
          BY <4>1, <4>2
        <5>6. Brought(M, s, t, x + w)[a] = M[b]
          BY <5>1, <5>5 DEF Brought
        <5>7. QED
          BY <5>4, <5>6
      <4>3. CASE a - (t + x) \notin 0 .. w - 1
        <5>1. a \in t .. t + (x + w) - 1 <=> a \in t .. t + x - 1
          BY <4>1, <4>3
        <5>2. QED
          BY <4>3, <5>1 DEF Brought, Copied
      <4>4. QED
        BY <4>2, <4>3
    <3>6. Brought(M, s, t, x + w) = Copied(Brought(M, s, t, x), s + x, t + x, w)
      BY <3>5 DEF Brought, Copied
    <3>7. QED
      BY <2>2, <3>3, <3>4, <3>6
  <2>3. QED
    BY <2>1, <2>2
<1>5. C = [k \in 0 .. n |-> IF k = 0 THEN m.mem ELSE CopyAt(m, w, C[k - 1], k)]
  <2>1. C = [k \in 0 .. n |-> C[k]]
    OBVIOUS
  <2> HIDE DEF C
  <2>2. QED
    BY <1>1, <1>4, <2>1
<1>6. C[n] = Brought(M, s, t, z)
  OBVIOUS
<1> HIDE DEF C
<1>7. Movs(m, w, n) = [mem |-> C[n], df |-> m.df, esi |-> m.esi + n * Step(m, w),
                       edi |-> m.edi + n * Step(m, w)]
  BY <1>5, MovsRuns
<1>8. QED
  BY <1>1, <1>3, <1>6, <1>7

(* Bytes that are copied from the last one down, into what is above.       *)
GoesDown(m, n, s, t) ==
  /\ m \in MachineType /\ m.df = TRUE /\ n \in Nat /\ s \in Nat /\ t \in Nat
  /\ m.esi = s + n - 1 /\ m.edi = t + n - 1
  /\ InMemory(s, n) /\ InMemory(t, n) /\ s < t

LEMMA MovsDown ==
  ASSUME NEW m, NEW n, NEW s, NEW t, GoesDown(m, n, s, t)
  PROVE  /\ Movs(m, 1, n).mem = Brought(m.mem, s, t, n)
         /\ \E x \in Int, y \in Int :
              Movs(m, 1, n) = [mem |-> Brought(m.mem, s, t, n), df |-> TRUE,
                               esi |-> x, edi |-> y]
<1> USE DEF GoesDown
<1>1. PICK M \in [Addresses -> Int] : M = m.mem
  BY DEF MachineType
<1>2. s + n =< MemorySize /\ t + n =< MemorySize /\ MemorySize \in Nat
  BY LibraryAssumption DEF InMemory
<1>3. Step(m, 1) = -1
  BY DEF Step
<1> DEFINE C == [k \in 0 .. n |-> Brought(M, s + (n - k), t + (n - k), k)]
<1>4. ASSUME NEW k \in 0 .. n
      PROVE  C[k] = IF k = 0 THEN M ELSE CopyAt(m, 1, C[k - 1], k)
  <2>1. CASE k = 0
    <3>1. Brought(M, s + (n - 0), t + (n - 0), 0) = M
      BY DEF Brought
    <3>2. QED
      BY <2>1, <3>1
  <2>2. CASE k # 0
    <3>1. PICK p \in Nat, x \in Nat :
            p = k - 1 /\ k = p + 1 /\ p \in 0 .. n /\ x = n - k /\ n - p = x + 1
      <4>1. k - 1 \in Nat /\ n - k \in Nat
        BY <2>2
      <4>2. QED
        BY <4>1
    <3>3. C[k] = Brought(M, s + x, t + x, k)
          /\ C[k - 1] = Brought(M, s + (x + 1), t + (x + 1), p)
      BY <3>1
    <3>4. CopyAt(m, 1, C[k - 1], k)
            = Copied(Brought(M, s + (x + 1), t + (x + 1), p), s + x, t + x, 1)
      <4>1. m.esi + (k - 1) * Step(m, 1) = s + x /\ m.edi + (k - 1) * Step(m, 1) = t + x
        BY <1>3, <3>1
      <4>2. QED
        BY <3>3, <4>1 DEF CopyAt
    <3>5. ASSUME NEW a \in Addresses
          PROVE  Brought(M, s + x, t + x, k)[a]
                   = Copied(Brought(M, s + (x + 1), t + (x + 1), p), s + x, t + x, 1)[a]
      <4>1. a \in Nat /\ a < MemorySize
        BY <1>2 DEF Addresses
      <4>2. CASE a = t + x
        <5>1. PICK b \in Int : b = s + x + (a - (t + x)) /\ b = s + x
          BY <4>1, <4>2
        <5>2. b \in Addresses /\ ~(b \in t + (x + 1) .. t + (x + 1) + p - 1)
          BY <1>2, <3>1, <4>1, <4>2, <5>1 DEF Addresses
        <5>3. Brought(M, s + (x + 1), t + (x + 1), p)[b] = M[b]
          BY <5>2 DEF Brought
        <5>4. a - (t + x) \in 0 .. 1 - 1
          BY <4>2
        <5>5. Copied(Brought(M, s + (x + 1), t + (x + 1), p), s + x, t + x, 1)[a] = M[b]
          BY <5>1, <5>2, <5>3, <5>4 DEF Copied
        <5>6. a \in t + x .. t + x + k - 1
          BY <2>2, <4>1, <4>2
        <5>7. Brought(M, s + x, t + x, k)[a] = M[b]
          BY <5>1, <5>6 DEF Brought
        <5>8. QED
          BY <5>5, <5>7
      <4>3. CASE a # t + x
        <5>1. a \in t + x .. t + x + k - 1 <=> a \in t + (x + 1) .. t + (x + 1) + p - 1
          BY <3>1, <4>1, <4>3
        <5>2. a - (t + x) \notin 0 .. 1 - 1
          BY <4>1, <4>3
        <5>3. s + x + (a - (t + x)) = s + (x + 1) + (a - (t + (x + 1)))
          BY <4>1
        <5>4. QED
          BY <5>1, <5>2, <5>3 DEF Brought, Copied
      <4>4. QED
        BY <4>2, <4>3
    <3>6. Brought(M, s + x, t + x, k)
            = Copied(Brought(M, s + (x + 1), t + (x + 1), p), s + x, t + x, 1)
      BY <3>5 DEF Brought, Copied
    <3>7. QED
      BY <2>2, <3>3, <3>4, <3>6
  <2>3. QED
    BY <2>1, <2>2
<1>5. C = [k \in 0 .. n |-> IF k = 0 THEN m.mem ELSE CopyAt(m, 1, C[k - 1], k)]
  <2>1. C = [k \in 0 .. n |-> C[k]]
    OBVIOUS
  <2> HIDE DEF C
  <2>2. QED
    BY <1>1, <1>4, <2>1
<1>6. C[n] = Brought(M, s, t, n)
  <2>1. s + (n - n) = s /\ t + (n - n) = t
    OBVIOUS
  <2>2. QED
    BY <2>1
<1> HIDE DEF C
<1>7. PICK x \in Int, y \in Int :
        Movs(m, 1, n) = [mem |-> C[n], df |-> TRUE, esi |-> x, edi |-> y]
  <2>1. PICK w \in {1, 4} : w = 1
    OBVIOUS
  <2>2. C = [k \in 0 .. n |-> IF k = 0 THEN m.mem ELSE CopyAt(m, w, C[k - 1], k)]
    BY <1>5, <2>1
  <2>3. Movs(m, w, n) = [mem |-> C[n], df |-> m.df, esi |-> m.esi + n * Step(m, w),
                         edi |-> m.edi + n * Step(m, w)]
    BY <2>2, MovsRuns
  <2>4. m.esi + n * Step(m, w) \in Int /\ m.edi + n * Step(m, w) \in Int
    BY <1>3, <2>1
  <2>5. QED
    BY <2>1, <2>3, <2>4
<1>8. QED
  BY <1>1, <1>6, <1>7

LEMMA BroughtType ==
  ASSUME NEW mem \in [Addresses -> Int], NEW n \in Nat, NEW s \in Int, NEW t \in Int,
         InMemory(s, n)
  PROVE  Brought(mem, s, t, n) \in [Addresses -> Int]
<1>1. ASSUME NEW a \in Addresses, a \in t .. t + n - 1
      PROVE  s + (a - t) \in Addresses
  BY <1>1, LibraryAssumption DEF Addresses, InMemory
<1>2. QED
  BY <1>1 DEF Brought

LEMMA MemmoveMoves ==
  ASSUME NEW m \in MachineType, NEW n \in Nat,
         InMemory(m.esi, n), InMemory(m.edi, n)
  PROVE  /\ memmove(m, n).mem = Brought(m.mem, m.esi, m.edi, n)
         /\ memmove(m, n) \in MachineType
<1>1. PICK s \in Nat, t \in Nat : s = m.esi /\ t = m.edi
  BY DEF InMemory
<1>0. PICK B \in [Addresses -> Int] : B = Brought(m.mem, s, t, n)
  BY <1>1, BroughtType DEF MachineType
<1>2. CASE s >= t
  <2>1. PICK c : c = cld(m)
    OBVIOUS
  <2>2. c \in MachineType /\ c.df = FALSE /\ c.mem = m.mem /\ c.esi = s /\ c.edi = t
    BY <1>1, <2>1 DEF cld, MachineType
  <2>3. Movs(c, 1, n) = [mem |-> B, df |-> FALSE, esi |-> s + n, edi |-> t + n]
          /\ s + n \in Int /\ t + n \in Int
    <3>1. PICK w \in {1, 4} : w = 1
      OBVIOUS
    <3>2. n = n * w /\ t =< s
      BY <1>2, <3>1
    <3>3. InMemory(c.esi, n) /\ InMemory(c.edi, n) /\ c.edi =< c.esi
      BY <1>1, <2>2, <3>2
    <3>4. Movs(c, w, n) = [mem |-> Brought(c.mem, c.esi, c.edi, n), df |-> FALSE,
                           esi |-> c.esi + n, edi |-> c.edi + n]
      <4>1. GoesUp(c, w, n, n)
        BY <2>2, <3>1, <3>2, <3>3 DEF GoesUp
      <4>2. QED
        BY <4>1, MovsUp
    <3>5. QED
      BY <1>0, <2>2, <3>1, <3>4
  <2>4. memmove(m, n) = Movs(c, 1, n)
    BY <1>1, <1>2, <2>1 DEF memmove
  <2>5. QED
    <3>1. PICK r : r = memmove(m, n)
      OBVIOUS
    <3>2. PICK d \in BOOLEAN, i \in Int, j \in Int :
            r = [mem |-> B, df |-> d, esi |-> i, edi |-> j]
      BY <2>3, <2>4, <3>1, Zenon
    <3>4. r \in MachineType /\ r.mem = B
      BY <3>2 DEF MachineType
    <3>5. QED
      BY <1>0, <1>1, <3>1, <3>4
<1>3. CASE s < t
  <2>1. PICK c : c = [std(cld(m)) EXCEPT !.esi = @ + n - 1, !.edi = @ + n - 1]
    OBVIOUS
  <2>2. c \in MachineType /\ c.df = TRUE /\ c.mem = m.mem
        /\ c.esi = s + n - 1 /\ c.edi = t + n - 1
    <3>1. PICK x \in Int, y \in Int : x = s + n - 1 /\ y = t + n - 1
      OBVIOUS
    <3>2. m.mem \in [Addresses -> Int] /\ m.esi = s /\ m.edi = t
      BY <1>1 DEF MachineType
    <3>3. c = [mem |-> m.mem, df |-> TRUE, esi |-> x, edi |-> y]
      BY <2>1, <3>1, <3>2 DEF cld, std, MachineType
    <3>4. QED
      BY <3>1, <3>2, <3>3 DEF MachineType
  <2>3. PICK x \in Int, y \in Int :
          Movs(c, 1, n) = [mem |-> B, df |-> TRUE, esi |-> x, edi |-> y]
    <3>1. InMemory(s, n) /\ InMemory(t, n)
      BY <1>1
    <3>2. PICK x \in Int, y \in Int :
            Movs(c, 1, n) = [mem |-> Brought(c.mem, s, t, n), df |-> TRUE,
                             esi |-> x, edi |-> y]
      <4>1. GoesDown(c, n, s, t)
        BY <1>3, <2>2, <3>1 DEF GoesDown
      <4>2. QED
        BY <4>1, MovsDown
    <3>3. QED
      BY <1>0, <2>2, <3>2
  <2>4. memmove(m, n) = Movs(c, 1, n)
    BY <1>1, <1>3, <2>1 DEF memmove
  <2>5. QED
    <3>1. PICK r : r = memmove(m, n)
      OBVIOUS
    <3>2. PICK d \in BOOLEAN, i \in Int, j \in Int :
            r = [mem |-> B, df |-> d, esi |-> i, edi |-> j]
      BY <2>3, <2>4, <3>1, Zenon
    <3>4. r \in MachineType /\ r.mem = B
      BY <3>2 DEF MachineType
    <3>5. QED
      BY <1>0, <1>1, <3>1, <3>4
<1>4. QED
  BY <1>1, <1>2, <1>3

(* A copy, and what follows it, are one copy, as the source is not written.*)
LEMMA BroughtOn ==
  ASSUME NEW mem \in [Addresses -> Int], NEW n \in Nat, NEW p \in Nat,
         NEW s \in Nat, NEW t \in Nat,
         InMemory(s, n + p), InMemory(t, n + p), s + n + p =< t \/ t + n + p =< s
  PROVE  Brought(Brought(mem, s, t, n), s + n, t + n, p) = Brought(mem, s, t, n + p)
<1> DEFINE A == Brought(mem, s, t, n)
<1>0. MemorySize \in Nat /\ s + n + p =< MemorySize /\ t + n + p =< MemorySize
  BY LibraryAssumption DEF InMemory
<1>1. ASSUME NEW a \in Addresses
      PROVE  Brought(A, s + n, t + n, p)[a] = Brought(mem, s, t, n + p)[a]
  <2>1. a \in Nat /\ a < MemorySize
    BY <1>0 DEF Addresses
  <2>2. CASE a \in t + n .. t + n + p - 1
    <3>1. PICK b \in Int : b = s + n + (a - (t + n)) /\ b = s + (a - t)
      BY <2>1
    <3>2. b \in Addresses /\ ~(b \in t .. t + n - 1)
      BY <1>0, <2>1, <2>2, <3>1 DEF Addresses
    <3>3. A[b] = mem[b]
      BY <3>2 DEF Brought
    <3>4. Brought(A, s + n, t + n, p)[a] = A[b]
      BY <2>2, <3>1 DEF Brought
    <3>5. a \in t .. t + (n + p) - 1
      BY <2>1, <2>2
    <3>6. Brought(mem, s, t, n + p)[a] = mem[b]
      BY <3>1, <3>5 DEF Brought
    <3>7. QED
      BY <3>3, <3>4, <3>6
  <2>3. CASE a \notin t + n .. t + n + p - 1
    <3>1. Brought(A, s + n, t + n, p)[a] = A[a]
      BY <2>3 DEF Brought
    <3>2. a \in t .. t + (n + p) - 1 <=> a \in t .. t + n - 1
      BY <2>1, <2>3
    <3>3. QED
      BY <3>1, <3>2 DEF Brought
  <2>4. QED
    BY <2>2, <2>3
<1>2. QED
  BY <1>1 DEF Brought

LEMMA CopyBytesAre ==
  ASSUME NEW m \in MachineType, NEW n \in Nat,
         InMemory(m.esi, n), InMemory(m.edi, n),
         m.esi + n =< m.edi \/ m.edi + n =< m.esi
  PROVE  /\ CopyBytes(m, n).mem = Brought(m.mem, m.esi, m.edi, n)
         /\ CopyBytes(m, n).esi = m.esi + n /\ CopyBytes(m, n).edi = m.edi + n
         /\ CopyBytes(m, n) \in MachineType
<1>1. PICK u : u = Up(m)
  OBVIOUS
<1>2. u \in MachineType /\ u.df = FALSE /\ u.mem = m.mem /\ u.esi = m.esi /\ u.edi = m.edi
  BY <1>1 DEF Up, MachineType
<1>3. PICK w \in {1, 4} : w = 1
  OBVIOUS
<1>4. n = n * w
  BY <1>3
<1>5. Movs(u, w, n) = [mem |-> Brought(m.mem, m.esi, m.edi, n), df |-> FALSE,
                       esi |-> m.esi + n, edi |-> m.edi + n]
  <2>1. InMemory(u.esi, n) /\ InMemory(u.edi, n)
        /\ (u.esi + n =< u.edi \/ u.edi + n =< u.esi)
    BY <1>2
  <2>2. Movs(u, w, n) = [mem |-> Brought(u.mem, u.esi, u.edi, n), df |-> FALSE,
                         esi |-> u.esi + n, edi |-> u.edi + n]
    <3>1. GoesUp(u, w, n, n)
      BY <1>2, <1>4, <2>1 DEF GoesUp
    <3>2. QED
      BY <3>1, MovsUp
  <2>3. QED
    BY <1>2, <2>2
<1>6. Brought(m.mem, m.esi, m.edi, n) \in [Addresses -> Int]
  BY BroughtType DEF MachineType
<1>7. CopyBytes(m, n) = [Movs(u, 1, n) EXCEPT !.df = m.df]
  BY <1>1 DEF CopyBytes
<1>8. m.esi + n \in Int /\ m.edi + n \in Int /\ m.df \in BOOLEAN
  BY DEF MachineType
<1>9. QED
  BY <1>3, <1>5, <1>6, <1>7, <1>8 DEF MachineType

LEMMA MemcpyCopies ==
  ASSUME NEW m \in MachineType, NEW n \in Nat,
         InMemory(m.esi, n), InMemory(m.edi, n),
         m.esi + n =< m.edi \/ m.edi + n =< m.esi
  PROVE  memcpy(m, n).mem = Brought(m.mem, m.esi, m.edi, n)
<1>1. PICK s \in Nat, t \in Nat, M \in [Addresses -> Int] :
        s = m.esi /\ t = m.edi /\ M = m.mem
  BY DEF InMemory, MachineType
<1>2. PICK k \in 0 .. n : k = Unaligned(m.edi, n)
  <2>1. m.edi \in Int
    BY <1>1
  <2>2. QED
    BY <2>1, SomeUnaligned
<1>3. PICK r \in Nat : r = n - k /\ n - r = k
  BY <1>2
<1>4. PICK q \in Nat, b \in Nat, z \in Nat :
        q = r \div 4 /\ b = r % 4 /\ z = q * 4 /\ k + z + b = n
  <2>1. r \div 4 \in Nat /\ r % 4 \in Nat /\ r = ((r \div 4) * 4) + (r % 4)
    BY <1>3
  <2>2. QED
    BY <1>2, <1>3, <2>1
<1>5. MemorySize \in Nat /\ s + n =< MemorySize /\ t + n =< MemorySize
      /\ (s + n =< t \/ t + n =< s)
  BY <1>1, LibraryAssumption DEF InMemory
<1>6. PICK al : al = CopyBytes(m, k)
  OBVIOUS
<1>7. al.mem = Brought(M, s, t, k) /\ al.esi = s + k /\ al.edi = t + k
      /\ al \in MachineType
  <2>1. InMemory(m.esi, k) /\ InMemory(m.edi, k) /\ k \in Nat
        /\ (m.esi + k =< m.edi \/ m.edi + k =< m.esi)
    BY <1>1, <1>2, <1>5 DEF InMemory
  <2>2. QED
    BY <1>1, <1>6, <2>1, CopyBytesAre
<1>8. PICK c : c = cld(al)
  OBVIOUS
<1>9. c \in MachineType /\ c.df = FALSE /\ c.mem = al.mem
      /\ c.esi = s + k /\ c.edi = t + k
  BY <1>7, <1>8 DEF cld, MachineType
<1>10. PICK f : f = Movs(c, 4, q)
  OBVIOUS
<1>11. f.mem = Brought(M, s, t, k + z) /\ f.esi = s + (k + z) /\ f.edi = t + (k + z)
       /\ f \in MachineType
  <2>1. PICK w \in {1, 4} : w = 4
    OBVIOUS
  <2>2. z = q * w
    BY <1>4, <2>1
  <2>3. InMemory(c.esi, z) /\ InMemory(c.edi, z)
        /\ (c.esi + z =< c.edi \/ c.edi + z =< c.esi)
    BY <1>2, <1>4, <1>5, <1>9 DEF InMemory
  <2>4. Movs(c, w, q) = [mem |-> Brought(c.mem, c.esi, c.edi, z), df |-> FALSE,
                         esi |-> c.esi + z, edi |-> c.edi + z]
    <3>1. GoesUp(c, w, q, z)
      BY <1>9, <2>2, <2>3 DEF GoesUp
    <3>2. QED
      BY <3>1, MovsUp
  <2>5. Brought(Brought(M, s, t, k), s + k, t + k, z) = Brought(M, s, t, k + z)
    <3>1. InMemory(s, k + z) /\ InMemory(t, k + z) /\ k \in Nat
          /\ (s + k + z =< t \/ t + k + z =< s)
      BY <1>2, <1>4, <1>5 DEF InMemory
    <3>2. QED
      BY <3>1, BroughtOn
  <2>6. Brought(M, s, t, k + z) \in [Addresses -> Int]
    <3>1. InMemory(s, k + z) /\ k + z \in Nat
      BY <1>2, <1>4, <1>5 DEF InMemory
    <3>2. QED
      BY <3>1, BroughtType
  <2>7. f = [mem |-> Brought(M, s, t, k + z), df |-> FALSE,
             esi |-> s + (k + z), edi |-> t + (k + z)]
    <3>1. c.esi + z = s + (k + z) /\ c.edi + z = t + (k + z)
      BY <1>2, <1>9
    <3>2. QED
      BY <1>7, <1>9, <1>10, <2>1, <2>4, <2>5, <3>1
  <2>8. s + (k + z) \in Int /\ t + (k + z) \in Int
    BY <1>2
  <2>9. QED
    BY <2>6, <2>7, <2>8 DEF MachineType
<1>12. memcpy(m, n) = IF r = 0 THEN al ELSE CopyBytes(f, b)
  BY <1>2, <1>3, <1>4, <1>6, <1>8, <1>10 DEF memcpy, DWORD
<1>13. CASE r = 0
  BY <1>1, <1>3, <1>7, <1>12, <1>13
<1>14. CASE r # 0
  <2>1. InMemory(f.esi, b) /\ InMemory(f.edi, b)
        /\ (f.esi + b =< f.edi \/ f.edi + b =< f.esi)
    BY <1>2, <1>4, <1>5, <1>11 DEF InMemory
  <2>2. CopyBytes(f, b).mem = Brought(f.mem, f.esi, f.edi, b)
    BY <1>11, <2>1, CopyBytesAre
  <2>3. PICK p \in Nat : p = k + z /\ p + b = n
    BY <1>2, <1>4
  <2>4. Brought(Brought(M, s, t, p), s + p, t + p, b) = Brought(M, s, t, p + b)
    <3>1. InMemory(s, p + b) /\ InMemory(t, p + b)
          /\ (s + p + b =< t \/ t + p + b =< s)
      BY <1>5, <2>3 DEF InMemory
    <3>2. QED
      BY <3>1, BroughtOn
  <2>5. QED
    BY <1>1, <1>11, <1>12, <1>14, <2>2, <2>3, <2>4
<1>15. QED
  BY <1>13, <1>14

LEMMA MachineFits ==
  ASSUME NEW df \in BOOLEAN, NEW from \in Int, NEW to \in Int
  PROVE  /\ Machine(df, from, to) \in MachineType
         /\ Machine(df, from, to).mem = [a \in Addresses |-> a]
         /\ Machine(df, from, to).esi = from
         /\ Machine(df, from, to).edi = to
<1>1. \A a \in Addresses : a \in Int
  BY DEF Addresses
<1>2. QED
  BY <1>1 DEF Machine, MachineType

LEMMA WordsOver ==
  ASSUME NEW m \in MachineType, NEW v \in Seq(Int), Len(v) \in {2, 4}, NEW n \in Nat
  PROVE  Stos(cld(m), v, n).mem = Over(m.mem, m.edi, n, v)
<1>1. PICK c : c = cld(m)
  OBVIOUS
<1>2. c \in MachineType /\ c.df = FALSE /\ c.mem = m.mem /\ c.edi = m.edi
  BY <1>1 DEF cld, MachineType
<1>3. Len(v) \in {1, 2, 4}
  OBVIOUS
<1>4. Stos(c, v, n) = [mem |-> Over(c.mem, c.edi, n, v), df |-> FALSE,
                       esi |-> c.esi, edi |-> c.edi + n * Len(v)]
  BY <1>2, <1>3, StosUp, Zenon
<1>5. QED
  BY <1>1, <1>2, <1>4

(* The screen goes up by a row.                                            *)
LEMMA ScrollsUp ==
  ASSUME NEW df \in BOOLEAN, NEW rows \in 1 .. 3, NEW cols \in 1 .. 3,
         2 * rows * cols =< MemorySize
  PROVE  Scrolled(Machine(df, 0, 0), rows, cols, Blank).mem =
           [a \in Addresses |->
              IF a >= 2 * rows * cols THEN a
              ELSE IF a < 2 * (rows - 1) * cols THEN a + 2 * cols
              ELSE Blank[(a % 2) + 1]]
<1>1. PICK row \in Nat, n \in Nat :
        /\ row = 2 * cols /\ n = 2 * (rows - 1) * cols /\ n % 2 = 0
        /\ 2 * rows * cols = n + row /\ (rows - 1) * cols * 2 = n
  <2>1. /\ 2 * cols \in Nat /\ 2 * (rows - 1) * cols \in Nat
        /\ (2 * (rows - 1) * cols) % 2 = 0
        /\ 2 * rows * cols = 2 * (rows - 1) * cols + 2 * cols
        /\ (rows - 1) * cols * 2 = 2 * (rows - 1) * cols
    <3>1. CASE rows = 1
      BY <3>1
    <3>2. CASE rows = 2
      BY <3>2
    <3>3. CASE rows = 3
      BY <3>3
    <3>4. QED
      BY <3>1, <3>2, <3>3
  <2>2. QED
    BY <2>1
<1>2. n + row =< MemorySize /\ MemorySize \in Nat
  BY <1>1, LibraryAssumption
<1>3. PICK m : m = [Machine(df, 0, 0) EXCEPT !.edi = 0, !.esi = row]
  OBVIOUS
<1>4. m \in MachineType /\ m.mem = [a \in Addresses |-> a] /\ m.esi = row /\ m.edi = 0
  <2>1. m = [mem |-> [a \in Addresses |-> a], df |-> df, esi |-> row, edi |-> 0]
    BY <1>3 DEF Machine
  <2>2. [a \in Addresses |-> a] \in [Addresses -> Int]
    BY DEF Addresses
  <2>3. QED
    BY <2>1, <2>2 DEF MachineType
<1>5. PICK p : p = memmove(m, n)
  OBVIOUS
<1>6. InMemory(m.esi, n) /\ InMemory(m.edi, n)
  BY <1>2, <1>4 DEF InMemory
<1>7. p.mem = Brought(m.mem, row, 0, n)
  BY <1>4, <1>5, <1>6, MemmoveMoves
<1>8. p.mem = [a \in Addresses |-> IF a < n THEN a + row ELSE a]
  <2>1. ASSUME NEW a \in Addresses
        PROVE  /\ a \in 0 .. 0 + n - 1 <=> a < n
               /\ a < n => row + (a - 0) \in Addresses /\ row + (a - 0) = a + row
    BY <1>2 DEF Addresses
  <2>2. QED
    BY <1>4, <1>7, <2>1 DEF Brought
<1>9. PICK d : d = [p EXCEPT !.edi = n]
  OBVIOUS
<1>10. Scrolled(Machine(df, 0, 0), rows, cols, Blank) = Stos(cld(d), Blank, cols)
  BY <1>1, <1>3, <1>5, <1>9 DEF Scrolled, memset_word
<1>11. PICK c : c = cld(d)
  OBVIOUS
<1>12. p \in MachineType
  BY <1>4, <1>5, <1>6, MemmoveMoves
<1>13. d \in MachineType /\ d.mem = p.mem /\ d.edi = n
  BY <1>9, <1>12 DEF MachineType
<1>14. Blank \in Seq(Int) /\ Len(Blank) = 2 /\ Blank[1] = -1 /\ Blank[2] = -2
  BY DEF Blank
<1>15. Stos(cld(d), Blank, cols).mem = Over(p.mem, n, cols, Blank)
  BY <1>13, <1>14, WordsOver
<1>16. ASSUME NEW a \in Addresses
       PROVE  Over(p.mem, n, cols, Blank)[a] =
                IF a >= n + row THEN a ELSE IF a < n THEN a + row
                ELSE Blank[(a % 2) + 1]
  <2>1. a \in Nat
    BY <1>2 DEF Addresses
  <2>2. n + cols * 2 - 1 = n + row - 1
    BY <1>1
  <2>3. a >= n => (a - n) % 2 = a % 2
    BY <1>1, <2>1
  <2>4. a \in n .. n + row - 1 <=> (a >= n /\ a < n + row)
    BY <2>1
  <2>5. Over(p.mem, n, cols, Blank)[a] =
          IF a \in n .. n + row - 1 THEN Blank[((a - n) % 2) + 1] ELSE p.mem[a]
    BY <1>14, <2>2 DEF Over
  <2>6. CASE a \in n .. n + row - 1
    BY <2>1, <2>3, <2>4, <2>5, <2>6
  <2>7. CASE a \notin n .. n + row - 1
    BY <1>8, <2>1, <2>4, <2>5, <2>7
  <2>8. QED
    BY <2>6, <2>7
<1>17. Over(p.mem, n, cols, Blank) =
         [a \in Addresses |-> IF a >= n + row THEN a ELSE IF a < n THEN a + row
                              ELSE Blank[(a % 2) + 1]]
  BY <1>16 DEF Over
<1>18. QED
  BY <1>1, <1>10, <1>15, <1>17

(* What the kernel takes the memory functions for.                         *)
LEMMA MemoryRight == MemoryMatches
<1>1. ASSUME NEW df \in BOOLEAN, NEW n \in 0 .. MemorySize,
             NEW to \in 0 .. MemorySize - n
      PROVE  /\ memset(Machine(df, 0, to), -1, n).mem = Filled(to, n, <<-1>>)
             /\ memset_word(Machine(df, 0, to), Blank, n).mem = Filled(to, n, Blank)
             /\ memset_dword(Machine(df, 0, to), Wide, n).mem = Filled(to, n, Wide)
  <2>1. n \in Nat /\ to \in Int /\ -1 \in Int
    OBVIOUS
  <2>2. PICK m \in MachineType, M \in [Addresses -> Int] :
          m = Machine(df, 0, to) /\ m.mem = M /\ m.edi = to
          /\ M = [a \in Addresses |-> a]
    <3>1. [a \in Addresses |-> a] \in [Addresses -> Int]
      BY DEF Addresses
    <3>2. /\ Machine(df, 0, to) \in MachineType
          /\ Machine(df, 0, to).mem = [a \in Addresses |-> a]
          /\ Machine(df, 0, to).edi = to
      BY <2>1, MachineFits
    <3>3. QED
      BY <3>1, <3>2
  <2>3. \A v : Over(M, to, n, v) = Filled(to, n, v)
    BY <2>2 DEF Over, Filled
  <2>4. memset(m, -1, n).mem = Filled(to, n, <<-1>>)
    <3>1. memset(m, -1, n).mem = Bytes(M, to, n, -1)
      BY <2>1, <2>2, MemsetSets
    <3>2. Over(M, to, n, <<-1>>) = Bytes(M, to, n, -1)
      BY <2>1, OverBytes
    <3>3. QED
      BY <2>3, <3>1, <3>2
  <2>5. Blank \in Seq(Int) /\ Len(Blank) = 2
    BY DEF Blank
  <2>6. Wide \in Seq(Int) /\ Len(Wide) = 4
    BY DEF Wide
  <2>7. Stos(cld(m), Blank, n).mem = Over(M, to, n, Blank)
    BY <2>1, <2>2, <2>5, WordsOver
  <2>8. Stos(cld(m), Wide, n).mem = Over(M, to, n, Wide)
    BY <2>1, <2>2, <2>6, WordsOver
  <2>9. QED
    BY <2>2, <2>3, <2>4, <2>7, <2>8 DEF memset_word, memset_dword
<1>2. ASSUME NEW df \in BOOLEAN, NEW n \in 0 .. MemorySize,
             NEW to \in 0 .. MemorySize - n, NEW from \in 0 .. MemorySize - n
      PROVE  /\ memmove(Machine(df, from, to), n).mem = Moved(from, to, n)
             /\ from + n =< to \/ to + n =< from =>
                  memcpy(Machine(df, from, to), n).mem = Moved(from, to, n)
  <2>1. PICK m : m = Machine(df, from, to)
    OBVIOUS
  <2>2. m \in MachineType /\ m.mem = [a \in Addresses |-> a]
        /\ m.esi = from /\ m.edi = to
    <3>1. from \in Int /\ to \in Int
      OBVIOUS
    <3>2. QED
      BY <2>1, <3>1, MachineFits
  <2>3. n \in Nat /\ InMemory(from, n) /\ InMemory(to, n) /\ MemorySize \in Nat
    BY LibraryAssumption DEF InMemory
  <2>4. Brought(m.mem, from, to, n) = Moved(from, to, n)
    <3>1. ASSUME NEW a \in Addresses, a \in to .. to + n - 1
          PROVE  from + (a - to) \in Addresses
      BY <2>3, <3>1 DEF Addresses
    <3>2. QED
      BY <2>2, <3>1 DEF Brought, Moved
  <2>5. memmove(m, n).mem = Brought(m.mem, m.esi, m.edi, n)
    BY <2>2, <2>3, MemmoveMoves
  <2>6. from + n =< to \/ to + n =< from =>
          memcpy(m, n).mem = Brought(m.mem, m.esi, m.edi, n)
    BY <2>2, <2>3, MemcpyCopies
  <2>7. QED
    BY <2>1, <2>2, <2>4, <2>5, <2>6
<1>3. QED
  BY <1>1, <1>2, ScrollsUp DEF MemoryMatches

----------------------------------------------------------------------------
(* Strings.                                                                *)

(* A search up to the first place in a set: it exists, and finds that      *)
(* place.                                                                  *)
Looks(f, N, stop, v) ==
  f = [p \in 1 .. N |-> IF p \in stop THEN v[p] ELSE f[p + 1]]

LEMMA LooksUp ==
  ASSUME NEW N \in Nat, NEW stop \in SUBSET (1 .. N), N \in stop, NEW v
  PROVE  \E f : Looks(f, N, stop, v)
<1> DEFINE At1(p) == CHOOSE q \in stop : p =< q /\ \A r \in stop : p =< r => q =< r
           g == [p \in 1 .. N |-> v[At1(p)]]
<1>1. ASSUME NEW p \in 1 .. N
      PROVE  /\ At1(p) \in stop /\ p =< At1(p)
             /\ \A r \in stop : p =< r => At1(p) =< r
  <2> DEFINE T == {q \in stop : p =< q}
  <2>1. T \subseteq Nat /\ N \in T
    <3>1. \A q \in stop : q \in Nat
      OBVIOUS
    <3>2. p =< N
      OBVIOUS
    <3>3. QED
      BY <3>1, <3>2
  <2>2. PICK q \in T : \A r \in T : q =< r
    <3> HIDE DEF T
    <3> QED
      BY <2>1, LeastNumber
  <2>3. QED
    BY <2>2
<1> HIDE DEF At1
<1>0. \A q \in stop : q \in Int
  OBVIOUS
<1>2. ASSUME NEW p \in 1 .. N
      PROVE  g[p] = IF p \in stop THEN v[p] ELSE g[p + 1]
  <2>1. CASE p \in stop
    <3>1. PICK x \in Int : x = At1(p)
      BY <1>0, <1>1
    <3>2. x =< p /\ p =< x
      BY <1>1, <2>1, <3>1
    <3>4. At1(p) = p
      BY <3>1, <3>2
    <3>3. QED
      BY <2>1, <3>4
  <2>2. CASE p \notin stop
    <3>1. p + 1 \in 1 .. N
      BY <2>2
    <3>2. PICK x \in Int, y \in Int : x = At1(p) /\ y = At1(p + 1)
      BY <1>0, <1>1, <3>1
    <3>3. x \in stop /\ p =< x /\ \A r \in stop : p =< r => x =< r
      BY <1>1, <3>2
    <3>4. y \in stop /\ p + 1 =< y /\ \A r \in stop : p + 1 =< r => y =< r
      BY <1>1, <3>1, <3>2
    <3>5. x # p
      BY <2>2, <3>3
    <3>6. x = y
      <4>1. p + 1 =< x /\ p =< y
        BY <3>3, <3>4, <3>5
      <4>2. y =< x /\ x =< y
        BY <3>3, <3>4, <4>1
      <4>3. QED
        BY <4>2
    <3>8. At1(p + 1) = At1(p)
      BY <3>2, <3>6
    <3>7. QED
      BY <2>2, <3>1, <3>8
  <2>3. QED
    BY <2>1, <2>2
<1>3. g = [p \in 1 .. N |-> g[p]]
  OBVIOUS
<1> HIDE DEF g
<1>4. g = [p \in 1 .. N |-> IF p \in stop THEN v[p] ELSE g[p + 1]]
  BY <1>2, <1>3
<1>5. QED
  BY <1>4 DEF Looks

LEMMA LookFinds ==
  ASSUME NEW N \in Nat, NEW stop \in SUBSET (1 .. N), NEW v, NEW f,
         Looks(f, N, stop, v), NEW q \in stop, \A p \in 1 .. q - 1 : p \notin stop
  PROVE  f[1] = v[q]
<1> DEFINE S == {j \in Nat : j < q => f[q - j] = v[q]}
<1>0. \A p \in 1 .. N : f[p] = IF p \in stop THEN v[p] ELSE f[p + 1]
  BY DEF Looks
<1>1. 0 \in S
  <2>1. f[q] = v[q] /\ q - 0 = q
    BY <1>0
  <2>2. QED
    BY <2>1
<1>2. ASSUME NEW j \in Nat, j \in S PROVE j + 1 \in S
  <2>1. SUFFICES ASSUME j + 1 < q PROVE f[q - (j + 1)] = v[q]
    OBVIOUS
  <2>2. PICK p \in 1 .. q - 1 : p = q - (j + 1) /\ p + 1 = q - j
    <3>1. q - (j + 1) \in 1 .. q - 1 /\ q - (j + 1) + 1 = q - j
      BY <2>1
    <3>2. QED
      BY <3>1
  <2>3. p \in 1 .. N
    OBVIOUS
  <2>4. f[p] = f[p + 1]
    BY <1>0, <2>3
  <2>5. f[q - j] = v[q]
    BY <1>2, <2>1
  <2>6. QED
    BY <2>2, <2>4, <2>5
<1>3. Nat \subseteq S
  <2> HIDE DEF S
  <2> QED
    BY <1>1, <1>2, SetInduction
<1>4. q - 1 \in Nat /\ q - 1 < q /\ q - (q - 1) = 1
  OBVIOUS
<1>5. QED
  BY <1>3, <1>4

(* A string of l characters in a buffer that ends with NUL.                *)
LEMMA StrlenIs ==
  ASSUME NEW s, Len(s) \in Nat, Len(s) > 0, s[Len(s)] = NULCHAR,
         NEW l \in 0 .. Len(s) - 1, s[l + 1] = NULCHAR,
         \A k \in 1 .. l : s[k] # NULCHAR
  PROVE  strlen(s) = l
<1>0. PICK N \in Nat : N = Len(s)
  OBVIOUS
<1>01. PICK stop : stop = {p \in 1 .. N : s[p] = NULCHAR}
  OBVIOUS
<1>02. PICK v : v = [p \in 1 .. N |-> p - 1]
  OBVIOUS
<1>1. /\ N = Len(s) /\ stop = {p \in 1 .. N : s[p] = NULCHAR}
      /\ v = [p \in 1 .. N |-> p - 1]
  BY <1>0, <1>01, <1>02
<1> DEFINE at == CHOOSE f : f = [p \in 1 .. Len(s) |->
                    IF s[p] = NULCHAR THEN p - 1 ELSE f[p + 1]]
<1>2. strlen(s) = at[1]
  BY DEF strlen
<1>3. stop \in SUBSET (1 .. N) /\ N \in stop
  BY <1>1
<1>4. \A f : Looks(f, N, stop, v) <=>
        f = [p \in 1 .. Len(s) |-> IF s[p] = NULCHAR THEN p - 1 ELSE f[p + 1]]
  BY <1>1 DEF Looks
<1>5. PICK f : Looks(f, N, stop, v)
  BY <1>3, LooksUp
<1>6. at = [p \in 1 .. Len(s) |-> IF s[p] = NULCHAR THEN p - 1 ELSE at[p + 1]]
  BY <1>4, <1>5
<1> HIDE DEF at
<1>7. Looks(at, N, stop, v)
  BY <1>4, <1>6
<1>8. PICK q \in stop : q = l + 1 /\ \A p \in 1 .. q - 1 : p \notin stop
  BY <1>1
<1>9. at[1] = v[q]
  BY <1>1, <1>3, <1>7, <1>8, LookFinds
<1>10. v[q] = l
  BY <1>1, <1>8
<1>11. QED
  BY <1>2, <1>9, <1>10

(* strncmp stops at the first difference, the end of both, or after n.     *)
Stops(s1, s2, n, q) == q = n + 1 \/ s1[q] # s2[q] \/ s1[q] = NULCHAR

LEMMA StrncmpIs ==
  ASSUME NEW s1, NEW s2, NEW n \in Nat, NEW q \in 1 .. n + 1,
         Stops(s1, s2, n, q), \A p \in 1 .. q - 1 : ~Stops(s1, s2, n, p)
  PROVE  strncmp(s1, s2, n) = IF q = n + 1 THEN 0 ELSE s1[q] - s2[q]
<1>0. PICK N \in Nat : N = n + 1
  OBVIOUS
<1>01. PICK stop : stop = {p \in 1 .. N : Stops(s1, s2, n, p)}
  OBVIOUS
<1>02. PICK v : v = [p \in 1 .. N |-> IF p > n THEN 0 ELSE s1[p] - s2[p]]
  OBVIOUS
<1>1. /\ N = n + 1 /\ stop = {p \in 1 .. N : Stops(s1, s2, n, p)}
      /\ v = [p \in 1 .. N |-> IF p > n THEN 0 ELSE s1[p] - s2[p]]
  BY <1>0, <1>01, <1>02
<1> DEFINE from == CHOOSE f : f = [p \in 1 .. n + 1 |->
               IF p > n THEN 0
               ELSE IF s1[p] # s2[p] \/ s1[p] = NULCHAR THEN s1[p] - s2[p]
               ELSE f[p + 1]]
<1>2. strncmp(s1, s2, n) = from[1]
  BY DEF strncmp
<1>3. stop \in SUBSET (1 .. N) /\ N \in stop
  BY <1>1 DEF Stops
<1>4. ASSUME NEW f
      PROVE  Looks(f, N, stop, v) <=>
               f = [p \in 1 .. n + 1 |->
                      IF p > n THEN 0
                      ELSE IF s1[p] # s2[p] \/ s1[p] = NULCHAR THEN s1[p] - s2[p]
                      ELSE f[p + 1]]
  <2>1. \A p \in 1 .. N :
          (IF p \in stop THEN v[p] ELSE f[p + 1]) =
             IF p > n THEN 0
             ELSE IF s1[p] # s2[p] \/ s1[p] = NULCHAR THEN s1[p] - s2[p]
             ELSE f[p + 1]
    BY <1>1 DEF Stops
  <2>2. QED
    BY <1>1, <2>1 DEF Looks
<1>5. PICK f : Looks(f, N, stop, v)
  BY <1>3, LooksUp
<1>6. from = [p \in 1 .. n + 1 |->
               IF p > n THEN 0
               ELSE IF s1[p] # s2[p] \/ s1[p] = NULCHAR THEN s1[p] - s2[p]
               ELSE from[p + 1]]
  BY <1>4, <1>5
<1> HIDE DEF from
<1>7. Looks(from, N, stop, v)
  BY <1>4, <1>6
<1>8. q \in stop /\ \A p \in 1 .. q - 1 : p \notin stop
  BY <1>1
<1>9. from[1] = v[q]
  BY <1>3, <1>7, <1>8, LookFinds
<1>10. v[q] = IF q = n + 1 THEN 0 ELSE s1[q] - s2[q]
  BY <1>1
<1>11. QED
  BY <1>2, <1>9, <1>10

Chars == 0 .. 2

(* A buffer that holds a string of l characters.                           *)
Holds(s, l) ==
  /\ s \in [1 .. MaxText + 1 -> Chars] /\ s \in Seq(Chars)
  /\ Len(s) = MaxText + 1 /\ s[MaxText + 1] = NULCHAR
  /\ l \in 0 .. MaxText /\ s[l + 1] = NULCHAR /\ \A k \in 1 .. l : s[k] # NULCHAR
  /\ strlen(s) = l

LEMMA BufferHolds ==
  ASSUME NEW s \in [1 .. MaxText + 1 -> Chars], s[MaxText + 1] = NULCHAR,
         NEW l \in 0 .. MaxText, s[l + 1] = NULCHAR,
         \A k \in 1 .. l : s[k] # NULCHAR
  PROVE  Holds(s, l)
<1>1. PICK N \in Nat : N = MaxText + 1
  BY LibraryAssumption
<1>2. s \in [1 .. N -> Chars]
  BY <1>1
<1>3. s \in Seq(Chars) /\ Len(s) = N
  BY <1>2
<1>4. strlen(s) = l
  <2>1. Len(s) \in Nat /\ Len(s) > 0 /\ s[Len(s)] = NULCHAR /\ l \in 0 .. Len(s) - 1
    BY <1>1, <1>3, LibraryAssumption
  <2>2. QED
    BY <2>1, StrlenIs
<1>5. QED
  BY <1>1, <1>3, <1>4 DEF Holds

LEMMA TextHolds ==
  ASSUME NEW s \in Texts
  PROVE  \E l : Holds(s, l)
<1>0. MaxText \in Nat /\ NULCHAR = 0
  BY LibraryAssumption DEF NULCHAR
<1>1. PICK u \in [1 .. MaxText -> Chars] : s = Append(u, NULCHAR)
  BY DEF Texts, Chars
<1>2. u \in Seq(Chars) /\ Len(u) = MaxText
  BY <1>0, <1>1
<1>3. s \in [1 .. MaxText + 1 -> Chars] /\ s[MaxText + 1] = NULCHAR
  <2>1. NULCHAR \in Chars
    BY <1>0 DEF Chars
  <2>2. s \in Seq(Chars) /\ Len(s) = Len(u) + 1 /\ s[Len(u) + 1] = NULCHAR
    BY <1>1, <1>2, <2>1, AppendProperties
  <2>3. s \in [1 .. Len(s) -> Chars]
    BY <2>2, LenProperties
  <2>4. QED
    BY <1>2, <2>2, <2>3
<1> DEFINE T == {k \in Nat : k =< MaxText /\ s[k + 1] = NULCHAR}
<1>4. T \subseteq Nat /\ MaxText \in T
  BY <1>0, <1>3
<1>5. PICK l \in T : \A k \in T : l =< k
  <2> HIDE DEF T
  <2> QED
    BY <1>4, LeastNumber
<1>6. ASSUME NEW k \in 1 .. l PROVE s[k] # NULCHAR
  <2>1. k - 1 \in Nat /\ k - 1 =< MaxText /\ (k - 1) + 1 = k /\ k - 1 < l
    BY <1>0, <1>5
  <2>2. QED
    BY <1>5, <2>1
<1>7. l \in 0 .. MaxText /\ s[l + 1] = NULCHAR
  BY <1>5
<1>8. QED
  BY <1>3, <1>6, <1>7, BufferHolds

(* Where a comparison stops.                                               *)
FirstStop(s, t, n, q) ==
  /\ q \in 1 .. n + 1 /\ Stops(s, t, n, q)
  /\ \A p \in 1 .. q - 1 : ~Stops(s, t, n, p)

LEMMA ComparisonStops ==
  ASSUME NEW s, NEW t, NEW n \in Nat
  PROVE  \E q \in 1 .. n + 1 :
           /\ FirstStop(s, t, n, q)
           /\ strncmp(s, t, n) = IF q = n + 1 THEN 0 ELSE s[q] - t[q]
<1> DEFINE T == {q \in 1 .. n + 1 : Stops(s, t, n, q)}
<1>1. T \subseteq Nat /\ n + 1 \in T
  BY DEF Stops
<1>2. PICK q \in T : \A p \in T : q =< p
  <2> HIDE DEF T
  <2> QED
    BY <1>1, LeastNumber
<1>3. ASSUME NEW p \in 1 .. q - 1 PROVE ~Stops(s, t, n, p)
  <2>1. p \in 1 .. n + 1 /\ ~(q =< p)
    BY <1>2
  <2>2. QED
    BY <1>2, <2>1
<1>4. FirstStop(s, t, n, q)
  BY <1>2, <1>3 DEF FirstStop
<1>5. strncmp(s, t, n) = IF q = n + 1 THEN 0 ELSE s[q] - t[q]
  BY <1>2, <1>3, StrncmpIs
<1>6. QED
  BY <1>2, <1>4, <1>5

(* The characters up to the end or n.                                      *)
Shorter(l, n) == IF l < n THEN l ELSE n

LEMMA PrefixIs ==
  ASSUME NEW s \in Seq(Chars), NEW u \in 0 .. Len(s)
  PROVE  /\ SubSeq(s, 1, u) \in Seq(Chars) /\ Len(SubSeq(s, 1, u)) = u
         /\ \A k \in 1 .. u : SubSeq(s, 1, u)[k] = s[k]
  BY SubSeqProperties

LEMMA PrefixesEqual ==
  ASSUME NEW s \in Seq(Chars), NEW t \in Seq(Chars),
         NEW u \in 0 .. Len(s), NEW v \in 0 .. Len(t)
  PROVE  SubSeq(s, 1, u) = SubSeq(t, 1, v) <=>
           u = v /\ \A k \in 1 .. u : s[k] = t[k]
<1>1. PICK a \in Seq(Chars) : a = SubSeq(s, 1, u) /\ Len(a) = u /\ \A k \in 1 .. u : a[k] = s[k]
  BY PrefixIs
<1>2. PICK b \in Seq(Chars) : b = SubSeq(t, 1, v) /\ Len(b) = v /\ \A k \in 1 .. v : b[k] = t[k]
  BY PrefixIs
<1>3. a = b => u = v /\ \A k \in 1 .. u : s[k] = t[k]
  BY <1>1, <1>2
<1>4. ASSUME u = v, \A k \in 1 .. u : s[k] = t[k] PROVE a = b
  <2>1. \A k \in 1 .. Len(a) : a[k] = b[k]
    BY <1>1, <1>2, <1>4
  <2>2. Len(a) = Len(b)
    BY <1>1, <1>2, <1>4
  <2>3. QED
    BY <2>1, <2>2, SeqEqual
<1>5. QED
  BY <1>1, <1>2, <1>3, <1>4

LEMMA UptosEqual ==
  ASSUME NEW s, NEW t, NEW l, NEW m, Holds(s, l), Holds(t, m), NEW n \in 0 .. MaxText
  PROVE  Upto(s, n) = Upto(t, n) <=>
           /\ Shorter(l, n) = Shorter(m, n)
           /\ \A k \in 1 .. Shorter(l, n) : s[k] = t[k]
<1>0. MaxText \in Nat
  BY LibraryAssumption
<1>1. Upto(s, n) = SubSeq(s, 1, Shorter(l, n)) /\ Upto(t, n) = SubSeq(t, 1, Shorter(m, n))
  BY DEF Upto, Shorter, Holds
<1>2. Shorter(l, n) \in 0 .. Len(s) /\ Shorter(m, n) \in 0 .. Len(t)
  BY <1>0 DEF Shorter, Holds
<1>3. s \in Seq(Chars) /\ t \in Seq(Chars)
  BY DEF Holds
<1>4. QED
  BY <1>1, <1>2, <1>3, PrefixesEqual

(* Where two strings differ first, they are the same before, and it is the *)
(* end of neither or of one.                                               *)
LEMMA StopsInside ==
  ASSUME NEW s, NEW t, NEW l, NEW m, Holds(s, l), Holds(t, m),
         NEW n \in 0 .. MaxText + 1, NEW q, FirstStop(s, t, n, q)
  PROVE  /\ q =< l + 1 \/ q = n + 1
         /\ \A k \in 1 .. q - 1 : s[k] = t[k] /\ k =< l /\ k =< m
         /\ q =< n => s[q] \in Int /\ t[q] \in Int
         /\ q =< n /\ s[q] = t[q] => l = q - 1 /\ m = q - 1
         /\ q =< n /\ s[q] # t[q] /\ s[q] = NULCHAR => l = q - 1 /\ q =< m
         /\ q =< n /\ s[q] # t[q] /\ t[q] = NULCHAR => m = q - 1 /\ q =< l
         /\ q =< n /\ s[q] # NULCHAR /\ t[q] # NULCHAR => q =< l /\ q =< m
<1>0. MaxText \in Nat /\ NULCHAR = 0
  BY LibraryAssumption DEF NULCHAR
<1>1. q \in 1 .. n + 1 /\ l \in 0 .. MaxText /\ m \in 0 .. MaxText
  BY DEF FirstStop, Holds
<1>2. ASSUME NEW k \in 1 .. q - 1 PROVE s[k] = t[k] /\ s[k] # NULCHAR
  BY <1>1, <1>2 DEF FirstStop, Stops
<1>3. q - 1 =< l
  <2>1. SUFFICES ASSUME l + 1 \in 1 .. q - 1 PROVE FALSE
    BY <1>1
  <2>2. QED
    BY <1>2, <2>1 DEF Holds
<1>4. q - 1 =< m
  <2>1. SUFFICES ASSUME m + 1 \in 1 .. q - 1 PROVE FALSE
    BY <1>1
  <2>2. QED
    BY <1>2, <2>1 DEF Holds
<1>5. ASSUME q =< n PROVE s[q] \in Int /\ t[q] \in Int
  <2>1. q \in 1 .. MaxText + 1
    BY <1>0, <1>1, <1>5
  <2>2. QED
    BY <2>1 DEF Holds, Chars
<1>6. /\ s[q] = NULCHAR => l = q - 1
      /\ t[q] = NULCHAR => m = q - 1
  <2>1. ~(q \in 1 .. l) => l = q - 1
    BY <1>1, <1>3
  <2>2. ~(q \in 1 .. m) => m = q - 1
    BY <1>1, <1>4
  <2>3. QED
    BY <2>1, <2>2 DEF Holds
<1>7. /\ s[q] # NULCHAR => l # q - 1
      /\ t[q] # NULCHAR => m # q - 1
  <2>1. l = q - 1 => l + 1 = q
    BY <1>1
  <2>2. m = q - 1 => m + 1 = q
    BY <1>1
  <2>3. QED
    BY <2>1, <2>2 DEF Holds
<1>8. (l # q - 1 => q =< l) /\ (m # q - 1 => q =< m)
  BY <1>1, <1>3, <1>4
<1>9. q =< n /\ s[q] = t[q] => s[q] = NULCHAR
  BY <1>1 DEF FirstStop, Stops
<1>10. \A k \in 1 .. q - 1 : k =< l /\ k =< m
  BY <1>1, <1>3, <1>4
<1>11. q =< l + 1
  BY <1>1, <1>3
<1>12. QED
  BY <1>1, <1>2, <1>5, <1>6, <1>7, <1>8, <1>9, <1>10, <1>11

(* 0 for strings that agree up to their end or to n characters.            *)
LEMMA ComparesEqual ==
  ASSUME NEW s, NEW t, NEW l, NEW m, Holds(s, l), Holds(t, m), NEW n \in 0 .. MaxText
  PROVE  (strncmp(s, t, n) = 0) <=> (Upto(s, n) = Upto(t, n))
<1>0. MaxText \in Nat /\ n \in Nat /\ n \in 0 .. MaxText + 1
  BY LibraryAssumption
<1>1. l \in Nat /\ m \in Nat
  BY DEF Holds
<1>2. PICK q \in 1 .. n + 1 :
        /\ FirstStop(s, t, n, q)
        /\ strncmp(s, t, n) = IF q = n + 1 THEN 0 ELSE s[q] - t[q]
  BY <1>0, ComparisonStops
<1>3. /\ \A k \in 1 .. q - 1 : s[k] = t[k] /\ k =< l /\ k =< m
      /\ q =< n => s[q] \in Int /\ t[q] \in Int
      /\ q =< n /\ s[q] = t[q] => l = q - 1 /\ m = q - 1
      /\ q =< n /\ s[q] # t[q] /\ s[q] = NULCHAR => l = q - 1 /\ q =< m
      /\ q =< n /\ s[q] # t[q] /\ t[q] = NULCHAR => m = q - 1 /\ q =< l
      /\ q =< n /\ s[q] # NULCHAR /\ t[q] # NULCHAR => q =< l /\ q =< m
  BY <1>0, <1>2, StopsInside
<1>4. Upto(s, n) = Upto(t, n) <=>
        /\ Shorter(l, n) = Shorter(m, n)
        /\ \A k \in 1 .. Shorter(l, n) : s[k] = t[k]
  BY UptosEqual
<1>5. CASE q = n + 1
  <2>1. n =< l /\ n =< m
    <3>1. n = 0 \/ n \in 1 .. q - 1
      BY <1>0, <1>5
    <3>2. QED
      BY <1>1, <1>3, <3>1
  <2>2. Shorter(l, n) = n /\ Shorter(m, n) = n
    BY <1>0, <1>1, <2>1 DEF Shorter
  <2>3. \A k \in 1 .. n : s[k] = t[k]
    BY <1>0, <1>3, <1>5
  <2>4. QED
    BY <1>2, <1>4, <1>5, <2>2, <2>3
<1>6. CASE q =< n /\ s[q] = t[q]
  <2>1. l = q - 1 /\ m = q - 1
    BY <1>3, <1>6
  <2>2. Shorter(l, n) = q - 1 /\ Shorter(m, n) = q - 1
    BY <1>0, <1>6, <2>1 DEF Shorter
  <2>3. strncmp(s, t, n) = 0
    BY <1>0, <1>2, <1>3, <1>6
  <2>4. QED
    BY <1>3, <1>4, <2>2, <2>3
<1>7. CASE q =< n /\ s[q] # t[q]
  <2>1. strncmp(s, t, n) # 0
    BY <1>0, <1>2, <1>3, <1>7
  <2>2. ASSUME Shorter(l, n) = Shorter(m, n),
               \A k \in 1 .. Shorter(l, n) : s[k] = t[k]
        PROVE  FALSE
    <3>1. q \notin 1 .. Shorter(l, n) /\ q \notin 1 .. Shorter(m, n)
      BY <1>7, <2>2
    <3>2. ~(q =< l) /\ ~(q =< m)
      BY <1>0, <1>1, <1>7, <3>1 DEF Shorter
    <3>3. QED
      BY <1>3, <1>7, <3>2
  <2>3. QED
    BY <1>4, <2>1, <2>2
<1>8. QED
  BY <1>0, <1>5, <1>6, <1>7

(* ... and otherwise the sign of their order.                              *)
LEMMA ComparesBefore ==
  ASSUME NEW s, NEW t, NEW l, NEW m, Holds(s, l), Holds(t, m)
  PROVE  (strncmp(s, t, MaxText + 1) < 0) <=>
           (Upto(s, MaxText) # Upto(t, MaxText) /\ Before(s, t))
<1>0. MaxText \in Nat /\ MaxText \in 0 .. MaxText /\ MaxText + 1 \in Nat
      /\ MaxText + 1 \in 0 .. MaxText + 1
  BY LibraryAssumption
<1>1. l \in 0 .. MaxText /\ m \in 0 .. MaxText
  BY DEF Holds
<1>2. PICK q \in 1 .. (MaxText + 1) + 1 :
        /\ FirstStop(s, t, MaxText + 1, q)
        /\ strncmp(s, t, MaxText + 1) =
             IF q = (MaxText + 1) + 1 THEN 0 ELSE s[q] - t[q]
  BY <1>0, ComparisonStops
<1>3. /\ q =< l + 1 \/ q = (MaxText + 1) + 1
      /\ \A k \in 1 .. q - 1 : s[k] = t[k] /\ k =< l /\ k =< m
      /\ q =< MaxText + 1 => s[q] \in Int /\ t[q] \in Int
      /\ q =< MaxText + 1 /\ s[q] = t[q] => l = q - 1 /\ m = q - 1
      /\ q =< MaxText + 1 /\ s[q] # t[q] /\ s[q] = NULCHAR => l = q - 1 /\ q =< m
      /\ q =< MaxText + 1 /\ s[q] # t[q] /\ t[q] = NULCHAR => m = q - 1 /\ q =< l
      /\ q =< MaxText + 1 /\ s[q] # NULCHAR /\ t[q] # NULCHAR => q =< l /\ q =< m
  <2>1. PICK n \in 0 .. MaxText + 1 : n = MaxText + 1
    BY <1>0
  <2>2. FirstStop(s, t, n, q)
    BY <1>2, <2>1
  <2>3. /\ q =< l + 1 \/ q = n + 1
        /\ \A k \in 1 .. q - 1 : s[k] = t[k] /\ k =< l /\ k =< m
        /\ q =< n => s[q] \in Int /\ t[q] \in Int
        /\ q =< n /\ s[q] = t[q] => l = q - 1 /\ m = q - 1
        /\ q =< n /\ s[q] # t[q] /\ s[q] = NULCHAR => l = q - 1 /\ q =< m
        /\ q =< n /\ s[q] # t[q] /\ t[q] = NULCHAR => m = q - 1 /\ q =< l
        /\ q =< n /\ s[q] # NULCHAR /\ t[q] # NULCHAR => q =< l /\ q =< m
    BY <2>2, StopsInside
  <2>4. QED
    BY <2>1, <2>3
<1>4. q =< MaxText + 1
  <2>1. SUFFICES ASSUME MaxText + 1 \in 1 .. q - 1 PROVE FALSE
    BY <1>0, <1>2
  <2>2. MaxText + 1 =< l
    BY <1>3, <2>1
  <2>3. QED
    BY <1>0, <1>1, <2>2
<1>5. Upto(s, MaxText) = Upto(t, MaxText) <=>
        /\ Shorter(l, MaxText) = Shorter(m, MaxText)
        /\ \A k \in 1 .. Shorter(l, MaxText) : s[k] = t[k]
  BY <1>0, UptosEqual
<1>6. Shorter(l, MaxText) = l /\ Shorter(m, MaxText) = m
  BY <1>0, <1>1 DEF Shorter
<1>7. strncmp(s, t, MaxText + 1) = s[q] - t[q]
  BY <1>0, <1>2, <1>4
<1>8. CASE s[q] = t[q]
  <2>1. l = q - 1 /\ m = q - 1
    BY <1>3, <1>4, <1>8
  <2>2. Upto(s, MaxText) = Upto(t, MaxText)
    BY <1>3, <1>5, <1>6, <2>1
  <2>3. QED
    BY <1>3, <1>4, <1>7, <1>8, <2>2
<1>9. CASE s[q] # t[q]
  <2>1. Upto(s, MaxText) # Upto(t, MaxText)
    <3>1. SUFFICES ASSUME l = m, \A k \in 1 .. l : s[k] = t[k] PROVE FALSE
      BY <1>5, <1>6
    <3>2. ~(q =< l)
      BY <1>1, <1>2, <1>9, <3>1
    <3>3. QED
      BY <1>3, <1>4, <1>9, <3>1, <3>2
  <2>2. s[q] < t[q] => Before(s, t)
    <3>1. SubSeq(s, 1, q - 1) = SubSeq(t, 1, q - 1)
      <4>1. s \in Seq(Chars) /\ t \in Seq(Chars) /\ q - 1 \in 0 .. Len(s)
            /\ q - 1 \in 0 .. Len(t)
        BY <1>0, <1>2, <1>4 DEF Holds
      <4>2. QED
        BY <1>3, <4>1, PrefixesEqual
    <3>2. q \in 1 .. MaxText + 1
      BY <1>0, <1>2, <1>4
    <3>3. QED
      BY <3>1, <3>2 DEF Before
  <2>3. ASSUME Before(s, t) PROVE s[q] < t[q]
    <3>1. PICK k \in 1 .. MaxText + 1 :
            s[k] < t[k] /\ SubSeq(s, 1, k - 1) = SubSeq(t, 1, k - 1)
      BY <2>3 DEF Before
    <3>2. \A j \in 1 .. k - 1 : s[j] = t[j]
      <4>1. s \in Seq(Chars) /\ t \in Seq(Chars) /\ k - 1 \in 0 .. Len(s)
            /\ k - 1 \in 0 .. Len(t)
        BY <1>0 DEF Holds
      <4>2. QED
        BY <3>1, <4>1, PrefixesEqual
    <3>3. ~(q < k)
      <4>1. q < k => q \in 1 .. k - 1
        BY <1>0, <1>2
      <4>2. QED
        BY <1>9, <3>2, <4>1
    <3>4. ~(k < q)
      <4>1. s[k] \in Int
        BY DEF Holds, Chars
      <4>2. k < q => k \in 1 .. q - 1
        BY <1>0, <1>2
      <4>3. QED
        BY <1>3, <3>1, <4>1, <4>2
    <3>5. k = q
      BY <1>0, <1>2, <3>3, <3>4
    <3>6. QED
      BY <3>1, <3>5
  <2>4. (strncmp(s, t, MaxText + 1) < 0) <=> s[q] < t[q]
    BY <1>3, <1>4, <1>7
  <2>5. QED
    BY <2>1, <2>2, <2>3, <2>4
<1>10. QED
  BY <1>8, <1>9

LEMMA StrcpyCopies ==
  ASSUME NEW s, NEW t, NEW l, NEW m, Holds(s, l), Holds(t, m)
  PROVE  strncmp(strcpy(t, s), s, MaxText + 1) = 0
<1>0. MaxText \in Nat /\ NULCHAR = 0
  BY LibraryAssumption DEF NULCHAR
<1>1. l \in 0 .. MaxText /\ strlen(s) = l /\ s[l + 1] = NULCHAR
      /\ DOMAIN t = 1 .. MaxText + 1 /\ \A k \in 1 .. l : s[k] # NULCHAR
  BY DEF Holds
<1>2. PICK c : c = strcpy(t, s)
  OBVIOUS
<1>3. c = [p \in 1 .. MaxText + 1 |-> IF p =< l THEN s[p]
                                     ELSE IF p = l + 1 THEN NULCHAR ELSE t[p]]
  BY <1>1, <1>2 DEF strcpy
<1>4. PICK q \in 1 .. (MaxText + 1) + 1 : q = l + 1 /\ q # (MaxText + 1) + 1
  BY <1>0, <1>1
<1>5. c[q] = 0 /\ s[q] = 0 /\ Stops(c, s, MaxText + 1, q)
  BY <1>0, <1>1, <1>3, <1>4 DEF Stops
<1>6. \A p \in 1 .. q - 1 : ~Stops(c, s, MaxText + 1, p)
  BY <1>0, <1>1, <1>3, <1>4 DEF Stops
<1>7. PICK n \in Nat : n = MaxText + 1
  BY <1>0
<1>8. strncmp(c, s, n) = IF q = n + 1 THEN 0 ELSE c[q] - s[q]
  BY <1>4, <1>5, <1>6, <1>7, StrncmpIs
<1>9. QED
  BY <1>2, <1>4, <1>5, <1>7, <1>8

(* A copy of n bytes: the string, or what there is of it, and NULs.        *)
LEMMA StrncpyIs ==
  ASSUME NEW s, NEW t, NEW l, NEW m, Holds(s, l), Holds(t, m), NEW n \in 0 .. MaxText
  PROVE  strncpy(t, s, n) =
           [p \in 1 .. MaxText + 1 |-> IF p =< Shorter(l, n) THEN s[p]
                                       ELSE IF p =< n THEN NULCHAR ELSE t[p]]
<1>0. MaxText \in Nat /\ n \in Nat
  BY LibraryAssumption
<1>1. l \in 0 .. MaxText /\ s[l + 1] = NULCHAR /\ DOMAIN t = 1 .. MaxText + 1
      /\ \A k \in 1 .. l : s[k] # NULCHAR
  BY DEF Holds
<1> DEFINE stop == CHOOSE p \in 1 .. n + 1 :
                     /\ p = n + 1 \/ s[p] = NULCHAR
                     /\ \A q \in 1 .. p - 1 : s[q] # NULCHAR
<1>2. PICK h \in Nat : h = Shorter(l, n) /\ h =< n
  BY <1>0, <1>1 DEF Shorter
<1>3. /\ h + 1 \in 1 .. n + 1
      /\ h + 1 = n + 1 \/ s[h + 1] = NULCHAR
      /\ \A q \in 1 .. (h + 1) - 1 : s[q] # NULCHAR
  BY <1>0, <1>1, <1>2 DEF Shorter
<1>4. /\ stop \in 1 .. n + 1
      /\ stop = n + 1 \/ s[stop] = NULCHAR
      /\ \A q \in 1 .. stop - 1 : s[q] # NULCHAR
  BY <1>3
<1> HIDE DEF stop
<1>5. PICK x \in 1 .. n + 1 : x = stop
  BY <1>4
<1>6. x = h + 1
  <2>1. ~(x < h + 1)
    <3>1. x < h + 1 => x \in 1 .. (h + 1) - 1 /\ x # n + 1
      BY <1>0, <1>2, <1>5
    <3>2. QED
      BY <1>3, <1>4, <1>5, <3>1
  <2>2. ~(h + 1 < x)
    <3>1. h + 1 < x => h + 1 \in 1 .. x - 1 /\ h + 1 # n + 1
      BY <1>0, <1>2, <1>5
    <3>2. QED
      BY <1>3, <1>4, <1>5, <3>1
  <2>3. QED
    BY <1>0, <1>2, <1>5, <2>1, <2>2
<1>7. strncpy(t, s, n) = [p \in 1 .. MaxText + 1 |->
                            IF p < stop THEN s[p] ELSE IF p =< n THEN NULCHAR
                            ELSE t[p]]
  BY <1>1 DEF strncpy, stop
<1>8. \A p \in 1 .. MaxText + 1 : p < stop <=> p =< Shorter(l, n)
  BY <1>0, <1>2, <1>5, <1>6
<1>9. QED
  BY <1>7, <1>8

LEMMA StrncpyCopies ==
  ASSUME NEW s, NEW t, NEW l, NEW m, Holds(s, l), Holds(t, m), NEW n \in 0 .. MaxText
  PROVE  LET copy == strncpy(t, s, n)
         IN  /\ strncmp(copy, s, n) = 0
             /\ \A p \in strlen(s) + 1 .. n : copy[p] = NULCHAR
             /\ \A p \in n + 1 .. MaxText + 1 : copy[p] = t[p]
             /\ n > strlen(s) => strlen(copy) = strlen(s)
<1>0. MaxText \in Nat /\ n \in Nat /\ NULCHAR = 0
  BY LibraryAssumption DEF NULCHAR
<1>1. /\ l \in 0 .. MaxText /\ strlen(s) = l /\ s[l + 1] = NULCHAR
      /\ \A k \in 1 .. l : s[k] # NULCHAR
      /\ s \in [1 .. MaxText + 1 -> Chars]
      /\ t \in [1 .. MaxText + 1 -> Chars] /\ t[MaxText + 1] = NULCHAR
  BY DEF Holds
<1>2. PICK c : c = strncpy(t, s, n)
  OBVIOUS
<1>3. PICK h \in Nat : h = Shorter(l, n) /\ h =< n /\ h =< l
  BY <1>0, <1>1 DEF Shorter
<1>4. c = [p \in 1 .. MaxText + 1 |-> IF p =< h THEN s[p]
                                      ELSE IF p =< n THEN NULCHAR ELSE t[p]]
  BY <1>2, <1>3, StrncpyIs
<1>5. strncmp(c, s, n) = 0
  <2>1. PICK q \in 1 .. n + 1 : q = h + 1
    BY <1>0, <1>3
  <2>2. q # n + 1 => c[q] = 0 /\ s[q] = 0
    <3>1. q # n + 1 => h = l /\ q =< n /\ ~(q =< h)
      BY <1>0, <1>1, <1>3, <2>1 DEF Shorter
    <3>2. QED
      BY <1>0, <1>1, <1>4, <2>1, <3>1
  <2>3. Stops(c, s, n, q)
    BY <1>0, <2>2 DEF Stops
  <2>4. \A p \in 1 .. q - 1 : ~Stops(c, s, n, p)
    BY <1>0, <1>1, <1>3, <1>4, <2>1 DEF Stops
  <2>5. strncmp(c, s, n) = IF q = n + 1 THEN 0 ELSE c[q] - s[q]
    BY <1>0, <2>3, <2>4, StrncmpIs
  <2>6. QED
    BY <2>2, <2>5
<1>6. \A p \in l + 1 .. n : c[p] = NULCHAR
  BY <1>0, <1>1, <1>3, <1>4
<1>7. \A p \in n + 1 .. MaxText + 1 : c[p] = t[p]
  BY <1>0, <1>3, <1>4
<1>8. ASSUME n > l PROVE strlen(c) = l
  <2>1. h = l
    BY <1>0, <1>1, <1>3, <1>8 DEF Shorter
  <2>2. c \in [1 .. MaxText + 1 -> Chars]
    <3>1. NULCHAR \in Chars
      BY <1>0 DEF Chars
    <3>2. QED
      BY <1>1, <1>4, <3>1
  <2>3. c[MaxText + 1] = NULCHAR
    BY <1>0, <1>1, <1>3, <1>4
  <2>4. c[l + 1] = NULCHAR
    BY <1>0, <1>1, <1>6, <1>8
  <2>5. \A k \in 1 .. l : c[k] # NULCHAR
    BY <1>0, <1>1, <1>4, <2>1
  <2>6. Holds(c, l)
    BY <1>1, <2>2, <2>3, <2>4, <2>5, BufferHolds
  <2>7. QED
    BY <2>6 DEF Holds
<1>9. QED
  BY <1>1, <1>2, <1>5, <1>6, <1>7, <1>8

(* What the kernel takes the string functions for.                         *)
LEMMA StringsRight == StringsMatch
<1>1. SUFFICES ASSUME NEW s \in Texts, NEW t \in Texts, NEW n \in 0 .. MaxText
      PROVE  /\ (strncmp(s, t, n) = 0) <=> (Upto(s, n) = Upto(t, n))
             /\ (strncmp(s, t, MaxText + 1) < 0) <=>
                  (Upto(s, MaxText) # Upto(t, MaxText) /\ Before(s, t))
             /\ strncmp(strcpy(t, s), s, MaxText + 1) = 0
             /\ LET copy == strncpy(t, s, n)
                IN  /\ strncmp(copy, s, n) = 0
                    /\ \A p \in strlen(s) + 1 .. n : copy[p] = NULCHAR
                    /\ \A p \in n + 1 .. MaxText + 1 : copy[p] = t[p]
                    /\ n > strlen(s) => strlen(copy) = strlen(s)
  BY DEF StringsMatch
<1>2. PICK l : Holds(s, l)
  BY TextHolds
<1>3. PICK m : Holds(t, m)
  BY TextHolds
<1>4. (strncmp(s, t, n) = 0) <=> (Upto(s, n) = Upto(t, n))
  BY <1>2, <1>3, ComparesEqual
<1>5. (strncmp(s, t, MaxText + 1) < 0) <=>
        (Upto(s, MaxText) # Upto(t, MaxText) /\ Before(s, t))
  BY <1>2, <1>3, ComparesBefore
<1>6. strncmp(strcpy(t, s), s, MaxText + 1) = 0
  BY <1>2, <1>3, StrcpyCopies
<1>7. LET copy == strncpy(t, s, n)
      IN  /\ strncmp(copy, s, n) = 0
          /\ \A p \in strlen(s) + 1 .. n : copy[p] = NULCHAR
          /\ \A p \in n + 1 .. MaxText + 1 : copy[p] = t[p]
          /\ n > strlen(s) => strlen(copy) = strlen(s)
  BY <1>2, <1>3, StrncpyCopies
<1>8. QED
  BY <1>4, <1>5, <1>6, <1>7

----------------------------------------------------------------------------
(* Numbers.                                                                *)
Radices == {10, 16}

LEMMA DivideNat ==
  ASSUME NEW x \in Nat, NEW r \in Radices
  PROVE  /\ x \div r \in Nat /\ x % r \in 0 .. r - 1
         /\ x \div r =< x /\ (x # 0 => x \div r < x)
<1>1. CASE r = 10
  BY <1>1
<1>2. CASE r = 16
  BY <1>2
<1>3. QED
  BY <1>1, <1>2 DEF Radices

(* The multiplications that a power comes from.                            *)
Multiplied(g, r, k) ==
  /\ g \in [0 .. k -> Nat \ {0}] /\ g[0] = 1 /\ g[k] = Power(r, k)
  /\ \A j \in 1 .. k : g[j] = r * g[j - 1]

LEMMA Products ==
  ASSUME NEW r \in Radices, NEW k \in Nat
  PROVE  \E g : Multiplied(g, r, k)
<1> DEFINE V == Nat \ {0}
           step == [x \in Nat \X V |-> r * x[2]]
<1>1. \A y \in V : r * y \in V
  <2>1. CASE r = 10
    BY <2>1
  <2>2. CASE r = 16
    BY <2>2
  <2>3. QED
    BY <2>1, <2>2 DEF Radices
<1>2. step \in [Nat \X V -> V] /\ 1 \in V
  BY <1>1
<1> HIDE DEF V
<1>3. PICK g \in [0 .. k -> V] : Recurs(g, 1, step, k)
  <2> HIDE DEF step
  <2> QED
    BY <1>2, Recursion
<1>4. \A j \in 1 .. k : step[<<j, g[j - 1]>>] = r * g[j - 1]
  <2>1. ASSUME NEW j \in 1 .. k PROVE <<j, g[j - 1]>> \in Nat \X V
    <3>1. j - 1 \in 0 .. k
      OBVIOUS
    <3>2. QED
      BY <3>1
  <2>2. QED
    BY <2>1
<1> HIDE DEF step
<1>5. g = [j \in 0 .. k |-> IF j = 0 THEN 1 ELSE r * g[j - 1]]
  <2>1. \A j \in 0 .. k : j = 0 \/ j \in 1 .. k
    OBVIOUS
  <2>2. \A j \in 0 .. k : (IF j = 0 THEN 1 ELSE step[<<j, g[j - 1]>>])
                            = IF j = 0 THEN 1 ELSE r * g[j - 1]
    BY <1>4, <2>1
  <2>3. QED
    BY <1>3, <2>2 DEF Recurs
<1> DEFINE p == CHOOSE f : f = [j \in 0 .. k |-> IF j = 0 THEN 1 ELSE r * f[j - 1]]
<1>6. p = [j \in 0 .. k |-> IF j = 0 THEN 1 ELSE r * p[j - 1]]
  BY <1>5
<1>7. Power(r, k) = p[k]
  BY DEF Power
<1> HIDE DEF p
<1>8. p[0] = 1 /\ \A j \in 1 .. k : p[j] = r * p[j - 1]
  BY <1>6
<1>9. p \in [0 .. k -> V]
  <2>1. \A j \in 0 .. k : p[j] = g[j]
    <3>1. GoAlike(p, g, k)
      <4>1. g[0] = 1 /\ \A j \in 1 .. k : g[j] = r * g[j - 1]
        BY <1>5
      <4>2. QED
        BY <1>8, <4>1 DEF GoAlike
    <3>2. QED
      BY <3>1, SameValues
  <2>2. p = [j \in 0 .. k |-> p[j]]
    BY <1>6
  <2>3. QED
    BY <2>1, <2>2
<1>10. Multiplied(p, r, k)
  BY <1>7, <1>8, <1>9 DEF Multiplied, V
<1>11. QED
  BY <1>10

LEMMA PowerStep ==
  ASSUME NEW r \in Radices, NEW k \in Nat
  PROVE  /\ Power(r, 0) = 1
         /\ Power(r, k) \in Nat \ {0}
         /\ Power(r, k + 1) = r * Power(r, k)
<1>1. PICK f : Multiplied(f, r, k)
  BY Products
<1>2. PICK i \in Nat : i = k + 1
  OBVIOUS
<1>3. PICK g : Multiplied(g, r, i)
  BY Products
<1>4. PICK z \in Nat : z = 0
  OBVIOUS
<1>5. PICK h : Multiplied(h, r, z)
  BY Products
<1>6. Power(r, 0) = 1
  BY <1>4, <1>5 DEF Multiplied
<1>7. GoAlike(f, g, k)
  BY <1>1, <1>2, <1>3 DEF Multiplied, GoAlike
<1>8. f[k] = g[k]
  BY <1>7, SameValues
<1>9. g[k + 1] = r * g[k]
  BY <1>2, <1>3 DEF Multiplied
<1>10. Power(r, k) = f[k] /\ f[k] \in Nat \ {0} /\ Power(r, k + 1) = g[k + 1]
  BY <1>1, <1>2, <1>3 DEF Multiplied
<1>11. QED
  BY <1>6, <1>8, <1>9, <1>10

(* Another digit less.                                                     *)
LEMMA QuotientStep ==
  ASSUME NEW n \in Nat, NEW r \in Radices, NEW k \in Nat
  PROVE  /\ Quotient(n, r, 0) = n
         /\ Quotient(n, r, k) \in Nat
         /\ Quotient(n, r, k + 1) = Quotient(n, r, k) \div r
<1>1. PICK P \in Nat \ {0} : P = Power(r, k) /\ Power(r, k + 1) = r * P
  BY PowerStep
<1>2. n \div P \in Nat
  OBVIOUS
<1>3. n \div (r * P) = (n \div P) \div r
  <2>1. n \div (10 * P) = (n \div P) \div 10
    OBVIOUS
  <2>2. n \div (16 * P) = (n \div P) \div 16
    OBVIOUS
  <2>3. QED
    BY <2>1, <2>2 DEF Radices
<1>4. n \div 1 = n
  OBVIOUS
<1>5. Power(r, 0) = 1
  BY PowerStep
<1>6. QED
  BY <1>1, <1>2, <1>3, <1>4, <1>5 DEF Quotient

LEMMA QuotientShift ==
  ASSUME NEW n \in Nat, NEW r \in Radices
  PROVE  \A k \in Nat : Quotient(n \div r, r, k) = Quotient(n, r, k + 1)
<1> DEFINE S == {k \in Nat : Quotient(n \div r, r, k) = Quotient(n, r, k + 1)}
<1>0. n \div r \in Nat
  BY DivideNat
<1>1. 0 \in S
  <2>1. Quotient(n \div r, r, 0) = n \div r
    BY <1>0, QuotientStep
  <2>2. Quotient(n, r, 0 + 1) = Quotient(n, r, 0) \div r /\ Quotient(n, r, 0) = n
    BY QuotientStep
  <2>3. QED
    BY <2>1, <2>2
<1>2. ASSUME NEW k \in Nat, k \in S PROVE k + 1 \in S
  <2>1. Quotient(n \div r, r, k + 1) = Quotient(n \div r, r, k) \div r
    BY <1>0, QuotientStep
  <2>2. PICK j \in Nat : j = k + 1
    OBVIOUS
  <2>3. Quotient(n, r, j + 1) = Quotient(n, r, j) \div r
    BY QuotientStep
  <2>4. QED
    BY <1>2, <2>1, <2>2, <2>3
<1>3. Nat \subseteq S
  <2> HIDE DEF S
  <2> QED
    BY <1>1, <1>2, SetInduction
<1>4. QED
  BY <1>3

(* After n digits none is left, and none ever comes back.                  *)
LEMMA QuotientEnds ==
  ASSUME NEW n \in Nat, NEW r \in Radices
  PROVE  Quotient(n, r, n) = 0
<1> DEFINE S == {k \in Nat : Quotient(n, r, k) = 0 \/ Quotient(n, r, k) + k =< n}
<1>1. 0 \in S
  <2>1. Quotient(n, r, 0) = n
    BY QuotientStep
  <2>2. QED
    BY <2>1
<1>2. ASSUME NEW k \in Nat, k \in S PROVE k + 1 \in S
  <2>1. PICK x \in Nat : x = Quotient(n, r, k)
    BY QuotientStep
  <2>2. PICK y \in Nat : y = x \div r /\ y =< x /\ (x # 0 => y < x)
    BY DivideNat
  <2>3. Quotient(n, r, k + 1) = y
    BY <2>1, <2>2, QuotientStep
  <2>4. x = 0 \/ x + k =< n
    BY <1>2, <2>1
  <2>5. y = 0 \/ y + (k + 1) =< n
    BY <2>2, <2>4
  <2>6. QED
    BY <2>3, <2>5
<1>3. Nat \subseteq S
  <2> HIDE DEF S
  <2> QED
    BY <1>1, <1>2, SetInduction
<1>4. n \in S /\ Quotient(n, r, n) \in Nat
  BY <1>3, QuotientStep
<1>5. QED
  BY <1>4

LEMMA QuotientStays ==
  ASSUME NEW n \in Nat, NEW r \in Radices, NEW l \in Nat, Quotient(n, r, l) = 0
  PROVE  \A k \in Nat : l =< k => Quotient(n, r, k) = 0
<1> DEFINE S == {j \in Nat : Quotient(n, r, l + j) = 0}
<1>1. 0 \in S
  OBVIOUS
<1>2. ASSUME NEW j \in Nat, j \in S PROVE j + 1 \in S
  <2>1. PICK i \in Nat : i = l + j /\ i + 1 = l + (j + 1)
    OBVIOUS
  <2>2. Quotient(n, r, i) = 0 /\ Quotient(n, r, i + 1) = Quotient(n, r, i) \div r
    BY <1>2, <2>1, QuotientStep
  <2>3. Quotient(n, r, i + 1) = 0
    BY <2>2, DivideNat DEF Radices
  <2>4. QED
    BY <2>1, <2>3
<1>3. Nat \subseteq S
  <2> HIDE DEF S
  <2> QED
    BY <1>1, <1>2, SetInduction
<1>4. ASSUME NEW k \in Nat, l =< k PROVE Quotient(n, r, k) = 0
  <2>1. PICK j \in Nat : j = k - l /\ l + j = k
    BY <1>4
  <2>2. j \in S
    BY <1>3
  <2>3. QED
    BY <2>1, <2>2
<1>5. QED
  BY <1>4

(* The number of digits of n, none for 0, and its digits from the last one.*)
HasDigits(n, r, l) ==
  /\ l \in Nat /\ Quotient(n, r, l) = 0
  /\ \A j \in 0 .. l - 1 : Quotient(n, r, j) # 0

Lowest(n, r, l) == [k \in 1 .. l |-> Digit(n, r, k - 1)]

LEMMA SomeDigits ==
  ASSUME NEW n \in Nat, NEW r \in Radices
  PROVE  \E l \in 0 .. n : HasDigits(n, r, l)
<1> DEFINE T == {l \in Nat : Quotient(n, r, l) = 0}
<1>1. n \in T /\ T \subseteq Nat
  BY QuotientEnds
<1>2. PICK l \in T : \A j \in T : l =< j
  <2> HIDE DEF T
  <2> QED
    BY <1>1, LeastNumber
<1>3. HasDigits(n, r, l)
  <2>1. ASSUME NEW j \in 0 .. l - 1 PROVE Quotient(n, r, j) # 0
    <3>1. j \in Nat /\ ~(l =< j)
      BY <1>2
    <3>2. QED
      BY <1>2, <3>1
  <2>2. QED
    BY <1>2, <2>1 DEF HasDigits
<1>4. l \in 0 .. n
  BY <1>1, <1>2
<1>5. QED
  BY <1>3, <1>4

LEMMA SameDigits ==
  ASSUME NEW n, NEW r, NEW l, NEW m, HasDigits(n, r, l), HasDigits(n, r, m)
  PROVE  l = m
<1>1. l \in Nat /\ m \in Nat
  BY DEF HasDigits
<1>2. ~(l < m)
  <2>1. l < m => l \in 0 .. m - 1
    BY <1>1
  <2>2. QED
    BY <2>1 DEF HasDigits
<1>3. ~(m < l)
  <2>1. m < l => m \in 0 .. l - 1
    BY <1>1
  <2>2. QED
    BY <2>1 DEF HasDigits
<1>4. QED
  BY <1>1, <1>2, <1>3

Glyphs == {lookup[k + 1] : k \in 0 .. 15}
            \cup {"-", "%", "#", "a", "b", "c", "d", "s", "u", "x"}

LEMMA DigitIsChar ==
  ASSUME NEW n \in Nat, NEW r \in Radices, NEW k \in Nat
  PROVE  Digit(n, r, k) \in Glyphs
<1>1. Quotient(n, r, k) % r \in 0 .. r - 1
  BY QuotientStep, DivideNat
<1>2. PICK d \in 0 .. 15 : d = Quotient(n, r, k) % r
  BY <1>1 DEF Radices
<1>3. QED
  BY <1>2 DEF Digit, Glyphs

LEMMA LowestIsSeq ==
  ASSUME NEW n \in Nat, NEW r \in Radices, NEW l \in Nat
  PROVE  Lowest(n, r, l) \in Seq(Glyphs) /\ Len(Lowest(n, r, l)) = l
<1>1. \A k \in 1 .. l : k - 1 \in Nat
  OBVIOUS
<1>2. \A k \in 1 .. l : Digit(n, r, k - 1) \in Glyphs
  BY <1>1, DigitIsChar
<1>3. QED
  BY <1>2 DEF Lowest

(* The last digit, and the digits of what is left.                         *)
LEMMA LowestStep ==
  ASSUME NEW n \in Nat, n # 0, NEW r \in Radices, NEW l, HasDigits(n, r, l)
  PROVE  /\ l \in Nat \ {0} /\ n \div r \in Nat /\ n \div r < n
         /\ HasDigits(n \div r, r, l - 1)
         /\ Lowest(n, r, l) = <<lookup[(n % r) + 1]>> \o Lowest(n \div r, r, l - 1)
<1>1. Quotient(n, r, 0) = n
  BY QuotientStep
<1>2. PICK m \in Nat : m = l - 1 /\ l = m + 1
  <2>1. l \in Nat /\ l # 0
    BY <1>1 DEF HasDigits
  <2>2. QED
    BY <2>1
<1>3. PICK d \in Nat : d = n \div r /\ d < n
  BY DivideNat
<1>4. \A k \in Nat : Quotient(d, r, k) = Quotient(n, r, k + 1)
  BY <1>3, QuotientShift
<1>5. HasDigits(d, r, m)
  <2>1. Quotient(d, r, m) = 0
    BY <1>2, <1>4 DEF HasDigits
  <2>2. ASSUME NEW j \in 0 .. m - 1 PROVE Quotient(d, r, j) # 0
    <3>1. j \in Nat /\ j + 1 \in 0 .. l - 1
      BY <1>2
    <3>2. QED
      BY <1>4, <3>1 DEF HasDigits
  <2>3. QED
    BY <2>1, <2>2 DEF HasDigits
<1>6. PICK c \in Glyphs : c = lookup[(n % r) + 1] /\ c = Digit(n, r, 0)
  <2>1. Digit(n, r, 0) = lookup[(n % r) + 1]
    BY <1>1 DEF Digit
  <2>2. PICK z \in Nat : z = 0
    OBVIOUS
  <2>3. Digit(n, r, z) \in Glyphs
    BY DigitIsChar
  <2>4. QED
    BY <2>1, <2>2, <2>3
<1>7. Lowest(n, r, l) = <<c>> \o Lowest(d, r, m)
  <2>1. PICK a \in Seq(Glyphs) : a = Lowest(n, r, l) /\ Len(a) = l
    BY <1>2, LowestIsSeq
  <2>2. PICK b \in Seq(Glyphs) : b = Lowest(d, r, m) /\ Len(b) = m
    BY LowestIsSeq
  <2>3. PICK u \in Seq(Glyphs) : u = <<c>> /\ Len(u) = 1 /\ u[1] = c
    <3>1. <<c>> \in Seq(Glyphs) /\ Len(<<c>>) = 1 /\ <<c>>[1] = c
      OBVIOUS
    <3>2. QED
      BY <3>1
  <2>9. PICK e : e = u \o b
    OBVIOUS
  <2>4. /\ e \in Seq(Glyphs) /\ Len(e) = l /\ e[1] = c
        /\ \A k \in 2 .. l : e[k] = b[k - 1]
    BY <1>2, <2>2, <2>3, <2>9, ConcatProperties
  <2>5. ASSUME NEW k \in 1 .. Len(a) PROVE a[k] = e[k]
    <3>1. a[k] = Digit(n, r, k - 1)
      BY <2>1 DEF Lowest
    <3>2. CASE k = 1
      BY <1>6, <2>4, <3>1, <3>2
    <3>3. CASE k # 1
      <4>1. PICK i \in 1 .. m : i = k - 1 /\ i - 1 \in Nat /\ (i - 1) + 1 = i
        BY <1>2, <2>1, <3>3
      <4>2. b[i] = Digit(d, r, i - 1)
        BY <2>2, <4>1 DEF Lowest
      <4>3. Quotient(d, r, i - 1) = Quotient(n, r, i)
        BY <1>4, <4>1
      <4>4. Digit(d, r, i - 1) = Digit(n, r, i)
        BY <4>3 DEF Digit
      <4>5. e[k] = b[i]
        BY <2>1, <2>4, <3>3, <4>1
      <4>6. QED
        BY <3>1, <4>1, <4>2, <4>4, <4>5
    <3>4. QED
      BY <3>2, <3>3
  <2>6. Len(a) = Len(e)
    BY <2>1, <2>4
  <2>7. a = e
    BY <2>4, <2>5, <2>6, SeqEqual
  <2>8. QED
    BY <2>1, <2>2, <2>3, <2>7, <2>9
<1>8. QED
  BY <1>2, <1>3, <1>5, <1>6, <1>7

(* itoa's loop stores them from the last one.                              *)
Loops(f, r) ==
  f = [newval \in 0 .. Uint - 1 |->
         IF newval = 0 THEN <<>>
         ELSE <<lookup[(newval % r) + 1]>> \o f[newval \div r]]

LEMMA LoopRuns ==
  ASSUME NEW r \in Radices
  PROVE  \E f : Loops(f, r)
<1> DEFINE length(n) == CHOOSE l : HasDigits(n, r, l)
           g == [n \in 0 .. Uint - 1 |-> Lowest(n, r, length(n))]
<1>0. Uint \in Nat
  BY LibraryAssumption
<1>1. ASSUME NEW n \in Nat PROVE HasDigits(n, r, length(n))
  BY SomeDigits
<1> HIDE DEF length
<1>2. ASSUME NEW n \in 0 .. Uint - 1
      PROVE  Lowest(n, r, length(n)) =
               IF n = 0 THEN <<>>
               ELSE <<lookup[(n % r) + 1]>> \o Lowest(n \div r, r, length(n \div r))
  <2>1. CASE n = 0
    <3>1. PICK z \in Nat : z = 0
      OBVIOUS
    <3>2. PICK l \in 0 .. z : HasDigits(z, r, l)
      BY SomeDigits
    <3>3. length(z) = 0
      <4>1. HasDigits(z, r, length(z))
        BY <1>1
      <4>2. length(z) = l
        BY <3>2, <4>1, SameDigits
      <4>3. QED
        BY <3>1, <3>2, <4>2
    <3>4. Lowest(z, r, 0) \in Seq(Glyphs) /\ Len(Lowest(z, r, 0)) = 0
      <4>1. PICK y \in Nat : y = 0
        OBVIOUS
      <4>2. Lowest(z, r, y) \in Seq(Glyphs) /\ Len(Lowest(z, r, y)) = y
        BY LowestIsSeq
      <4>3. QED
        BY <4>1, <4>2
    <3>5. Lowest(z, r, 0) = <<>>
      BY <3>4, EmptySeq
    <3>6. QED
      BY <2>1, <3>1, <3>3, <3>5
  <2>2. CASE n # 0
    <3>1. n \in Nat
      OBVIOUS
    <3>2. HasDigits(n, r, length(n))
      BY <1>1, <3>1
    <3>3. /\ n \div r \in Nat
          /\ HasDigits(n \div r, r, length(n) - 1)
          /\ Lowest(n, r, length(n)) =
               <<lookup[(n % r) + 1]>> \o Lowest(n \div r, r, length(n) - 1)
      BY <2>2, <3>1, <3>2, LowestStep
    <3>4. length(n \div r) = length(n) - 1
      <4>1. HasDigits(n \div r, r, length(n \div r))
        BY <1>1, <3>3
      <4>2. QED
        BY <3>3, <4>1, SameDigits
    <3>5. QED
      BY <2>2, <3>3, <3>4
  <2>3. QED
    BY <2>1, <2>2
<1>3. ASSUME NEW n \in 0 .. Uint - 1 PROVE n \div r \in 0 .. Uint - 1
  <2>1. n \in Nat /\ n \div r \in Nat /\ n \div r =< n
    BY DivideNat
  <2>2. PICK d \in Nat : d = n \div r
    BY <2>1
  <2>3. d \in 0 .. Uint - 1
    BY <1>0, <2>1, <2>2
  <2>4. QED
    BY <2>2, <2>3
<1>4. \A n \in 0 .. Uint - 1 :
        g[n] = IF n = 0 THEN <<>> ELSE <<lookup[(n % r) + 1]>> \o g[n \div r]
  BY <1>2, <1>3
<1>5. g = [n \in 0 .. Uint - 1 |-> g[n]]
  OBVIOUS
<1> HIDE DEF g
<1>6. g = [n \in 0 .. Uint - 1 |->
             IF n = 0 THEN <<>> ELSE <<lookup[(n % r) + 1]>> \o g[n \div r]]
  BY <1>4, <1>5
<1>7. QED
  BY <1>6 DEF Loops

LEMMA LoopStores ==
  ASSUME NEW r \in Radices, NEW f, Loops(f, r), NEW n \in 0 .. Uint - 1,
         NEW l, HasDigits(n, r, l)
  PROVE  f[n] = Lowest(n, r, l)
<1> DEFINE wrong == {k \in 0 .. Uint - 1 :
                       \E m : HasDigits(k, r, m) /\ f[k] # Lowest(k, r, m)}
<1>0. Uint \in Nat
  BY LibraryAssumption
<1>1. SUFFICES ASSUME wrong # {} PROVE FALSE
  OBVIOUS
<1>2. wrong \subseteq Nat
  OBVIOUS
<1>3. PICK k \in wrong : \A j \in wrong : k =< j
  <2> HIDE DEF wrong
  <2> QED
    BY <1>1, <1>2, LeastNumber
<1>4. k \in Nat /\ k \in 0 .. Uint - 1
  OBVIOUS
<1>5. PICK m : HasDigits(k, r, m) /\ f[k] # Lowest(k, r, m)
  OBVIOUS
<1>6. CASE k = 0
  <2>1. f[k] = <<>>
    BY <1>4, <1>6 DEF Loops
  <2>2. m = 0
    <3>1. PICK y \in 0 .. k : HasDigits(k, r, y)
      BY <1>4, SomeDigits
    <3>2. y = m
      BY <1>5, <3>1, SameDigits
    <3>3. QED
      BY <1>6, <3>1, <3>2
  <2>3. Lowest(k, r, m) \in Seq(Glyphs) /\ Len(Lowest(k, r, m)) = 0
    <3>1. PICK y \in Nat : y = m
      BY <2>2
    <3>2. Lowest(k, r, y) \in Seq(Glyphs) /\ Len(Lowest(k, r, y)) = y
      BY <1>4, LowestIsSeq
    <3>3. QED
      BY <2>2, <3>1, <3>2
  <2>4. Lowest(k, r, m) = <<>>
    BY <2>3, EmptySeq
  <2>5. QED
    BY <1>5, <2>1, <2>4
<1>7. CASE k # 0
  <2>1. PICK d \in Nat : d = k \div r
    BY <1>4, DivideNat
  <2>2. /\ d < k /\ HasDigits(d, r, m - 1)
        /\ Lowest(k, r, m) = <<lookup[(k % r) + 1]>> \o Lowest(d, r, m - 1)
    BY <1>4, <1>5, <1>7, <2>1, LowestStep
  <2>3. d \notin wrong /\ d \in 0 .. Uint - 1
    <3>1. d \in 0 .. Uint - 1
      BY <1>0, <1>4, <2>2
    <3>2. ~(k =< d)
      BY <1>4, <2>2
    <3>3. QED
      BY <1>3, <3>1, <3>2
  <2>4. f[d] = Lowest(d, r, m - 1)
    BY <2>2, <2>3
  <2>5. f[k] = <<lookup[(k % r) + 1]>> \o f[d]
    BY <1>4, <1>7, <2>1 DEF Loops
  <2>6. QED
    BY <1>5, <2>2, <2>4, <2>5
<1>8. QED
  BY <1>6, <1>7

(* Exchanged from both ends, up to the middle.                             *)
LEMMA StrrevReverses ==
  ASSUME NEW s \in Seq(Glyphs)
  PROVE  strrev(s) = [k \in 1 .. Len(s) |-> s[Len(s) + 1 - k]]
<1>1. PICK L \in Nat : L = Len(s) /\ s \in [1 .. L -> Glyphs]
  BY LenProperties
<1>2. PICK h \in Nat : h = L \div 2 /\ (2 * h = L \/ 2 * h + 1 = L)
  <2>1. L \div 2 \in Nat /\ (2 * (L \div 2) = L \/ 2 * (L \div 2) + 1 = L)
    OBVIOUS
  <2>2. QED
    BY <2>1
<1> DEFINE part(b) == [k \in 1 .. L |-> IF k =< b \/ L - b < k THEN s[L + 1 - k] ELSE s[k]]
           swap(u, b) == [u EXCEPT ![b] = u[L + 1 - b], ![L + 1 - b] = u[b]]
           g == [b \in 0 .. h |-> part(b)]
<1>3. part(0) = s
  <2>1. \A k \in 1 .. L : part(0)[k] = s[k]
    OBVIOUS
  <2>2. s = [k \in 1 .. L |-> s[k]]
    BY <1>1
  <2>3. part(0) = [k \in 1 .. L |-> part(0)[k]]
    OBVIOUS
  <2> HIDE DEF part
  <2>4. QED
    BY <2>1, <2>2, <2>3
<1>4. ASSUME NEW b \in 1 .. h PROVE part(b) = swap(part(b - 1), b)
  <2>1. PICK c \in Nat, d \in Nat :
          c = b - 1 /\ d = L + 1 - b /\ b \in 1 .. L /\ d \in 1 .. L /\ b < d
    BY <1>2
  <2>2. PICK u : u = part(c)
    OBVIOUS
  <2>3. u[b] = s[b] /\ u[d] = s[d]
    BY <2>1, <2>2
  <2>4. L + 1 - d = b /\ L + 1 - b = d
    BY <2>1
  <2>5. ASSUME NEW k \in 1 .. L
        PROVE  part(b)[k] = [u EXCEPT ![b] = u[d], ![d] = u[b]][k]
    <3>0. DOMAIN u = 1 .. L
      BY <2>2
    <3>1. [u EXCEPT ![b] = u[d], ![d] = u[b]][k] =
            IF k = d THEN s[b] ELSE IF k = b THEN s[d] ELSE u[k]
      BY <2>1, <2>3, <3>0
    <3>2. CASE k = d
      BY <2>1, <2>4, <3>1, <3>2
    <3>3. CASE k = b
      BY <2>1, <2>4, <3>1, <3>3
    <3>4. CASE k # b /\ k # d
      <4>1. (k =< b \/ L - b < k) <=> (k =< c \/ L - c < k)
        BY <2>1, <3>4
      <4>2. QED
        BY <2>2, <3>1, <3>4, <4>1
    <3>5. QED
      BY <3>2, <3>3, <3>4
  <2>6. DOMAIN [u EXCEPT ![b] = u[d], ![d] = u[b]] = 1 .. L
    BY <2>2
  <2>7. part(b) = [u EXCEPT ![b] = u[d], ![d] = u[b]]
    <3>1. PICK v : v = part(b)
      OBVIOUS
    <3>2. PICK w : w = [u EXCEPT ![b] = u[d], ![d] = u[b]]
      OBVIOUS
    <3>3. v = [k \in 1 .. L |-> v[k]] /\ w = [k \in 1 .. L |-> w[k]]
      <4>1. v = [k \in 1 .. L |-> v[k]]
        BY <3>1
      <4>2. DOMAIN u = 1 .. L
        BY <2>2
      <4>3. w = [k \in 1 .. L |-> w[k]]
        <5> HIDE DEF part
        <5> QED
          BY <3>2, <4>2
      <4>4. QED
        BY <4>1, <4>3
    <3>4. \A k \in 1 .. L : v[k] = w[k]
      BY <2>5, <3>1, <3>2
    <3>5. QED
      BY <3>1, <3>2, <3>3, <3>4
  <2>8. QED
    BY <2>1, <2>2, <2>7
<1> HIDE DEF part
<1>5. g = [b \in 0 .. h |-> IF b = 0 THEN s ELSE swap(g[b - 1], b)]
  <2>1. \A b \in 0 .. h : g[b] = IF b = 0 THEN s ELSE swap(part(b - 1), b)
    <3> HIDE DEF swap
    <3>1. \A b \in 0 .. h : b = 0 \/ b \in 1 .. h
      OBVIOUS
    <3>2. QED
      BY <1>3, <1>4, <3>1
  <2>2. \A b \in 1 .. h : g[b - 1] = part(b - 1)
    OBVIOUS
  <2>3. \A b \in 0 .. h : g[b] = IF b = 0 THEN s ELSE swap(g[b - 1], b)
    <3> HIDE DEF swap, g
    <3>1. \A b \in 0 .. h : b = 0 \/ b \in 1 .. h
      OBVIOUS
    <3>2. QED
      BY <2>1, <2>2, <3>1
  <2>4. g = [b \in 0 .. h |-> g[b]]
    OBVIOUS
  <2>5. QED
    <3> HIDE DEF swap, g
    <3> QED
      BY <2>3, <2>4
<1> DEFINE swapped == CHOOSE f : f = [beg \in 0 .. h |->
                        IF beg = 0 THEN s ELSE swap(f[beg - 1], beg)]
<1>6. swapped = [beg \in 0 .. h |-> IF beg = 0 THEN s ELSE swap(swapped[beg - 1], beg)]
  <2> HIDE DEF g, swap
  <2> QED
    BY <1>5
<1>7. strrev(s) = swapped[h]
  BY <1>1, <1>2 DEF strrev
<1> HIDE DEF swapped, swap
<1>8. GoAlike(swapped, g, h)
  <2> HIDE DEF g
  <2>1. swapped[0] = s /\ g[0] = s
    BY <1>5, <1>6
  <2>2. ASSUME NEW b \in 1 .. h
        PROVE  swapped[b] = swap(swapped[b - 1], b) /\ g[b] = swap(g[b - 1], b)
    <3>1. b \in 0 .. h /\ b # 0
      OBVIOUS
    <3>2. QED
      BY <1>5, <1>6, <3>1
  <2>3. QED
    BY <2>1, <2>2 DEF GoAlike
<1>9. swapped[h] = g[h]
  <2> HIDE DEF g
  <2> QED
    BY <1>8, SameValues
<1>10. g[h] = part(h)
  OBVIOUS
<1>11. part(h) = [k \in 1 .. L |-> s[L + 1 - k]]
  <2>1. ASSUME NEW k \in 1 .. L
        PROVE  (IF k =< h \/ L - h < k THEN s[L + 1 - k] ELSE s[k]) = s[L + 1 - k]
    <3>1. k =< h \/ L - h < k \/ L + 1 - k = k
      BY <1>2
    <3>2. QED
      BY <3>1
  <2>2. QED
    BY <2>1 DEF part
<1>12. QED
  BY <1>1, <1>7, <1>9, <1>10, <1>11

(* The numeral of n has as many digits as n, and 0 has one.                *)
NumeralLength(n, r, l) ==
  /\ l \in 1 .. Uint /\ Quotient(n, r, l) = 0
  /\ l = 1 \/ Quotient(n, r, l - 1) # 0

LEMMA NumeralIs ==
  ASSUME NEW n \in 0 .. Uint - 1, NEW r \in Radices, NEW l, NumeralLength(n, r, l)
  PROVE  Numeral(n, r) = [k \in 1 .. l |-> Digit(n, r, l - k)]
<1>0. n \in Nat /\ l \in Nat /\ l > 0
  BY LibraryAssumption DEF NumeralLength
<1>1. ASSUME NEW m \in 1 .. Uint, NumeralLength(n, r, m) PROVE m = l
  <2>1. ASSUME NEW x \in 1 .. Uint, NEW y \in 1 .. Uint, x < y,
               NumeralLength(n, r, x), NumeralLength(n, r, y)
        PROVE  FALSE
    <3>1. Quotient(n, r, x) = 0 /\ x \in Nat /\ y - 1 \in Nat /\ x =< y - 1 /\ y # 1
      BY <2>1 DEF NumeralLength
    <3>2. Quotient(n, r, y - 1) = 0
      BY <1>0, <3>1, QuotientStays
    <3>3. QED
      BY <2>1, <3>1, <3>2 DEF NumeralLength
  <2>2. l \in 1 .. Uint /\ ~(l < m) /\ ~(m < l)
    BY <1>1, <2>1 DEF NumeralLength
  <2>3. QED
    BY <2>2
<1> DEFINE len == CHOOSE m \in 1 .. Uint :
                    /\ Quotient(n, r, m) = 0
                    /\ m = 1 \/ Quotient(n, r, m - 1) # 0
<1>2. len = l
  BY <1>1 DEF NumeralLength
<1>3. Numeral(n, r) = [k \in 1 .. len |-> Digit(n, r, len - k)]
  BY DEF Numeral
<1> HIDE DEF len
<1>4. QED
  BY <1>2, <1>3

LEMMA NumeralOf ==
  ASSUME NEW n \in 0 .. Uint - 1, NEW r \in Radices, NEW l, HasDigits(n, r, l)
  PROVE  NumeralLength(n, r, IF n = 0 THEN 1 ELSE l)
<1>0. n \in Nat /\ Uint \in Nat /\ Uint > 0
  BY LibraryAssumption
<1>1. PICK m \in 0 .. n : HasDigits(n, r, m)
  BY <1>0, SomeDigits
<1>2. m = l
  BY <1>1, SameDigits
<1>3. CASE n = 0
  <2>1. Quotient(n, r, 1) = 0
    <3>1. m \in Nat /\ m =< 1 /\ Quotient(n, r, m) = 0
      BY <1>1, <1>3 DEF HasDigits
    <3>2. QED
      BY <1>0, <3>1, QuotientStays
  <2>2. QED
    BY <1>0, <1>3, <2>1 DEF NumeralLength
<1>4. CASE n # 0
  <2>1. Quotient(n, r, 0) = n
    BY <1>0, QuotientStep
  <2>2. m # 0 /\ m - 1 \in 0 .. m - 1
    <3>1. m # 0
      BY <1>1, <1>4, <2>1 DEF HasDigits
    <3>2. QED
      BY <3>1
  <2>3. Quotient(n, r, m) = 0 /\ Quotient(n, r, m - 1) # 0
    BY <1>1, <2>2 DEF HasDigits
  <2>4. m \in 1 .. Uint
    BY <1>0, <2>2
  <2>5. QED
    BY <1>2, <1>4, <2>3, <2>4 DEF NumeralLength
<1>5. QED
  BY <1>3, <1>4

(* itoa prints the numeral.                                                *)
LEMMA ItoaPrints ==
  ASSUME NEW n \in 0 .. Uint - 1, NEW r \in Radices
  PROVE  itoa(n, r) = Numeral(n, r) /\ Numeral(n, r) \in Seq(Glyphs)
<1>0. n \in Nat
  OBVIOUS
<1>1. PICK l \in 0 .. n : HasDigits(n, r, l)
  BY <1>0, SomeDigits
<1>2. PICK m \in Nat : m = (IF n = 0 THEN 1 ELSE l) /\ NumeralLength(n, r, m)
  BY <1>1, NumeralOf
<1>3. Numeral(n, r) = [k \in 1 .. m |-> Digit(n, r, m - k)]
  BY <1>2, NumeralIs
<1>4. Numeral(n, r) \in Seq(Glyphs)
  <2>1. \A k \in 1 .. m : m - k \in Nat
    OBVIOUS
  <2>2. \A k \in 1 .. m : Digit(n, r, m - k) \in Glyphs
    BY <1>0, <2>1, DigitIsChar
  <2>3. QED
    BY <1>3, <2>2
<1>5. CASE n = 0
  <2>1. itoa(n, r) = <<"0">>
    BY <1>5 DEF itoa
  <2>2. Digit(n, r, 0) = "0"
    <3>1. Quotient(n, r, 0) = 0
      BY <1>0, <1>5, QuotientStep
    <3>2. 0 % r = 0
      BY DEF Radices
    <3>3. Digit(n, r, 0) = lookup[0 + 1]
      BY <3>1, <3>2 DEF Digit
    <3>4. lookup[0 + 1] = "0"
      BY DEF lookup
    <3>5. QED
      BY <3>3, <3>4
  <2>3. m = 1
    BY <1>2, <1>5
  <2>4. Numeral(n, r) = [k \in 1 .. 1 |-> "0"]
    <3>1. \A k \in 1 .. 1 : 1 - k = 0
      OBVIOUS
    <3>2. QED
      BY <1>3, <2>2, <2>3, <3>1
  <2>5. <<"0">> = [k \in 1 .. 1 |-> "0"]
    OBVIOUS
  <2>6. QED
    BY <1>4, <2>1, <2>4, <2>5
<1>6. CASE n # 0
  <2> DEFINE low == CHOOSE f : Loops(f, r)
  <2>1. itoa(n, r) = strrev(low[n])
    BY <1>6 DEF itoa, Loops
  <2>2. Loops(low, r)
    BY LoopRuns
  <2> HIDE DEF low
  <2>3. low[n] = Lowest(n, r, l)
    BY <1>1, <2>2, LoopStores
  <2>4. l \in Nat
    OBVIOUS
  <2>5. PICK s \in Seq(Glyphs) : s = Lowest(n, r, l) /\ Len(s) = l
    BY <1>0, <2>4, LowestIsSeq
  <2>6. strrev(s) = [k \in 1 .. l |-> s[l + 1 - k]]
    BY <2>5, StrrevReverses
  <2>7. ASSUME NEW k \in 1 .. l PROVE s[l + 1 - k] = Digit(n, r, l - k)
    <3>1. l + 1 - k \in 1 .. l /\ (l + 1 - k) - 1 = l - k
      OBVIOUS
    <3>2. s[l + 1 - k] = Digit(n, r, (l + 1 - k) - 1)
      BY <2>5, <3>1 DEF Lowest
    <3>3. QED
      BY <3>1, <3>2
  <2>8. m = l
    BY <1>2, <1>6
  <2>9. QED
    BY <1>3, <1>4, <2>1, <2>3, <2>5, <2>6, <2>7, <2>8
<1>7. QED
  BY <1>5, <1>6

(* Eight hexadecimal digits show every word.                               *)
LEMMA PaddedPrints ==
  ASSUME NEW n \in 0 .. Uint - 1
  PROVE  /\ Padded8(itoa(n, 16)) = EightDigits(n)
         /\ EightDigits(n) \in Seq(Glyphs)
<1>0. PICK r \in Radices : r = 16
  BY DEF Radices
<1>1. n \in Nat
  OBVIOUS
<1>2. Quotient(n, r, 8) = 0
  <2>1. \A k \in Nat : Quotient(n, r, k + 1) = Quotient(n, r, k) \div 16
    BY <1>0, <1>1, QuotientStep
  <2>2. \A k \in Nat : Quotient(n, r, k) \in Nat
    BY <1>1, QuotientStep
  <2>3. PICK q0 \in Nat, q1 \in Nat, q2 \in Nat, q3 \in Nat, q4 \in Nat :
          /\ q0 = n /\ q1 = q0 \div 16 /\ q2 = q1 \div 16 /\ q3 = q2 \div 16
          /\ q4 = q3 \div 16 /\ q4 = Quotient(n, r, 4)
    <3>1. Quotient(n, r, 0) = n
      BY <1>1, QuotientStep
    <3>2. /\ Quotient(n, r, 1) = Quotient(n, r, 0) \div 16
          /\ Quotient(n, r, 2) = Quotient(n, r, 1) \div 16
          /\ Quotient(n, r, 3) = Quotient(n, r, 2) \div 16
          /\ Quotient(n, r, 4) = Quotient(n, r, 3) \div 16
      <4>1. 0 + 1 = 1 /\ 1 + 1 = 2 /\ 2 + 1 = 3 /\ 3 + 1 = 4
        OBVIOUS
      <4>2. QED
        BY <2>1, <4>1
    <3>3. QED
      BY <2>2, <3>1, <3>2
  <2>4. q4 =< 65535
    <3>1. n \div 65536 =< 65535
      <4>1. PICK u \in Nat : u = Uint - 1 /\ u \div 65536 =< 65535 /\ n =< u
        BY LibraryAssumption
      <4>2. QED
        BY <1>1, <4>1
    <3>2. q4 = n \div 65536
      BY <2>3
    <3>3. QED
      BY <3>1, <3>2
  <2>5. PICK q5 \in Nat, q6 \in Nat, q7 \in Nat, q8 \in Nat :
          /\ q5 = q4 \div 16 /\ q6 = q5 \div 16 /\ q7 = q6 \div 16
          /\ q8 = q7 \div 16 /\ q8 = Quotient(n, r, 8)
    <3>2. /\ Quotient(n, r, 5) = Quotient(n, r, 4) \div 16
          /\ Quotient(n, r, 6) = Quotient(n, r, 5) \div 16
          /\ Quotient(n, r, 7) = Quotient(n, r, 6) \div 16
          /\ Quotient(n, r, 8) = Quotient(n, r, 7) \div 16
      <4>1. 4 + 1 = 5 /\ 5 + 1 = 6 /\ 6 + 1 = 7 /\ 7 + 1 = 8
        OBVIOUS
      <4>2. QED
        BY <2>1, <4>1
    <3>3. QED
      BY <2>2, <2>3, <3>2
  <2>6. q8 = 0
    BY <2>4, <2>5
  <2>7. QED
    BY <2>5, <2>6
<1>3. PICK l \in 0 .. n : HasDigits(n, r, l)
  BY <1>1, SomeDigits
<1>4. l =< 8
  <2>1. SUFFICES ASSUME 8 \in 0 .. l - 1 PROVE FALSE
    OBVIOUS
  <2>2. QED
    BY <1>2, <1>3, <2>1 DEF HasDigits
<1>5. PICK m \in 1 .. 8 : m = (IF n = 0 THEN 1 ELSE l) /\ NumeralLength(n, r, m)
  <2>1. NumeralLength(n, r, IF n = 0 THEN 1 ELSE l)
    BY <1>3, NumeralOf
  <2>2. (IF n = 0 THEN 1 ELSE l) \in 1 .. 8
    BY <1>4, <2>1 DEF NumeralLength
  <2>3. QED
    BY <2>1, <2>2
<1>6. PICK s \in Seq(Glyphs) : s = itoa(n, 16) /\ s = [k \in 1 .. m |-> Digit(n, r, m - k)]
  <2>1. itoa(n, r) = Numeral(n, r) /\ Numeral(n, r) \in Seq(Glyphs)
    BY ItoaPrints
  <2>2. Numeral(n, r) = [k \in 1 .. m |-> Digit(n, r, m - k)]
    BY <1>5, NumeralIs
  <2>3. QED
    BY <1>0, <2>1, <2>2
<1>7. Len(s) = m
  BY <1>6
<1>8. PICK z : z = [k \in 1 .. 8 - m |-> "0"]
  OBVIOUS
<1>9. z \in Seq(Glyphs) /\ Len(z) = 8 - m
  <2>1. "0" \in Glyphs
    <3>1. lookup[0 + 1] = "0"
      BY DEF lookup
    <3>2. QED
      BY <3>1 DEF Glyphs
  <2>2. 8 - m \in Nat
    OBVIOUS
  <2>3. QED
    BY <1>8, <2>1, <2>2
<1>10. PICK e : e = z \o s
  OBVIOUS
<1>11. /\ e \in Seq(Glyphs) /\ Len(e) = 8
       /\ \A k \in 1 .. 8 : e[k] = IF k =< 8 - m THEN z[k] ELSE s[k - (8 - m)]
  <2>1. /\ e \in Seq(Glyphs) /\ Len(e) = Len(z) + Len(s)
        /\ \A k \in 1 .. Len(z) + Len(s) :
             e[k] = IF k =< Len(z) THEN z[k] ELSE s[k - Len(z)]
    BY <1>9, <1>10, ConcatProperties
  <2>2. Len(z) + Len(s) = 8 /\ Len(z) = 8 - m
    BY <1>7, <1>9
  <2>3. QED
    BY <2>1, <2>2
<1>12. ASSUME NEW k \in 1 .. 8 PROVE e[k] = Digit(n, 16, 8 - k)
  <2>1. CASE k =< 8 - m
    <3>1. e[k] = "0"
      BY <1>8, <1>11, <2>1
    <3>2. Quotient(n, r, 8 - k) = 0
      <4>1. Quotient(n, r, m) = 0 /\ m \in Nat /\ 8 - k \in Nat /\ m =< 8 - k
        BY <1>5, <2>1 DEF NumeralLength
      <4>2. QED
        BY <1>1, <4>1, QuotientStays
    <3>3. Digit(n, r, 8 - k) = lookup[0 + 1]
      <4>1. 0 % r = 0
        BY DEF Radices
      <4>2. QED
        BY <3>2, <4>1 DEF Digit
    <3>4. lookup[0 + 1] = "0"
      BY DEF lookup
    <3>5. QED
      BY <1>0, <3>1, <3>3, <3>4
  <2>2. CASE ~(k =< 8 - m)
    <3>1. PICK j \in 1 .. m : j = k - (8 - m) /\ m - j = 8 - k
      <4>1. k - (8 - m) \in 1 .. m /\ m - (k - (8 - m)) = 8 - k
        BY <2>2
      <4>2. QED
        BY <4>1
    <3>2. e[k] = s[j]
      BY <1>11, <2>2, <3>1
    <3>3. s[j] = Digit(n, r, m - j)
      BY <1>6
    <3>4. QED
      BY <1>0, <3>1, <3>2, <3>3
  <2>3. QED
    BY <2>1, <2>2
<1>13. e = [k \in 1 .. 8 |-> Digit(n, 16, 8 - k)]
  <2>1. e \in [1 .. 8 -> Glyphs]
    BY <1>11, LenProperties
  <2>2. QED
    BY <1>12, <2>1
<1>14. Padded8(itoa(n, 16)) = e
  BY <1>6, <1>7, <1>8, <1>10 DEF Padded8
<1>15. QED
  BY <1>11, <1>13, <1>14 DEF EightDigits

----------------------------------------------------------------------------
(* printf.                                                                 *)
Words == Nat \cup { <<"b", "%", "d">> }

(* small is what is in big from place i on.                                *)
Stands(big, small, i) ==
  /\ i + Len(small) - 1 =< Len(big)
  /\ \A k \in 1 .. Len(small) : big[i + k - 1] = small[k]

Printing(i, j, o) == [buf |-> i, esp |-> j, out |-> o]

LEMMA SpecifierIs ==
  ASSUME NEW format, Len(format) \in Nat, NEW i \in Nat,
         NEW q \in i + 1 .. Len(format), format[q] # "#",
         \A p \in i + 1 .. q - 1 : format[p] = "#"
  PROVE  Specifier(format, i) = q
<1>1. ASSUME NEW p \in i + 1 .. Len(format), format[p] # "#",
             \A k \in i + 1 .. p - 1 : format[k] = "#"
      PROVE  p = q
  <2>1. ~(p < q)
    <3>1. p < q => p \in i + 1 .. q - 1
      OBVIOUS
    <3>2. QED
      BY <1>1, <3>1
  <2>2. ~(q < p)
    <3>1. q < p => q \in i + 1 .. p - 1
      OBVIOUS
    <3>2. QED
      BY <1>1, <3>1
  <2>3. QED
    BY <2>1, <2>2
<1>2. QED
  BY <1>1 DEF Specifier

(* A conversion of one character, and %#x.                                 *)
Simple(format, i, c) ==
  /\ Len(format) \in Nat /\ i + 1 =< Len(format)
  /\ format[i] = "%" /\ format[i + 1] = c /\ c # "#"

PrintsIt(format, args, o, i, j, c) ==
  PrintNext(format, args, Printing(i, j, o)) =
    Printing(i + 2, IF Consumes(c) THEN j + 1 ELSE j,
             o \o Converted(c, FALSE, IF Consumes(c) THEN args[j] ELSE 0))

LEMMA PrintsOne ==
  ASSUME NEW format, NEW args, NEW o, NEW i \in Nat \ {0}, NEW j \in Nat \ {0},
         NEW c, Simple(format, i, c)
  PROVE  PrintsIt(format, args, o, i, j, c)
<1>0. /\ Len(format) \in Nat /\ i + 1 =< Len(format)
      /\ format[i] = "%" /\ format[i + 1] = c /\ c # "#"
  BY DEF Simple
<1>1. PICK q \in i + 1 .. Len(format) : q = i + 1
  BY <1>0
<1>2. Specifier(format, i) = q
  BY <1>0, <1>1, SpecifierIs
<1>3. PICK s : s = Printing(i, j, o)
  OBVIOUS
<1>4. s.buf = i /\ s.esp = j /\ s.out = o
  BY <1>3 DEF Printing
<1>5. ~(s.buf > Len(format)) /\ format[s.buf] = "%" /\ (q > s.buf + 1) = FALSE
      /\ q + 1 = i + 2
  BY <1>0, <1>1, <1>4
<1>6. PrintNext(format, args, s) =
        [buf |-> q + 1,
         esp |-> IF Consumes(c) THEN j + 1 ELSE j,
         out |-> o \o Converted(c, q > s.buf + 1,
                                IF Consumes(c) THEN args[j] ELSE 0)]
  BY <1>0, <1>1, <1>2, <1>4, <1>5 DEF PrintNext
<1>7. QED
  BY <1>3, <1>5, <1>6 DEF Printing, PrintsIt

LEMMA PrintsAlternate ==
  ASSUME NEW format, Len(format) \in Nat, NEW args, NEW o,
         NEW i \in Nat \ {0}, NEW j \in Nat \ {0}, i + 2 =< Len(format),
         format[i] = "%", format[i + 1] = "#", format[i + 2] = "x"
  PROVE  PrintNext(format, args, Printing(i, j, o)) =
           Printing(i + 3, j + 1, o \o Padded8(itoa(args[j], 16)))
<1>1. PICK q \in i + 1 .. Len(format) : q = i + 2 /\ q - 1 = i + 1
  OBVIOUS
<1>2. Specifier(format, i) = q
  <2>1. format[q] # "#"
    BY <1>1
  <2>2. \A p \in i + 1 .. q - 1 : format[p] = "#"
    BY <1>1
  <2>3. QED
    BY <2>1, <2>2, SpecifierIs
<1>3. PICK s : s = Printing(i, j, o)
  OBVIOUS
<1>4. s.buf = i /\ s.esp = j /\ s.out = o
  BY <1>3 DEF Printing
<1>5. ~(s.buf > Len(format)) /\ format[s.buf] = "%" /\ (q > s.buf + 1) = TRUE
      /\ q + 1 = i + 3 /\ format[q] = "x"
  BY <1>1, <1>4
<1>6. Consumes("x")
  BY DEF Consumes
<1>7. PrintNext(format, args, s) =
        [buf |-> q + 1, esp |-> j + 1,
         out |-> o \o Converted("x", q > s.buf + 1, args[j])]
  BY <1>2, <1>4, <1>5, <1>6 DEF PrintNext
<1>8. Converted("x", TRUE, args[j]) = Padded8(itoa(args[j], 16))
  BY DEF Converted
<1>9. QED
  BY <1>3, <1>5, <1>7, <1>8 DEF Printing

LEMMA PrintsPlain ==
  ASSUME NEW format, Len(format) \in Nat, NEW args, NEW o \in Seq(Glyphs),
         NEW i \in Nat \ {0}, NEW j \in Nat \ {0}, i =< Len(format),
         format[i] = "a"
  PROVE  PrintNext(format, args, Printing(i, j, o)) = Printing(i + 1, j, o \o <<"a">>)
<1>1. PICK s : s = Printing(i, j, o)
  OBVIOUS
<1>2. s.buf = i /\ s.esp = j /\ s.out = o
  BY <1>1 DEF Printing
<1>3. ~(s.buf > Len(format)) /\ format[s.buf] = "a" /\ format[s.buf] # "%"
  BY <1>2
<1>4. PrintNext(format, args, s) =
        [s EXCEPT !.buf = @ + 1, !.out = Append(@, format[s.buf])]
  BY <1>3 DEF PrintNext
<1>5. "a" \in Glyphs
  BY DEF Glyphs
<1>6. Append(o, "a") = o \o <<"a">>
  BY <1>5, AppendIsConcat
<1>7. QED
  BY <1>1, <1>2, <1>3, <1>4, <1>6 DEF Printing

LEMMA ConvertedAre ==
  /\ \A a : Converted("%", FALSE, a) = <<"%">>
  /\ \A a : Converted("x", FALSE, a) = itoa(a, 16)
  /\ \A a : Converted("u", FALSE, a) = itoa(a, 10)
  /\ \A a : Converted("s", FALSE, a) = a
  /\ \A a : Converted("d", FALSE, a) =
              IF a >= Uint \div 2 THEN <<"-">> \o itoa(Uint - a, 10) ELSE itoa(a, 10)
<1>1. \A a : Converted("%", FALSE, a) = <<"%">>
  BY DEF Converted
<1>2. \A a : Converted("x", FALSE, a) = itoa(a, 16)
  BY DEF Converted
<1>3. \A a : Converted("u", FALSE, a) = itoa(a, 10)
  BY DEF Converted
<1>4. \A a : Converted("s", FALSE, a) = a
  BY DEF Converted
<1>5. \A a : Converted("d", FALSE, a) =
              IF a >= Uint \div 2 THEN <<"-">> \o itoa(Uint - a, 10) ELSE itoa(a, 10)
  BY DEF Converted
<1>6. QED
  BY <1>1, <1>2, <1>3, <1>4, <1>5

(* The number a word stands for, the least negative one included.          *)
LEMMA SignedPrints ==
  ASSUME NEW w \in 0 .. Uint - 1
  PROVE  /\ Converted("d", FALSE, w) = Number(Signed(w))
         /\ Number(Signed(w)) \in Seq(Glyphs)
<1>0. PICK half \in Nat : half = Uint \div 2 /\ Uint = 2 * half /\ half > 0
  <2>1. Uint \div 2 \in Nat /\ Uint = 2 * (Uint \div 2) /\ Uint \div 2 > 0
    BY LibraryAssumption
  <2>2. QED
    BY <2>1
<1>1. PICK r \in Radices : r = 10
  BY DEF Radices
<1>2. CASE w >= half
  <2>1. PICK n \in 0 .. Uint - 1 : n = Uint - w /\ -(w - Uint) = n
    <3>1. Uint - w \in 0 .. Uint - 1 /\ -(w - Uint) = Uint - w
      BY <1>0, <1>2
    <3>2. QED
      BY <3>1
  <2>2. Signed(w) = w - Uint /\ w - Uint < 0
    BY <1>0, <1>2 DEF Signed
  <2>3. Number(Signed(w)) = <<"-">> \o Numeral(n, 10)
    BY <2>1, <2>2 DEF Number
  <2>4. itoa(n, 10) = Numeral(n, 10) /\ Numeral(n, 10) \in Seq(Glyphs)
    BY <1>1, ItoaPrints
  <2>5. Converted("d", FALSE, w) = <<"-">> \o itoa(n, 10)
    BY <1>0, <1>2, <2>1, ConvertedAre
  <2>6. <<"-">> \in Seq(Glyphs)
    <3>1. "-" \in Glyphs
      BY DEF Glyphs
    <3>2. QED
      BY <3>1
  <2>7. <<"-">> \o Numeral(n, 10) \in Seq(Glyphs)
    BY <2>4, <2>6, ConcatProperties
  <2>8. QED
    BY <2>3, <2>4, <2>5, <2>7
<1>3. CASE ~(w >= half)
  <2>1. Signed(w) = w /\ ~(w < 0)
    BY <1>0, <1>3 DEF Signed
  <2>2. Number(Signed(w)) = Numeral(w, 10)
    BY <2>1 DEF Number
  <2>3. itoa(w, 10) = Numeral(w, 10) /\ Numeral(w, 10) \in Seq(Glyphs)
    BY <1>1, ItoaPrints
  <2>4. Converted("d", FALSE, w) = itoa(w, 10)
    BY <1>0, <1>3, ConvertedAre
  <2>5. QED
    BY <2>2, <2>3, <2>4
<1>4. QED
  BY <1>2, <1>3

(* A piece of a format, in it at place i, is printed in one turn.          *)
Prints(x, format, args) ==
  \A i \in Nat \ {0} : \A j \in Nat \ {0} : \A o \in Seq(Glyphs) :
    Stands(format, x.format, i) /\ Stands(args, x.args, j) =>
      PrintNext(format, args, Printing(i, j, o)) =
        Printing(i + Len(x.format), j + Len(x.args), o \o x.prints)

IsPiece(x) ==
  /\ x.format \in Seq(Glyphs) /\ x.args \in Seq(Words) /\ x.prints \in Seq(Glyphs)
  /\ Len(x.format) > 0

LEMMA ConversionPrints ==
  ASSUME NEW c \in Glyphs, c # "#", NEW args, NEW format, Len(format) \in Nat,
         NEW p \in Seq(Glyphs), NEW a \in Words, Consumes(c),
         Converted(c, FALSE, a) = p,
         NEW x, x = [format |-> <<"%", c>>, args |-> <<a>>, prints |-> p]
  PROVE  IsPiece(x) /\ Prints(x, format, args)
<1>1. "%" \in Glyphs
  BY DEF Glyphs
<1>2. PICK f \in Seq(Glyphs) : f = <<"%", c>> /\ Len(f) = 2 /\ f[1] = "%" /\ f[2] = c
  <2>1. <<"%", c>> \in Seq(Glyphs) /\ Len(<<"%", c>>) = 2
        /\ <<"%", c>>[1] = "%" /\ <<"%", c>>[2] = c
    BY <1>1
  <2>2. QED
    BY <2>1
<1>3. PICK g \in Seq(Words) : g = <<a>> /\ Len(g) = 1 /\ g[1] = a
  <2>1. <<a>> \in Seq(Words) /\ Len(<<a>>) = 1 /\ <<a>>[1] = a
    OBVIOUS
  <2>2. QED
    BY <2>1
<1>4. x.format = f /\ x.args = g /\ x.prints = p
  BY <1>2, <1>3
<1>5. IsPiece(x)
  BY <1>2, <1>4 DEF IsPiece
<1>6. ASSUME NEW i \in Nat \ {0}, NEW j \in Nat \ {0}, NEW o \in Seq(Glyphs),
             Stands(format, f, i), Stands(args, g, j)
      PROVE  PrintNext(format, args, Printing(i, j, o)) = Printing(i + 2, j + 1, o \o p)
  <2>1. i + 1 =< Len(format) /\ format[i] = "%" /\ format[i + 1] = c
    <3>1. /\ i + 2 - 1 =< Len(format) /\ format[i + 1 - 1] = "%"
          /\ format[i + 2 - 1] = c
      BY <1>2, <1>6 DEF Stands
    <3>2. i + 2 - 1 = i + 1 /\ i + 1 - 1 = i
      OBVIOUS
    <3>3. QED
      BY <3>1, <3>2
  <2>2. args[j] = a
    <3>1. args[j + 1 - 1] = a
      BY <1>3, <1>6 DEF Stands
    <3>2. j + 1 - 1 = j
      OBVIOUS
    <3>3. QED
      BY <3>1, <3>2
  <2>3. PrintNext(format, args, Printing(i, j, o)) =
          Printing(i + 2, IF Consumes(c) THEN j + 1 ELSE j,
                   o \o Converted(c, FALSE, IF Consumes(c) THEN args[j] ELSE 0))
    <3>1. Simple(format, i, c)
      BY <2>1 DEF Simple
    <3>2. PrintsIt(format, args, o, i, j, c)
      BY <3>1, PrintsOne
    <3>3. QED
      BY <3>2 DEF PrintsIt
  <2>4. QED
    BY <2>2, <2>3
<1>7. QED
  BY <1>2, <1>3, <1>4, <1>5, <1>6 DEF Prints

LEMMA NumberPrints ==
  ASSUME NEW w \in 0 .. Uint - 1, NEW x \in Numbers(w),
         NEW format, Len(format) \in Nat, NEW args
  PROVE  IsPiece(x) /\ Prints(x, format, args)
<1>0. w \in Words /\ 16 \in Radices /\ 10 \in Radices
      /\ Consumes("d") /\ Consumes("u") /\ Consumes("x")
      /\ "d" \in Glyphs /\ "u" \in Glyphs /\ "x" \in Glyphs
      /\ "#" \in Glyphs /\ "%" \in Glyphs
  BY DEF Words, Radices, Glyphs, Consumes
<1>1. CASE x = [format |-> <<"%", "d">>, args |-> <<w>>, prints |-> Number(Signed(w))]
  <2>1. PICK c \in Glyphs : c = "d" /\ c # "#"
    BY <1>0
  <2>2. PICK p \in Seq(Glyphs) : p = Number(Signed(w)) /\ Converted(c, FALSE, w) = p
    BY <2>1, SignedPrints
  <2>3. x = [format |-> <<"%", c>>, args |-> <<w>>, prints |-> p]
    BY <1>1, <2>1, <2>2
  <2>4. QED
    BY <1>0, <2>1, <2>2, <2>3, ConversionPrints
<1>2. CASE x = [format |-> <<"%", "u">>, args |-> <<w>>, prints |-> Number(w)]
  <2>1. PICK c \in Glyphs : c = "u" /\ c # "#"
    BY <1>0
  <2>2. PICK p \in Seq(Glyphs) : p = Number(w) /\ Converted(c, FALSE, w) = p
    <3>1. itoa(w, 10) = Numeral(w, 10) /\ Numeral(w, 10) \in Seq(Glyphs)
      BY <1>0, ItoaPrints
    <3>2. Number(w) = Numeral(w, 10)
      BY DEF Number
    <3>3. QED
      BY <2>1, <3>1, <3>2, ConvertedAre
  <2>3. x = [format |-> <<"%", c>>, args |-> <<w>>, prints |-> p]
    BY <1>2, <2>1, <2>2
  <2>4. QED
    BY <1>0, <2>1, <2>2, <2>3, ConversionPrints
<1>3. CASE x = [format |-> <<"%", "x">>, args |-> <<w>>, prints |-> Numeral(w, 16)]
  <2>1. PICK c \in Glyphs : c = "x" /\ c # "#"
    BY <1>0
  <2>2. PICK p \in Seq(Glyphs) : p = Numeral(w, 16) /\ Converted(c, FALSE, w) = p
    <3>1. itoa(w, 16) = Numeral(w, 16) /\ Numeral(w, 16) \in Seq(Glyphs)
      BY <1>0, ItoaPrints
    <3>2. QED
      BY <2>1, <3>1, ConvertedAre
  <2>3. x = [format |-> <<"%", c>>, args |-> <<w>>, prints |-> p]
    BY <1>3, <2>1, <2>2
  <2>4. QED
    BY <1>0, <2>1, <2>2, <2>3, ConversionPrints
<1>4. CASE x = [format |-> <<"%", "#", "x">>, args |-> <<w>>, prints |-> EightDigits(w)]
  <2>1. PICK f \in Seq(Glyphs) : /\ f = <<"%", "#", "x">> /\ Len(f) = 3
                                 /\ f[1] = "%" /\ f[2] = "#" /\ f[3] = "x"
    <3>1. /\ <<"%", "#", "x">> \in Seq(Glyphs) /\ Len(<<"%", "#", "x">>) = 3
          /\ <<"%", "#", "x">>[1] = "%" /\ <<"%", "#", "x">>[2] = "#"
          /\ <<"%", "#", "x">>[3] = "x"
      BY <1>0
    <3>2. QED
      BY <3>1
  <2>2. PICK g \in Seq(Words) : g = <<w>> /\ Len(g) = 1 /\ g[1] = w
    <3>1. <<w>> \in Seq(Words) /\ Len(<<w>>) = 1 /\ <<w>>[1] = w
      BY <1>0
    <3>2. QED
      BY <3>1
  <2>3. PICK p \in Seq(Glyphs) : p = EightDigits(w) /\ Padded8(itoa(w, 16)) = p
    BY PaddedPrints
  <2>4. x.format = f /\ x.args = g /\ x.prints = p
    BY <1>4, <2>1, <2>2, <2>3
  <2>5. IsPiece(x)
    BY <2>1, <2>4 DEF IsPiece
  <2>6. ASSUME NEW i \in Nat \ {0}, NEW j \in Nat \ {0}, NEW o \in Seq(Glyphs),
               Stands(format, f, i), Stands(args, g, j)
        PROVE  PrintNext(format, args, Printing(i, j, o)) = Printing(i + 3, j + 1, o \o p)
    <3>1. /\ i + 2 =< Len(format) /\ format[i] = "%" /\ format[i + 1] = "#"
          /\ format[i + 2] = "x"
      <4>1. /\ i + 3 - 1 =< Len(format) /\ format[i + 1 - 1] = "%"
            /\ format[i + 2 - 1] = "#" /\ format[i + 3 - 1] = "x"
        BY <2>1, <2>6 DEF Stands
      <4>2. i + 3 - 1 = i + 2 /\ i + 2 - 1 = i + 1 /\ i + 1 - 1 = i
        OBVIOUS
      <4>3. QED
        BY <4>1, <4>2
    <3>2. args[j] = w
      <4>1. args[j + 1 - 1] = w
        BY <2>2, <2>6 DEF Stands
      <4>2. j + 1 - 1 = j
        OBVIOUS
      <4>3. QED
        BY <4>1, <4>2
    <3>3. PrintNext(format, args, Printing(i, j, o)) =
            Printing(i + 3, j + 1, o \o Padded8(itoa(args[j], 16)))
      BY <3>1, PrintsAlternate
    <3>4. QED
      BY <2>3, <3>2, <3>3
  <2>7. ASSUME NEW i \in Nat \ {0}, NEW j \in Nat \ {0}, NEW o \in Seq(Glyphs),
               Stands(format, x.format, i), Stands(args, x.args, j)
        PROVE  PrintNext(format, args, Printing(i, j, o)) =
                 Printing(i + Len(x.format), j + Len(x.args), o \o x.prints)
    <3>1. Stands(format, f, i) /\ Stands(args, g, j)
      BY <2>4, <2>7
    <3>2. Len(x.format) = 3 /\ Len(x.args) = 1 /\ x.prints = p
      BY <2>1, <2>2, <2>4
    <3>3. QED
      BY <2>6, <3>1, <3>2
  <2>8. Prints(x, format, args)
    BY <2>7 DEF Prints
  <2>9. QED
    BY <2>5, <2>8
<1>5. QED
  BY <1>1, <1>2, <1>3, <1>4 DEF Numbers

LEMMA LiteralPrints ==
  ASSUME NEW x \in Literal, NEW format, Len(format) \in Nat, NEW args
  PROVE  IsPiece(x) /\ Prints(x, format, args)
<1>0. /\ "a" \in Glyphs /\ "b" \in Glyphs /\ "d" \in Glyphs /\ "%" \in Glyphs
      /\ "s" \in Glyphs /\ Consumes("s") /\ ~Consumes("%")
      /\ <<"b", "%", "d">> \in Words
  BY DEF Glyphs, Consumes, Words
<1>1. PICK none \in Seq(Words) : none = <<>> /\ Len(none) = 0
  BY EmptySeq
<1>2. CASE x = [format |-> <<"a">>, args |-> <<>>, prints |-> <<"a">>]
  <2>1. PICK f \in Seq(Glyphs) : f = <<"a">> /\ Len(f) = 1 /\ f[1] = "a"
    <3>1. <<"a">> \in Seq(Glyphs) /\ Len(<<"a">>) = 1 /\ <<"a">>[1] = "a"
      BY <1>0
    <3>2. QED
      BY <3>1
  <2>2. x.format = f /\ x.args = none /\ x.prints = f
    BY <1>1, <1>2, <2>1
  <2>3. ASSUME NEW i \in Nat \ {0}, NEW j \in Nat \ {0}, NEW o \in Seq(Glyphs),
               Stands(format, f, i)
        PROVE  PrintNext(format, args, Printing(i, j, o)) = Printing(i + 1, j + 0, o \o f)
    <3>1. i =< Len(format) /\ format[i] = "a"
      <4>1. i + 1 - 1 =< Len(format) /\ format[i + 1 - 1] = "a"
        BY <2>1, <2>3 DEF Stands
      <4>2. i + 1 - 1 = i
        OBVIOUS
      <4>3. QED
        BY <4>1, <4>2
    <3>2. j + 0 = j
      OBVIOUS
    <3>3. QED
      BY <2>1, <3>1, <3>2, PrintsPlain
  <2>4. QED
    BY <1>1, <2>1, <2>2, <2>3 DEF Prints, IsPiece
<1>3. CASE x = [format |-> <<"%", "%">>, args |-> <<>>, prints |-> <<"%">>]
  <2>1. PICK f \in Seq(Glyphs) : f = <<"%", "%">> /\ Len(f) = 2 /\ f[1] = "%" /\ f[2] = "%"
    <3>1. <<"%", "%">> \in Seq(Glyphs) /\ Len(<<"%", "%">>) = 2
          /\ <<"%", "%">>[1] = "%" /\ <<"%", "%">>[2] = "%"
      BY <1>0
    <3>2. QED
      BY <3>1
  <2>2. PICK p \in Seq(Glyphs) : p = <<"%">>
    <3>1. <<"%">> \in Seq(Glyphs)
      BY <1>0
    <3>2. QED
      BY <3>1
  <2>3. x.format = f /\ x.args = none /\ x.prints = p
    BY <1>1, <1>3, <2>1, <2>2
  <2>4. ASSUME NEW i \in Nat \ {0}, NEW j \in Nat \ {0}, NEW o \in Seq(Glyphs),
               Stands(format, f, i)
        PROVE  PrintNext(format, args, Printing(i, j, o)) = Printing(i + 2, j + 0, o \o p)
    <3>1. i + 1 =< Len(format) /\ format[i] = "%" /\ format[i + 1] = "%"
      <4>1. /\ i + 2 - 1 =< Len(format) /\ format[i + 1 - 1] = "%"
            /\ format[i + 2 - 1] = "%"
        BY <2>1, <2>4 DEF Stands
      <4>2. i + 2 - 1 = i + 1 /\ i + 1 - 1 = i
        OBVIOUS
      <4>3. QED
        BY <4>1, <4>2
    <3>2. PICK c : c = "%" /\ c # "#"
      OBVIOUS
    <3>3. PrintNext(format, args, Printing(i, j, o)) =
            Printing(i + 2, IF Consumes(c) THEN j + 1 ELSE j,
                     o \o Converted(c, FALSE, IF Consumes(c) THEN args[j] ELSE 0))
      <4>1. Simple(format, i, c)
        BY <3>1, <3>2 DEF Simple
      <4>2. PrintsIt(format, args, o, i, j, c)
        BY <4>1, PrintsOne
      <4>3. QED
        BY <4>2 DEF PrintsIt
    <3>4. \A a : Converted(c, FALSE, a) = p
      BY <2>2, <3>2, ConvertedAre
    <3>5. j + 0 = j
      OBVIOUS
    <3>6. QED
      BY <1>0, <3>2, <3>3, <3>4, <3>5
  <2>5. QED
    BY <1>1, <2>1, <2>2, <2>3, <2>4 DEF Prints, IsPiece
<1>4. CASE x = [format |-> <<"%", "s">>, args |-> << <<"b", "%", "d">> >>,
                prints |-> <<"b", "%", "d">>]
  <2>1. PICK c \in Glyphs : c = "s" /\ c # "#"
    BY <1>0
  <2>2. PICK p \in Seq(Glyphs) : p = <<"b", "%", "d">>
    <3>1. <<"b", "%", "d">> \in Seq(Glyphs)
      BY <1>0
    <3>2. QED
      BY <3>1
  <2>3. p \in Words /\ Converted(c, FALSE, p) = p
    BY <1>0, <2>1, <2>2, ConvertedAre
  <2>4. x = [format |-> <<"%", c>>, args |-> <<p>>, prints |-> p]
    BY <1>4, <2>1, <2>2
  <2>5. QED
    BY <1>0, <2>1, <2>3, <2>4, ConversionPrints
<1>5. QED
  BY <1>2, <1>3, <1>4 DEF Literal

(* The turns of the loop.                                                  *)
Turns(t, format, args, N) ==
  t = [n \in 0 .. N |-> IF n = 0 THEN [buf |-> 1, esp |-> 1, out |-> <<>>]
                        ELSE PrintNext(format, args, t[n - 1])]

LEMMA TurnsExist ==
  ASSUME NEW format, NEW args, NEW N \in Nat
  PROVE  \E t : Turns(t, format, args, N)
<1> DEFINE S == {k \in Nat : \E t : Turns(t, format, args, k)}
           first == [buf |-> 1, esp |-> 1, out |-> <<>>]
<1>1. 0 \in S
  <2>1. PICK t : t = [n \in 0 .. 0 |-> first]
    OBVIOUS
  <2>2. Turns(t, format, args, 0)
    BY <2>1 DEF Turns
  <2>3. QED
    BY <2>2
<1>2. ASSUME NEW k \in Nat, k \in S PROVE k + 1 \in S
  <2>1. PICK t : Turns(t, format, args, k)
    BY <1>2
  <2> DEFINE u == [n \in 0 .. k + 1 |->
                     IF n = k + 1 THEN PrintNext(format, args, t[k]) ELSE t[n]]
  <2> HIDE DEF first
  <2>2. ASSUME NEW n \in 0 .. k + 1
        PROVE  u[n] = IF n = 0 THEN first ELSE PrintNext(format, args, u[n - 1])
    <3>1. CASE n = k + 1
      <4>1. u[n] = PrintNext(format, args, t[k]) /\ n # 0 /\ n - 1 = k
        BY <3>1
      <4>2. u[k] = t[k]
        OBVIOUS
      <4> HIDE DEF u
      <4>3. QED
        BY <4>1, <4>2
    <3>2. CASE n # k + 1
      <4>1. n \in 0 .. k /\ u[n] = t[n]
        BY <3>2
      <4>2. t[n] = IF n = 0 THEN first ELSE PrintNext(format, args, t[n - 1])
        BY <2>1, <4>1 DEF Turns, first
      <4>3. n # 0 => u[n - 1] = t[n - 1]
        BY <4>1
      <4> HIDE DEF u
      <4>4. QED
        BY <4>1, <4>2, <4>3
    <3>3. QED
      BY <3>1, <3>2
  <2>3. u = [n \in 0 .. k + 1 |-> u[n]]
    OBVIOUS
  <2> HIDE DEF u
  <2>4. u = [n \in 0 .. k + 1 |->
               IF n = 0 THEN first ELSE PrintNext(format, args, u[n - 1])]
    BY <2>2, <2>3
  <2>5. Turns(u, format, args, k + 1)
    BY <2>4 DEF Turns, first
  <2>6. QED
    BY <2>5
<1>3. Nat \subseteq S
  <2> HIDE DEF S
  <2> QED
    BY <1>1, <1>2, SetInduction
<1>4. QED
  BY <1>3

LEMMA PrintfTurns ==
  ASSUME NEW format, NEW args, Len(format) \in Nat
  PROVE  \E t : /\ Turns(t, format, args, Len(format))
                /\ printf(format, args) = t[Len(format)].out
<1> DEFINE t == CHOOSE f : Turns(f, format, args, Len(format))
<1>1. Turns(t, format, args, Len(format))
  BY TurnsExist
<1>2. printf(format, args) = t[Len(format)].out
  BY DEF printf, Turns
<1> HIDE DEF t
<1>3. QED
  BY <1>1, <1>2

(* The parts of a concatenation stand in it.                               *)
LEMMA PartsStand ==
  ASSUME NEW S, NEW s \in Seq(S), NEW t \in Seq(S), NEW u \in Seq(S)
  PROVE  /\ s \o t \o u \in Seq(S) /\ Len(s \o t \o u) = Len(s) + Len(t) + Len(u)
         /\ Stands(s \o t \o u, s, 1)
         /\ Stands(s \o t \o u, t, 1 + Len(s))
         /\ Stands(s \o t \o u, u, 1 + Len(s) + Len(t))
<1>1. PICK a \in Nat, b \in Nat, c \in Nat : a = Len(s) /\ b = Len(t) /\ c = Len(u)
  BY LenProperties
<1>2. PICK st \in Seq(S) : /\ st = s \o t /\ Len(st) = a + b
                           /\ \A i \in 1 .. a + b : st[i] = IF i =< a THEN s[i] ELSE t[i - a]
  <2>1. /\ s \o t \in Seq(S) /\ Len(s \o t) = a + b
        /\ \A i \in 1 .. a + b : (s \o t)[i] = IF i =< a THEN s[i] ELSE t[i - a]
    BY <1>1, ConcatProperties
  <2>2. QED
    BY <2>1
<1>3. PICK d \in Nat : d = a + b
  OBVIOUS
<1>4. PICK v \in Seq(S) : /\ v = st \o u /\ Len(v) = d + c
                          /\ \A i \in 1 .. d + c : v[i] = IF i =< d THEN st[i] ELSE u[i - d]
  <2>1. /\ st \o u \in Seq(S) /\ Len(st \o u) = d + c
        /\ \A i \in 1 .. d + c : (st \o u)[i] = IF i =< d THEN st[i] ELSE u[i - d]
    BY <1>1, <1>2, <1>3, ConcatProperties
  <2>2. QED
    BY <2>1
<1>5. Stands(v, s, 1)
  <2>1. ASSUME NEW k \in 1 .. a PROVE v[1 + k - 1] = s[k]
    <3>1. k \in 1 .. d + c /\ k =< d /\ k \in 1 .. a + b /\ 1 + k - 1 = k
      BY <1>3
    <3>2. QED
      BY <1>2, <1>4, <3>1
  <2>2. 1 + a - 1 =< d + c
    BY <1>3
  <2>3. QED
    BY <1>1, <1>4, <2>1, <2>2 DEF Stands
<1>6. Stands(v, t, 1 + a)
  <2>1. ASSUME NEW k \in 1 .. b PROVE v[1 + a + k - 1] = t[k]
    <3>1. PICK i \in 1 .. a + b : i = 1 + a + k - 1 /\ i = a + k
      OBVIOUS
    <3>2. i \in 1 .. d + c /\ i =< d /\ ~(i =< a) /\ i - a = k
      BY <1>3, <3>1
    <3>3. QED
      BY <1>2, <1>4, <3>1, <3>2
  <2>2. (1 + a) + b - 1 =< d + c
    BY <1>3
  <2>3. QED
    BY <1>1, <1>4, <2>1, <2>2 DEF Stands
<1>7. Stands(v, u, 1 + a + b)
  <2>1. ASSUME NEW k \in 1 .. c PROVE v[1 + a + b + k - 1] = u[k]
    <3>1. PICK i \in 1 .. d + c : i = 1 + a + b + k - 1 /\ i = d + k
      BY <1>3
    <3>2. ~(i =< d) /\ i - d = k
      BY <1>3, <3>1
    <3>3. QED
      BY <1>4, <3>1, <3>2
  <2>2. (1 + a + b) + c - 1 =< d + c
    BY <1>3
  <2>3. QED
    BY <1>1, <1>4, <2>1, <2>2 DEF Stands
<1>8. QED
  BY <1>1, <1>2, <1>3, <1>4, <1>5, <1>6, <1>7

LEMMA PairStands ==
  ASSUME NEW S, NEW s \in Seq(S), NEW t \in Seq(S)
  PROVE  Stands(s \o t, s, 1) /\ Stands(s \o t, t, 1 + Len(s))
<1>1. <<>> \in Seq(S)
  OBVIOUS
<1>2. PICK e \in Seq(S) : e = <<>>
  BY <1>1
<1>3. Stands(s \o t \o e, s, 1) /\ Stands(s \o t \o e, t, 1 + Len(s))
  BY PartsStand
<1>4. s \o t \in Seq(S)
  BY ConcatProperties
<1>5. (s \o t) \o e = s \o t
  BY <1>2, <1>4, ConcatEmptySeq
<1>6. QED
  BY <1>3, <1>5

(* Two pieces and a character are printed after each other.                *)
Joins(format, args, p, q) ==
  format = p.format \o q.format \o <<"a">> /\ args = p.args \o q.args

LEMMA PiecesPrint ==
  ASSUME NEW p, NEW q, NEW format, NEW args, Joins(format, args, p, q),
         IsPiece(p), IsPiece(q), Prints(p, format, args), Prints(q, format, args)
  PROVE  printf(format, args) = p.prints \o q.prints \o <<"a">>
<1>1. PICK u \in Seq(Glyphs) : u = <<"a">> /\ Len(u) = 1 /\ u[1] = "a"
  <2>1. "a" \in Glyphs
    BY DEF Glyphs
  <2>2. <<"a">> \in Seq(Glyphs) /\ Len(<<"a">>) = 1 /\ <<"a">>[1] = "a"
    BY <2>1
  <2>3. QED
    BY <2>2
<1>2. PICK f \in Seq(Glyphs), g \in Seq(Glyphs) : f = p.format /\ g = q.format
  BY DEF IsPiece
<1>3. PICK a \in Seq(Words), b \in Seq(Words) : a = p.args /\ b = q.args
  BY DEF IsPiece
<1>4. PICK v \in Seq(Glyphs), w \in Seq(Glyphs) : v = p.prints /\ w = q.prints
  BY DEF IsPiece
<1>5. PICK fl \in Nat, gl \in Nat, al \in Nat, bl \in Nat :
        /\ fl = Len(f) /\ gl = Len(g) /\ al = Len(a) /\ bl = Len(b) /\ fl > 0 /\ gl > 0
  <2>1. Len(f) \in Nat /\ Len(g) \in Nat /\ Len(a) \in Nat /\ Len(b) \in Nat
    BY LenProperties
  <2>2. Len(f) > 0 /\ Len(g) > 0
    BY <1>2 DEF IsPiece
  <2>3. QED
    BY <2>1, <2>2
<1>6. PICK N \in Nat : N = fl + gl + 1
  OBVIOUS
<1>7. /\ Len(format) = N
      /\ Stands(format, f, 1) /\ Stands(format, g, 1 + fl)
      /\ Stands(format, u, 1 + fl + gl)
  <2>1. format = f \o g \o u
    BY <1>1, <1>2 DEF Joins
  <2>2. /\ Len(f \o g \o u) = Len(f) + Len(g) + Len(u)
        /\ Stands(f \o g \o u, f, 1) /\ Stands(f \o g \o u, g, 1 + Len(f))
        /\ Stands(f \o g \o u, u, 1 + Len(f) + Len(g))
    BY PartsStand
  <2>3. QED
    BY <1>1, <1>5, <1>6, <2>1, <2>2
<1>8. Stands(args, a, 1) /\ Stands(args, b, 1 + al)
  <2>1. args = a \o b
    BY <1>3 DEF Joins
  <2>2. Stands(a \o b, a, 1) /\ Stands(a \o b, b, 1 + Len(a))
    BY PairStands
  <2>3. QED
    BY <1>5, <2>1, <2>2
<1>9. PICK t : Turns(t, format, args, N) /\ printf(format, args) = t[N].out
  BY <1>7, PrintfTurns
<1>10. t[0] = Printing(1, 1, <<>>) /\ \A n \in 1 .. N : t[n] = PrintNext(format, args, t[n - 1])
  BY <1>9 DEF Turns, Printing
<1>11. PICK o0 \in Seq(Glyphs), o1 \in Seq(Glyphs), o2 \in Seq(Glyphs) :
         o0 = <<>> /\ o1 = o0 \o v /\ o2 = o1 \o w /\ o2 = v \o w
  <2>1. PICK o0 \in Seq(Glyphs) : o0 = <<>>
    BY EmptySeq
  <2>2. o0 \o v = v
    BY <2>1, ConcatEmptySeq
  <2>3. v \o w \in Seq(Glyphs)
    BY ConcatProperties
  <2>4. QED
    BY <2>1, <2>2, <2>3
<1>12. t[1] = Printing(1 + fl, 1 + al, o1)
  <2>1. t[1] = PrintNext(format, args, Printing(1, 1, o0))
    <3>1. 1 \in 1 .. N /\ 1 - 1 = 0
      BY <1>6
    <3>2. QED
      BY <1>10, <1>11, <3>1
  <2>2. 1 \in Nat \ {0}
    OBVIOUS
  <2>3. PrintNext(format, args, Printing(1, 1, o0)) =
          Printing(1 + fl, 1 + al, o0 \o v)
    BY <1>2, <1>3, <1>4, <1>5, <1>7, <1>8, <2>2 DEF Prints
  <2>4. QED
    BY <1>11, <2>1, <2>3
<1>13. t[2] = Printing(1 + fl + gl, 1 + al + bl, o2)
  <2>1. t[2] = PrintNext(format, args, t[1])
    <3>1. 2 \in 1 .. N /\ 2 - 1 = 1
      BY <1>5, <1>6
    <3>2. QED
      BY <1>10, <3>1
  <2>2. PICK i \in Nat \ {0}, j \in Nat \ {0} : i = 1 + fl /\ j = 1 + al
    OBVIOUS
  <2>3. PrintNext(format, args, Printing(i, j, o1)) =
          Printing(i + gl, j + bl, o1 \o w)
    <3>1. Stands(format, q.format, i) /\ Stands(args, q.args, j)
      BY <1>2, <1>3, <1>7, <1>8, <2>2
    <3>2. PrintNext(format, args, Printing(i, j, o1)) =
            Printing(i + Len(q.format), j + Len(q.args), o1 \o q.prints)
      BY <3>1 DEF Prints
    <3>3. QED
      BY <1>2, <1>3, <1>4, <1>5, <3>2
  <2>4. QED
    BY <1>11, <1>12, <2>1, <2>2, <2>3
<1>14. t[3] = Printing(N + 1, 1 + al + bl, o2 \o <<"a">>)
  <2>1. t[3] = PrintNext(format, args, t[2])
    <3>1. 3 \in 1 .. N /\ 3 - 1 = 2
      BY <1>5, <1>6
    <3>2. QED
      BY <1>10, <3>1
  <2>2. PICK j \in Nat \ {0} : j = 1 + al + bl
    OBVIOUS
  <2>3. N \in Nat \ {0} /\ N = 1 + fl + gl
    BY <1>6
  <2>4. format[N] = "a"
    <3>1. PICK i \in Nat : i = 1 + fl + gl /\ i = N /\ i + 1 - 1 = N
      BY <1>6
    <3>2. Stands(format, u, i)
      BY <1>7, <3>1
    <3>3. format[i + 1 - 1] = u[1]
      <4>1. 1 \in 1 .. Len(u)
        BY <1>1
      <4>2. QED
        BY <3>2, <4>1 DEF Stands
    <3>4. QED
      BY <1>1, <3>1, <3>3
  <2>5. PrintNext(format, args, Printing(N, j, o2)) = Printing(N + 1, j, o2 \o <<"a">>)
    <3>1. Len(format) \in Nat /\ N =< Len(format)
      BY <1>7
    <3>2. QED
      BY <2>3, <2>4, <3>1, PrintsPlain
  <2>6. QED
    BY <1>13, <2>1, <2>2, <2>3, <2>5
<1>15. PICK j : j = 1 + al + bl
  OBVIOUS
<1>16. PICK o3 : o3 = o2 \o <<"a">>
  OBVIOUS
<1>17. PICK s : s = Printing(N + 1, j, o3)
  OBVIOUS
<1>18. PrintNext(format, args, s) = s
  <2>1. s.buf = N + 1
    BY <1>17 DEF Printing
  <2>2. Len(format) = N
    BY <1>7
  <2>3. s.buf > Len(format)
    BY <2>1, <2>2
  <2>4. QED
    BY <2>3 DEF PrintNext
<1> DEFINE S == {k \in Nat : 3 + k =< N => t[3 + k] = s}
<1>19. 0 \in S
  BY <1>14, <1>15, <1>16, <1>17
<1>20. ASSUME NEW k \in Nat, k \in S PROVE k + 1 \in S
  <2>1. SUFFICES ASSUME 3 + (k + 1) =< N PROVE t[3 + (k + 1)] = s
    OBVIOUS
  <2>2. PICK n \in 1 .. N : n = 3 + (k + 1) /\ n - 1 = 3 + k
    BY <2>1
  <2>3. t[3 + k] = s
    BY <1>20, <2>1
  <2>4. t[n] = PrintNext(format, args, t[n - 1])
    BY <1>10
  <2>5. QED
    BY <1>18, <2>2, <2>3, <2>4
<1>21. Nat \subseteq S
  <2> HIDE DEF S
  <2> QED
    BY <1>19, <1>20, SetInduction
<1>22. t[N] = s
  <2>1. PICK k \in Nat : k = N - 3 /\ 3 + k = N
    <3>1. N - 3 \in Nat /\ 3 + (N - 3) = N
      BY <1>5, <1>6
    <3>2. QED
      BY <3>1
  <2>2. k \in S
    <3> HIDE DEF S
    <3> QED
      BY <1>21
  <2>3. QED
    BY <2>1, <2>2
<1>23. s.out = o3
  BY <1>17 DEF Printing
<1>24. QED
  BY <1>4, <1>9, <1>11, <1>16, <1>22, <1>23

(* What the kernel takes printf for.                                       *)
LEMMA PrintfRight == PrintfMatches
<1>1. SUFFICES ASSUME NEW w \in 0 .. Uint - 1, NEW q \in Numbers(w),
                      NEW p, p \in Literal \/ p \in Numbers(0)
               PROVE  printf(p.format \o q.format \o <<"a">>, p.args \o q.args)
                        = p.prints \o q.prints \o <<"a">>
  BY DEF PrintfMatches
<1>2. PICK format : format = p.format \o q.format \o <<"a">>
  OBVIOUS
<1>3. PICK args : args = p.args \o q.args
  OBVIOUS
<1>4. PICK z \in 0 .. Uint - 1 : z = 0
  BY LibraryAssumption
<1>5. IsPiece(p) /\ IsPiece(q)
  <2>1. PICK e \in Seq(Glyphs) : e = <<>>
    BY EmptySeq
  <2>2. Len(e) \in Nat
    BY LenProperties
  <2>3. IsPiece(q)
    BY <2>2, NumberPrints
  <2>4. p \in Literal => IsPiece(p)
    BY <2>2, LiteralPrints
  <2>5. p \in Numbers(z) => IsPiece(p)
    BY <2>2, NumberPrints
  <2>6. QED
    BY <1>1, <1>4, <2>3, <2>4, <2>5
<1>6. Len(format) \in Nat
  <2>1. "a" \in Glyphs
    BY DEF Glyphs
  <2>2. PICK u \in Seq(Glyphs) : u = <<"a">>
    <3>1. <<"a">> \in Seq(Glyphs)
      BY <2>1
    <3>2. QED
      BY <3>1
  <2>3. p.format \o q.format \in Seq(Glyphs)
    BY <1>5, ConcatProperties DEF IsPiece
  <2>4. (p.format \o q.format) \o u \in Seq(Glyphs)
    BY <2>3, ConcatProperties
  <2>5. QED
    BY <1>2, <2>2, <2>4, LenProperties
<1>7. Prints(q, format, args)
  BY <1>6, NumberPrints
<1>8. Prints(p, format, args)
  <2>1. p \in Literal => Prints(p, format, args)
    BY <1>6, LiteralPrints
  <2>2. p \in Numbers(z) => Prints(p, format, args)
    BY <1>6, NumberPrints
  <2>3. QED
    BY <1>1, <1>4, <2>1, <2>2
<1>9. printf(format, args) = p.prints \o q.prints \o <<"a">>
  <2>1. Joins(format, args, p, q)
    BY <1>2, <1>3 DEF Joins
  <2>2. QED
    BY <1>5, <1>7, <1>8, <2>1, PiecesPrint
<1>10. QED
  BY <1>2, <1>3, <1>9

(* The functions of lib.c do what the rest of the kernel, and of the       *)
(* models, takes them for, for every memory, text and word: the memory     *)
(* functions write exactly the bytes they are asked to, whatever the       *)
(* direction flag was; strings compare and copy; printf prints.            *)
THEOREM FunctionsRight == FunctionsMatch
<1>. QED
  BY MemoryRight, StringsRight, PrintfRight DEF FunctionsMatch

(* Whatever the kernel initialises, from the IDT on, it initialises with   *)
(* functions that do so.                                                   *)
THEOREM LibraryRight == Spec => []LibraryMatches
<1>1. LibraryMatches
  BY FunctionsRight DEF LibraryMatches
<1>. QED
  BY <1>1, PTL
=============================================================================

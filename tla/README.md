# Verification of the ECE 391 kernel

TLA+ models, TLC runs and TLAPS proofs for the kernel in `src/student-distrib/`:
a single-processor x86 kernel with six process slots, three terminals, a
round-robin scheduler, a read-only file system, a virtualised RTC and a
graphical on-screen keyboard.

## 1. The system

| Component | Source | State | Operations | Hard behaviours |
|---|---|---|---|---|
| Process manager, scheduler | `process.c`, `swtch_asm.S`, `pit.c`, `swtch.c` | the PCB table (`present`, `running`, `parent`, `terminal_id`, `vidmap`, `context`), the kernel stacks | execute, halt, Ctrl-C (`kill_term_process`), PIT tick (`do_schedule`), `proc_entry` | a process is created, preempted, killed and woken on other processes' stacks; a slot is reused while someone may still point at it |
| Memory map | `mm.c` | user page, user video page, `tss.esp0` | `set_user_page`, vidmap, bounds checks | the map must follow every context switch |
| File descriptors | `fd.c`, `fs.c` (open/close), `process.c` (kill) | eight `fd_info_t` per process | open, close, read, write; a kill closes all | system calls run with interrupts enabled, so a kill can come between any two of their steps |
| RTC driver | `rtc.c` | a doubly linked list threaded through the descriptors, a counter | `rtc_handler`, open, close, read, write | the interrupt handler walks the list; a reader waits for it |
| File system | `fs.c` | the boot block, inodes and data blocks (read only), `file_pos` | `read_dentry_by_name`, `read_data`, file and directory reads | unsigned arithmetic at block and file boundaries |
| Terminals | `terminal.c` | line buffer, `term_in_flag`, cursor, screen of each terminal | `term_recv_byte`, `term_bksp`, `term_read`, `term_putc`, clear, switch | the keyboard handler changes the line a reader waits for |
| Keyboard | `keyboard.c` | modifier flags | `keyboard_handler` | Ctrl-C kills from inside the handler |
| GUI | `gui.c` | on-screen keyboard, pointer, double buffer | `do_render` in the PIT handler | a key press may kill a process and never return |
| Mouse | `mouse.c` | packet position, coordinates | `mouse_handler`, `mouse_init` | a lost byte shifts every later packet |
| Interrupts, system call entry | `idt.c`, `idtasm.S`, `i8259.c`, `syscall.c` | handler lists, the masks and services of two 8259s, the frames on the stacks | register, dispatch, end of interrupt, `pop_iret_context` | system calls come through a trap gate (interrupts stay on), interrupts and exceptions through interrupt gates; contexts are switched inside a handler |
| Boot | `kernel.c`, `boot.S`, `x86_desc.S` | which parts are ready | initialisation order | lines are open before the parts their handlers use exist, and interrupts are on before there is a process |
| Library | `lib.c`, `lib.h` | the direction flag | printing, string and memory functions | the flag is whatever the program left |
| User programs | `src/syscalls/` | their buffers | ls, cat, grep, the shell, syserr | reads cut lines and names anywhere |

How they interact: system calls enter through `syscall_handler` with interrupts
enabled and call the process manager, the descriptor layer or `mm.c`; the
descriptor layer calls a driver (file system, RTC, terminal) through
`file_ops`. The PIT interrupt renders the screen and then calls the scheduler;
the keyboard interrupt feeds the line buffer of the active terminal, switches
terminals and calls `kill_term_process`, which calls the `close` of every open
descriptor of the victim and may allocate a new shell.

What makes each component correct:

- **Process manager.** Exactly one process of a terminal may run; the others
  wait, each for the child it executed; an ended process's status and slot go to
  the parent that waits for it and to nobody else; what is resumed is what was
  interrupted; the memory map is that of the process in user mode; nobody who may
  run is passed over for ever; the kernel never runs out of slots for the shells
  it must restart.
- **Descriptors and RTC.** The driver's list is exactly the open RTC
  descriptors, linked consistently both ways, so that the handler reaches every
  reader and writes no memory of a closed one; a kill closes every descriptor
  once; a reader is woken.
- **File system.** A search finds the entry with the very name; a read returns
  the bytes asked for that exist, reads follow one another without a gap, no
  arithmetic wraps, no byte is stored outside the user page, the loop ends.
- **Terminals.** The cursor stays on the screen, the buffer holds one line and
  never overruns, the screen shows the line being typed, the hardware cursor is
  the active terminal's.
- **Keyboards, pointer, mouse.** No modifier is stuck, highlights and labels
  tell the truth about the toggles and what the keys send, a click presses one key; the pointer follows
  the mouse at once, however far the mouse went past an edge.
- **Interrupts and boot.** A handler runs only when what it uses is ready; none is
  interrupted; every service ends, every request is served, and every byte is
  found by the handler of its own device; the frame of every entry is what the C
  code and the return expect.
- **Library.** The memory functions write exactly their destination, the string
  functions compare and copy as their callers think, `printf` prints each number
  as it is and takes each argument once.
- **User programs.** What they print is what the files hold; grep prints the lines
  that match, wherever the reads cut them; the shell tells how a program ended.

## 2. Modules and how they correspond to the code

There is one processor. An action is a stretch of code that runs with interrupts
disabled, or a part of a system call between two points where an interrupt
changes what somebody sees. Interrupt and exception entries go through interrupt
gates and system calls through a trap gate (`idt.c`), so system calls can be
interrupted between any two instructions, and handlers only where they say so.

| Module | Models | State → code | Actions → code |
|---|---|---|---|
| `Process` | `process.c`, `pit.c`, `swtch_asm.S`, the process part of `terminal.c` and `mm.c` | one variable per field of `pcb_t`; `pc`, `waits`: what is on a process's kernel stack; `cur`: the owner of the stack in `esp`; `userPage`, `vidPage`, `esp0`: the page tables and the TSS; `handler`: the locals of `kill_term_process` | `StartTerminals`, `Execute`/`ExecuteFails`, `HaltToParent`/`HaltBaseShell` (`kill_curr_process`), `PitTick` (`do_schedule(0)`), `CtrlC` and `Kill…` (`kill_term_process`, a step for each process of its loop), `EnterLoad`/`EnterUser` (`proc_entry`), `Vidmap`, `SwitchTerminal` |
| `JobControl` | nothing: the abstract specification of the process manager | a stack of jobs for each terminal | `Launch`, `Return`, `Finish`, `Collect` |
| `ProcessRefinement` | the refinement mapping from `Process` to `JobControl` | | |
| `FileDescriptors` | `fd.c`, `rtc.c`, open and close of `fs.c`, the close loops of `process.c` | `present`, `file_ops`; `next`, `prev`, `mask`, `fired`, the head and the counter of `rtc.c`; `pc`, `fd`: where a process is inside a call or inside its death | `Open` … `LinkRtc` (the steps of `syscall_open`), `Close`/`Closed`, `Read`/`ReadReturns`, `Write`, `RtcTick`, `Kill`/`KillCloses`/`KillEnds`, `Start` |
| `FileSystem` | `fs.c`, `check_user_bounds` of `mm.c`, the loader's tests and read in `process.c` | `image`: the boot block and inodes; `kind`, `inode`, `file_pos` of a descriptor; `call`, `offset`, `i`: arguments and locals of `read_data` | `Open`, `OpenFails`, `Close`, `Read`, `ReadRefused`, `directory_read`, `Execute`, and the iterations of `read_data`: `CopyBlock`, `BlockMissing`, `ReadReturns`, `Loaded` |
| `SyscallErrors` (on `FileSystem`) | the checks of `fd.c`, `mm.c` and the drivers; `syscalls/ece391syserr.c` | the descriptors of a process as a function | `syscall_read` … `syscall_vidmap`, and the eight tests |
| `UserPrograms` (on `SyscallErrors`) | `syscalls/ece391{ls,cat,grep,shell,support}.c`; the command line, arguments and exit codes in `process.c` | `prog`, `step`: the program and where it is; its buffers and counters; `out`, `status` | one for each system call and for each turn of a loop (`GrepLine`, `GrepCarries`); with `prog = "any"`, those of `FileSystem` |
| `Terminal` | `terminal.c` | `terminals`: the fields of `terminal_t` and its video buffer; `cursor`: the CRT controller's register; `pc`: where a reader is | `Key`, `TabKey`, `Backspace`, `CtrlL`, `switch_terminal`, `Prints`, `Paint` (through vidmap), `Read`/`ReadSees`/`ReadCopies` |
| `Gui` | `keyboard.c`, the keyboard part of `gui.c` | the modifier flags, the toggles, the color of each key, the characters drawn on the keys (`labels`), `was_pressed`; the four sprites and the four arrays of codes as eight tables | the modifier keys, `CtrlK`, `CtrlM`, `Button`, and the cases of `do_render` |
| `Mouse` | `mouse.c`, the pointer part of `gui.c` | `mouse_pos`, `mouse_x`, `mouse_y`, the cursor's cell and offsets; `at`: where the mouse really is | `Header`, `XDelta`, `YDelta` (one byte each), `do_render` |
| `Interrupts` | `kernel.c` (`entry`), `idt.c`, `i8259.c`, the handlers of `pit.c`, `rtc.c`, `keyboard.c` and `mouse.c` as scripts, `cli_and_save`/`restore_flags` | the flag and the masks, requests and services of the 8259s, the byte buffer of the PS/2 controller, what is initialised, who runs and where each process was left | a call of `entry` each; `Deliver`, and the steps of a handler (`ReadData`, `ReadC`, `SendEoi`, `Act`, `Schedule`, …); `Execute`, `End`, `EnterSection`; the hardware's own steps |
| `TrapFrame` | `idtasm.S`, `syscall.c`, `idt.h`; `syscalls/ece391syscall.S` | none: stacks are sequences | the macros, `pop_iret_context`, `syscall_handler` |
| `Library` | `lib.c`; the scrolling of `terminal.c` | none: a machine with memory and a direction flag is an argument | a function each |

How the modules meet. The constants and the observable steps of one are the
environment of another: `Process` decides when a process runs and when it is
killed; `FileDescriptors` lets a process be killed in the places that `Process`
allows; `Terminal` and `FileSystem` model what a system call does while the
process is "user" in `Process`; a key that `Gui` presses is a `Key` of `Terminal`,
or the `CtrlC` of `Process` and `Terminal`; where the pointer of `Gui` is, is
decided by `Mouse`. `Interrupts` shows what all of them take for granted, that a
handler is not interrupted, that it comes again and again and that it finds its
subsystem initialised; there a process is no more than who runs. `UserPrograms`
runs programs on the very reads of `FileSystem`. In each module the others' effects are left completely open
(any process may run, any key may come, the pointer may be anywhere), which
allows more than the composition does, so what holds there holds in the kernel.

What is abstracted:

- In `Process`, exit statuses, arguments and file descriptors: the properties are
  about who waits for whom, and `CollectsOwnChild` about whose status is read.
- In `FileSystem`, the contents of a block: byte `k` of block `b` is the name
  `<<b, k>>`, so that a wrong byte is seen as such. `UserPrograms` gives these
  names characters.
- In `Interrupts`, what handlers do to their subsystems; which of them they use is
  kept. The 8259s latch an edge as QEMU's do.
- In `Library`, a double word is four bytes and an unsigned integer has `Uint` values.
- In `Terminal`, a byte is a blank, a tab, a newline, NUL or any other.
- In `Gui`, of the sprites and the arrays of codes, the keys that look and act alike in
  all of them (the space bar, Tab, Enter and the like).

Two constants stand for a thing the user may do, so that a property can be proved
without it and seen to fail with it. `KillAnywhere` (`FileDescriptors`): a Ctrl-C
comes in the middle of open and close, and not only between calls. `ClearKey`
(`Terminal`): Ctrl-L is pressed. The kernel allows both; the runs that take them
away say what holds as long as the user does not do this, and the runs that have
them, what goes wrong then.

## 3. Runs

`tlc -config X.cfg M` in this directory. `Null`, `a`, `b` and the like are model
values.

| Run | Config | Question | Bounds | Distinct states |
|---|---|---|---|---|
| `process_safety` | `MCProcess.cfg` | Does every mixture of execute, halt, preemption, terminal switches and Ctrl-C keep the process table, the saved contexts and the memory map right? | 4 slots, 2 terminals | 1,745,492 |
| `process_liveness` | `MCProcessLive.cfg` | Is everybody who may run run again; is the process manager a stack of jobs for each terminal? | 3 slots, 2 terminals | 20,926 |
| `fd_safety` | `MCFileDescriptors.cfg` | Is the RTC list the open RTC descriptors, when processes are killed between calls? | 2 processes (symmetric), 2 descriptors each | 1,641,334 |
| `rtc_reads_end` | `MCRtcReads.cfg` | Is every reader of the RTC woken? | 2 processes, 1 descriptor each, two rates | 12,066 |
| `kill_tracks` | `MCKillTracks.cfg` | The same list, when a kill comes inside open or close? **No.** | as `rtc_reads_end` | counterexample |
| `terminal_line` | `MCTerminalLine.cfg` | Does the screen show the line that is typed? | one 2×3 screen, lines of 4 | 90,183 |
| `terminal_switch` | `MCTerminal.cfg` | Tabs, Ctrl-L, two terminals: lines and the hardware cursor | two 2×5 screens (symmetric), lines of 2 | 281,961 |
| `terminal_cleared_line` | `MCClearedLine.cfg` | Does the cursor stay on the screen after Ctrl-L? **No.** | one 3×5 screen, lines of 3 | counterexample |
| `file_system` | `MCFileSystem.cfg` | Searches, reads and program loads over every image; ls, cat, grep, the shell and syserr on it | blocks of 2, 2 blocks to an inode, 16-value words; for the programs, buffers of 3, lines of up to 5 | 341,380 |
| `mouse` | `MCMouse.cfg` | Does the pointer follow the mouse? | 3×2 cells, 2 steps to a cell, mouse within 5 steps | 1,221,853 |
| `gui` | `MCGui.cfg` | Modifiers, highlights, toggles, labels, clicks | 5 keys, one of two cells, a cell without a key; all characters of the keyboard | 636,624 |
| `interrupts` | `MCInterrupts.cfg` | From the first instruction on: does every interrupt find what it needs, nest nothing, end, and lose nothing? Do the frames fit, and does `lib.c` do what it is taken for? | 2 terminals, 4 devices, a mouse or none; memory of 12 bytes, integers of 256 values, texts of 3 | 14,736 |

Why these bounds are enough:

- *Process.* Four slots and two terminals: one terminal can hold its shell, a
  program and a program run by that; both terminals can compete for the last free
  slot; the table can be full; a slot can be freed and taken by the other
  terminal; parents come before and after their children in the table. Liveness
  needs only that processes enter and leave the round robin, which three slots do.
- *FileDescriptors.* Two descriptors in each of two processes: lists of up to four
  nodes, so removal at the head, at the tail, in the middle and of the only one,
  by the owner or by a kill. `rtc_reads_end` has two rates (the masks 0 and 1), so
  that a reader waits for more than the next interrupt.
- *Terminal.* The line is longer than a row, so that typing and erasing cross the
  ends of rows and scroll. The code's own numbers (80 columns, 25 rows, 128
  bytes) satisfy the same assumption, `SizesAssumption`: a line, tabs included,
  fits on the screen above its last row.
- *FileSystem.* Every length of a file from 0 to one more than an inode can name,
  and the largest; every choice of the blocks an inode names, one that does not
  exist included; buffers before, at, inside and at the end of the user page,
  lengths that wrap past it.
- *Programs.* A buffer of three characters, so that files of up to six end in the
  first, at its end, in the second and in a third read; directories with full-length
  names; a command line that is as long as it may be, and longer; a directory that
  has "." or not; every way a child may end, with statuses on both sides of a byte.
- *Interrupts.* Two terminals are enough for a switch inside a handler; there is one
  device for each way through the 8259s (two on each chip), and every instruction
  boundary at which an interrupt may come.
- *Library.* Twelve bytes hold every alignment of a source and a destination, a
  whole double word and both ends; 256 integers make numerals of one to three digits
  and have a least negative number.
- *Mouse.* Five steps are further than the screen is wide in both directions.
  `MaxSteps` bounds the mouse's own position, nothing else.
- *Gui.* Toggles that choose the sprite, one that does not, a key that is a switch,
  Ctrl-C, a key of two cells, a place beside the keys.

`CHECK_DEADLOCK FALSE` is set where the system may stop: `file_system` (a program
whose later blocks do not exist makes `proc_entry` panic) and `kill_tracks` (the
kernel calls a null pointer).

### What the two disagreements show

- `kill_tracks` (`fd.c:86`). Between the driver's close and the clearing of
  `present`, interrupts are on. A Ctrl-C there closes the descriptor again, and
  `rtc_close` writes the list's head from the stale links of a node that is not in
  the list. Likewise in `rtc_open` before its `cli`. The list then lacks
  descriptors that are open, against `rtc.c:17`.
- `terminal_cleared_line` (`terminal.c:513`). Ctrl-L moves the cursor home and
  keeps the line buffer; the next Backspace takes the branch whose comment says
  "Check if we're not at the very beginning", with both coordinates zero.

### Behaviours seen while modelling that have no run of their own

No property of the project catches these; where a property has an exception for one,
it is named.

- `kill_term_process` (`process.c:217-219`) makes the parent runnable and goes on with
  its loop; a parent in a later slot is then killed by the same Ctrl-C, while
  `process.h:78` speaks of "the current process on the active terminal". A child
  comes before its parent in the table when it took a slot that a program of
  another terminal had freed. `ImplementsJobControl` allows it: each kill of the
  loop is a `Finish` of its own.
- `syscall_open` marks the descriptor (`fd.c:68`) and the driver's open sets its
  operations afterwards, with interrupts on. A Ctrl-C in between makes the kill call
  `close` through a null `file_ops` (`process.c:228`): the kernel stops, where
  `process.h:79` has it close the descriptors and go on to the parent. It is the
  only place where a kill can do so; that no kill does is not a property of this
  code, and restricted to kills between calls it would say nothing. To see the
  trace, check `fault # "panic"` as an invariant under the constants of
  `MCKillTracks.cfg`.
- `term_read` tests the line and then disables interrupts (`terminal.c:212-215`); a
  key in between replaces the complete line, and an unfinished one is returned,
  while `terminal.c:200` has it wait until Enter is pressed.
- The sprite for caps lock has "H K K L" (`gui.c:51`) where the codes have
  `'H', 'J', 'K', 'L'` (`gui.c:115`): the key that sends J shows K. It is the only
  such key in the four sprites; `KeysShown` excepts it (`ShowsK`) and no other.
- A Ctrl-C on the on-screen keyboard that kills the current process does not return
  to `do_render`, whose last statement stores `was_pressed` (`gui.c:436`); the next
  PIT interrupt sees the same release again and presses the key again, though
  `gui.c:253` has a key pressed "upon releasing the left mouse button".
  `OneKeyPerClick` excepts exactly this.
- Switching the on-screen keyboard or the pointer off during a press (`gui.c:402`)
  leaves the key in the "color when clicking on a button" (`gui.c:19`), with nothing
  pressed: `steady` in `HighlightFollows`.
- A second Ctrl-C that comes before the parent woken by the first has run kills
  that parent too; nobody then frees the slot of its child, and the slot is lost.
  The invariants of `Process` hold all the same, and the panic for want of a slot
  stays unreachable.
- The two keys of a kind share one flag (`keyboard.c:190-195`): with both shifts
  down, releasing one clears it, so only one direction is an invariant
  (`NoStuckModifier`).
- The button is in the first byte of a mouse packet, the movement in the others: a
  release seen in between presses the key at the old position.
- `alloc_process` reads only the first bytes of a program; one whose later block
  does not exist is found out by `proc_entry`, which panics (`BlockMissing`).
- A key that is pressed between `i8259_init` and `mouse_init` loses its request, and
  its byte is read by the mouse's initialisation; `FindsByte` makes this exception
  (`drained`).
- `pit_init` writes the control word to the data port (`pit.c:26`); the PIT then
  keeps the mode and rate the firmware has left. `Interrupts` leaves open when it
  ticks. A spurious interrupt of either 8259 would find no handler.
- grep tests `data[line_end]` at the end of a full buffer, which nobody has written
  (`ece391grep.c:33`): if it happens to be a newline, the line there is cut in two.
  `GrepFinds` leaves out files that fill the buffer when it is (`Greppable`), files
  with NULs, which `ece391_strcpy` and `ece391_fdputs` stop at, and lines longer
  than the buffer.
- The comment on `syscall_halt` (`process.c:446`) announces -1 for statuses beyond
  255, that on `memset_word` (`lib.c:362`) counts bytes; the code truncates, and
  counts words. Their callers use them as the code does.
- `printf` with a format that ends in `%` reads past its end; `memmove` leaves the
  direction flag set after a backward copy, of which the kernel has none.

### Fairness

- `Process!FairSpec`: `SF(PitTick)`, since the PIT has the highest priority of the
  PIC, which holds the request while interrupts are off, and every process in user
  mode or in a system call has them on again and again; `WF(KillStep)`, since the
  processor executes a handler that it has begun and nothing else can run. No
  fairness is assumed of programs or the user.
- `FileDescriptors!FairSpec`: `SF(RtcTick)`, the RTC being periodic;
  `WF(KillStep)` as above; `SF(ReadReturns(p))`, since the scheduler runs a
  reader again and again (`RunnableEventuallyRuns`) and nobody but the reader
  itself clears its flag. That the compiler reads `fired` again in the loop of
  `rtc_read` is assumed: the field is not volatile, the `hlt` is.
- `FileSystem!FairSpec`, and `UserPrograms!ProgFairSpec`, which the run uses:
  `WF(ReadStep)`, since nothing in the loop of `read_data` waits and its process is
  run again and again.
- `Interrupts!FairSpec`: `WF` of the steps of the boot, of what runs and of a
  handler, since the processor goes on with its instructions; `SF(Deliver(r))`, since
  it takes an interrupt at the next boundary at which the flag and the 8259s let it.
  Nothing is assumed of the devices, of programs or of the user.

## 4. Proofs

All for every value of the constants that the named assumptions allow.

| Theorem | Module | Says |
|---|---|---|
| `TypeCorrect`, `OneRunner`, `Nesting`, `OwnChild`, `BasePinned`, `RightContext`, `OwnMemory`, `KernelNeverStops` | `ProcessProofs` | types, and each safety invariant of `process_safety`, for any number of slots and terminals |
| `Invariance` | `ProcessProofs` | the inductive invariant `Inv` they follow from |
| `Refinement`, `Stacks` | `ProcessProofs` | `Process` implements `JobControl`; the processes of a terminal are one stack, for stacks of any height |
| `TypeCorrect`, `ListLinked` | `FileDescriptorProofs` | types, and the two directions of the list, when kills come between calls |
| `HandlerVisits` | `FileDescriptorProofs` | the handler's walk ends and meets exactly the open RTC descriptors, however many there are, when kills come between calls |
| `TypeCorrect`, `LinesApart`, `CursorFollows` | `TerminalProofs` | types and no overrun, one line to a buffer, the hardware cursor |
| `CursorStays`, `ScreenIsLine` | `TerminalProofs` | the cursor stays on the screen, and the screen shows the line that is typed, as long as Ctrl-L is not pressed |
| `Invariance`, `TypeCorrect`, `Finds`, `ReadsExactly`, `ReadsOn`, `StaysInside` | `FileSystemProofs` | searches match names exactly; reads return the bytes asked for, one after the other, inside the user page; no arithmetic wraps; for every image, block size and word width |
| `ProgInvariance`, `ProgReads`, `SetupInvariance` | `FileSystemProofs` | all of this again when the process is ls, cat, grep, the shell or syserr; these change neither their image nor their input |
| `ProgramsDeliverAlways`, `ShellTellsAll`, `SysErrPassesAlways` | `FileSystemProofs` | ls and cat print what the directory and the files hold, the shell runs and reports what was typed, every test of syserr passes; for every image, buffer and number of descriptors |
| `GrepFindsAlways` | `FileSystemProofs` | grep prints the lines that have the string, whole, once and in order, wherever its reads cut the files; for every image, buffer and string, and files within `Greppable` |
| `TypeCorrect`, `PositionTracked`, `PointerMoves` | `MouseProofs` | the position is the mouse's, the pointer follows it, for every screen and speed |
| `Invariance`, `TypeCorrect`, `SafeHandlers`, `StackBounded`, `LinesReleased`, `BytesFound`, `RequestsKept` | `InterruptProofs` | every safety property of `interrupts` that has a state, for every number of terminals |
| `EntriesMatch` | `InterruptProofs` | the frames of every entry fit the C code and the return |
| `FunctionsRight`, `LibraryRight` | `InterruptProofs` | the functions of `lib.c` do what the kernel takes them for, for memories and strings of every size and integers of up to 32 bits |
| `TypeCorrect`, `ModifiersRelease`, `Highlighted`, `ShownAsTheyAct`, `KeyPerClick` | `GuiProofs` | the invariants of `gui`, for every layout of the keys; of the labels, that each is what its key sends, but for J under caps lock |

`Induction` holds what the others need to reason about data of any length: facts
about recursive functions and finite sets. The library's induction theorems take an
operator as a parameter, which the installed provers cannot instantiate; the
well-founded order of the numbers is one of its theorems, though, and gives an
induction over a *set* (0 and each successor are in `S`), which is used on the set
of the numbers for which the fact holds.

`TypeOK` of each module and the inductive invariants are proved and therefore in no
run.

Assumptions: `SlotsAssumption` and `NullAssumption` (`Process`: at least one
terminal, no more terminals than slots), `SizesAssumption` and `NullAssumption`
(`FileDescriptors`: at least stdin and stdout, an even base rate, finitely many
processes), `SizesAssumption`
(`Terminal`), `InterruptsAssumption` (`Interrupts`: there is a terminal),
`MouseAssumption` (`Mouse`), `LayoutAssumption` (`Gui`), `LibraryAssumption`
(`Library`: an even number of integers, no more than eight hexadecimal digits
show), `WidthAssumption`,
`ImageAssumption`, `CallAssumption` and `NameAssumption` (`FileSystem`: blocks and
the user page are smaller than what a word can count, fields are words, lengths are
not negative, names are C strings, `Null` is no call), and `ProgramAssumption`,
`InputAssumption`, `ListAssumption` and `SysErrAssumption` (`UserPrograms`: a buffer
has room for a name and the user page for a buffer; arguments are C strings and
typed lines are sequences; ls, grep and syserr start on an image in which what is
called "." is a directory, as the disk's builder makes it; for grep there is no other
directory, unless its name begins with a dot, too; the image of syserr has a "." and
no file of the names that its tests ask for in vain). `ListLinked` and `HandlerVisits` have the hypothesis
`KillAnywhere = FALSE`, `CursorStays` and `ScreenIsLine` have `ClearKey = FALSE`; the runs
`kill_tracks` and `terminal_cleared_line` show that they cannot do without.

`Invariance` to `StaysInside` of `FileSystemProofs` are about `FileSystem!Spec`, the
theorems after them about `ProgSpec`, where the process makes either any call, as in
`Spec`, or those of one of the programs; the run checks `ProgFairSpec`, which is that
with fairness.

The arguments:

- *Process.* `ExecuteNesting` and `CollectsOwnChild` are not inductive: whether a
  killed process can wake the wrong parent depends on every slot that is still
  held by a dead process, on the base shells' slots (`BaseShellPinned`: the slot a
  dying base shell frees is the first free one, so its successor takes it), on the
  saved contexts, and, inside `kill_term_process`, on the processes already killed
  in this loop. `Inv` joins them; the proof has a step for each action and under
  it one for each conjunct the action disturbs. `Refinement` maps each step of
  `Process` to a step of one terminal's stack or to a stutter, with `Inv` to say
  that `Front` chooses the only runnable process. For `Stacks`, `Ranked` says that
  some numbering of the live processes falls from each to its caller, which a new
  child continues and a return only shortens; a finite set with such a numbering is
  followed down to its only base shell, and nobody is met twice.
- *FileDescriptors.* `Mirrors(L)` is stated of any set `L` of nodes, so that the
  lemmas on `Link` and `Unlink` add a node to `L` or take it away, and the actions
  only have to say how `OpenRtcNodes` changes. `FdInv` adds what a process in the
  middle of a call, or of its death, has done so far. `ListLinked` alone admits a
  cycle beside the list; `Ordered`, a numbering of the linked nodes that rises along
  `next`, excludes it: a node is put before the head, and what is unlinked leaves the
  others' order as it was. The recursive set of what the walk meets is then compared
  with the linked nodes from the last one back.
- *Terminal.* The cursor can only leave the screen by erasing; erasing is safe as
  long as the line is not longer than the distance of the cursor from the start of
  the screen. That distance shrinks when the screen scrolls, and then the line
  still fits above the last row (`SizesAssumption`): the proof keeps the width of
  the line, tabs counted as four, below the position of the cursor. `ShownInv` adds
  that the cells before the cursor are the line: a byte is put behind them, at the end
  of a row they move up together with the cursor, and none of them leaves the
  screen, for the line and one more byte fit above the last row (`PutShows`).
- *FileSystem.* `LoopInv` ties `offset` to the call's position plus `i`, keeps it
  within the file, and says that what has been copied are the file's bytes from the
  position on and that all their blocks exist; `CallInv` says on whose behalf
  `read_data` runs, and `DescInv` that a descriptor's position is within its file,
  without which the subtraction in `Count` would wrap. An iteration adds the bytes
  of a stretch that does not leave its block (`Counted`, `BlockBytes`); when the loop
  ends, `i` is the number of positions that were asked for and exist (`Finished`).
  `SameAsNamed` shows the loop of `read_dentry_by_name` to compare names.
- *Programs.* `ProgInv` joins `Inv` with where a program is in its own code, so that
  each call it makes is one that `FileSystem` allows. `ShellInv` says what the
  shell knows of its line at each step, `Told` what it has told the user; `PrintInv` says what ls and cat have
  printed after so many entries or bytes (`NamesTo`, `TextTo`), and `FlattenSeq` is
  unfolded one entry at a time. For syserr the descriptors after each of its opens and
  closes are given explicitly, so that each test is a look into a known table.
- *grep.* `GrepInv` says of each step of `do_one_file` which characters of the file
  are in the buffer, and that what has been printed is the report (`Report`) on the
  characters before them: `ReadAt` between the reads, `LinesAt` between the lines of
  a buffer. A line is reported where it starts (`ReportLine`), and there it is whole
  in the buffer, for `Unfinished` takes it to the front if it is not. That needs two
  more facts. No newline may be left in the part of the buffer that a read has not
  filled, since the test of `data[line_end]` at the end of the buffer would take it
  for the line's (the last conjunct of `ReadAt` and `LinesAt`, which `Greppable`
  grants at the start and the NUL put for each newline keeps). And the search goes
  on where a line starts, or just before the newline that the buffer has cut off
  (`Fresh`); then the rest of the line is empty, and the empty line is not reported,
  since no string that is searched for is empty. That `Report` at the end of a file
  is `Matching`, and `FlattenSeq` adds one file at a time, gives the order of the
  files.
- *Mouse.* `PointerInv` bounds the offsets by the cell the pointer was left on; a
  quotient that is beyond an edge is taken back in whole cells, so the next movement
  starts from the edge.
- *Gui.* `HighlightFollows` holds only because a key that shows a press is one on
  which a press acts (`HighlightInv`), and `OneKeyPerClick` because a button that is
  down, or was, has gone down since the last key (`ClickInv`). `KeysShown` follows
  from the sprite being the one of the toggles (`SpriteInv`) and a comparison of the
  tables (`SameTables`, `CapsTables`); `GuiInv` joins them.
- *Interrupts.* `Inv` says where a thread that does not run may be (`Calm`: not in an
  interrupt, or before the iret of the PIT's), so that a switch to it finds nothing
  in service (`Service`: what the running handler has not acknowledged). `Quiet`
  keeps interrupts off until sti, `Progress` says what is initialised by then, and
  `Answered` that the mouse's answer survives until it is read. `Requests` ties each
  byte, and register C, to a latched request or to a handler on its way; `Ports`
  gives it the state of the devices at each call of the boot.
- *Library.* A repeated store or copy reaches each address in at most one of its
  steps, which `CHOOSE` then must find; memmove chooses the direction in which no
  step reads what an earlier one has written. A comparison stops at the first
  place that satisfies its test (`LeastNumber`). The loop of itoa ends, because
  the quotients fall; `(n div r^k) div r` is `n div r^(k+1)`, so its digits are those
  of the number, and strrev, whose loop has a closed form, puts them in order. printf
  takes one turn for each piece of its format: the text so far is what the pieces
  so far are to print, and the next argument is that of the next specifier.

Only model-checked: liveness (`RunnableEventuallyRuns`, `ReadEnds`,
`ReadDataEnds`, `InterruptsServed`), which is beyond the prover.

## 5. Not modelled

- The segment descriptors and the printing of the multiboot information at boot.
- Drawing: which pixels and characters the screen gets from the graphical keyboard.
- Bytes of the mouse that the hardware loses: nothing in the code would notice.
- hello, testprint, counter, pingpong, getargstest and sigtest (signals do not exist
  in this kernel), and fish: to the other modules they are programs that make any
  calls. The emulator of `fish/` is not part of the system.
- The debugging macros and `tests.c`: `RUN_TESTS` is defined, but every test in
  `launch_tests` is commented out.
- The values of most arguments and characters, as above.

## 6. Plan

What could be added, in the order of importance:

1. *Kills inside a call with the process manager*: a composition of `Process` and
   `FileDescriptors` in which the places of a kill come from the former.
2. *Overlapping timing of keyboard and mouse bytes* with a controller that drops a
   byte, once the code has a way to find the start of a packet again.

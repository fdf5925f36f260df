--------------------------- MODULE FileDescriptors ---------------------------
(***************************************************************************)
(* The file descriptors of the processes and the RTC driver: open, close,  *)
(* read and write of the virtualised RTC, its interrupt handler, and the   *)
(* closing of every descriptor of a process that is killed (fd.c, rtc.c,   *)
(* the open and close functions of fs.c, the close loops of process.c).    *)
(*                                                                         *)
(* System calls run with interrupts enabled, so an action is a stretch of  *)
(* a system call between two points where an interrupt changes what is     *)
(* seen: another process may run there, and a Ctrl-C may kill the process  *)
(* there.  The constant KillAnywhere says whether it does.                 *)
(***************************************************************************)
EXTENDS Integers, FiniteSets

CONSTANTS
  Process,        \* the processes that run
  FdPerProc,      \* FD_PER_PROC, stdin and stdout included
  BaseRate,       \* RTC_BASE_RATE, interrupts a second, a power of two
  KillAnywhere,   \* a Ctrl-C may come in the middle of open and close
  Null

ASSUME SizesAssumption ==
  /\ IsFiniteSet(Process)
  /\ FdPerProc \in Nat /\ FdPerProc >= 2
  /\ BaseRate \in Nat /\ BaseRate >= 2 /\ BaseRate % 2 = 0
  /\ KillAnywhere \in BOOLEAN

(* stdin and stdout are never opened or closed by a system call, and their *)
(* close does nothing.                                                     *)
Fd == 2 .. FdPerProc - 1

(* A descriptor's fd_info_t, with the RTC driver's data inside it.         *)
Node == Process \X Fd

ASSUME NullAssumption == Null \notin Node

VARIABLES
  (* fd_info_t *)
  present,
  file_ops,       \* the driver: "none" is the null pointer
  (* rtc_driver_data_t *)
  next, prev, mask, fired,
  rtc_driver_data_head,
  rtc_driver_counter,
  (* each process *)
  pc,             \* where it is
  fd,             \* the descriptor its system call, or its kill, works on
  fault           \* the kernel has stopped, and why

fdVars == <<present, file_ops>>
linkVars == <<next, prev, rtc_driver_data_head>>
vars == <<present, file_ops, next, prev, mask, fired, rtc_driver_data_head,
          rtc_driver_counter, pc, fd, fault>>

----------------------------------------------------------------------------
(* "opening": a descriptor is taken, file_open has not set the driver.     *)
(* "linking": rtc_open has set the driver and not linked the data.         *)
(* "closing": the driver's close has returned, present is still set.       *)
(* "reading": in rtc_read's loop.  "dying": being closed by a kill, with   *)
(* interrupts disabled.  "gone": killed, the slot not allocated again.     *)
Place == {"user", "opening", "linking", "closing", "reading", "dying", "gone"}
Driver == {"none", "rtc", "file"}
Fault == {"none", "panic", "hang"}

Running == fault = "none" /\ \A p \in Process : pc[p] # "dying"

(* The valid rates: the powers of two from 2 to BaseRate.                  *)
Rate == {r \in 2 .. BaseRate : \E k \in 1 .. BaseRate : r = 2 ^ k}
MaxPeriod == BaseRate \div 2

freq_to_mask(freq) == (BaseRate \div freq) - 1

(* counter & mask, for a mask of one bits, is counter % (mask + 1).        *)
Fires(n) == rtc_driver_counter % (mask[n] + 1) = 0

(* Mutant of Link: the old head does not point back.                       *)
LinkForward(n) ==
  /\ next' = [next EXCEPT ![n] = rtc_driver_data_head]
  /\ prev' = [prev EXCEPT ![n] = Null]
  /\ rtc_driver_data_head' = n

(* rtc_open puts a node in front of the list.                              *)
Link(n) ==
  /\ next' = [next EXCEPT ![n] = rtc_driver_data_head]
  /\ prev' = [m \in Node |-> CASE m = n -> Null
                               [] m = rtc_driver_data_head -> n
                               [] OTHER -> prev[m]]
  /\ rtc_driver_data_head' = n

(* Mutant of Unlink: every node is removed as the first one is.            *)
UnlinkFirst(n) ==
  /\ next' = next
  /\ rtc_driver_data_head' = next[n]
  /\ prev' = [m \in Node |-> IF m = next[n] THEN prev[n] ELSE prev[m]]

(* rtc_close: the neighbours the node's own fields name are joined; the    *)
(* node keeps its fields.                                                  *)
Unlink(n) ==
  /\ next' = [m \in Node |-> IF m = prev[n] THEN next[n] ELSE next[m]]
  /\ rtc_driver_data_head' =
       IF prev[n] = Null THEN next[n] ELSE rtc_driver_data_head
  /\ prev' = [m \in Node |-> IF m = next[n] THEN prev[n] ELSE prev[m]]

(* The n-th node from the head, Null past the end, and the nodes the       *)
(* handler visits.  More steps than nodes: it never ends.                  *)
Walk ==
  LET at[n \in 0 .. Cardinality(Node)] ==
        IF n = 0 THEN rtc_driver_data_head
        ELSE IF at[n - 1] = Null THEN Null ELSE next[at[n - 1]]
  IN  at
Listed == {Walk[n] : n \in 0 .. Cardinality(Node)} \ {Null}
Cyclic == Walk[Cardinality(Node)] # Null

----------------------------------------------------------------------------
(* alloc_process has left every descriptor but stdin and stdout absent.    *)
Init ==
  /\ present = [n \in Node |-> FALSE]
  /\ file_ops = [n \in Node |-> "none"]
  /\ next = [n \in Node |-> Null]
  /\ prev = [n \in Node |-> Null]
  /\ mask = [n \in Node |-> 0]
  /\ fired = [n \in Node |-> FALSE]
  /\ rtc_driver_data_head = Null
  /\ rtc_driver_counter = 0
  /\ pc = [p \in Process |-> "user"]
  /\ fd = [p \in Process |-> FdPerProc]
  /\ fault = "none"

(* A process goes on to a place; its system call works on descriptor i.    *)
Goes(p, place, i) ==
  /\ pc' = [pc EXCEPT ![p] = place]
  /\ fd' = [fd EXCEPT ![p] = i]

(* A system call returns.                                                  *)
Returns(p) == Goes(p, "user", FdPerProc)

(* syscall_open takes the first descriptor that is not present and clears  *)
(* it.                                                                     *)
Open(p) ==
  /\ Running /\ pc[p] = "user"
  /\ \E i \in Fd :
       /\ ~present[<<p, i>>]
       /\ \A j \in Fd : j < i => present[<<p, j>>]
       /\ present' = [present EXCEPT ![<<p, i>>] = TRUE]
       /\ file_ops' = [file_ops EXCEPT ![<<p, i>>] = "none"]
       /\ next' = [next EXCEPT ![<<p, i>>] = Null]
       /\ prev' = [prev EXCEPT ![<<p, i>>] = Null]
       /\ mask' = [mask EXCEPT ![<<p, i>>] = 0]
       /\ fired' = [fired EXCEPT ![<<p, i>>] = FALSE]
       /\ Goes(p, "opening", i)
  /\ UNCHANGED <<rtc_driver_data_head, rtc_driver_counter, fault>>

(* file_open finds no such file: the descriptor is given back.             *)
OpenFails(p) ==
  /\ Running /\ pc[p] = "opening"
  /\ present' = [present EXCEPT ![<<p, fd[p]>>] = FALSE]
  /\ Returns(p)
  /\ UNCHANGED <<file_ops, linkVars, mask, fired, rtc_driver_counter, fault>>

(* file_open of a regular file or the directory.                           *)
OpenFile(p) ==
  /\ Running /\ pc[p] = "opening"
  /\ file_ops' = [file_ops EXCEPT ![<<p, fd[p]>>] = "file"]
  /\ Returns(p)
  /\ UNCHANGED <<present, linkVars, mask, fired, rtc_driver_counter, fault>>

(* file_open of the RTC: rtc_open before its cli ...                       *)
OpenRtc(p) ==
  /\ Running /\ pc[p] = "opening"
  /\ file_ops' = [file_ops EXCEPT ![<<p, fd[p]>>] = "rtc"]
  /\ Goes(p, "linking", fd[p])
  /\ UNCHANGED <<present, linkVars, mask, fired, rtc_driver_counter, fault>>

(* ... and after it.                                                       *)
LinkRtc(p) ==
  /\ Running /\ pc[p] = "linking"
  /\ Link(<<p, fd[p]>>)
  /\ mask' = [mask EXCEPT ![<<p, fd[p]>>] = freq_to_mask(2)]
  /\ fired' = [fired EXCEPT ![<<p, fd[p]>>] = TRUE]
  /\ Returns(p)
  /\ UNCHANGED <<fdVars, rtc_driver_counter, fault>>

(* What a driver's close does: only the RTC's does anything.               *)
DriverClose(n) ==
  IF file_ops[n] = "rtc" THEN Unlink(n) ELSE UNCHANGED linkVars

(* syscall_close: the driver's close ...                                   *)
Close(p) ==
  /\ Running /\ pc[p] = "user"
  /\ \E i \in Fd :
       /\ present[<<p, i>>]
       /\ DriverClose(<<p, i>>)
       /\ Goes(p, "closing", i)
  /\ UNCHANGED <<fdVars, mask, fired, rtc_driver_counter, fault>>

(* ... then present.                                                       *)
Closed(p) ==
  /\ Running /\ pc[p] = "closing"
  /\ present' = [present EXCEPT ![<<p, fd[p]>>] = FALSE]
  /\ Returns(p)
  /\ UNCHANGED <<file_ops, linkVars, mask, fired, rtc_driver_counter, fault>>

(* rtc_read up to its loop.                                                *)
Read(p) ==
  /\ Running /\ pc[p] = "user"
  /\ \E i \in Fd :
       /\ present[<<p, i>>] /\ file_ops[<<p, i>>] = "rtc"
       /\ fired' = [fired EXCEPT ![<<p, i>>] = FALSE]
       /\ Goes(p, "reading", i)
  /\ UNCHANGED <<fdVars, linkVars, mask, rtc_driver_counter, fault>>

(* The loop ends.                                                          *)
ReadReturns(p) ==
  /\ Running /\ pc[p] = "reading"
  /\ fired[<<p, fd[p]>>]
  /\ Returns(p)
  /\ UNCHANGED <<fdVars, linkVars, mask, fired, rtc_driver_counter, fault>>

(* rtc_write of a valid rate.                                              *)
Write(p) ==
  /\ Running /\ pc[p] = "user"
  /\ \E i \in Fd, rate \in Rate :
       /\ present[<<p, i>>] /\ file_ops[<<p, i>>] = "rtc"
       /\ mask' = [mask EXCEPT ![<<p, i>>] = freq_to_mask(rate)]
  /\ UNCHANGED <<fdVars, linkVars, fired, rtc_driver_counter, pc, fd, fault>>

(* rtc_handler.  The counter is kept modulo the longest period, which      *)
(* divides 2^32.                                                           *)
RtcTick ==
  /\ Running
  /\ IF Cyclic
       THEN fault' = "hang" /\ UNCHANGED <<fired, rtc_driver_counter>>
       ELSE /\ fired' = [n \in Node |-> fired[n] \/ (n \in Listed /\ Fires(n))]
            /\ rtc_driver_counter' = (rtc_driver_counter + 1) % MaxPeriod
            /\ UNCHANGED fault
  /\ UNCHANGED <<fdVars, linkVars, mask, pc, fd>>

(* kill_term_process, kill_curr_process: the process ends, and its         *)
(* descriptors are closed from the first on.                               *)
Kill(p) ==
  /\ Running
  /\ pc[p] \in {"user", "reading"} \/ (KillAnywhere /\ pc[p] # "gone")
  /\ Goes(p, "dying", 2)
  /\ UNCHANGED <<fdVars, linkVars, mask, fired, rtc_driver_counter, fault>>

KillCloses(p) ==
  /\ fault = "none" /\ pc[p] = "dying" /\ fd[p] \in Fd
  /\ IF present[<<p, fd[p]>>]
       THEN /\ DriverClose(<<p, fd[p]>>)
            /\ fault' = IF file_ops[<<p, fd[p]>>] = "none"
                          THEN "panic" ELSE "none"
       ELSE UNCHANGED <<linkVars, fault>>
  /\ Goes(p, "dying", fd[p] + 1)
  /\ UNCHANGED <<fdVars, mask, fired, rtc_driver_counter>>

KillEnds(p) ==
  /\ fault = "none" /\ pc[p] = "dying" /\ fd[p] = FdPerProc
  /\ Goes(p, "gone", FdPerProc)
  /\ UNCHANGED <<fdVars, linkVars, mask, fired, rtc_driver_counter, fault>>

(* alloc_process takes the slot again.                                     *)
Start(p) ==
  /\ Running /\ pc[p] = "gone"
  /\ present' = [n \in Node |-> n[1] # p /\ present[n]]
  /\ Returns(p)
  /\ UNCHANGED <<file_ops, linkVars, mask, fired, rtc_driver_counter, fault>>

KillStep(p) == KillCloses(p) \/ KillEnds(p)

Next ==
  \/ RtcTick
  \/ \E p \in Process :
       \/ Open(p) \/ OpenFails(p) \/ OpenFile(p) \/ OpenRtc(p) \/ LinkRtc(p)
       \/ Close(p) \/ Closed(p)
       \/ Read(p) \/ ReadReturns(p) \/ Write(p)
       \/ Kill(p) \/ KillStep(p) \/ Start(p)

Spec == Init /\ [][Next]_vars

(* The RTC keeps interrupting, the processor completes a kill it started,  *)
(* and a process whose loop may end is run again and again.                *)
Fairness ==
  /\ SF_vars(RtcTick)
  /\ \A p \in Process : WF_vars(KillStep(p)) /\ SF_vars(ReadReturns(p))

FairSpec == Spec /\ Fairness

----------------------------------------------------------------------------
TypeOK ==
  /\ present \in [Node -> BOOLEAN]
  /\ file_ops \in [Node -> Driver]
  /\ next \in [Node -> Node \cup {Null}]
  /\ prev \in [Node -> Node \cup {Null}]
  /\ mask \in [Node -> 0 .. MaxPeriod - 1]
  /\ fired \in [Node -> BOOLEAN]
  /\ rtc_driver_data_head \in Node \cup {Null}
  /\ rtc_driver_counter \in 0 .. MaxPeriod - 1
  /\ pc \in [Process -> Place]
  /\ fd \in [Process -> 2 .. FdPerProc]
  /\ fault \in Fault

(* The descriptors whose data should be in the list: open and RTC, not     *)
(* before rtc_open has linked it and not after a close has unlinked it.    *)
Linked(n) ==
  /\ present[n] /\ file_ops[n] = "rtc"
  /\ pc[n[1]] # "gone"
  /\ pc[n[1]] \in {"linking", "closing"} => fd[n[1]] # n[2]
  /\ pc[n[1]] = "dying" => fd[n[1]] =< n[2]

OpenRtcNodes == {n \in Node : Linked(n)}

(* The two directions of a list of the nodes L agree, and it starts at its *)
(* head: a neighbour of a node is one of them too, and names it.           *)
Mirrors(L) ==
  /\ rtc_driver_data_head # Null => rtc_driver_data_head \in L
  /\ \A n \in L :
       /\ (prev[n] = Null) <=> (n = rtc_driver_data_head)
       /\ prev[n] # Null => prev[n] \in L /\ next[prev[n]] = n
       /\ next[n] # Null => next[n] \in L /\ prev[next[n]] = n

(* The open RTC descriptors are linked both ways, whatever order they are  *)
(* opened and closed in, by whichever processes, and at every step of a    *)
(* process's death.                                                        *)
LinksMirror == Mirrors(OpenRtcNodes)

(* The handler visits exactly the open RTC descriptors, and its walk ends: *)
(* none is forgotten, and the memory of a closed one is never written.     *)
ListIsOpenRtc == ~Cyclic /\ Listed = OpenRtcNodes

(* A process that reads the RTC does not wait for ever: the interrupt it   *)
(* waits for reaches its descriptor, whatever the others open, close, or   *)
(* do to their rates, unless it is killed.                                 *)
ReadEnds == \A p \in Process : pc[p] = "reading" ~> pc[p] # "reading"

(* rtc.c: the list keeps "track of the open RTC file descriptors", here    *)
(* when no process is in the middle of a call.  A kill between the two     *)
(* steps of open, or of close, unlinks a descriptor that is not linked.    *)
ListTracksOpen ==
  (\A p \in Process : pc[p] \in {"user", "reading", "gone"}) =>
    Listed = OpenRtcNodes
=============================================================================

----------------------------- MODULE SyscallErrors -----------------------------
(***************************************************************************)
(* What the system calls on descriptors, names and pointers refuse (fd.c,  *)
(* mm.c, the drivers), and the test program syserr, whose eight tests make *)
(* such calls one after the other.  A call takes the descriptors of the    *)
(* process, named after their drivers, and returns them with its result;   *)
(* a test is TRUE if it passes.                                            *)
(***************************************************************************)
EXTENDS FileSystem

CONSTANTS
  Dot,                 \* "." as a character
  Helloo, Shel         \* one character more, one less than a file's name

FD_PER_PROC == 8
Fd == 0 .. FD_PER_PROC - 1

(* What alloc_process leaves.                                              *)
NewFds ==
  [fd \in Fd |-> CASE fd = 0 -> "stdin" [] fd = 1 -> "stdout" [] OTHER -> "none"]

Refuses(fds, fd, buf, nbytes) ==
  \/ nbytes < 0 \/ fd \notin Fd \/ buf = 0
  \/ ~check_user_bounds(buf, nbytes)
  \/ fds[fd] = "none"

(* 0 stands for whatever the driver returns.                               *)
syscall_read(fds, fd, buf, nbytes) ==
  IF Refuses(fds, fd, buf, nbytes) \/ fds[fd] = "stdout" THEN -1 ELSE 0

syscall_write(fds, fd, buf, nbytes) ==
  IF \/ Refuses(fds, fd, buf, nbytes)
     \/ fds[fd] \in {"stdin", "file", "directory"}
  THEN -1 ELSE 0

syscall_open(fds, s) ==
  LET free == {fd \in Fd : fds[fd] = "none"}
      d == read_dentry_by_name(s)
      fd == CHOOSE x \in free : \A y \in free : x =< y
  IN  IF Len(s) > FS_MAX_FNAME_LEN \/ free = {} \/ d = Null
      THEN [fds |-> fds, ret |-> -1]
      ELSE IF ~Opens(image.dentries[d]) THEN [fds |-> fds, ret |-> -1]
      ELSE [fds |-> [fds EXCEPT ![fd] = image.dentries[d].type], ret |-> fd]

(* Mutant of Closable: stdin and stdout may be closed, too.                *)
ClosableAny(fds, fd) == fd \in Fd /\ fds[fd] # "none"

Closable(fds, fd) == fd \in Fd /\ fd >= 2 /\ fds[fd] # "none"

syscall_close(fds, fd) ==
  IF Closable(fds, fd) THEN [fds |-> [fds EXCEPT ![fd] = "none"], ret |-> 0]
  ELSE [fds |-> fds, ret |-> -1]

syscall_vidmap(ptr) ==
  IF ptr = 0 \/ ~check_user_bounds(ptr, 4) THEN -1 ELSE 0

TrapFrames == INSTANCE TrapFrame
call_sys(num) ==
  TrapFrames!syscall_handler([eax |-> num, ebx |-> "b", ecx |-> "c", edx |-> "d"])

----------------------------------------------------------------------------
(* The tests.  Their buffer is in the user page.                           *)
AllFail(fds, fd) ==
  /\ syscall_read(fds, fd, UserStart, 1) = -1
  /\ syscall_write(fds, fd, UserStart, 1) = -1
  /\ syscall_close(fds, fd).ret = -1

err_neg_fd(fds) == AllFail(fds, -1)
err_big_fd(fds) == AllFail(fds, FD_PER_PROC)

OpenedLots(fds) ==
  LET opened[k \in 0 .. 7] == IF k = 0 THEN [fds |-> fds, ret |-> 0]
                              ELSE syscall_open(opened[k - 1].fds, <<Dot>>)
  IN  opened
err_open_lots(fds) ==
  Cardinality({k \in 1 .. 7 : OpenedLots(fds)[k].ret = -1}) = 1

(* Its closes.                                                             *)
AfterOpenLots(fds) ==
  LET closed[k \in 1 .. 7] ==
        IF k = 1 THEN OpenedLots(fds)[7].fds
        ELSE syscall_close(closed[k - 1], k).fds
  IN  closed[7]

err_open(fds) ==
  \A s \in {Helloo, Shel, <<>>} : syscall_open(fds, s).ret = -1

err_unopened(fds) ==
  /\ \A fd \in Fd : syscall_close(fds, fd).ret = -1
  /\ \A fd \in Fd \ {0, 1} :
       /\ syscall_read(fds, fd, UserStart, 1) = -1
       /\ syscall_write(fds, fd, UserStart, 1) = -1

(* A pointer to nothing, and one below the user page.                      *)
err_vidmap == syscall_vidmap(0) = -1 /\ syscall_vidmap(UserStart - 1) = -1

err_stdin_out(fds) ==
  /\ syscall_write(fds, 0, UserStart, 1) = -1
  /\ syscall_read(fds, 1, UserStart, 1) = -1

(* The numbers are unsigned.                                               *)
err_syscall_num == \A num \in {0, 2 ^ 30 - 1, 2 ^ 30 + 1} : call_sys(num) = <<-1>>

(* main with the choice 0: the tests that pass, one after the other on the *)
(* descriptors of the process.                                             *)
Passed ==
  LET fds == AfterOpenLots(NewFds)
  IN  <<err_neg_fd(NewFds), err_big_fd(NewFds), err_open_lots(NewFds),
        err_open(fds), err_unopened(fds), err_vidmap, err_stdin_out(fds),
        err_syscall_num>>
=============================================================================

------------------------------- MODULE TrapFrame -------------------------------
(***************************************************************************)
(* The ways into and out of the kernel (idtasm.S, idt.h, the dispatch of   *)
(* idt.c, and the wrappers of the system calls in the user programs): what *)
(* an entry leaves on the kernel's stack, what the C handlers take it for, *)
(* and what pop_iret_context makes of it.  A value on the stack is named   *)
(* after the register it came from.  No state: the entries are compared    *)
(* with each other.                                                        *)
(***************************************************************************)
EXTENDS Integers, Sequences

NUM_EXCEP == 20
NUM_SYSCALLS == 10
IrqVectors == 32 .. 47
SyscallVector == 128
Vectors == (0 .. NUM_EXCEP - 1) \cup IrqVectors \cup {SyscallVector}

(* The exceptions for which the processor pushes an error code.            *)
HasErrorCode == {8, 10, 11, 12, 13, 14, 17}

(* Mutant of MacroError: one of them has the other macro.                  *)
MacroErrorButOne == {8, 10, 11, 12, 14, 17}

(* The entries that are written with EXCEP_MACRO_ERROR.                    *)
MacroError == {8, 10, 11, 12, 13, 14, 17}

(* What the processor pushes for vector v, the last push first; from the   *)
(* user level it switches to the stack of the TSS first.                   *)
CpuFrame(v, user) ==
  (IF v \in HasErrorCode THEN <<"error">> ELSE <<>>)
  \o <<"eip", "cs", "eflags">>
  \o (IF user THEN <<"esp", "ss">> ELSE <<>>)

(* What an entry has on the stack when it calls its handler: the pushw's   *)
(* of the segment registers, the pushl's, the error code.                  *)
General == <<"ds", "es", "fs", "gs",
             "eax", "ebx", "ecx", "edx", "ebp", "esi", "edi">>
EmptyCode(v) == IF v \in MacroError THEN <<>> ELSE <<"error">>
Frame(v, user) == General \o EmptyCode(v) \o CpuFrame(v, user)

(* The fields of iret_context_base_t and iret_context_user_t (without the  *)
(* padding of cs and ss).                                                  *)
Context(user) ==
  <<"ds", "es", "fs", "gs", "eax", "ebx", "ecx", "edx", "ebp", "esi", "edi",
    "error", "eip", "cs", "eflags">>
  \o (IF user THEN <<"esp", "ss">> ELSE <<>>)

(* Bytes of a push, a pop, or a field with its padding.                    *)
Width(x) == IF x \in {"ds", "es", "fs", "gs"} THEN 2 ELSE 4

(* The offset of each element, and after the last the size of the whole.   *)
Offsets(s) ==
  LET at[k \in 1 .. Len(s) + 1] ==
        IF k = 1 THEN 0 ELSE at[k - 1] + Width(s[k - 1])
  IN  at

(* The value that lies at an offset of a stack.                            *)
ValueAt(s, offset) ==
  LET here == {k \in 1 .. Len(s) : Offsets(s)[k] = offset}
  IN  IF here = {} THEN "garbage" ELSE s[CHOOSE k \in here : TRUE]

(* The pops of pop_iret_context; the error code is stepped over.           *)
Pops == <<"ds", "es", "fs", "gs", "eax", "ebx", "ecx", "edx", "ebp", "esi",
          "edi", "error">>

(* With its iret, which takes esp and ss only when it goes back to a lower *)
(* level.                                                                  *)
Restores(user) ==
  Pops \o <<"eip", "cs", "eflags">>
  \o (IF user THEN <<"esp", "ss">> ELSE <<>>)

----------------------------------------------------------------------------
(* A system call, from the C call in a program to the function in the      *)
(* kernel's table.                                                         *)
SyscallNumber ==
  [halt |-> 1, execute |-> 2, read |-> 3, write |-> 4, open |-> 5,
   close |-> 6, getargs |-> 7, vidmap |-> 8, set_handler |-> 9,
   sigreturn |-> 10]

syscall_tbl ==
  <<"halt", "execute", "read", "write", "open", "close", "getargs", "vidmap",
    "NULL", "NULL">>

(* DO_CALL: ebx is pushed, the registers are loaded; stack is what the     *)
(* caller has pushed.                                                      *)
do_call(name, stack) ==
  [eax |-> SyscallNumber[name],
   ebx |-> ValueAt(<<"ebx">> \o stack, 8), ecx |-> ValueAt(<<"ebx">> \o stack, 12),
   edx |-> ValueAt(<<"ebx">> \o stack, 16)]

(* syscall_handler: which function is called with which arguments, read    *)
(* from the context; -1 for a number without a function.                   *)
syscall_handler(regs) ==
  IF \/ regs["eax"] = 0 \/ regs["eax"] > NUM_SYSCALLS
     \/ syscall_tbl[regs["eax"]] = "NULL"
  THEN <<-1>>
  ELSE <<syscall_tbl[regs["eax"]], regs["ebx"], regs["ecx"], regs["edx"]>>

----------------------------------------------------------------------------
(* The C handlers find every register where their struct says it is,       *)
(* whichever of the three macros the entry is written with and whether the *)
(* processor has pushed an error code or not: exception_handler_all reads  *)
(* cs, syscall_handler eax to edx.                                         *)
HandlersSeeContext ==
  \A v \in Vectors, user \in BOOLEAN :
    \A k \in 1 .. Len(Context(user)) :
      ValueAt(Frame(v, user), Offsets(Context(user))[k]) = Context(user)[k]

(* Every entry returns with every register as it was and the stack as it   *)
(* was: pop_iret_context takes off exactly what the entry and the          *)
(* processor have put there.                                               *)
ReturnRestores ==
  \A v \in Vectors, user \in BOOLEAN :
    LET frame == Frame(v, user)
        pops == Restores(user)
    IN  /\ \A k \in 1 .. Len(pops) :
             ValueAt(frame, Offsets(pops)[k]) = pops[k]
        /\ Offsets(frame)[Len(frame) + 1] = Offsets(pops)[Len(pops) + 1]

(* A system call by name in a program reaches the function of that name in *)
(* the kernel, with the arguments in their order; those the kernel does    *)
(* not have fail, and so does every number outside the table.              *)
CallsArrive ==
  /\ \A name \in DOMAIN SyscallNumber :
       LET regs == do_call(name, <<"return", "arg1", "arg2", "arg3">>)
       IN  syscall_handler(regs) =
             IF name \in {"set_handler", "sigreturn"} THEN <<-1>>
             ELSE <<name, "arg1", "arg2", "arg3">>
  /\ \A n \in {0, NUM_SYSCALLS + 1, 2 * NUM_SYSCALLS} :
       syscall_handler([eax |-> n, ebx |-> "b", ecx |-> "c", edx |-> "d"])
         = <<-1>>

(* Entry, handler and return fit one another, for every vector.            *)
EntriesFit == HandlersSeeContext /\ ReturnRestores /\ CallsArrive
=============================================================================

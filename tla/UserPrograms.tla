----------------------------- MODULE UserPrograms -----------------------------
(***************************************************************************)
(* The process of FileSystem runs one of the programs that come with the   *)
(* kernel (src/syscalls): cat, ls, grep and the shell, call by call, on    *)
(* the reads and searches of the file system, or syserr as a whole.  With  *)
(* the program "any" it makes whatever calls FileSystem allows.            *)
(*                                                                         *)
(* FileSystem keeps one descriptor: the one the program uses.  What a      *)
(* program prints goes to `out`, except for the messages before it gives   *)
(* up, which its exit status tells.                                        *)
(***************************************************************************)
EXTENDS SyscallErrors, SequencesExt

CONSTANTS
  Setups,              \* program, arguments, image and contents to start with
  BUFSIZE,             \* the buffers of cat and grep
  ARG_LENGTH,
  Lines,               \* what may be typed at a prompt
  ExitWord,            \* "exit"
  Ends,                \* how a child of the shell may end
  Blank, NL            \* the blanks, the newline

(* The buffers have room for a name, and the user page for a buffer.       *)
ASSUME ProgramAssumption ==
  /\ BUFSIZE \in Nat /\ UserStart + BUFSIZE =< UserEnd
  /\ FS_MAX_FNAME_LEN \in 1 .. BUFSIZE
  /\ ARG_LENGTH \in Nat \ {0}
  /\ NL \notin Blank /\ NUL \notin Blank /\ NL # NUL /\ Dot # NUL

(* A sequence, whatever it is of.                                          *)
IsText(s) == Len(s) \in Nat /\ s = [k \in 1 .. Len(s) |-> s[k]]

ASSUME InputAssumption ==
  /\ \A s \in Setups : s.image \in Images /\ IsCString(s.args)
  /\ \A typed \in Lines : IsText(typed)
  /\ \A e \in Ends : e.how \in {"halt", "exception", "ctrl_c"} /\ e.with \in Int

(* ls and grep come with an image whose ".", if it has one, is the          *)
(* directory; for grep no other name than those it skips is one.           *)
ASSUME ListAssumption ==
  \A s \in Setups : s.prog \in {"ls", "grep"} =>
    \A d \in 0 .. s.image.num_dentries - 1 :
      LET entry == s.image.dentries[d]
      IN  /\ Named(entry.filename, <<Dot>>) => entry.type = "directory"
          /\ s.prog = "grep" /\ entry.type = "directory" =>
               entry.filename[0] = Dot

(* The directory of the image that syserr comes with has ".", which is a   *)
(* directory, and none of the names that it asks for in vain.              *)
ASSUME SysErrAssumption ==
  /\ \A s \in {Helloo, Shel} : IsCString(s)
  /\ \A s \in Setups : s.prog = "syserr" =>
       LET names == {d \in 0 .. s.image.num_dentries - 1 :
                       Named(s.image.dentries[d].filename, <<Dot>>)}
       IN  /\ names # {}
           /\ \A d \in names : s.image.dentries[d].type = "directory"
                              /\ s.image.dentries[d].inode = 0
           /\ \A d \in 0 .. s.image.num_dentries - 1, n \in {Helloo, Shel, <<>>} :
                ~Named(s.image.dentries[d].filename, n)

VARIABLES
  prog, step,          \* the program and what it does next
  args,                \* the arguments in the PCB
  contents,            \* the character that a named byte stands for
  garbage,             \* what the stack holds where do_one_file's buffer is
  data, last, cnt, line_start,    \* locals of cat and grep
  dirfd,               \* the descriptor of "." while grep reads a file
  file,                \* the name that grep passes to do_one_file
  out, status,         \* what it has written, what main returned
  line, rval,          \* the shell's buffer, what execute returned
  ended                \* how its child came to its end

localVars ==
  <<args, data, last, cnt, line_start, dirfd, file, line, rval, ended>>
worldVars == <<prog, contents, garbage>>
progVars == <<worldVars, step, out, status, localVars>>
allVars == <<vars, progVars>>

EXCEPTION_STATUS == 256
TERMINATED_STATUS == 257

NoFd == [kind |-> "none", inode |-> 0, file_pos |-> 0, delivered |-> <<>>]

(* No child has run.                                                       *)
Unended == [how |-> "none", with |-> 0]

ProgInit ==
  \E s \in Setups :
    /\ Init /\ image = s.image
    /\ prog = s.prog /\ args = s.args /\ contents = s.contents
    /\ garbage \in {NUL, NL} /\ (prog # "grep" => garbage = NUL)
    /\ step = "start"
    /\ data = [k \in 0 .. BUFSIZE |-> NUL]
    /\ last = 0 /\ cnt = 0 /\ line_start = 0
    /\ dirfd = NoFd /\ file = <<>>
    /\ out = <<>> /\ status = 0
    /\ line = <<>> /\ rval = 0 /\ ended = Unended

----------------------------------------------------------------------------
(* System calls, as the programs make them.                                *)

(* The program in mode `this` is about to do `now`; the kernel is not in a *)
(* call.                                                                   *)
Does(this, now) == prog = this /\ step = now /\ pc = "user"

Exit(n) == step' = "exit" /\ status' = n

(* syscall_getargs fails if there are none; the buffers are long enough.   *)
HasArgs == args # <<>>

(* open: the descriptor of the name, or -1.                                *)
NameTooLong(s) ==
  /\ Len(s) > FS_MAX_FNAME_LEN
  /\ UNCHANGED vars
OpenRefused(s) == OpenFails(s) \/ NameTooLong(s)

(* rtc_read returns 0 after the next interrupt.                            *)
RtcRead ==
  /\ kind = "rtc"
  /\ ret' = 0 /\ call' = Null
  /\ UNCHANGED <<image, fname, found, fdVars, pc, offset, i, copied>>

(* read, into the program's buffer; in the user page, wherever in it.      *)
Reads(n) ==
  \/ Read(UserStart, n) \/ ReadRefused(UserStart, n)
  \/ directory_read(UserStart, n) \/ RtcRead

(* The characters that a read has put there.                               *)
Got ==
  CASE ret =< 0 -> <<>>
    [] ret > 0 /\ kind = "file" -> [k \in 1 .. ret |-> contents[copied[k]]]
    [] ret > 0 /\ kind = "directory" ->
         [k \in 1 .. ret |-> image.dentries[file_pos - 1].filename[k - 1]]

(* What a C string is, up to its NUL.                                      *)
UpToNul(s) ==
  IF \E k \in 1 .. Len(s) : s[k] = NUL
  THEN SubSeq(s, 1, (CHOOSE k \in 1 .. Len(s) :
                       s[k] = NUL /\ \A j \in 1 .. k - 1 : s[j] # NUL) - 1)
  ELSE s

(* The string at a place of grep's buffer.                                 *)
CString(d, at) == UpToNul([k \in 1 .. BUFSIZE + 1 - at |-> d[at + k - 1]])

----------------------------------------------------------------------------
(* ls.                                                                     *)
LsOpen ==
  /\ Does("ls", "start")
  /\ \/ Open(<<Dot>>) /\ step' = "read" /\ UNCHANGED status
     \/ OpenRefused(<<Dot>>) /\ Exit(2)
  /\ UNCHANGED <<worldVars, out, localVars>>

LsRead ==
  /\ Does("ls", "read")
  /\ Reads(FS_MAX_FNAME_LEN)
  /\ step' = "got"
  /\ UNCHANGED <<worldVars, out, status, localVars>>

LsWrite ==
  /\ Does("ls", "got")
  /\ \/ ret = 0 /\ Exit(0) /\ UNCHANGED out
     \/ ret = -1 /\ Exit(3) /\ UNCHANGED out
     \/ ret > 0 /\ out' = out \o Append(Got, NL) /\ step' = "read"
        /\ UNCHANGED status
  /\ UNCHANGED <<vars, worldVars, localVars>>

(* cat.                                                                    *)
CatOpen ==
  /\ Does("cat", "start")
  /\ \/ HasArgs /\ Open(args) /\ step' = "read" /\ UNCHANGED status
     \/ HasArgs /\ OpenRefused(args) /\ Exit(2)
     \/ ~HasArgs /\ Exit(3) /\ UNCHANGED vars
  /\ UNCHANGED <<worldVars, out, localVars>>

CatRead ==
  /\ Does("cat", "read")
  /\ Reads(BUFSIZE)
  /\ step' = "got"
  /\ UNCHANGED <<worldVars, out, status, localVars>>

(* Mutant of CatWritten: what does not fill the buffer is not written.     *)
CatWholeBuffers == IF ret = BUFSIZE THEN Got ELSE <<>>

CatWritten == Got

CatWrite ==
  /\ Does("cat", "got")
  /\ \/ ret = 0 /\ Exit(0) /\ UNCHANGED out
     \/ ret = -1 /\ Exit(3) /\ UNCHANGED out
     \/ ret > 0 /\ out' = out \o CatWritten /\ step' = "read"
        /\ UNCHANGED status
  /\ UNCHANGED <<vars, worldVars, localVars>>

----------------------------------------------------------------------------
(* grep: main reads the names of the directory, do_one_file a file.        *)
GrepOpenDir ==
  /\ Does("grep", "start")
  /\ \/ HasArgs /\ Open(<<Dot>>) /\ step' = "next" /\ UNCHANGED status
     \/ HasArgs /\ OpenRefused(<<Dot>>) /\ Exit(2)
     \/ ~HasArgs /\ Exit(3) /\ UNCHANGED vars
  /\ UNCHANGED <<worldVars, out, localVars>>

GrepReadDir ==
  /\ Does("grep", "next")
  /\ Reads(FS_MAX_FNAME_LEN)
  /\ step' = "name"
  /\ UNCHANGED <<worldVars, out, status, localVars>>

(* The name without what pads it; main has put a NUL behind it.            *)
ReadName == UpToNul(Got)

GrepDirEnds ==
  /\ Does("grep", "name") /\ ret =< 0
  /\ Exit(IF ret = 0 THEN 0 ELSE 3)
  /\ UNCHANGED <<vars, worldVars, out, localVars>>

GrepSkips ==
  /\ Does("grep", "name") /\ ret > 0 /\ Got[1] = Dot
  /\ step' = "next"
  /\ UNCHANGED <<vars, worldVars, out, status, localVars>>

(* The descriptor of "." is put aside, and do_one_file called.  Its buffer *)
(* is not initialised; all that anybody looks for in what was there is a   *)
(* newline.                                                                *)
GrepEnters ==
  /\ Does("grep", "name") /\ ret > 0 /\ Got[1] # Dot
  /\ dirfd' = [kind |-> kind, inode |-> inode, file_pos |-> file_pos,
               delivered |-> delivered]
  /\ kind' = "none" /\ UNCHANGED <<inode, file_pos, delivered>>
  /\ file' = ReadName
  /\ data' = [k \in 0 .. BUFSIZE |-> garbage]
  /\ last' = 0
  /\ step' = "open"
  /\ UNCHANGED <<image, fname, found, pc, loopVars, ret, worldVars, out,
                 status, args, cnt, line_start, line, rval, ended>>

GrepOpen ==
  /\ Does("grep", "open")
  /\ \/ Open(file) /\ step' = "read" /\ UNCHANGED status
     \/ OpenRefused(file) /\ Exit(3)
  /\ UNCHANGED <<worldVars, out, localVars>>

GrepRead ==
  /\ Does("grep", "read")
  /\ Reads(BUFSIZE - last)
  /\ step' = "got"
  /\ UNCHANGED <<worldVars, out, status, localVars>>

GrepGot ==
  /\ Does("grep", "got")
  /\ IF ret = -1 THEN Exit(3) ELSE step' = "line" /\ UNCHANGED status
  /\ cnt' = ret
  /\ last' = last + Len(Got)
  /\ data' = [k \in 0 .. BUFSIZE |->
                IF k \in last .. last' - 1 THEN Got[k - last + 1] ELSE data[k]]
  /\ line_start' = 0
  /\ UNCHANGED <<vars, worldVars, out, args, dirfd, file, line, rval, ended>>

(* The end of the line that starts at line_start.                          *)
LineEnd ==
  CHOOSE e \in line_start .. last :
    /\ e = last \/ data[e] = NL
    /\ \A k \in line_start .. e - 1 : data[k] # NL

(* Mutant of Unfinished: a line is complete at the end of the buffer.      *)
NeverUnfinished == FALSE

(* The line goes on in what has not been read yet, and there is room for   *)
(* more of it.                                                             *)
Unfinished == data[LineEnd] # NL /\ cnt # 0 /\ line_start # 0

(* The strcpy of the unfinished line to the start of the buffer.           *)
GrepCarries ==
  /\ Does("grep", "line") /\ Unfinished
  /\ LET stopped == [data EXCEPT ![LineEnd] = NUL]
         rest == CString(stopped, line_start)
     IN  data' = [k \in 0 .. BUFSIZE |->
                    IF k < Len(rest) THEN rest[k + 1]
                    ELSE IF k = Len(rest) THEN NUL ELSE stopped[k]]
  /\ last' = last - line_start
  /\ step' = "read"
  /\ UNCHANGED <<vars, worldVars, out, status, args, cnt, line_start,
                 dirfd, file, line, rval, ended>>

(* strncmp finds s at position p of a buffer.                              *)
StartsWith(d, p, s) ==
  \A k \in 1 .. Len(s) : p + k - 1 \in DOMAIN d /\ d[p + k - 1] = s[k]

(* The search of a line, which is printed up to its first NUL.             *)
GrepLine ==
  /\ Does("grep", "line") /\ ~Unfinished
  /\ data' = [data EXCEPT ![LineEnd] = NUL]
  /\ out' = IF \E check \in line_start .. LineEnd - 1 :
                 StartsWith(data', check, args)
            THEN Append(out, [name |-> file, line |-> CString(data', line_start)])
            ELSE out
  /\ IF LineEnd + 1 < last
     THEN line_start' = LineEnd + 1 /\ UNCHANGED <<last, step>>
     ELSE /\ last' = 0 /\ UNCHANGED line_start
          /\ step' = IF cnt = 0 THEN "close" ELSE "read"
  /\ UNCHANGED <<vars, worldVars, status, args, cnt, dirfd, file, line,
                 rval, ended>>

(* close, and back to main and its descriptor.                             *)
GrepCloses ==
  /\ Does("grep", "close")
  /\ kind' = dirfd.kind /\ inode' = dirfd.inode
  /\ file_pos' = dirfd.file_pos /\ delivered' = dirfd.delivered
  /\ step' = "next"
  /\ UNCHANGED <<image, fname, found, pc, loopVars, ret, worldVars, out,
                 status, localVars>>

GrepStep ==
  \/ GrepOpenDir \/ GrepReadDir \/ GrepDirEnds \/ GrepSkips \/ GrepEnters
  \/ GrepOpen \/ GrepRead \/ GrepGot \/ GrepCarries \/ GrepLine \/ GrepCloses

----------------------------------------------------------------------------
(* The shell.                                                              *)

(* The buffer after a read: without the newline, and as a string.          *)
Chopped(typed) ==
  UpToNul(IF typed # <<>> /\ typed[Len(typed)] = NL
          THEN SubSeq(typed, 1, Len(typed) - 1) ELSE typed)

ShellReads ==
  /\ Does("shell", "start")
  /\ \E typed \in Lines :
       /\ line' = Chopped(typed)
       /\ \/ Chopped(typed) = ExitWord /\ Exit(0)
          \/ Chopped(typed) = <<>> /\ UNCHANGED <<step, status>>
          \/ /\ Chopped(typed) \notin {ExitWord, <<>>}
             /\ step' = "execute" /\ UNCHANGED status
  /\ out' = <<>> /\ ended' = Unended
  /\ UNCHANGED <<vars, worldVars, args, data, last, cnt, line_start,
                 dirfd, file, rval>>

(* alloc_process on a command line: the first place, from k on, with a     *)
(* blank, or without one, or the end.                                      *)
SkipTo(blank, s, k) ==
  CHOOSE j \in k .. Len(s) + 1 :
    /\ j = Len(s) + 1 \/ (s[j] \in Blank) = blank
    /\ \A m \in k .. j - 1 : (s[m] \in Blank) # blank

NameStart(s) == SkipTo(FALSE, s, 1)
NameEnd(s) == SkipTo(TRUE, s, NameStart(s))
prog_name(s) == SubSeq(s, NameStart(s), NameEnd(s) - 1)

arg_buffer(s) == SubSeq(s, SkipTo(FALSE, s, NameEnd(s)), Len(s))

(* execute finds a program and starts it; proc_entry reads it.             *)
ShellExecutes ==
  /\ Does("shell", "execute")
  /\ Len(line) < ARG_LENGTH
  /\ Execute(prog_name(line))
  /\ args' = arg_buffer(line)
  /\ step' = "wait"
  /\ UNCHANGED <<worldVars, out, status, data, last, cnt, line_start,
                 dirfd, file, line, rval, ended>>

(* The line is too long, or names nothing that can be executed; the first  *)
(* bytes of the file may be wrong, too.                                    *)
ShellRefused ==
  /\ Does("shell", "execute")
  /\ \/ Len(line) >= ARG_LENGTH /\ UNCHANGED vars
     \/ /\ Len(line) < ARG_LENGTH
        /\ Search(prog_name(line))
        /\ UNCHANGED <<image, fdVars, pc, loopVars, ret>>
  /\ rval' = -1
  /\ step' = "report"
  /\ UNCHANGED <<worldVars, out, status, args, data, last, cnt,
                 line_start, dirfd, file, line, ended>>

(* Mutant of ExitCode: halt passes its whole argument on.                  *)
ExitCodeWhole(end) ==
  CASE end.how = "halt" -> end.with
    [] end.how = "exception" -> EXCEPTION_STATUS
    [] end.how = "ctrl_c" -> TERMINATED_STATUS

(* What syscall_halt, exception_handler_all and the Ctrl-C of the keyboard *)
(* leave in the PCB.                                                       *)
ExitCode(end) ==
  CASE end.how = "halt" -> end.with % 256
    [] end.how = "exception" -> EXCEPTION_STATUS
    [] end.how = "ctrl_c" -> TERMINATED_STATUS

(* The child, whatever it is, comes to one of its ends.                    *)
ChildEnds ==
  /\ Does("shell", "wait")
  /\ ended' \in Ends
  /\ rval' = ExitCode(ended')
  /\ step' = "report"
  /\ UNCHANGED <<vars, worldVars, out, status, args, data, last, cnt,
                 line_start, dirfd, file, line>>

Message(code) ==
  CASE code = -1 -> <<"no such command">>
    [] code = 256 -> <<"program terminated by exception">>
    [] code = 0 -> <<>>
    [] OTHER -> <<"program terminated abnormally">>

ShellReports ==
  /\ Does("shell", "report")
  /\ out' = Message(rval)
  /\ step' = "start"
  /\ UNCHANGED <<vars, worldVars, status, localVars>>

ShellStep ==
  ShellReads \/ ShellExecutes \/ ShellRefused \/ ChildEnds \/ ShellReports

----------------------------------------------------------------------------
(* syserr returns twice the number of tests that have failed.              *)
SysErrRuns ==
  /\ Does("syserr", "start")
  /\ Exit(2 * Cardinality({k \in DOMAIN Passed : ~Passed[k]}))
  /\ UNCHANGED <<vars, worldVars, out, localVars>>

ProgNext ==
  \/ prog = "any" /\ Next /\ UNCHANGED progVars
  \/ prog # "any" /\ ReadStep /\ UNCHANGED progVars
  \/ LsOpen \/ LsRead \/ LsWrite
  \/ CatOpen \/ CatRead \/ CatWrite
  \/ GrepStep
  \/ ShellStep
  \/ SysErrRuns

ProgSpec == ProgInit /\ [][ProgNext]_allVars

(* As in FileSystem.                                                       *)
ProgFairSpec == ProgSpec /\ WF_allVars(ReadStep /\ UNCHANGED progVars)

----------------------------------------------------------------------------
Complete(f) == \A p \in 0 .. f.file_length - 1 : HasBlock(f, p)
Text(f) == [k \in 1 .. f.file_length |-> contents[FileByte(f, k - 1)]]

Opened(s) ==
  LET d == read_dentry_by_name(s)
  IN  IF \/ Len(s) > FS_MAX_FNAME_LEN \/ d = Null
      THEN Null
      ELSE IF Opens(image.dentries[d]) THEN d ELSE Null

Names(end) ==
  FlattenSeq([d \in 1 .. image.num_dentries |->
    [k \in 1 .. FS_MAX_FNAME_LEN |-> image.dentries[d - 1].filename[k - 1]]
    \o end])

(* cat prints the file byte for byte and returns 0, or returns 3 after     *)
(* having printed some beginning of it if a block is missing; the names of *)
(* a directory one after the other.  ls prints every name on a line.       *)
ProgramsDeliver ==
  /\ prog = "ls" /\ step = "exit" =>
       \/ status = 0 /\ out = Names(<<NL>>)
       \/ status = 2 /\ Opened(<<Dot>>) = Null
  /\ prog = "cat" /\ step = "exit" =>
       IF args = <<>> THEN status = 3
       ELSE IF Opened(args) = Null THEN status = 2
       ELSE LET entry == image.dentries[Opened(args)]
                f == image.inodes[entry.inode]
            IN  CASE entry.type = "rtc" -> status = 0 /\ out = <<>>
                  [] entry.type = "directory" -> status = 0 /\ out = Names(<<>>)
                  [] entry.type = "file" ->
                       IF entry.inode >= image.num_inode
                       THEN status = 3 /\ out = <<>>
                       ELSE IF Complete(f) THEN status = 0 /\ out = Text(f)
                       ELSE /\ status = 3
                            /\ \A k \in 1 .. Len(out) :
                                 HasBlock(f, k - 1)
                                 /\ out[k] = contents[FileByte(f, k - 1)]

(* The line of a text that starts at its k-th character, without the       *)
(* newline.                                                                *)
LineAt(t, k) ==
  SubSeq(t, k, (CHOOSE e \in k .. Len(t) + 1 :
                  /\ e = Len(t) + 1 \/ t[e] = NL
                  /\ \A j \in k .. e - 1 : t[j] # NL) - 1)

HasString(l, s) ==
  \E p \in 0 .. Len(l) - Len(s) : \A k \in 1 .. Len(s) : l[p + k] = s[k]

(* A line that contains the string starts at the k-th character.           *)
Matches(t, k) == (k = 1 \/ t[k - 1] = NL) /\ HasString(LineAt(t, k), args)

(* What grep should print of the lines that start at the first n.          *)
Report(name, t, n) ==
  FlattenSeq([k \in 1 .. n |->
    IF Matches(t, k) THEN <<[name |-> name, line |-> LineAt(t, k)]>> ELSE <<>>])

(* What grep should print for the d-th entry of the directory.             *)
Matching(d) ==
  LET filename == image.dentries[d - 1].filename
      name == UpToNul([k \in 1 .. FS_MAX_FNAME_LEN |-> filename[k - 1]])
      entry == image.dentries[Opened(name)]
      t == Text(image.inodes[entry.inode])
  IN  IF filename[0] = Dot \/ entry.type # "file" THEN <<>>
      ELSE Report(name, t, Len(t) + 1)

(* The files for which grep is right: without a NUL, and with a newline at *)
(* least as often as its buffer can do without.  A file that fills the     *)
(* buffer meets the byte after it, which may happen to be a newline        *)
(* (GrepEnters); see the README.                                           *)
Greppable(t) ==
  /\ \A k \in 1 .. Len(t) : t[k] # NUL
  /\ \A k \in 1 .. Len(t) - BUFSIZE : \E j \in k .. k + BUFSIZE : t[j] = NL
  /\ garbage # NL \/ Len(t) < BUFSIZE

(* grep prints exactly the lines that contain the string, whole, once and  *)
(* in order, wherever the reads cut the file.                              *)
GrepFinds ==
  prog = "grep" /\ step = "exit" /\ status = 0 =>
    ((\A n \in 0 .. image.num_inode - 1 : Greppable(Text(image.inodes[n]))) =>
       out = FlattenSeq([d \in 1 .. image.num_dentries |-> Matching(d)]))

(* The shell runs the first word of a line with the rest of it, from its   *)
(* first word on, as arguments, and tells how the program ended: a program *)
(* cannot look as if it had not been found or had made an exception,       *)
(* whatever it passes to halt.                                             *)
ShellTells ==
  /\ prog = "shell" /\ step = "wait" =>
       \E n, m \in 0 .. Len(line) :
         /\ line = SubSeq(line, 1, n) \o fname \o SubSeq(line, n + Len(fname) + 1, m) \o args
         /\ \A k \in (1 .. n) \cup (n + Len(fname) + 1 .. m) : line[k] \in Blank
         /\ \A k \in 1 .. Len(fname) : fname[k] \notin Blank
         /\ args # <<>> => args[1] \notin Blank /\ m > n + Len(fname)
  /\ prog = "shell" /\ step = "start" =>
       /\ (out = Message(-1)) <=> (line # <<>> /\ ended = Unended)
       /\ (out = Message(256)) <=> (ended.how = "exception")
       /\ (out = <<>>) <=> \/ line = <<>>
                           \/ ended.how = "halt" /\ ended.with % 256 = 0

(* The kernel passes the test program that the course supplies: every call *)
(* that it says must fail does, and one of seven opens.                    *)
SysErrPasses == prog = "syserr" /\ step = "exit" => status = 0
=============================================================================

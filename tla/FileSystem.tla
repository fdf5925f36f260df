------------------------------ MODULE FileSystem ------------------------------
(***************************************************************************)
(* The read-only file system (fs.c): the search of the directory, reads of *)
(* a file and of the directory through a descriptor, and the loading of a  *)
(* program, for one process.  The image never changes, so processes do not *)
(* disturb each other here; what can go wrong is the arithmetic, which is  *)
(* unsigned and of a fixed width, and the image, which may name blocks it  *)
(* does not have.                                                          *)
(***************************************************************************)
EXTENDS Integers, Sequences, FiniteSets

CONSTANTS
  FS_BLOCK_SIZE,
  FS_MAX_DBLKS,        \* blocks an inode can name
  FS_MAX_FNAME_LEN,
  Word,                \* a uint32_t is below it, an int32_t below its half
  UserStart,           \* USER_VMEM_START
  ProgStart,           \* USER_PROG_START
  UserEnd,             \* USER_VMEM_END
  MagicSize,           \* sizeof(magic)
  Images,              \* the modules the boot loader may hand over
  FileNames,           \* what a program may ask for
  Buffers, Sizes,      \* the buffers and lengths it may pass
  NUL, Null

ASSUME WidthAssumption ==
  /\ FS_BLOCK_SIZE \in Nat /\ FS_BLOCK_SIZE >= 1
  /\ FS_MAX_DBLKS \in Nat /\ FS_MAX_FNAME_LEN \in Nat
  /\ Word \in Nat /\ FS_BLOCK_SIZE < Word
  /\ UserStart \in Nat /\ ProgStart \in Nat /\ UserEnd \in Nat
  /\ UserStart =< ProgStart /\ ProgStart < UserEnd /\ UserEnd < Word
  /\ MagicSize \in Nat

Uint == 0 .. Word - 1

(* An image: the boot block's counts and directory entries, the inodes,    *)
(* and how many blocks the module has.  A data block's contents are named, *)
(* not stored: byte k of block b is <<b, k>>.                              *)
Inode == [file_length : Uint, data_blks : [0 .. FS_MAX_DBLKS - 1 -> Uint]]

ASSUME ImageAssumption ==
  \A im \in Images :
    /\ im.num_inode \in Uint /\ im.num_data_blk \in Uint
    /\ im.num_blocks \in Uint /\ im.num_dentries \in Uint
    /\ im.inodes \in [0 .. im.num_inode - 1 -> Inode]
    /\ \A d \in 0 .. im.num_dentries - 1 : im.dentries[d].inode \in Uint

ASSUME CallAssumption ==
  /\ Buffers \subseteq Uint
  /\ \A n \in Sizes : n \in Nat /\ 2 * n < Word

(* A C string, without its terminator.                                     *)
IsCString(s) == Len(s) \in Nat /\ \A k \in 1 .. Len(s) : s[k] # NUL

ASSUME NameAssumption ==
  /\ Null \notin Nat
  /\ Null \notin [inode : Uint, pos : Uint, buf : Uint, length : Uint]
  /\ \A s \in FileNames : IsCString(s)

VARIABLES
  image,               \* what fs_boot_blk and its neighbours point to
  fname, found,        \* the last search of the directory and its entry
  (* the descriptor *)
  kind,                \* its driver, "none" if it is not present
  inode, file_pos,
  (* read_data *)
  pc,                  \* on whose behalf it runs
  call,                \* its arguments
  offset, i,           \* its locals
  copied,              \* what it has put in the buffer
  ret,                 \* what the last read returned
  delivered            \* what the reads of the descriptor returned so far

fdVars == <<kind, inode, file_pos, delivered>>
loopVars == <<call, offset, i, copied>>
vars == <<image, fname, found, fdVars, pc, loopVars, ret>>

Caller == {"file_read", "proc_entry"}
Place == {"user", "panic"} \cup Caller

----------------------------------------------------------------------------
(* Unsigned arithmetic.                                                    *)
Add(a, b) == (a + b) % Word
Sub(a, b) == (a - b) % Word
Least(a, b) == IF a =< b THEN a ELSE b

(* TRUE for the code's 0.                                                  *)
check_user_bounds(buf, len) ==
  buf >= UserStart /\ buf =< UserEnd /\ len =< Sub(UserEnd, buf)

(* fs_init: the counts of the boot block fit the module.                   *)
fs_init(im) == im.num_blocks >= Add(Add(1, im.num_inode), im.num_data_blk)

(* Byte j of a C string that is kept without its terminator.               *)
At(s, j) == IF j < Len(s) THEN s[j + 1] ELSE NUL

(* Mutant of SameName: a name that goes on after a full entry matches it.  *)
SamePrefix(s, entry) ==
  \/ \E j \in 0 .. FS_MAX_FNAME_LEN - 1 :
       At(s, j) = NUL /\ \A k \in 0 .. j : At(s, k) = entry[k]
  \/ \A k \in 0 .. FS_MAX_FNAME_LEN - 1 : At(s, k) = entry[k]

(* The comparison in read_dentry_by_name of a string with the padded name  *)
(* of an entry: equal up to a NUL in both, or over the full name with the  *)
(* string's NUL after it.                                                  *)
SameName(s, entry) ==
  \/ \E j \in 0 .. FS_MAX_FNAME_LEN - 1 :
       At(s, j) = NUL /\ \A k \in 0 .. j : At(s, k) = entry[k]
  \/ /\ \A k \in 0 .. FS_MAX_FNAME_LEN - 1 : At(s, k) = entry[k]
     /\ At(s, FS_MAX_FNAME_LEN) = NUL

(* The entry that read_dentry_by_name copies, Null if there is none.       *)
Entries == 0 .. image.num_dentries - 1
read_dentry_by_name(s) ==
  LET same == {d \in Entries : SameName(s, image.dentries[d].filename)}
  IN  IF same = {} THEN Null ELSE CHOOSE d \in same : \A e \in same : d =< e

Search(s) ==
  /\ fname' = s
  /\ found' = read_dentry_by_name(s)

----------------------------------------------------------------------------
Init ==
  /\ image \in {im \in Images : fs_init(im)}
  /\ fname = <<>> /\ found = Null
  /\ kind = "none" /\ inode = 0 /\ file_pos = 0 /\ delivered = <<>>
  /\ pc = "user"
  /\ call = Null /\ offset = 0 /\ i = 0 /\ copied = <<>> /\ ret = 0

(* What file_open opens.                                                   *)
Opens(dentry) ==
  \/ dentry.type = "file"
  \/ dentry.type \in {"rtc", "directory"} /\ dentry.inode = 0

(* file_open, with the opens of the drivers; the RTC's reads are not this  *)
(* module's.                                                               *)
Open(s) ==
  /\ pc = "user" /\ kind = "none"
  /\ Len(s) =< FS_MAX_FNAME_LEN       \* check_user_str_bounds
  /\ Search(s)
  /\ found' # Null
  /\ LET dentry == image.dentries[found']
     IN  Opens(dentry) /\ kind' = dentry.type /\ inode' = dentry.inode
  /\ file_pos' = 0 /\ delivered' = <<>>
  /\ UNCHANGED <<image, pc, loopVars, ret>>

(* The search finds nothing, or an entry that cannot be opened.            *)
OpenFails(s) ==
  /\ pc = "user" /\ kind = "none"
  /\ Len(s) =< FS_MAX_FNAME_LEN
  /\ Search(s)
  /\ found' # Null => ~Opens(image.dentries[found'])
  /\ UNCHANGED <<image, fdVars, pc, loopVars, ret>>

Close ==
  /\ pc = "user" /\ kind # "none"
  /\ kind' = "none"
  /\ UNCHANGED <<image, fname, found, inode, file_pos, delivered, pc,
                 loopVars, ret>>

(* read_data up to its loop, for an inode the image has.                   *)
StartRead(caller, ino, pos, buf, length) ==
  /\ pc' = caller
  /\ call' = [inode |-> ino, pos |-> pos, buf |-> buf, length |-> length]
  /\ offset' = pos /\ i' = 0 /\ copied' = <<>>

(* syscall_read and file_read.                                             *)
Read(buf, nbytes) ==
  /\ pc = "user" /\ kind = "file"
  /\ check_user_bounds(buf, nbytes) /\ inode < image.num_inode
  /\ StartRead("file_read", inode, file_pos, buf, nbytes)
  /\ UNCHANGED <<image, fname, found, fdVars, ret>>

(* A buffer outside the user page, or a file without an inode.             *)
ReadRefused(buf, nbytes) ==
  /\ pc = "user" /\ kind \in {"file", "directory"}
  /\ \/ ~check_user_bounds(buf, nbytes)
     \/ kind = "file" /\ inode >= image.num_inode
  /\ ret' = -1 /\ call' = Null
  /\ UNCHANGED <<image, fname, found, fdVars, pc, offset, i, copied>>

(* directory_read: the next name, or as much of it as is asked for.        *)
directory_read(buf, nbytes) ==
  /\ pc = "user" /\ kind = "directory"
  /\ check_user_bounds(buf, nbytes)
  /\ IF file_pos < image.num_dentries
       THEN /\ file_pos' = Add(file_pos, 1)
            /\ ret' = Least(nbytes, FS_MAX_FNAME_LEN)
            /\ delivered' = Append(delivered, file_pos)
       ELSE ret' = 0 /\ UNCHANGED <<file_pos, delivered>>
  /\ call' = Null
  /\ UNCHANGED <<image, fname, found, kind, inode, pc, offset, i, copied>>

----------------------------------------------------------------------------
File == image.inodes[call.inode]
More == i < call.length /\ offset < File.file_length

(* The block a position of a file is in: the inode and the image have it.  *)
HasBlock(f, pos) ==
  LET blk_idx == pos \div FS_BLOCK_SIZE
  IN  blk_idx < FS_MAX_DBLKS /\ f.data_blks[blk_idx] < image.num_data_blk

FileByte(f, pos) ==
  <<f.data_blks[pos \div FS_BLOCK_SIZE], pos % FS_BLOCK_SIZE>>

(* Mutant of Count: the end of the file is not looked at.                  *)
CountPastEnd ==
  Least(Sub(call.length, i),
        Sub(FS_BLOCK_SIZE, offset % FS_BLOCK_SIZE))

(* Mutant of Count: a block ends one byte early.                           *)
CountShort ==
  Least(Least(Sub(call.length, i),
              Sub(FS_BLOCK_SIZE - 1, offset % FS_BLOCK_SIZE)),
        Sub(File.file_length, offset))

(* How many bytes one iteration copies.                                    *)
Count ==
  Least(Least(Sub(call.length, i),
              Sub(FS_BLOCK_SIZE, offset % FS_BLOCK_SIZE)),
        Sub(File.file_length, offset))

(* An iteration of the loop: memcpy from the block that offset is in.      *)
CopyBlock ==
  /\ pc \in Caller /\ More /\ HasBlock(File, offset)
  /\ copied' = copied \o
       [k \in 1 .. Count |-> <<File.data_blks[offset \div FS_BLOCK_SIZE],
                               (offset % FS_BLOCK_SIZE) + k - 1>>]
  /\ i' = Add(i, Count)
  /\ offset' = Add(offset, Count)
  /\ UNCHANGED <<image, fname, found, fdVars, pc, call, ret>>

(* The inode or the image does not have the block: file_read leaves the    *)
(* position as it was, proc_entry panics.                                  *)
BlockMissing ==
  /\ pc \in Caller /\ More /\ ~HasBlock(File, offset)
  /\ ret' = -1
  /\ pc' = IF pc = "file_read" THEN "user" ELSE "panic"
  /\ UNCHANGED <<image, fname, found, fdVars, loopVars>>

(* Mutant of AfterRead: the position moves by what was asked for.          *)
AfterReadAsked(n) ==
  /\ file_pos' = IF n > 0 THEN Add(file_pos, call.length) ELSE file_pos
  /\ delivered' = delivered \o copied

(* file_read after a read_data that returned n.                            *)
AfterRead(n) ==
  /\ file_pos' = IF n > 0 THEN Add(file_pos, n) ELSE file_pos
  /\ delivered' = delivered \o copied

ReadReturns ==
  /\ pc = "file_read" /\ ~More
  /\ ret' = i
  /\ AfterRead(i)
  /\ pc' = "user"
  /\ UNCHANGED <<image, fname, found, kind, inode, loopVars>>

(* Mutant of Executable: the size is compared with the whole page.         *)
ExecutableInPage(dentry) ==
  /\ dentry.type = "file" /\ dentry.inode < image.num_inode
  /\ LET f == image.inodes[dentry.inode]
     IN  /\ MagicSize =< f.file_length
         /\ \A pos \in 0 .. MagicSize - 1 : HasBlock(f, pos)
         /\ f.file_length =< Sub(UserEnd, UserStart)

(* The tests of alloc_process on the program's file.  Whether the first    *)
(* bytes are the magic number is left open; there must be that many.       *)
Executable(dentry) ==
  /\ dentry.type = "file" /\ dentry.inode < image.num_inode
  /\ LET f == image.inodes[dentry.inode]
     IN  /\ MagicSize =< f.file_length
         /\ \A pos \in 0 .. MagicSize - 1 : HasBlock(f, pos)
         /\ f.file_length =< Sub(UserEnd, ProgStart)

(* syscall_execute: alloc_process, then proc_entry reads the program.      *)
Execute(s) ==
  /\ pc = "user"
  /\ Search(s)
  /\ found' # Null /\ Executable(image.dentries[found'])
  /\ StartRead("proc_entry", image.dentries[found'].inode, 0, ProgStart,
               Sub(UserEnd, UserStart))
  /\ UNCHANGED <<image, fdVars, ret>>

(* The program has been loaded; its descriptors are new.                   *)
Loaded ==
  /\ pc = "proc_entry" /\ ~More
  /\ ret' = i
  /\ pc' = "user"
  /\ kind' = "none" /\ delivered' = <<>>
  /\ UNCHANGED <<image, fname, found, inode, file_pos, loopVars>>

ReadStep == CopyBlock \/ BlockMissing \/ ReadReturns \/ Loaded

Next ==
  \/ ReadStep \/ Close
  \/ \E s \in FileNames : Open(s) \/ OpenFails(s) \/ Execute(s)
  \/ \E buf \in Buffers, n \in Sizes :
       Read(buf, n) \/ ReadRefused(buf, n) \/ directory_read(buf, n)

Spec == Init /\ [][Next]_vars

(* The scheduler runs the process again and again (Process), and nothing   *)
(* in the loop waits.                                                      *)
FairSpec == Spec /\ WF_vars(ReadStep)

----------------------------------------------------------------------------
TypeOK ==
  /\ image \in Images
  /\ found \in Entries \cup {Null}
  /\ kind \in {"none", "file", "directory", "rtc"}
  /\ inode \in Uint /\ file_pos \in Uint
  /\ pc \in Place
  /\ offset \in Uint /\ i \in Uint
  /\ ret \in -1 .. Word - 1

BytesOf(f, from, n) == [k \in 1 .. n |-> FileByte(f, from + k - 1)]

(* The name of an entry: what stands before its first NUL.                 *)
Named(entry, s) ==
  /\ Len(s) =< FS_MAX_FNAME_LEN
  /\ \A k \in 0 .. FS_MAX_FNAME_LEN - 1 :
       IF k < Len(s) THEN entry[k] = s[k + 1]
       ELSE k = Len(s) => entry[k] = NUL

(* A search finds the first entry that has the very name, also one that    *)
(* fills the entry and has no NUL, and nothing if there is none; a longer  *)
(* name is not taken for its beginning.                                    *)
FindsByName ==
  fname # <<>> =>
    IF found = Null
    THEN \A d \in Entries : ~Named(image.dentries[d].filename, fname)
    ELSE /\ Named(image.dentries[found].filename, fname)
         /\ \A d \in 0 .. found - 1 :
              ~Named(image.dentries[d].filename, fname)

(* The positions a read asks for and the file has.                         *)
Wanted(c) ==
  {p \in c.pos .. c.pos + c.length - 1 : p < image.inodes[c.inode].file_length}

(* A read returns as many bytes as were asked for and the file still has,  *)
(* and those; it fails exactly if one of them is in a block that does not  *)
(* exist.                                                                  *)
ReadsAsAsked ==
  pc = "user" /\ call # Null =>
    LET f == image.inodes[call.inode]
    IN  IF \A p \in Wanted(call) : HasBlock(f, p)
        THEN /\ ret = Cardinality(Wanted(call))
             /\ copied = BytesOf(f, call.pos, ret)
        ELSE ret = -1

(* The reads of a descriptor return the bytes of the file one after the    *)
(* other: none is skipped or given twice, whatever lengths are asked for,  *)
(* also when a read in between fails after having filled part of a buffer. *)
ReadsInSequence ==
  kind = "file" /\ inode < image.num_inode =>
    delivered = BytesOf(image.inodes[inode], 0, file_pos)

(* What read_data stores lies in the user page: the bytes a program reads, *)
(* and those of a program that is loaded, whose length proc_entry does not *)
(* pass on.                                                                *)
StaysInUserPage ==
  pc \in Caller /\ copied # <<>> =>
    call.buf >= UserStart /\ call.buf + Len(copied) =< UserEnd

(* The loop of read_data ends: every iteration copies something.           *)
ReadDataEnds == pc \in Caller ~> pc \notin Caller
=============================================================================

----------------------------- MODULE MCFileSystem -----------------------------
(* Blocks of two bytes, inodes of three blocks, images of three data blocks: *)
(* every length of a file up to one more than its inode can hold, and the   *)
(* largest, with blocks that exist, one that is named twice and one that    *)
(* does not exist.  Numbers are below 16, the user page is 4 .. 12, programs start at  *)
(* 9.  Names have at most two letters; the directory has a full name, a     *)
(* short one, one twice, a file without an inode, two directories, one of   *)
(* them with a bad inode, and an entry of no known type.                    *)
EXTENDS UserPrograms

CONSTANTS a, b

Padded(s) == [k \in 0 .. FS_MAX_FNAME_LEN - 1 |-> At(s, k)]
Dentry(s, type, ino) == [filename |-> Padded(s), type |-> type, inode |-> ino]

Directory ==
  <<Dentry(<<a>>, "file", 0), Dentry(<<a, b>>, "file", 0),
    Dentry(<<b>>, "directory", 0), Dentry(<<a>>, "file", 1),
    Dentry(<<b, b>>, "directory", 1), Dentry(<<b, a>>, "file", 1),
    Dentry(<<a, a>>, "other", 0)>>

(* The directory that the programs find.                                    *)
ProgDirectory ==
  <<Dentry(<<Dot>>, "directory", 0), Dentry(<<a>>, "file", 0),
    Dentry(<<b>>, "rtc", 0), Dentry(<<a, b>>, "file", 0)>>

(* The directory that syserr finds.                                         *)
SysDirectory == <<Dentry(<<Dot>>, "directory", 0), Dentry(<<a, b>>, "file", 0)>>

Image(dir, inode0) ==
  [num_inode |-> 1, num_data_blk |-> 3, num_blocks |-> 5,
   num_dentries |-> Len(dir), dentries |-> [d \in 0 .. Len(dir) - 1 |-> dir[d + 1]],
   inodes |-> [n \in {0} |-> inode0]]

Lengths == 0 .. FS_BLOCK_SIZE * FS_MAX_DBLKS
Inodes == [file_length : Lengths \cup {FS_BLOCK_SIZE * FS_MAX_DBLKS + 1, Word - 1},
           data_blks : {[k \in 0 .. 2 |-> b3[k + 1]] :
                          b3 \in {<<0, 1, 2>>, <<0, 3, 1>>, <<1, 1, 0>>, <<3, 0, 1>>}}]
InOrder(len) == [file_length |-> len, data_blks |-> [k \in 0 .. 2 |-> k]]

MCImages ==
  {Image(dir, f) : dir \in {Directory, ProgDirectory, SysDirectory}, f \in Inodes}

MCNames == UNION {[1 .. n -> {a, b}] : n \in 1 .. FS_MAX_FNAME_LEN + 1}

Bytes == (0 .. 2) \X (0 .. FS_BLOCK_SIZE - 1)
ByteNames == [x \in Bytes |-> x]

(* The texts of a length; what lies after the end of the file is NUL.       *)
TextsOf(len) ==
  {[x \in Bytes |-> IF x[1] * FS_BLOCK_SIZE + x[2] < len
                    THEN t[x[1] * FS_BLOCK_SIZE + x[2]] ELSE NUL] :
     t \in [0 .. len - 1 -> {a, NL, NUL}]}

Setup(p, ar, im, co) == [prog |-> p, args |-> ar, image |-> im, contents |-> co]

MCSetups ==
  {Setup("any", <<>>, Image(Directory, f), ByteNames) : f \in Inodes}
  \cup {Setup("ls", <<>>, Image(dir, InOrder(0)), ByteNames) :
          dir \in {Directory, ProgDirectory}}
  \cup {Setup("cat", ar, Image(dir, f), ByteNames) :
          ar \in MCNames \cup {<<>>, <<Dot>>},
          dir \in {Directory, ProgDirectory}, f \in Inodes}
  \cup UNION {{Setup("grep", ar, Image(ProgDirectory, InOrder(len)), t) :
                 ar \in {<<>>, <<a>>, <<a, a>>}, t \in TextsOf(len)} : len \in Lengths}
  \cup {Setup("shell", <<>>, Image(ProgDirectory, InOrder(len)), ByteNames) :
          len \in {0, 3, 4}}
  \cup {Setup("syserr", <<>>, Image(SysDirectory, InOrder(len)), ByteNames) :
          len \in Lengths}

MCHelloo == <<a, b, a>>
MCShel == <<a>>

MCLines ==
  {Append(s, NL) : s \in UNION {[1 .. n -> {a, " "}] : n \in 0 .. 5}}
  \cup {<<a, NUL, a, NL>>, <<NUL, a, NL>>, <<a, " ", NUL>>, <<a, b, " ", b>>,
        <<b, NL>>, <<b, b, " ", NL>>, <<b, b, NL>>}

MCExitWord == <<b, b>>

MCEnds ==
  {[how |-> "halt", with |-> n] : n \in {-256, -1, 0, 1, 255, 256}}
  \cup {[how |-> "exception", with |-> 0], [how |-> "ctrl_c", with |-> 0]}
=============================================================================
